------------------------------ MODULE MCTenants ------------------------------
(* Tenants on a small instance. *)
EXTENDS Tenants, TLC

Symmetry ==
    Permutations(Account) \union Permutations(Password) \union Permutations(Visit)
        \union Permutations(Handler) \union Permutations(Link) \union Permutations(App)

NoLink == link = [l \in Link |-> Nothing]
NoApp == owner = [x \in App |-> Nothing] /\ mailed = {} /\ \A a \in Account : ~wallet[a].row
NoGroup == group = [g \in Group |-> NoRow]
NoTemplate == template = [m \in Template |-> NoRow]
NoLogin ==
    /\ \A v \in Visit : issued[v] = 0
    /\ \A h \in Handler : at[h].doing \in {"nothing", "register"}

\* Sign-ins and resets overlap, without apps; or apps are opened and claimed by
\* accounts that have just registered; or the apps of one account have groups or
\* templates.
OneSide ==
    \/ NoApp /\ NoGroup /\ NoTemplate
    \/ NoLink /\ NoLogin /\ NoGroup /\ NoTemplate
    \/ /\ NoLink /\ NoLogin /\ ~mail /\ mailed = {} /\ (NoGroup \/ NoTemplate)
       /\ Cardinality({a \in Account : password[a] # Nothing}) <= 1
       /\ \A h \in Handler : at[h] = Idle
=============================================================================
