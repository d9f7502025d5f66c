---------------------------- MODULE TenantsProofs ----------------------------
(***************************************************************************)
(* Proofs about Tenants for every set of accounts, passwords, visits,      *)
(* handlers, links and apps, and for groups and templates of any number.   *)
(***************************************************************************)
EXTENDS Tenants, FiniteSetTheorems, TLAPS

USE DEF Waits, Ends

\* Marking the sign-ins that a closing overtakes keeps the types.
LEMMA OvertakenType ==
    ASSUME AccountsTypeOK, NEW a
    PROVE  Overtaken(a) \in [Handler -> {Idle} \union Registering \union SigningIn \union Resetting]
<1> SUFFICES ASSUME NEW h \in Handler
             PROVE  Overtaken(a)[h] \in {Idle} \union Registering \union SigningIn \union Resetting
  BY DEF Overtaken
<1>1. at[h] \in {Idle} \union Registering \union SigningIn \union Resetting
  BY DEF AccountsTypeOK
<1>2. at[h].doing = "login" => at[h] \in SigningIn
  BY <1>1 DEF Idle, Registering, SigningIn, Resetting
<1>3. \A t \in SigningIn : [t EXCEPT !.late = TRUE] \in SigningIn
  BY DEF SigningIn
<1> QED
  BY <1>1, <1>2, <1>3 DEF Overtaken

\* The link of a reset that waits was mailed.
Asked == \A h \in Handler : at[h].doing = "reset" => link[at[h].link] # Nothing

\* Type correctness of the accounts.
LEMMA AccountsType ==
    ASSUME AccountsTypeOK, Asked, [AccountsNext]_accountsVars
    PROVE  AccountsTypeOK'
<1> USE DEF AccountsTypeOK
<1>1. ASSUME NEW h \in Handler, SignInStep(h) PROVE AccountsTypeOK'
  <2> USE DEF visitVars, mailVars, appVars, userVars
  <2>1. ASSUME NEW a \in Account, NEW p \in Password, RegisterBegins(h, a, p) PROVE AccountsTypeOK'
    BY <2>1 DEF RegisterBegins, Registering
  <2>2. ASSUME NEW a \in Account, NEW p \in Password, LoginBegins(h, a, p) PROVE AccountsTypeOK'
    BY <2>2 DEF LoginBegins, SigningIn
  <2>3. ASSUME NEW v \in Visit, Registered(h, v) PROVE AccountsTypeOK'
    BY <2>3, AccountsAssumption DEF Registered, Opens, Idle, Registering, SigningIn, Resetting
  <2>4. ASSUME NEW v \in Visit, LoggedIn(h, v) PROVE AccountsTypeOK'
    BY <2>4, AccountsAssumption DEF LoggedIn, Opens, Idle, Registering, SigningIn, Resetting
  <2>5. CASE RegisterClashes(h) \/ LoginRefused(h)
    BY <2>5 DEF RegisterClashes, LoginRefused
  <2>6. ASSUME NEW l \in Link, NEW p \in Password, ResetBegins(h, l, p) PROVE AccountsTypeOK'
    <3>1. link[l] # Nothing /\ link[l] \in [user : Account, open : BOOLEAN]
      BY <2>6 DEF ResetBegins
    <3> QED
      BY <2>6, <3>1 DEF ResetBegins, Resetting
  <2>7. CASE Reset(h)
    <3>1. at[h] \in Resetting
      BY <2>7 DEF Reset, Idle, Registering, SigningIn, Resetting
    <3>2. at' \in [Handler -> {Idle} \union Registering \union SigningIn \union Resetting]
      BY <2>7, OvertakenType DEF Reset
    <3>3. link' \in [Link -> [user : Account, open : BOOLEAN] \union {Nothing}]
      <4>1. at[h].link \in Link /\ link[at[h].link] \in [user : Account, open : BOOLEAN]
        BY <2>7, <3>1, Asked DEF Reset, Resetting, Asked
      <4> QED
        BY <2>7, <4>1 DEF Reset
    <3> QED
      BY <2>7, <3>1, <3>2, <3>3 DEF Reset, Resetting, Closes
  <2> QED
    BY <1>1, <2>1, <2>2, <2>3, <2>4, <2>5, <2>6, <2>7 DEF SignInStep
<1>2. ASSUME NEW v \in Visit, VisitStep(v) PROVE AccountsTypeOK'
  <2> USE DEF visitVars, mailVars, appVars, userVars
  <2>1. ASSUME NEW g \in 1..Rotations, Refresh(v, g) PROVE AccountsTypeOK'
    BY <2>1, AccountsAssumption DEF Refresh
  <2>2. ASSUME NEW g \in 1..Rotations, TokenEnds(v, g) PROVE AccountsTypeOK'
    BY <2>2 DEF TokenEnds
  <2>3. CASE SessionEnds(v)
    BY <2>3 DEF SessionEnds
  <2>4. ASSUME NEW a \in Account, Resend(v, a) PROVE AccountsTypeOK'
    BY <2>4 DEF Resend
  <2>5. ASSUME NEW a \in Account, NEW x \in App, Provision(v, a, x) PROVE AccountsTypeOK'
    BY <2>5 DEF Provision, Trial
  <2>6. ASSUME NEW a \in Account, NEW x \in App, LinkApp(v, a, x) \/ DisableCompany(v, a, x)
        PROVE  AccountsTypeOK'
    BY <2>6 DEF LinkApp, DisableCompany
  <2> QED
    BY <1>2, <2>1, <2>2, <2>3, <2>4, <2>5, <2>6 DEF VisitStep
<1>3. ASSUME NEW a \in Account, AccountStep(a) PROVE AccountsTypeOK'
  <2> USE DEF visitVars, mailVars, appVars, userVars
  <2>1. ASSUME NEW l \in Link, Forgot(a, l) PROVE AccountsTypeOK'
    <3>1. \A k \in Link : link'[k] \in [user : Account, open : BOOLEAN] \union {Nothing}
      <4> TAKE k \in Link
      <4>1. link[k] # Nothing => link[k] \in [user : Account, open : BOOLEAN]
        OBVIOUS
      <4>2. link'[k] = IF k = l THEN [user |-> a, open |-> TRUE]
                       ELSE IF link[k] # Nothing /\ link[k].user = a THEN [link[k] EXCEPT !.open = FALSE]
                       ELSE link[k]
        BY <2>1 DEF Forgot
      <4>3. link[k] # Nothing => [link[k] EXCEPT !.open = FALSE] \in [user : Account, open : BOOLEAN]
        BY <4>1
      <4>4. [user |-> a, open |-> TRUE] \in [user : Account, open : BOOLEAN]
        OBVIOUS
      <4> HIDE DEF AccountsTypeOK
      <4>5. link[k] \in [user : Account, open : BOOLEAN] \union {Nothing}
        BY DEF AccountsTypeOK
      <4> QED
        BY <4>2, <4>3, <4>4, <4>5
    <3>2. link' \in [Link -> [user : Account, open : BOOLEAN] \union {Nothing}]
      BY <2>1, <3>1 DEF Forgot
    <3> QED
      BY <2>1, <3>2 DEF Forgot
  <2>2. CASE VerifyEmail(a) \/ VerifyExpires(a) \/ Lift(a) \/ Buy(a)
    BY <2>2 DEF VerifyEmail, VerifyExpires, Lift, Buy
  <2>3. CASE Withhold(a)
    BY <2>3, OvertakenType DEF Withhold, Closes
  <2> QED
    BY <1>3, <2>1, <2>2, <2>3 DEF AccountStep
<1>4. ASSUME NEW l \in Link, LinkExpires(l) PROVE AccountsTypeOK'
  BY <1>4 DEF LinkExpires, visitVars, appVars, userVars
<1>5. CASE OperatorStep
  BY <1>5 DEF OperatorStep, ConfigureMail, OperatorRegisters, RevokeApp, UnrevokeApp,
              visitVars, mailVars, appVars, userVars
<1>6. CASE UNCHANGED accountsVars
  BY <1>6 DEF accountsVars, visitVars, mailVars, appVars, userVars
<1> QED
  BY <1>1, <1>2, <1>3, <1>4, <1>5, <1>6 DEF AccountsNext

LEMMA AskedStays ==
    ASSUME AccountsTypeOK, Asked, [AccountsNext]_accountsVars
    PROVE  Asked'
<1> USE DEF AccountsTypeOK, visitVars, mailVars, appVars, userVars
<1>1. ASSUME NEW h \in Handler, SignInStep(h) PROVE Asked'
  <2>1. ASSUME NEW a \in Account, NEW p \in Password,
               RegisterBegins(h, a, p) \/ LoginBegins(h, a, p)
        PROVE  Asked'
    <3>1. at'[h].doing # "reset" /\ \A i \in Handler \ {h} : at'[i] = at[i]
      BY <2>1 DEF RegisterBegins, LoginBegins
    <3>2. link' = link
      BY <2>1 DEF RegisterBegins, LoginBegins
    <3> QED
      BY <3>1, <3>2 DEF Asked
  <2>2. ASSUME NEW v \in Visit, Registered(h, v) \/ LoggedIn(h, v) PROVE Asked'
    <3>1. at'[h].doing # "reset" /\ \A i \in Handler \ {h} : at'[i] = at[i]
      <4>1. at' = [at EXCEPT ![h] = Idle]
        BY <2>2 DEF Registered, LoggedIn
      <4> QED
        BY <4>1 DEF Idle
    <3>2. link' = link
      BY <2>2 DEF Registered, LoggedIn
    <3> QED
      BY <3>1, <3>2 DEF Asked
  <2>3. CASE RegisterClashes(h) \/ LoginRefused(h)
    BY <2>3 DEF RegisterClashes, LoginRefused, Asked, Idle
  <2>4. ASSUME NEW l \in Link, NEW p \in Password, ResetBegins(h, l, p) PROVE Asked'
    BY <2>4 DEF ResetBegins, Asked
  <2>5. CASE Reset(h)
    <3> SUFFICES ASSUME NEW i \in Handler, at'[i].doing = "reset"
                 PROVE  link'[at'[i].link] # Nothing
      BY DEF Asked
    <3>1. i # h /\ at'[i] = Overtaken(at[h].user)[i]
      BY <2>5 DEF Reset, Idle, Overtaken
    <3>2. at'[i] = at[i] /\ at[i].doing = "reset"
      <4>1. at[i].doing = "login" => at[i] \in SigningIn
        BY DEF Idle, Registering, SigningIn, Resetting
      <4>2. at[i].doing = "login" => [at[i] EXCEPT !.late = TRUE].doing = "login"
        BY <4>1 DEF SigningIn
      <4> QED
        BY <3>1, <4>2 DEF Overtaken
    <3>3. at[h] \in Resetting /\ at[i] \in Resetting
      BY <2>5, <3>2 DEF Reset, Idle, Registering, SigningIn, Resetting
    <3>4. \A k \in Link : link[k] # Nothing => link'[k] # Nothing
      <4> TAKE k \in Link
      <4>1. link[at[h].link] \in [user : Account, open : BOOLEAN]
        BY <2>5, <3>3 DEF Asked, Reset, Resetting
      <4> QED
        BY <2>5, <4>1, AccountsAssumption DEF Reset
    <3> QED
      BY <3>2, <3>3, <3>4 DEF Asked, Resetting
  <2> QED
    BY <1>1, <2>1, <2>2, <2>3, <2>4, <2>5 DEF SignInStep
<1>2. ASSUME at' = at, \A k \in Link : link[k] # Nothing => link'[k] # Nothing PROVE Asked'
  BY <1>2 DEF Asked, Idle, Registering, SigningIn, Resetting
<1>3. ASSUME NEW v \in Visit, VisitStep(v) PROVE Asked'
  BY <1>2, <1>3 DEF VisitStep, Refresh, TokenEnds, SessionEnds, Resend, Provision, LinkApp, DisableCompany
<1>4. ASSUME NEW a \in Account, AccountStep(a) PROVE Asked'
  <2>1. ASSUME NEW l \in Link, Forgot(a, l) PROVE Asked'
    <3>1. \A k \in Link : link[k] # Nothing => link'[k] # Nothing
      BY <2>1, AccountsAssumption DEF Forgot
    <3> QED
      BY <1>2, <2>1, <3>1 DEF Forgot
  <2>2. CASE VerifyEmail(a) \/ VerifyExpires(a) \/ Lift(a) \/ Buy(a)
    BY <1>2, <2>2 DEF VerifyEmail, VerifyExpires, Lift, Buy
  <2>3. CASE Withhold(a)
    BY <2>3 DEF Withhold, Overtaken, Asked, Idle, Registering, SigningIn, Resetting
  <2> QED
    BY <1>4, <2>1, <2>2, <2>3 DEF AccountStep
<1>5. ASSUME NEW l \in Link, LinkExpires(l) PROVE Asked'
  BY <1>2, <1>5, AccountsAssumption DEF LinkExpires
<1>6. CASE OperatorStep
  BY <1>2, <1>6 DEF OperatorStep, ConfigureMail, OperatorRegisters, RevokeApp, UnrevokeApp
<1>7. CASE UNCHANGED accountsVars
  BY <1>2, <1>7 DEF accountsVars
<1> QED
  BY <1>1, <1>3, <1>4, <1>5, <1>6, <1>7 DEF AccountsNext

-----------------------------------------------------------------------------
(* Which visits are current.  A sign-in that waits and was not overtaken still *)
(* has what it read: that is what makes the visit it opens a current one.      *)

\* A sign-in that waits and is not late would be accepted by the row of now.
Expected(t) == t.doing = "login" /\ ~t.late /\ t.typed = t.hash /\ ~t.held
SignInsAreCurrent ==
    \A h \in Handler : Expected(at[h]) =>
        at[h].typed = password[at[h].user] /\ at[h].user \notin withheld

\* A visit with a session or a token has begun.
VisitsBegan == \A v \in Visit : v \in cookie \/ live[v] # {} => visit[v] # Nothing

\* Who is withheld has an account.
WithheldExist == \A a \in withheld : password[a] # Nothing

VisitsInv ==
    AccountsTypeOK /\ Asked /\ WithheldExist /\ SignInsAreCurrent /\ VisitsBegan /\ VisitsAreCurrent

\* Closing an account's visits leaves the others as they are.
LEMMA ClosesOwn ==
    ASSUME AccountsTypeOK, VisitsBegan, VisitsAreCurrent, NEW a \in Account, Closes(a),
           \A b \in Account \ {a} : password'[b] = password[b] /\ (b \in withheld' => b \in withheld)
    PROVE  VisitsBegan' /\ VisitsAreCurrent'
<1> SUFFICES ASSUME NEW v \in Visit, v \in cookie' \/ live'[v] # {}
             PROVE  /\ visit'[v] # Nothing
                    /\ \/ visit'[v].late
                       \/ visit'[v].with = password'[visit'[v].user] /\ visit'[v].user \notin withheld'
  BY DEF VisitsBegan, VisitsAreCurrent
<1>1. v \notin VisitsOf(a) /\ visit'[v] = visit[v] /\ (v \in cookie \/ live[v] # {})
  BY DEF Closes, AccountsTypeOK
<1>2. visit[v] # Nothing
  BY <1>1 DEF VisitsBegan
<1>3. visit[v].user \in Account \ {a}
  BY <1>1, <1>2 DEF VisitsOf, AccountsTypeOK
<1> QED
  BY <1>1, <1>2, <1>3 DEF VisitsAreCurrent

\* A visit that begins with the account's password is one more current visit.
LEMMA OpensCurrent ==
    ASSUME AccountsTypeOK, VisitsBegan, VisitsAreCurrent,
           NEW v \in Visit, NEW a \in Account, NEW p \in Password, NEW late \in BOOLEAN,
           NEW tokens \in Nat, Opens(v, a, p, late, tokens),
           late \/ (p = password'[a] /\ a \notin withheld'),
           \A b \in Account : password[b] # Nothing => password'[b] = password[b],
           withheld' = withheld
    PROVE  VisitsBegan' /\ VisitsAreCurrent'
<1> SUFFICES ASSUME NEW w \in Visit, w \in cookie' \/ live'[w] # {}
             PROVE  /\ visit'[w] # Nothing
                    /\ \/ visit'[w].late
                       \/ visit'[w].with = password'[visit'[w].user] /\ visit'[w].user \notin withheld'
  BY DEF VisitsBegan, VisitsAreCurrent
<1>1. CASE w = v
  BY <1>1, AccountsAssumption DEF Opens, AccountsTypeOK
<1>2. CASE w # v
  <2>1. visit'[w] = visit[w] /\ (w \in cookie \/ live[w] # {})
    BY <1>2 DEF Opens, AccountsTypeOK
  <2>2. visit[w] # Nothing /\ visit[w] \in [user : Account, with : Password, late : BOOLEAN]
    BY <2>1 DEF VisitsBegan, AccountsTypeOK
  <2>3. ~visit[w].late => password[visit[w].user] # Nothing
    BY <2>1, <2>2, AccountsAssumption DEF VisitsAreCurrent
  <2> QED
    BY <2>1, <2>2, <2>3 DEF VisitsAreCurrent
<1> QED
  BY <1>1, <1>2

\* Requests that open no visit, and leave passwords, withholdings and handlers.
LEMMA VisitsFrame ==
    ASSUME AccountsTypeOK, SignInsAreCurrent, VisitsBegan, VisitsAreCurrent,
           at' = at, password' = password, visit' = visit,
           withheld' \subseteq withheld, cookie' \subseteq cookie,
           \A v \in Visit : live[v] = {} => live'[v] = {}
    PROVE  SignInsAreCurrent' /\ VisitsBegan' /\ VisitsAreCurrent'
<1>1. SignInsAreCurrent'
  BY DEF SignInsAreCurrent
<1>2. VisitsBegan'
  BY DEF VisitsBegan
<1>3. VisitsAreCurrent'
  BY DEF VisitsAreCurrent
<1> QED
  BY <1>1, <1>2, <1>3

\* A step of a sign-in that leaves the account's row: what waits is as current.
LEMMA SignInsFrame ==
    ASSUME SignInsAreCurrent, withheld' = withheld, NEW h \in Handler,
           \A i \in Handler \ {h} : at'[i] = at[i],
           Expected(at'[h]) => at'[h].typed = password[at'[h].user] /\ at'[h].user \notin withheld,
           password' = password
    PROVE  SignInsAreCurrent'
BY DEF SignInsAreCurrent

\* Every sign-in of an account whose visits are closed is late.
LEMMA OvertakenCurrent ==
    ASSUME AccountsTypeOK, SignInsAreCurrent, NEW a \in Account,
           \A h \in Handler : at'[h] \in {Overtaken(a)[h], Idle},
           \A b \in Account \ {a} : password'[b] = password[b] /\ (b \in withheld' => b \in withheld)
    PROVE  SignInsAreCurrent'
<1> SUFFICES ASSUME NEW h \in Handler, Expected(at'[h])
             PROVE  at'[h].typed = password'[at'[h].user] /\ at'[h].user \notin withheld'
  BY DEF SignInsAreCurrent
<1>1. at'[h] = Overtaken(a)[h]
  BY DEF Expected, Idle
<1>2. ~(at[h].doing = "login" /\ at[h].user = a)
  <2> SUFFICES ASSUME at[h].doing = "login", at[h].user = a PROVE FALSE
    OBVIOUS
  <2>1. at[h] \in SigningIn
    BY DEF AccountsTypeOK, Idle, Registering, SigningIn, Resetting
  <2>2. at'[h] = [at[h] EXCEPT !.late = TRUE]
    BY <1>1 DEF Overtaken
  <2> QED
    BY <2>1, <2>2 DEF Expected, SigningIn
<1>3. at'[h] = at[h]
  BY <1>1, <1>2 DEF Overtaken
<1>4. at[h] \in SigningIn /\ at[h].user \in Account \ {a}
  BY <1>2, <1>3 DEF Expected, AccountsTypeOK, Idle, Registering, SigningIn, Resetting
<1> QED
  BY <1>3, <1>4 DEF SignInsAreCurrent

\* What a sign-in holds of the withholding is whether there was one.
LEMMA HeldField ==
    ASSUME NEW r, NEW a, NEW p, NEW q, NEW W,
           r = [doing |-> "login", user |-> a, typed |-> p, hash |-> q, held |-> a \in W, late |-> FALSE],
           ~r.held
    PROVE  a \notin W
BY Zenon

\* A visit that is open is of the password of now, or of a sign-in that was overtaken.
LEMMA VisitsStay ==
    ASSUME VisitsInv, [AccountsNext]_accountsVars
    PROVE  SignInsAreCurrent' /\ VisitsBegan' /\ VisitsAreCurrent'
<1> USE DEF VisitsInv
<1>1. ASSUME NEW h \in Handler, SignInStep(h) PROVE SignInsAreCurrent' /\ VisitsBegan' /\ VisitsAreCurrent'
  <2> USE DEF visitVars, mailVars, appVars, userVars
  <2>1. ASSUME NEW a \in Account, NEW p \in Password,
               RegisterBegins(h, a, p) \/ LoginBegins(h, a, p)
        PROVE  SignInsAreCurrent' /\ VisitsBegan' /\ VisitsAreCurrent'
    <3>1. \A i \in Handler \ {h} : at'[i] = at[i]
      BY <2>1 DEF RegisterBegins, LoginBegins, AccountsTypeOK
    <3>2. Expected(at'[h]) => at'[h].typed = password[at'[h].user] /\ at'[h].user \notin withheld
      <4>1. CASE RegisterBegins(h, a, p)
        <5>1. at'[h] = [doing |-> "register", user |-> a, typed |-> p]
          BY <4>1 DEF RegisterBegins, AccountsTypeOK
        <5> QED
          BY <5>1 DEF Expected
      <4>2. CASE LoginBegins(h, a, p)
        <5>1. at'[h] = [doing |-> "login", user |-> a, typed |-> p, hash |-> password[a],
                        held |-> a \in withheld, late |-> FALSE]
          BY <4>2 DEF LoginBegins, AccountsTypeOK
        <5>2. at'[h].typed = p /\ at'[h].hash = password[a] /\ at'[h].user = a
          BY <5>1
        <5>3. ~at'[h].held => a \notin withheld
          BY <5>1, HeldField
        <5> QED
          BY <5>2, <5>3 DEF Expected
      <4> QED
        BY <2>1, <4>1, <4>2
    <3>3. password' = password /\ withheld' = withheld /\ visit' = visit /\ cookie' = cookie /\ live' = live
      BY <2>1 DEF RegisterBegins, LoginBegins
    <3> QED
      BY <3>1, <3>2, <3>3, SignInsFrame DEF VisitsBegan, VisitsAreCurrent
  <2>2. ASSUME NEW v \in Visit, Registered(h, v) PROVE SignInsAreCurrent' /\ VisitsBegan' /\ VisitsAreCurrent'
    <3> DEFINE a == at[h].user
    <3>1. at[h] \in Registering
      BY <2>2 DEF Registered, AccountsTypeOK, Idle, Registering, SigningIn, Resetting
    <3>2. a \in Account /\ at[h].typed \in Password
      BY <3>1 DEF Registering
    <3>3. password' = [password EXCEPT ![a] = at[h].typed] /\ password[a] = Nothing /\ withheld' = withheld
      BY <2>2 DEF Registered
    <3>4. SignInsAreCurrent'
      <4> SUFFICES ASSUME NEW i \in Handler, Expected(at'[i])
                   PROVE  at'[i].typed = password'[at'[i].user] /\ at'[i].user \notin withheld'
        BY DEF SignInsAreCurrent
      <4>1. at'[i] = at[i]
        BY <2>2 DEF Registered, AccountsTypeOK, Expected, Idle
      <4>2. at[i] \in SigningIn
        BY <4>1 DEF Expected, AccountsTypeOK, Idle, Registering, SigningIn, Resetting
      <4>3. at[i].typed = password[at[i].user] /\ at[i].user \notin withheld
        BY <4>1 DEF SignInsAreCurrent
      <4>4. at[i].user # a
        BY <3>3, <4>2, <4>3, AccountsAssumption DEF SigningIn
      <4> QED
        BY <3>3, <4>1, <4>2, <4>3, <4>4 DEF AccountsTypeOK, SigningIn
    <3>5. a \notin withheld'
      BY <3>3 DEF WithheldExist
    <3>6. Opens(v, a, at[h].typed, FALSE, 0)
      BY <2>2 DEF Registered
    <3>7. at[h].typed = password'[a] /\ \A b \in Account : password[b] # Nothing => password'[b] = password[b]
      BY <3>2, <3>3 DEF AccountsTypeOK
    <3>8. VisitsBegan' /\ VisitsAreCurrent'
      BY <3>2, <3>3, <3>5, <3>6, <3>7, OpensCurrent
    <3> QED
      BY <3>4, <3>8
  <2>3. ASSUME NEW v \in Visit, LoggedIn(h, v) PROVE SignInsAreCurrent' /\ VisitsBegan' /\ VisitsAreCurrent'
    <3> DEFINE a == at[h].user
    <3>1. at[h] \in SigningIn
      BY <2>3 DEF LoggedIn, AccountsTypeOK, Idle, Registering, SigningIn, Resetting
    <3>2. a \in Account /\ at[h].typed \in Password /\ at[h].late \in BOOLEAN
      BY <3>1 DEF SigningIn
    <3>3. password' = password /\ withheld' = withheld /\ at' = [at EXCEPT ![h] = Idle]
          /\ Opens(v, a, at[h].typed, at[h].late, 1)
      BY <2>3 DEF LoggedIn
    <3>4. at[h].late \/ (at[h].typed = password[a] /\ a \notin withheld)
      BY <2>3, <3>2 DEF LoggedIn, Accepted, Expected, SignInsAreCurrent
    <3>5. VisitsBegan' /\ VisitsAreCurrent'
      BY <3>2, <3>3, <3>4, OpensCurrent
    <3>6. ~Expected(at'[h])
      BY <3>3 DEF AccountsTypeOK, Expected, Idle
    <3>7. \A i \in Handler \ {h} : at'[i] = at[i]
      BY <3>3 DEF AccountsTypeOK
    <3> QED
      BY <3>3, <3>5, <3>6, <3>7, SignInsFrame
  <2>4. CASE RegisterClashes(h) \/ LoginRefused(h)
    <3>1. at' = [at EXCEPT ![h] = Idle] /\ UNCHANGED <<password, withheld, visit, cookie, live>>
      BY <2>4 DEF RegisterClashes, LoginRefused
    <3>2. ~Expected(at'[h]) /\ \A i \in Handler \ {h} : at'[i] = at[i]
      BY <3>1 DEF AccountsTypeOK, Expected, Idle
    <3> QED
      BY <3>1, <3>2, SignInsFrame DEF VisitsBegan, VisitsAreCurrent
  <2>5. ASSUME NEW l \in Link, NEW p \in Password, ResetBegins(h, l, p)
        PROVE  SignInsAreCurrent' /\ VisitsBegan' /\ VisitsAreCurrent'
    <3>1. UNCHANGED <<password, withheld, visit, cookie, live>>
      BY <2>5 DEF ResetBegins
    <3>2. ~Expected(at'[h]) /\ \A i \in Handler \ {h} : at'[i] = at[i]
      BY <2>5 DEF ResetBegins, AccountsTypeOK, Expected
    <3> QED
      BY <3>1, <3>2, SignInsFrame DEF VisitsBegan, VisitsAreCurrent
  <2>6. CASE Reset(h)
    <3> DEFINE a == at[h].user
    <3>1. a \in Account
      BY <2>6 DEF Reset, AccountsTypeOK, Idle, Registering, SigningIn, Resetting
    <3>2. at' = [Overtaken(a) EXCEPT ![h] = Idle] /\ withheld' = withheld /\ Closes(a)
          /\ \A b \in Account \ {a} : password'[b] = password[b]
      BY <2>6 DEF Reset, AccountsTypeOK
    <3>3. \A i \in Handler : at'[i] \in {Overtaken(a)[i], Idle}
      BY <3>2 DEF Overtaken
    <3> QED
      BY <3>1, <3>2, <3>3, ClosesOwn, OvertakenCurrent
  <2> QED
    BY <1>1, <2>1, <2>2, <2>3, <2>4, <2>5, <2>6 DEF SignInStep
<1>2. ASSUME NEW v \in Visit, VisitStep(v) PROVE SignInsAreCurrent' /\ VisitsBegan' /\ VisitsAreCurrent'
  <2>1. /\ at' = at /\ password' = password /\ visit' = visit
        /\ withheld' = withheld /\ cookie' \subseteq cookie
        /\ \A w \in Visit : live[w] = {} => live'[w] = {}
    BY <1>2 DEF VisitStep, Refresh, TokenEnds, SessionEnds, Resend, Provision, LinkApp, DisableCompany,
                userVars, visitVars, AccountsTypeOK
  <2> QED
    BY <2>1, VisitsFrame
<1>3. ASSUME NEW a \in Account, AccountStep(a) PROVE SignInsAreCurrent' /\ VisitsBegan' /\ VisitsAreCurrent'
  <2>1. CASE Withhold(a)
    <3>1. at' = Overtaken(a) /\ Closes(a) /\ password' = password /\ withheld' = withheld \union {a}
      BY <2>1 DEF Withhold
    <3>2. \A i \in Handler : at'[i] \in {Overtaken(a)[i], Idle}
      BY <3>1
    <3> QED
      BY <3>1, <3>2, ClosesOwn, OvertakenCurrent
  <2>2. CASE Lift(a)
    BY <2>2, VisitsFrame DEF Lift, visitVars
  <2>3. ASSUME UNCHANGED <<at, userVars, visitVars>> \/ UNCHANGED <<at, password, withheld, visitVars>>
        PROVE  SignInsAreCurrent' /\ VisitsBegan' /\ VisitsAreCurrent'
    BY <2>3, VisitsFrame DEF userVars, visitVars
  <2>4. CASE \E l \in Link : Forgot(a, l)
    BY <2>3, <2>4 DEF Forgot
  <2>5. CASE VerifyEmail(a) \/ VerifyExpires(a) \/ Buy(a)
    BY <2>3, <2>5 DEF VerifyEmail, VerifyExpires, Buy
  <2> QED
    BY <1>3, <2>1, <2>2, <2>4, <2>5 DEF AccountStep
<1>4. ASSUME UNCHANGED <<at, userVars, visitVars>> PROVE SignInsAreCurrent' /\ VisitsBegan' /\ VisitsAreCurrent'
  BY <1>4, VisitsFrame DEF userVars, visitVars
<1>5. CASE OperatorStep \/ \E l \in Link : LinkExpires(l)
  BY <1>4, <1>5 DEF OperatorStep, ConfigureMail, OperatorRegisters, RevokeApp, UnrevokeApp, LinkExpires
<1>6. CASE UNCHANGED accountsVars
  BY <1>4, <1>6 DEF accountsVars
<1> QED
  BY <1>1, <1>2, <1>3, <1>5, <1>6 DEF AccountsNext

LEMMA WithheldStay ==
    ASSUME AccountsTypeOK, WithheldExist, [AccountsNext]_accountsVars
    PROVE  WithheldExist'
<1>1. ASSUME withheld' \subseteq withheld, \A a \in Account : password[a] # Nothing => password'[a] # Nothing
      PROVE  WithheldExist'
  BY <1>1 DEF WithheldExist, AccountsTypeOK
<1>2. ASSUME NEW h \in Handler, SignInStep(h) PROVE WithheldExist'
  <2>1. ASSUME NEW v \in Visit, Registered(h, v) \/ LoggedIn(h, v) PROVE WithheldExist'
    <3>1. withheld' = withheld /\ (password' = password \/ password' = [password EXCEPT ![at[h].user] = at[h].typed])
      BY <2>1 DEF Registered, LoggedIn, userVars
    <3>2. Registered(h, v) => at[h].typed \in Password
      BY DEF Registered, AccountsTypeOK, Idle, Registering, SigningIn, Resetting
    <3>3. \A a \in Account : password[a] # Nothing => password'[a] # Nothing
      BY <2>1, <3>1, <3>2, AccountsAssumption DEF AccountsTypeOK, LoggedIn, userVars
    <3> QED
      BY <1>1, <3>1, <3>3
  <2>2. CASE Reset(h)
    <3>1. at[h].typed \in Password
      BY <2>2 DEF Reset, AccountsTypeOK, Idle, Registering, SigningIn, Resetting
    <3>2. withheld' = withheld /\ password' = [password EXCEPT ![at[h].user] = at[h].typed]
      BY <2>2 DEF Reset
    <3>3. \A a \in Account : password[a] # Nothing => password'[a] # Nothing
      BY <3>1, <3>2, AccountsAssumption DEF AccountsTypeOK
    <3> QED
      BY <1>1, <3>2, <3>3
  <2>3. CASE UNCHANGED userVars
    BY <1>1, <2>3 DEF userVars
  <2> QED
    BY <1>2, <2>1, <2>2, <2>3 DEF SignInStep, RegisterBegins, LoginBegins, RegisterClashes,
       LoginRefused, ResetBegins
<1>3. ASSUME NEW v \in Visit, VisitStep(v) PROVE WithheldExist'
  BY <1>1, <1>3 DEF VisitStep, Refresh, TokenEnds, SessionEnds, Resend, Provision, LinkApp, DisableCompany, userVars
<1>4. ASSUME NEW a \in Account, AccountStep(a) PROVE WithheldExist'
  <2>1. CASE Withhold(a)
    BY <2>1 DEF Withhold, WithheldExist
  <2>2. CASE ~Withhold(a)
    BY <1>1, <1>4, <2>2 DEF AccountStep, Forgot, VerifyEmail, VerifyExpires, Lift, Buy, userVars
  <2> QED
    BY <2>1, <2>2
<1>5. ASSUME UNCHANGED userVars PROVE WithheldExist'
  BY <1>1, <1>5 DEF userVars
<1>6. CASE OperatorStep \/ \E l \in Link : LinkExpires(l)
  BY <1>5, <1>6 DEF OperatorStep, ConfigureMail, OperatorRegisters, RevokeApp, UnrevokeApp, LinkExpires
<1>7. CASE UNCHANGED accountsVars
  BY <1>5, <1>7 DEF accountsVars
<1> QED
  BY <1>2, <1>3, <1>4, <1>6, <1>7 DEF AccountsNext

\* Steps of the composition are steps of the accounts, or leave them alone.
LEMMA AccountsStep == [TenantsNext]_tenantsVars => [AccountsNext]_accountsVars
BY DEF TenantsNext, AppRequest, tenantsVars

\* The inductive invariant of the visits, from the types on.
LEMMA VisitsInvariant == TenantsSpec => []VisitsInv
<1>1. TenantsInit => VisitsInv
  <2> SUFFICES ASSUME TenantsInit PROVE VisitsInv
    OBVIOUS
  <2> USE DEF TenantsInit, AccountsInit
  <2>1. AccountsTypeOK
    <3>1. at \in [Handler -> {Idle} \union Registering \union SigningIn \union Resetting]
      OBVIOUS
    <3>2. wallet \in [Account -> [row : BOOLEAN, marked : BOOLEAN, trials : Nat]]
      OBVIOUS
    <3>3. issued \in [Visit -> 0..Rotations] /\ live \in [Visit -> SUBSET (1..Rotations)]
      BY AccountsAssumption
    <3> QED
      BY <3>1, <3>2, <3>3 DEF AccountsTypeOK
  <2>2. Asked /\ SignInsAreCurrent
    BY DEF Asked, SignInsAreCurrent, Expected, Idle
  <2>3. WithheldExist /\ VisitsBegan /\ VisitsAreCurrent
    BY DEF WithheldExist, VisitsBegan, VisitsAreCurrent
  <2> QED
    BY <2>1, <2>2, <2>3 DEF VisitsInv
<1>2. VisitsInv /\ [TenantsNext]_tenantsVars => VisitsInv'
  BY AccountsStep, AccountsType, AskedStays, WithheldStay, VisitsStay DEF VisitsInv
<1> QED
  BY <1>1, <1>2, PTL DEF TenantsSpec

\* A reset and a withholding end every visit of the account (auth.ts:1044-1058,
\* admin-users.ts:110-126), whatever overlaps with them.
THEOREM VisitsCurrent == TenantsSpec => []VisitsAreCurrent
<1>1. VisitsInv => VisitsAreCurrent
  BY DEF VisitsInv
<1> QED
  BY <1>1, VisitsInvariant, PTL

-----------------------------------------------------------------------------
(* Tokens, links, trials, passwords and owners: for each, the requests that   *)
(* change it, and then what they keep.                                        *)

\* What Opens does to the tokens.
Issues(v, tokens) ==
    issued' = [issued EXCEPT ![v] = tokens] /\ live' = [live EXCEPT ![v] = 1..tokens]

\* What changes tokens; and below links, apps and passwords.  All else keeps them.
LEMMA TokenRequests ==
    ASSUME [AccountsNext]_accountsVars
    PROVE  \/ UNCHANGED <<issued, live>>
           \/ \E v \in Visit, tokens \in {0, 1} : Issues(v, tokens)
           \/ \E v \in Visit, g \in 1..Rotations : Refresh(v, g) \/ TokenEnds(v, g)
           \/ \E a : Closes(a)
<1>1. ASSUME NEW h \in Handler, SignInStep(h)
      PROVE  \/ UNCHANGED <<issued, live>>
             \/ \E v \in Visit, tokens \in {0, 1} : Issues(v, tokens)
             \/ \E a : Closes(a)
  <2>1. ASSUME NEW v \in Visit, Registered(h, v)
        PROVE  \E tokens \in {0, 1} : Issues(v, tokens)
    <3>1. Issues(v, 0)
      BY <2>1 DEF Registered, Opens, Issues
    <3> QED
      BY <3>1
  <2>2. ASSUME NEW v \in Visit, LoggedIn(h, v)
        PROVE  \E tokens \in {0, 1} : Issues(v, tokens)
    <3>1. Issues(v, 1)
      BY <2>2 DEF LoggedIn, Opens, Issues
    <3> QED
      BY <3>1
  <2>3. Reset(h) => \E a : Closes(a)
    BY DEF Reset
  <2> QED
    BY <1>1, <2>1, <2>2, <2>3 DEF SignInStep, RegisterBegins, LoginBegins, RegisterClashes, LoginRefused,
       ResetBegins, visitVars
<1>2. ASSUME NEW v \in Visit, VisitStep(v)
      PROVE  UNCHANGED <<issued, live>> \/ \E g \in 1..Rotations : Refresh(v, g) \/ TokenEnds(v, g)
  BY <1>2 DEF VisitStep, SessionEnds, Resend, Provision, LinkApp, DisableCompany, visitVars
<1>3. ASSUME NEW a \in Account, AccountStep(a) PROVE UNCHANGED <<issued, live>> \/ Closes(a)
  BY <1>3 DEF AccountStep, Forgot, VerifyEmail, VerifyExpires, Withhold, Lift, Buy, visitVars
<1>4. CASE OperatorStep \/ UNCHANGED accountsVars \/ \E l \in Link : LinkExpires(l)
  BY <1>4 DEF OperatorStep, ConfigureMail, OperatorRegisters, RevokeApp, UnrevokeApp, LinkExpires,
              accountsVars, visitVars
<1> QED
  BY <1>1, <1>2, <1>3, <1>4 DEF AccountsNext

\* Of the refresh tokens that follow one sign-in at most the newest is good
\* (auth.ts:278-307).
THEOREM NewestToken == TenantsSpec => []OnlyTheNewestToken
<1>1. TenantsInit => OnlyTheNewestToken
  BY DEF TenantsInit, AccountsInit, OnlyTheNewestToken
<1>2. ASSUME VisitsInv, OnlyTheNewestToken, [TenantsNext]_tenantsVars PROVE OnlyTheNewestToken'
  <2> USE DEF OnlyTheNewestToken, VisitsInv, AccountsTypeOK
  <2>1. CASE UNCHANGED <<issued, live>>
    BY <1>2, <2>1
  <2>2. ASSUME NEW v \in Visit, NEW tokens \in {0, 1}, Issues(v, tokens) PROVE OnlyTheNewestToken'
    BY <1>2, <2>2 DEF Issues
  <2>3. ASSUME NEW v \in Visit, NEW g \in 1..Rotations, Refresh(v, g) \/ TokenEnds(v, g)
        PROVE  OnlyTheNewestToken'
    BY <1>2, <2>3 DEF Refresh, TokenEnds
  <2>4. ASSUME NEW a, Closes(a) PROVE OnlyTheNewestToken'
    BY <1>2, <2>4 DEF Closes
  <2> QED
    BY <1>2, <2>1, <2>2, <2>3, <2>4, AccountsStep, TokenRequests
<1> QED
  BY <1>1, <1>2, VisitsInvariant, PTL DEF TenantsSpec

LEMMA LinkRequests ==
    ASSUME [AccountsNext]_accountsVars
    PROVE  \/ UNCHANGED link
           \/ \E a \in Account, l \in Link : Forgot(a, l)
           \/ \E l \in Link : LinkExpires(l)
           \/ \E h \in Handler : Reset(h)
<1>1. ASSUME NEW h \in Handler, SignInStep(h) PROVE UNCHANGED link \/ Reset(h)
  BY <1>1 DEF SignInStep, RegisterBegins, LoginBegins, Registered, LoggedIn, RegisterClashes, LoginRefused,
              ResetBegins, mailVars
<1>2. ASSUME NEW v \in Visit, VisitStep(v) PROVE UNCHANGED link
  BY <1>2 DEF VisitStep, Refresh, TokenEnds, SessionEnds, Resend, Provision, LinkApp, DisableCompany, mailVars
<1>3. ASSUME NEW a \in Account, AccountStep(a) PROVE UNCHANGED link \/ \E l \in Link : Forgot(a, l)
  BY <1>3 DEF AccountStep, VerifyEmail, VerifyExpires, Withhold, Lift, Buy, mailVars
<1>4. CASE OperatorStep \/ UNCHANGED accountsVars
  BY <1>4 DEF OperatorStep, ConfigureMail, OperatorRegisters, RevokeApp, UnrevokeApp, accountsVars, mailVars
<1> QED
  BY <1>1, <1>2, <1>3, <1>4 DEF AccountsNext

\* However often a reset is asked for, one link of an account works (auth.ts:985-993).
THEOREM NewestLink == TenantsSpec => []OnlyTheNewestLink
<1>1. TenantsInit => OnlyTheNewestLink
  BY DEF TenantsInit, AccountsInit, OnlyTheNewestLink
<1>2. ASSUME VisitsInv, OnlyTheNewestLink, [TenantsNext]_tenantsVars PROVE OnlyTheNewestLink'
  <2>1. ASSUME \A k \in Link : link'[k] # Nothing /\ link'[k].open =>
                  link[k] # Nothing /\ link[k].open /\ link'[k].user = link[k].user
        PROVE  OnlyTheNewestLink'
    BY <1>2, <2>1 DEF OnlyTheNewestLink
  <2>2. ASSUME NEW l \in Link, link' = [link EXCEPT ![l].open = FALSE], link[l] # Nothing
        PROVE  OnlyTheNewestLink'
    <3>1. link[l] \in [user : Account, open : BOOLEAN]
      BY <1>2, <2>2 DEF VisitsInv, AccountsTypeOK
    <3>2. link' = [link EXCEPT ![l] = [link[l] EXCEPT !.open = FALSE]]
      BY <2>2
    <3>3. ~link'[l].open /\ \A k \in Link \ {l} : link'[k] = link[k]
      BY <1>2, <3>1, <3>2 DEF VisitsInv, AccountsTypeOK
    <3> QED
      BY <2>1, <3>3
  <2>3. ASSUME NEW h \in Handler, Reset(h) PROVE OnlyTheNewestLink'
    <3>1. at[h].link \in Link /\ link[at[h].link] # Nothing
      BY <1>2, <2>3 DEF VisitsInv, Asked, Reset, AccountsTypeOK, Idle, Registering, SigningIn, Resetting
    <3> QED
      BY <2>2, <2>3, <3>1 DEF Reset
  <2>4. ASSUME NEW a \in Account, NEW l \in Link, Forgot(a, l) PROVE OnlyTheNewestLink'
    <3>1. ASSUME NEW k \in Link, k # l, link'[k] # Nothing, link'[k].open
          PROVE  link[k] # Nothing /\ link[k].open /\ link'[k] = link[k] /\ link[k].user # a
      <4>1. link'[k] = IF link[k] # Nothing /\ link[k].user = a THEN [link[k] EXCEPT !.open = FALSE] ELSE link[k]
        BY <2>4, <3>1 DEF Forgot
      <4>2. link[k] # Nothing => link[k] \in [user : Account, open : BOOLEAN]
        BY <1>2 DEF VisitsInv, AccountsTypeOK
      <4> QED
        BY <3>1, <4>1, <4>2
    <3>2. link'[l] = [user |-> a, open |-> TRUE]
      BY <2>4 DEF Forgot
    <3> QED
      BY <1>2, <3>1, <3>2 DEF OnlyTheNewestLink
  <2>5. ASSUME NEW l \in Link, LinkExpires(l) PROVE OnlyTheNewestLink'
    BY <2>2, <2>5 DEF LinkExpires
  <2>6. CASE UNCHANGED link
    BY <2>1, <2>6
  <2> QED
    BY <1>2, <2>3, <2>4, <2>5, <2>6, AccountsStep, LinkRequests
<1> QED
  BY <1>1, <1>2, VisitsInvariant, PTL DEF TenantsSpec

LEMMA AppRequests ==
    ASSUME [AccountsNext]_accountsVars
    PROVE  \/ UNCHANGED <<owner, company, wallet>>
           \/ \E v \in Visit, a \in Account, x \in App : Provision(v, a, x) \/ LinkApp(v, a, x)
           \/ \E a \in Account : Buy(a)
           \/ \E x \in App : OperatorRegisters(x)
<1>1. ASSUME NEW h \in Handler, SignInStep(h) PROVE UNCHANGED <<owner, company, wallet>>
  BY <1>1 DEF SignInStep, RegisterBegins, LoginBegins, Registered, LoggedIn, RegisterClashes, LoginRefused,
              ResetBegins, Reset, appVars
<1>2. ASSUME NEW v \in Visit, VisitStep(v)
      PROVE  \/ UNCHANGED <<owner, company, wallet>>
             \/ \E a \in Account, x \in App : Provision(v, a, x) \/ LinkApp(v, a, x)
  BY <1>2 DEF VisitStep, Refresh, TokenEnds, SessionEnds, Resend, DisableCompany, appVars
<1>3. ASSUME NEW a \in Account, AccountStep(a) PROVE UNCHANGED <<owner, company, wallet>> \/ Buy(a)
  BY <1>3 DEF AccountStep, Forgot, VerifyEmail, VerifyExpires, Withhold, Lift, appVars
<1>4. CASE OperatorStep \/ UNCHANGED accountsVars \/ \E l \in Link : LinkExpires(l)
  BY <1>4 DEF OperatorStep, ConfigureMail, RevokeApp, UnrevokeApp, LinkExpires, accountsVars, appVars
<1> QED
  BY <1>1, <1>2, <1>3, <1>4 DEF AccountsNext

\* The mark on a wallet tells of a company, and the trial of the mark.
HasCompany(a) == \E x \in company : owner[x] = a
TrialInv ==
    /\ \A x \in company : owner[x] \in Account
    /\ \A a \in Account :
          /\ wallet[a].marked <=> HasCompany(a)
          /\ wallet[a].marked => wallet[a].row
          /\ wallet[a].trials = IF wallet[a].marked THEN 1 ELSE 0

LEMMA TrialInvariant == TenantsSpec => []TrialInv
<1>1. TenantsInit => TrialInv
  BY DEF TenantsInit, AccountsInit, TrialInv, HasCompany
<1>2. ASSUME VisitsInv, TrialInv, [TenantsNext]_tenantsVars PROVE TrialInv'
  <2>0. AccountsTypeOK /\ TrialInv
    BY <1>2 DEF VisitsInv
  <2>1. CASE UNCHANGED <<owner, company, wallet>>
    BY <2>0, <2>1 DEF TrialInv, HasCompany
  <2>2. ASSUME wallet' = wallet, company' = company,
               \A x \in App : owner'[x] # owner[x] => owner[x] \notin Account
        PROVE  TrialInv'
    BY <2>0, <2>2 DEF TrialInv, HasCompany, AccountsTypeOK
  <2>3. ASSUME NEW v \in Visit, NEW a \in Account, NEW x \in App, LinkApp(v, a, x) PROVE TrialInv'
    BY <2>0, <2>2, <2>3, AccountsAssumption DEF LinkApp, AccountsTypeOK
  <2>4. ASSUME NEW x \in App, OperatorRegisters(x) PROVE TrialInv'
    BY <2>0, <2>2, <2>4, AccountsAssumption DEF OperatorRegisters, AccountsTypeOK
  <2>5. ASSUME NEW a \in Account, Buy(a) PROVE TrialInv'
    BY <2>0, <2>5 DEF Buy, appVars, TrialInv, HasCompany, AccountsTypeOK
  <2>6. ASSUME NEW v \in Visit, NEW a \in Account, NEW x \in App, Provision(v, a, x) PROVE TrialInv'
    <3>1. /\ owner[x] = Nothing /\ owner' = [owner EXCEPT ![x] = a] /\ company' = company \union {x}
          /\ wallet' = [wallet EXCEPT ![a] = Trial(wallet[a])]
      BY <2>6 DEF Provision
    <3>2. x \notin company
      BY <2>0, <3>1, AccountsAssumption DEF TrialInv
    <3>3. \A y \in company' : owner'[y] \in Account
      BY <2>0, <3>1 DEF TrialInv, AccountsTypeOK
    <3>4. HasCompany(a)' /\ \A b \in Account \ {a} : HasCompany(b)' <=> HasCompany(b)
      BY <2>0, <3>1, <3>2 DEF HasCompany, AccountsTypeOK
    <3>5. \A b \in Account \ {a} : wallet'[b] = wallet[b]
      BY <2>0, <3>1 DEF AccountsTypeOK
    <3>6. wallet'[a].marked /\ wallet'[a].row /\ wallet'[a].trials = 1
      <4>1. wallet'[a] = Trial(wallet[a]) /\ wallet[a] \in [row : BOOLEAN, marked : BOOLEAN, trials : Nat]
        BY <2>0, <3>1 DEF AccountsTypeOK
      <4> QED
        BY <2>0, <4>1 DEF Trial, TrialInv
    <3> QED
      BY <2>0, <3>3, <3>4, <3>5, <3>6 DEF TrialInv
  <2> QED
    BY <1>2, <2>1, <2>3, <2>4, <2>5, <2>6, AccountsStep, AppRequests
<1> QED
  BY <1>1, <1>2, VisitsInvariant, PTL DEF TenantsSpec

\* An account gets the trial with its first company and never again (auth.ts:424-448).
THEOREM TrialOnce == TenantsSpec => []OneTrial
<1>1. TrialInv => OneTrial
  BY DEF TrialInv, OneTrial, HasCompany
<1> QED
  BY <1>1, TrialInvariant, PTL

\* Of two accounts that claim an app one gets it, and keeps it (auth.ts:855-867).
THEOREM OwnersKept == TenantsSpec => OwnersStay
<1>1. ASSUME VisitsInv, [TenantsNext]_tenantsVars
      PROVE  [\A x \in App : owner[x] \in Account => owner'[x] = owner[x]]_accountsVars
  BY <1>1, AccountsStep, AppRequests, AccountsAssumption
     DEF VisitsInv, AccountsTypeOK, Provision, LinkApp, Buy, OperatorRegisters, appVars
<1> QED
  BY <1>1, VisitsInvariant, PTL DEF TenantsSpec, OwnersStay

LEMMA PasswordRequests ==
    ASSUME [AccountsNext]_accountsVars
    PROVE  \/ UNCHANGED password
           \/ \E h \in Handler, v \in Visit : Registered(h, v)
           \/ \E h \in Handler : Reset(h)
<1>1. ASSUME NEW h \in Handler, SignInStep(h)
      PROVE  UNCHANGED password \/ Reset(h) \/ \E v \in Visit : Registered(h, v)
  BY <1>1 DEF SignInStep, RegisterBegins, LoginBegins, LoggedIn, RegisterClashes, LoginRefused,
              ResetBegins, userVars
<1>2. ASSUME NEW v \in Visit, VisitStep(v) PROVE UNCHANGED password
  BY <1>2 DEF VisitStep, Refresh, TokenEnds, SessionEnds, Resend, Provision, LinkApp, DisableCompany, userVars
<1>3. ASSUME NEW a \in Account, AccountStep(a) PROVE UNCHANGED password
  BY <1>3 DEF AccountStep, Forgot, VerifyEmail, VerifyExpires, Withhold, Lift, Buy, userVars
<1>4. CASE OperatorStep \/ UNCHANGED accountsVars \/ \E l \in Link : LinkExpires(l)
  BY <1>4 DEF OperatorStep, ConfigureMail, OperatorRegisters, RevokeApp, UnrevokeApp, LinkExpires, accountsVars, userVars
<1> QED
  BY <1>1, <1>2, <1>3, <1>4 DEF AccountsNext

\* The password of a registered account changes by nothing but a reset
\* (auth.ts:180-189).
THEOREM OnlyResets == TenantsSpec => OnlyResetsRekey
<1>1. ASSUME VisitsInv, [TenantsNext]_tenantsVars
      PROVE  [\A a \in Account :
                 password[a] # Nothing /\ password'[a] # password[a]
                 => \E h \in Handler : at[h].doing = "reset" /\ at[h].user = a /\ at'[h] = Idle]_accountsVars
  <2> SUFFICES ASSUME NEW a \in Account, password[a] # Nothing, password'[a] # password[a]
               PROVE  \E h \in Handler : at[h].doing = "reset" /\ at[h].user = a /\ at'[h] = Idle
    OBVIOUS
  <2>0. AccountsTypeOK
    BY <1>1 DEF VisitsInv
  <2>1. ASSUME NEW h \in Handler, NEW v \in Visit, Registered(h, v) PROVE FALSE
    BY <2>0, <2>1 DEF Registered, AccountsTypeOK
  <2>2. ASSUME NEW h \in Handler, Reset(h) PROVE at[h].doing = "reset" /\ at[h].user = a /\ at'[h] = Idle
    <3>1. at'[h] = Idle
      BY <2>2 DEF Reset, Overtaken
    <3>2. at[h].user = a
      BY <2>0, <2>2 DEF Reset, AccountsTypeOK
    <3> QED
      BY <2>2, <3>1, <3>2 DEF Reset
  <2> QED
    BY <1>1, <2>1, <2>2, AccountsStep, PasswordRequests
<1> QED
  BY <1>1, VisitsInvariant, PTL DEF TenantsSpec, OnlyResetsRekey

-----------------------------------------------------------------------------
(* Groups and templates. *)

\* Steps of the composition are requests about groups and templates, or leave them.
LEMMA ContactsSteps == [TenantsNext]_tenantsVars => [ContactsNext]_contactsVars
BY DEF TenantsNext, AppRequest, ContactsNext, tenantsVars

\* Sets of phones can be counted.
LEMMA PhonesCounted ==
    \A phones \in SUBSET Phone : IsFiniteSet(phones) /\ Cardinality(phones) \in Nat
BY ContactsAssumption, FS_Subset, FS_CardinalityType

\* Groups and templates stay typed.
LEMMA GroupsType ==
    ASSUME ContactsTypeOK, NEW t \in Tenant, ContactsStep(t)
    PROVE  ContactsTypeOK'
<1> USE DEF ContactsTypeOK, Owned
<1>1. ASSUME NEW g \in Group, NEW n \in Name, RenameGroup(t, g, n) PROVE ContactsTypeOK'
  <2>1. group[g] \in GroupRow
    BY <1>1 DEF RenameGroup
  <2>2. [group[g] EXCEPT !.name = n] \in GroupRow
    BY <2>1 DEF GroupRow
  <2> QED
    BY <1>1, <2>2 DEF RenameGroup
<1>2. ASSUME NEW g \in Group, NEW n \in Name, NEW phones \in SUBSET Phone, CreateGroup(t, g, n, phones)
      PROVE  ContactsTypeOK'
  BY <1>2, PhonesCounted DEF CreateGroup, GroupRow
<1>3. ASSUME NEW g \in Group, NEW phones \in SUBSET Phone, group[g] \in GroupRow, Holds(g, phones)
      PROVE  ContactsTypeOK'
  <2>1. [group[g] EXCEPT !.phones = phones, !.count = Cardinality(phones)] \in GroupRow
    BY <1>3, PhonesCounted DEF GroupRow
  <2> QED
    BY <1>3, <2>1 DEF Holds
<1>4. ASSUME NEW g \in Group, NEW phones \in SUBSET Phone, AddPhones(t, g, phones) \/ RemovePhones(t, g, phones)
      PROVE  ContactsTypeOK'
  <2>1. group[g] \in GroupRow
    BY <1>4 DEF AddPhones, RemovePhones
  <2> QED
    BY <1>3, <1>4, <2>1 DEF AddPhones, RemovePhones, GroupRow
<1>5. ASSUME NEW g \in Group, DeleteGroup(t, g) PROVE ContactsTypeOK'
  BY <1>5 DEF DeleteGroup
<1>6. ASSUME NEW m \in Template, NEW n \in Name, CreateTemplate(t, m, n) PROVE ContactsTypeOK'
  BY <1>6 DEF CreateTemplate, TemplateRow
<1>7. ASSUME NEW m \in Template, NEW n \in Name, RenameTemplate(t, m, n) PROVE ContactsTypeOK'
  <2>1. [template[m] EXCEPT !.name = n] \in TemplateRow
    BY <1>7 DEF RenameTemplate, TemplateRow
  <2> QED
    BY <1>7, <2>1 DEF RenameTemplate
<1>8. ASSUME NEW m \in Template, DeleteTemplate(t, m) PROVE ContactsTypeOK'
  BY <1>8 DEF DeleteTemplate
<1> QED
  BY <1>1, <1>2, <1>4, <1>5, <1>6, <1>7, <1>8 DEF ContactsStep

LEMMA GroupsTyped == TenantsSpec => []ContactsTypeOK
<1>1. TenantsInit => ContactsTypeOK
  BY DEF TenantsInit, ContactsInit, ContactsTypeOK
<1>2. ContactsTypeOK /\ [ContactsNext]_contactsVars => ContactsTypeOK'
  BY GroupsType DEF ContactsNext, ContactsTypeOK, contactsVars
<1> QED
  BY <1>1, <1>2, ContactsSteps, PTL DEF TenantsSpec

\* The count shown for a group is the number of its phones, and never past the limit
\* (contact-groups.ts:313-343, 366-385).
THEOREM CountsHold == TenantsSpec => []CountIsMembership
<1>1. TenantsInit => CountIsMembership
  BY DEF TenantsInit, ContactsInit, CountIsMembership
<1>2. ASSUME ContactsTypeOK, CountIsMembership, [ContactsNext]_contactsVars PROVE CountIsMembership'
  <2> USE DEF CountIsMembership
  <2>1. ASSUME NEW g \in Group, \A k \in Group \ {g} : group'[k] = group[k],
               group'[g] # NoRow =>
                  group'[g].count = Cardinality(group'[g].phones) /\ group'[g].count <= GroupMax
        PROVE  CountIsMembership'
    BY <1>2, <2>1
  <2>2. ASSUME NEW t \in Tenant, NEW g \in Group, NEW n \in Name, RenameGroup(t, g, n)
        PROVE  CountIsMembership'
    <3>1. group[g] \in GroupRow /\ group[g] # NoRow
      BY <1>2, <2>2 DEF RenameGroup, Owned, ContactsTypeOK
    <3>2. group'[g] = [group[g] EXCEPT !.name = n] /\ \A k \in Group \ {g} : group'[k] = group[k]
      BY <1>2, <2>2 DEF RenameGroup, ContactsTypeOK
    <3>3. group'[g].count = group[g].count /\ group'[g].phones = group[g].phones
      BY <3>1, <3>2 DEF GroupRow
    <3> QED
      BY <1>2, <2>1, <3>1, <3>2, <3>3
  <2>3. ASSUME NEW t \in Tenant, NEW g \in Group, NEW n \in Name, NEW phones \in SUBSET Phone,
               CreateGroup(t, g, n, phones)
        PROVE  CountIsMembership'
    BY <1>2, <2>1, <2>3 DEF CreateGroup, ContactsTypeOK
  <2>4. ASSUME NEW t \in Tenant, NEW g \in Group, NEW phones \in SUBSET Phone,
               AddPhones(t, g, phones) \/ RemovePhones(t, g, phones)
        PROVE  CountIsMembership'
    <3>1. group[g] \in GroupRow /\ group[g] # NoRow
      BY <1>2, <2>4 DEF AddPhones, RemovePhones, Owned, ContactsTypeOK
    <3> DEFINE left == IF AddPhones(t, g, phones) THEN group[g].phones \union phones ELSE group[g].phones \ phones
    <3>2. left \in SUBSET Phone /\ Cardinality(left) <= GroupMax
      <4>1. CASE AddPhones(t, g, phones)
        BY <3>1, <4>1 DEF AddPhones, GroupRow
      <4>2. CASE ~AddPhones(t, g, phones)
        <5>1. group[g].phones \in SUBSET Phone /\ group[g].phones \ phones \in SUBSET Phone
          BY <3>1 DEF GroupRow
        <5>2. Cardinality(group[g].phones \ phones) <= Cardinality(group[g].phones)
          BY <5>1, PhonesCounted, FS_Subset
        <5>3. Cardinality(group[g].phones) <= GroupMax
          BY <1>2, <3>1
        <5> QED
          BY <4>2, <5>1, <5>2, <5>3, PhonesCounted, ContactsAssumption
      <4> QED
        BY <4>1, <4>2
    <3>3. Holds(g, left)
      BY <2>4 DEF AddPhones, RemovePhones
    <3>4. group'[g] = [group[g] EXCEPT !.phones = left, !.count = Cardinality(left)]
          /\ \A k \in Group \ {g} : group'[k] = group[k]
      BY <1>2, <3>3 DEF Holds, ContactsTypeOK
    <3> HIDE DEF left
    <3>5. group'[g].phones = left /\ group'[g].count = Cardinality(left)
      BY <3>1, <3>4 DEF GroupRow
    <3> QED
      BY <2>1, <3>2, <3>4, <3>5
  <2>5. ASSUME NEW t \in Tenant, NEW g \in Group, DeleteGroup(t, g) PROVE CountIsMembership'
    BY <1>2, <2>1, <2>5 DEF DeleteGroup, ContactsTypeOK
  <2>6. CASE UNCHANGED group
    BY <1>2, <2>6
  <2> QED
    BY <1>2, <2>2, <2>3, <2>4, <2>5, <2>6
       DEF ContactsNext, ContactsStep, CreateTemplate, RenameTemplate, DeleteTemplate, contactsVars
<1> QED
  BY <1>1, <1>2, ContactsSteps, GroupsTyped, PTL DEF TenantsSpec

\* A table stays apart when one row is taken out, or gets a name its app has not.
LEMMA OneRowApart ==
    ASSUME NEW table, NEW new, NEW I, DOMAIN table = I, DOMAIN new = I, NamesApart(table), NEW i \in I,
           \A k \in I \ {i} : new[k] = table[k],
           new[i] = NoRow \/ ~Taken(table, new[i].app, new[i].name, i)
    PROVE  NamesApart(new)
<1> SUFFICES ASSUME NEW j \in I, NEW k \in I, j # k, new[j] # NoRow, new[k] # NoRow, new[j].app = new[k].app,
                    new[j].name = new[k].name
             PROVE  FALSE
  BY DEF NamesApart
<1>1. CASE j = i
  BY <1>1 DEF Taken, Owned
<1>2. CASE k = i
  BY <1>2 DEF Taken, Owned
<1>3. CASE j # i /\ k # i
  BY <1>3 DEF NamesApart
<1> QED
  BY <1>1, <1>2, <1>3

\* Two groups, or two templates, of one app never have one name
\* (contact-groups.ts:92-110, 250-273; message-templates.ts:95-120, 186-205).
THEOREM NamesHold == TenantsSpec => []NamesAreApart
<1>1. TenantsInit => NamesAreApart
  BY DEF TenantsInit, ContactsInit, NamesAreApart, NamesApart
<1>2. ASSUME ContactsTypeOK, NamesAreApart, [ContactsNext]_contactsVars PROVE NamesAreApart'
  <2>0. NamesApart(group) /\ NamesApart(template) /\ DOMAIN group = Group /\ DOMAIN template = Template
    BY <1>2 DEF NamesAreApart, ContactsTypeOK
  <2>1. ASSUME template' = template, NEW g \in Group, NEW row, group' = [group EXCEPT ![g] = row],
               row = NoRow \/ ~Taken(group, row.app, row.name, g)
        PROVE  NamesAreApart'
    <3>1. NamesApart(group')
      BY <2>0, <2>1, OneRowApart
    <3> QED
      BY <2>0, <2>1, <3>1 DEF NamesAreApart
  <2>2. ASSUME group' = group, NEW m \in Template, NEW row, template' = [template EXCEPT ![m] = row],
               row = NoRow \/ ~Taken(template, row.app, row.name, m)
        PROVE  NamesAreApart'
    <3>1. NamesApart(template')
      BY <2>0, <2>2, OneRowApart
    <3> QED
      BY <2>0, <2>2, <3>1 DEF NamesAreApart
  <2>3. ASSUME NEW t \in Tenant, NEW g \in Group, NEW n \in Name, RenameGroup(t, g, n) PROVE NamesAreApart'
    <3>1. group[g] \in GroupRow /\ group[g].app = t
      BY <1>2, <2>3 DEF RenameGroup, Owned, ContactsTypeOK
    <3> DEFINE row == [group[g] EXCEPT !.name = n]
    <3>2. row.app = t /\ row.name = n
      BY <3>1 DEF GroupRow
    <3>3. group' = [group EXCEPT ![g] = row]
      BY <2>3 DEF RenameGroup
    <3> HIDE DEF row
    <3> QED
      BY <2>1, <2>3, <3>2, <3>3 DEF RenameGroup
  <2>4. ASSUME NEW t \in Tenant, NEW g \in Group, NEW n \in Name, NEW phones \in SUBSET Phone,
               CreateGroup(t, g, n, phones)
        PROVE  NamesAreApart'
    <3> DEFINE row == [app |-> t, name |-> n, count |-> Cardinality(phones), phones |-> phones]
    <3>1. row.app = t /\ row.name = n
      OBVIOUS
    <3>2. group' = [group EXCEPT ![g] = row]
      BY <2>4 DEF CreateGroup
    <3> HIDE DEF row
    <3> QED
      BY <2>1, <2>4, <3>1, <3>2 DEF CreateGroup
  <2>5. ASSUME NEW t \in Tenant, NEW g \in Group, NEW phones \in SUBSET Phone,
               AddPhones(t, g, phones) \/ RemovePhones(t, g, phones)
        PROVE  NamesAreApart'
    <3> DEFINE left == IF AddPhones(t, g, phones) THEN group[g].phones \union phones ELSE group[g].phones \ phones
               row == [group[g] EXCEPT !.phones = left, !.count = Cardinality(left)]
    <3>1. group[g] \in GroupRow /\ group[g] # NoRow
      BY <1>2, <2>5 DEF AddPhones, RemovePhones, Owned, ContactsTypeOK
    <3>2. group' = [group EXCEPT ![g] = row] /\ template' = template
      BY <2>5 DEF AddPhones, RemovePhones, Holds
    <3> HIDE DEF left
    <3>3. row.app = group[g].app /\ row.name = group[g].name
      BY <3>1 DEF GroupRow
    <3> HIDE DEF row
    <3>4. ~Taken(group, row.app, row.name, g)
      BY <2>0, <3>1, <3>3 DEF NamesApart, Taken, Owned
    <3> QED
      BY <2>1, <3>2, <3>4
  <2>6. ASSUME NEW t \in Tenant, NEW g \in Group, DeleteGroup(t, g) PROVE NamesAreApart'
    BY <2>1, <2>6 DEF DeleteGroup
  <2>7. ASSUME NEW t \in Tenant, NEW m \in Template, NEW n \in Name, CreateTemplate(t, m, n)
        PROVE  NamesAreApart'
    <3>1. [app |-> t, name |-> n].app = t /\ [app |-> t, name |-> n].name = n
      OBVIOUS
    <3> QED
      BY <2>2, <2>7, <3>1 DEF CreateTemplate
  <2>8. ASSUME NEW t \in Tenant, NEW m \in Template, NEW n \in Name, RenameTemplate(t, m, n)
        PROVE  NamesAreApart'
    <3>1. template[m] \in TemplateRow /\ template[m].app = t
      BY <1>2, <2>8 DEF RenameTemplate, Owned, ContactsTypeOK
    <3> DEFINE row == [template[m] EXCEPT !.name = n]
    <3>2. row.app = t /\ row.name = n
      BY <3>1 DEF TemplateRow
    <3>3. template' = [template EXCEPT ![m] = row]
      BY <2>8 DEF RenameTemplate
    <3> HIDE DEF row
    <3> QED
      BY <2>2, <2>8, <3>2, <3>3 DEF RenameTemplate
  <2>9. ASSUME NEW t \in Tenant, NEW m \in Template, DeleteTemplate(t, m) PROVE NamesAreApart'
    BY <2>2, <2>9 DEF DeleteTemplate
  <2>10. CASE UNCHANGED contactsVars
    BY <2>0, <2>10 DEF contactsVars, NamesAreApart
  <2> QED
    BY <1>2, <2>3, <2>4, <2>5, <2>6, <2>7, <2>8, <2>9, <2>10 DEF ContactsNext, ContactsStep
<1> QED
  BY <1>1, <1>2, ContactsSteps, GroupsTyped, PTL DEF TenantsSpec

\* While an account is withheld nothing its apps keep is changed (middleware.ts:228-236).
THEOREM WithheldKeeps == TenantsSpec => WithheldKeepsAll
<1>1. ASSUME AccountsTypeOK, ContactsTypeOK, [TenantsNext]_tenantsVars
      PROVE  [\A g \in Group :
                 group[g] # NoRow /\ owner[group[g].app] \in withheld => group'[g] = group[g]]_tenantsVars
  <2> SUFFICES ASSUME NEW g \in Group, group[g] # NoRow, owner[group[g].app] \in withheld
               PROVE  group'[g] = group[g]
    OBVIOUS
  <2>1. ASSUME NEW t \in Tenant, AppRequest(t) PROVE group'[g] = group[g]
    <3>1. group[g].app # t
      BY <1>1, <2>1 DEF AppRequest, Served, AccountsTypeOK
    <3>2. ~Owned(group, t, g)
      BY <3>1 DEF Owned
    <3> QED
      BY <1>1, <2>1, <3>2 DEF AppRequest, ContactsStep, RenameGroup, CreateGroup, AddPhones, RemovePhones,
         Holds, DeleteGroup, CreateTemplate, RenameTemplate, DeleteTemplate, ContactsTypeOK
  <2> QED
    BY <1>1, <2>1 DEF TenantsNext, contactsVars, tenantsVars
<1>2. VisitsInv => AccountsTypeOK
  BY DEF VisitsInv
<1> QED
  BY <1>1, <1>2, VisitsInvariant, GroupsTyped, PTL DEF TenantsSpec, WithheldKeepsAll

\* Both at once.
THEOREM Newest == TenantsSpec => []OnlyTheNewest
BY NewestToken, NewestLink, PTL DEF OnlyTheNewest
=============================================================================
