------------------------------ MODULE Accounts ------------------------------
(***************************************************************************)
(* Customers' accounts (server/src/routes/auth.ts, admin-users.ts): sign   *)
(* up, sign in, the cookie session and the refresh tokens of a visit,      *)
(* password reset by a mailed link, the operator's withholding, and the    *)
(* companies and apps of an account with the wallet's one trial.           *)
(*                                                                         *)
(* A handler runs to its end in one piece except where it derives or       *)
(* checks a password hash: there it waits, with what it has read, and      *)
(* every other request may run.  A handler that waits is a slot of at.     *)
(***************************************************************************)
EXTENDS Integers, FiniteSets

CONSTANTS
    Account,    \* e-mail addresses
    Password,
    Visit,      \* sign-ins: each has a cookie session and a chain of refresh tokens
    Handler,    \* requests that can wait for a hash at the same time
    Link,       \* reset links ever mailed
    App,
    Rotations,  \* bound: the refresh tokens of one visit
    Nothing     \* no value

ASSUME AccountsAssumption ==
    /\ Rotations \in Nat \ {0}
    /\ Nothing \notin Account \union Password
    /\ "none" \notin Account \union {Nothing}
    /\ Nothing \notin [user : Account, with : Password, late : BOOLEAN]
    /\ Nothing \notin [user : Account, open : BOOLEAN]

VARIABLES
    password,   \* users.password_hash, Nothing: no such user
    withheld,   \* users.disabled
    verified,   \* users.email_verified_at
    mail,       \* whether the operator has configured mail
    at,         \* what the handler in a slot waits for
    visit,      \* whose a visit is; the password it began with and whether a
                \* reset or a withholding overtook the sign-in
    cookie,     \* visits with a row in user_sessions
    live,       \* the tokens of a visit in refresh_tokens that are not revoked
    issued,     \* how many tokens a visit was given
    link,       \* user_email_tokens for resets
    mailed,     \* accounts with a verification link
    owner,      \* apps.owner_user_id
    company,    \* apps that belong to a company
    off,        \* companies.disabled, by the company's app
    revoked,    \* apps.revoked_at
    wallet      \* user_credits: whether there is a row, trial_granted_at, grants

userVars == <<password, withheld, verified>>
visitVars == <<visit, cookie, live, issued>>
mailVars == <<mail, link, mailed>>
appVars == <<owner, company, off, revoked>>
accountsVars == <<userVars, visitVars, mailVars, appVars, at, wallet>>

Idle == [doing |-> "nothing"]
Registering == [doing : {"register"}, user : Account, typed : Password]
SigningIn == [doing : {"login"}, user : Account, typed : Password,
              hash : Password \union {Nothing}, held : BOOLEAN, late : BOOLEAN]
Resetting == [doing : {"reset"}, user : Account, typed : Password, link : Link]

AccountsTypeOK ==
    /\ password \in [Account -> Password \union {Nothing}]
    /\ withheld \subseteq Account /\ verified \subseteq Account /\ mailed \subseteq Account
    /\ mail \in BOOLEAN
    /\ at \in [Handler -> {Idle} \union Registering \union SigningIn \union Resetting]
    /\ visit \in [Visit -> [user : Account, with : Password, late : BOOLEAN] \union {Nothing}]
    /\ cookie \subseteq Visit
    /\ issued \in [Visit -> 0..Rotations]
    /\ live \in [Visit -> SUBSET (1..Rotations)]
    /\ link \in [Link -> [user : Account, open : BOOLEAN] \union {Nothing}]
    /\ owner \in [App -> Account \union {Nothing, "none"}]
    /\ company \subseteq App /\ off \subseteq App /\ revoked \subseteq App
    /\ wallet \in [Account -> [row : BOOLEAN, marked : BOOLEAN, trials : Nat]]

AccountsInit ==
    /\ password = [a \in Account |-> Nothing]
    /\ withheld = {} /\ verified = {} /\ mailed = {}
    /\ mail = FALSE
    /\ at = [h \in Handler |-> Idle]
    /\ visit = [v \in Visit |-> Nothing]
    /\ cookie = {}
    /\ live = [v \in Visit |-> {}]
    /\ issued = [v \in Visit |-> 0]
    /\ link = [l \in Link |-> Nothing]
    /\ owner = [x \in App |-> Nothing]
    /\ company = {} /\ off = {} /\ revoked = {}
    /\ wallet = [a \in Account |-> [row |-> FALSE, marked |-> FALSE, trials |-> 0]]

Waits(h, for) == at[h] = Idle /\ at' = [at EXCEPT ![h] = for]
Ends(h) == at' = [at EXCEPT ![h] = Idle]

\* The visits of an account, and the request of a visit that resolves to it.
VisitsOf(a) == {v \in Visit : visit[v] # Nothing /\ visit[v].user = a}
SignedIn(v, a) == v \in cookie /\ v \in VisitsOf(a) /\ a \notin withheld

\* A visit begins: its session and as many refresh tokens as stated.
Opens(v, a, p, late, tokens) ==
    /\ visit[v] = Nothing
    /\ visit' = [visit EXCEPT ![v] = [user |-> a, with |-> p, late |-> late]]
    /\ cookie' = cookie \union {v}
    /\ live' = [live EXCEPT ![v] = 1..tokens]
    /\ issued' = [issued EXCEPT ![v] = tokens]

\* The sign-ins that wait while their account's visits are closed.
Overtaken(a) ==
    [h \in Handler |-> IF at[h].doing = "login" /\ at[h].user = a
                       THEN [at[h] EXCEPT !.late = TRUE] ELSE at[h]]

\* Every session and refresh token of an account goes.
Closes(a) ==
    /\ cookie' = cookie \ VisitsOf(a)
    /\ live' = [v \in Visit |-> IF v \in VisitsOf(a) THEN {} ELSE live[v]]
    /\ UNCHANGED <<visit, issued>>

-----------------------------------------------------------------------------

\* POST /v5/auth/register, up to the hash: an address that is taken is refused.
RegisterBegins(h, a, p) ==
    /\ password[a] = Nothing
    /\ Waits(h, [doing |-> "register", user |-> a, typed |-> p])
    /\ UNCHANGED <<userVars, visitVars, mailVars, appVars, wallet>>

\* ... and after it: the row, a session and a verification mail.
Registered(h, v) ==
    /\ at[h].doing = "register" /\ password[at[h].user] = Nothing
    /\ password' = [password EXCEPT ![at[h].user] = at[h].typed]
    /\ Opens(v, at[h].user, at[h].typed, FALSE, 0)
    /\ mailed' = IF mail THEN mailed \union {at[h].user} ELSE mailed
    /\ Ends(h)
    /\ UNCHANGED <<withheld, verified, mail, link, appVars, wallet>>

\* The row of an overlapping registration is there: users.email is UNIQUE.
RegisterClashes(h) ==
    /\ at[h].doing = "register" /\ password[at[h].user] # Nothing
    /\ Ends(h)
    /\ UNCHANGED <<userVars, visitVars, mailVars, appVars, wallet>>

\* POST /v5/auth/login, up to the check: the row is read before it.
LoginBegins(h, a, p) ==
    /\ Waits(h, [doing |-> "login", user |-> a, typed |-> p, hash |-> password[a],
                 held |-> a \in withheld, late |-> FALSE])
    /\ UNCHANGED <<userVars, visitVars, mailVars, appVars, wallet>>

Accepted(t) == t.typed = t.hash /\ ~t.held

\* ... and after it: by the row as it was read.
LoggedIn(h, v) ==
    /\ at[h].doing = "login" /\ Accepted(at[h])
    /\ Opens(v, at[h].user, at[h].typed, at[h].late, 1)
    /\ Ends(h)
    /\ UNCHANGED <<userVars, mailVars, appVars, wallet>>

LoginRefused(h) ==
    /\ at[h].doing = "login" /\ ~Accepted(at[h])
    /\ Ends(h)
    /\ UNCHANGED <<userVars, visitVars, mailVars, appVars, wallet>>

\* Mutant: the presented token stays valid.
RefreshReusably(v, g) ==
    /\ g \in live[v] /\ visit[v].user \notin withheld /\ issued[v] < Rotations
    /\ issued' = [issued EXCEPT ![v] = @ + 1]
    /\ live' = [live EXCEPT ![v] = @ \union {issued'[v]}]
    /\ UNCHANGED <<userVars, visit, cookie, mailVars, appVars, at, wallet>>

\* POST /v5/auth/refresh: the token is revoked and followed by a new one.
Refresh(v, g) ==
    /\ g \in live[v] /\ visit[v].user \notin withheld /\ issued[v] < Rotations
    /\ issued' = [issued EXCEPT ![v] = @ + 1]
    /\ live' = [live EXCEPT ![v] = (@ \ {g}) \union {issued'[v]}]
    /\ UNCHANGED <<userVars, visit, cookie, mailVars, appVars, at, wallet>>

\* A withheld account's token is revoked and nothing follows; or it expires.
TokenEnds(v, g) ==
    /\ g \in live[v]
    /\ live' = [live EXCEPT ![v] = @ \ {g}]
    /\ UNCHANGED <<userVars, visit, cookie, issued, mailVars, appVars, at, wallet>>

\* POST /v5/auth/logout, a session that expires, or resolveSession of a withheld
\* account: the row goes.
SessionEnds(v) ==
    /\ v \in cookie
    /\ cookie' = cookie \ {v}
    /\ UNCHANGED <<userVars, visit, live, issued, mailVars, appVars, at, wallet>>

-----------------------------------------------------------------------------

\* POST /v5/auth/password/forgot: the newest link closes the ones before it.
Forgot(a, l) ==
    /\ mail /\ password[a] # Nothing /\ link[l] = Nothing
    /\ link' = [k \in Link |->
                  IF k = l THEN [user |-> a, open |-> TRUE]
                  ELSE IF link[k] # Nothing /\ link[k].user = a THEN [link[k] EXCEPT !.open = FALSE]
                  ELSE link[k]]
    /\ UNCHANGED <<userVars, visitVars, mail, mailed, appVars, at, wallet>>

LinkExpires(l) ==
    /\ link[l] # Nothing /\ link[l].open
    /\ link' = [link EXCEPT ![l].open = FALSE]
    /\ UNCHANGED <<userVars, visitVars, mail, mailed, appVars, at, wallet>>

\* POST /v5/auth/password/reset, up to the hash: the link must be open.
ResetBegins(h, l, p) ==
    /\ link[l] # Nothing /\ link[l].open
    /\ Waits(h, [doing |-> "reset", user |-> link[l].user, typed |-> p, link |-> l])
    /\ UNCHANGED <<userVars, visitVars, mailVars, appVars, wallet>>

\* Mutant: the refresh tokens outlive the password.
ResetSessionsOnly(h) ==
    /\ at[h].doing = "reset"
    /\ password' = [password EXCEPT ![at[h].user] = at[h].typed]
    /\ verified' = verified \union {at[h].user}
    /\ link' = [link EXCEPT ![at[h].link].open = FALSE]
    /\ cookie' = cookie \ VisitsOf(at[h].user)
    /\ at' = [Overtaken(at[h].user) EXCEPT ![h] = Idle]
    /\ UNCHANGED <<withheld, visit, live, issued, mail, mailed, appVars, wallet>>

\* ... and after it, whatever became of the link meanwhile: password, link,
\* sessions and tokens in one transaction.
Reset(h) ==
    /\ at[h].doing = "reset"
    /\ password' = [password EXCEPT ![at[h].user] = at[h].typed]
    /\ verified' = verified \union {at[h].user}
    /\ link' = [link EXCEPT ![at[h].link].open = FALSE]
    /\ Closes(at[h].user)
    /\ at' = [Overtaken(at[h].user) EXCEPT ![h] = Idle]
    /\ UNCHANGED <<withheld, mail, mailed, appVars, wallet>>

\* POST /v5/auth/verify-email with a link that has not expired.
VerifyEmail(a) ==
    /\ a \in mailed
    /\ verified' = verified \union {a}
    /\ UNCHANGED <<password, withheld, visitVars, mailVars, appVars, at, wallet>>

\* POST /v5/auth/verify-email/resend
Resend(v, a) ==
    /\ SignedIn(v, a) /\ mail /\ a \notin verified
    /\ mailed' = mailed \union {a}
    /\ UNCHANGED <<userVars, visitVars, mail, link, appVars, at, wallet>>

VerifyExpires(a) ==
    /\ a \in mailed
    /\ mailed' = mailed \ {a}
    /\ UNCHANGED <<userVars, visitVars, mail, link, appVars, at, wallet>>

\* PUT /v5/admin/mail-config: once there is a row it is only replaced.
ConfigureMail ==
    /\ ~mail /\ mail' = TRUE
    /\ UNCHANGED <<userVars, visitVars, link, mailed, appVars, at, wallet>>

\* POST /v5/admin/users/:id/disable and enable
Withhold(a) ==
    /\ password[a] # Nothing
    /\ withheld' = withheld \union {a}
    /\ Closes(a)
    /\ at' = Overtaken(a)
    /\ UNCHANGED <<password, verified, mailVars, appVars, wallet>>

Lift(a) ==
    /\ a \in withheld
    /\ withheld' = withheld \ {a}
    /\ UNCHANGED <<password, verified, visitVars, mailVars, appVars, at, wallet>>

-----------------------------------------------------------------------------

\* Mutant: the mark is not set on a row that is there.
TrialUnmarked(w) ==
    IF w.row /\ w.marked THEN w ELSE [row |-> TRUE, marked |-> ~w.row, trials |-> w.trials + 1]

\* The wallet's trial, with the first company of the account.
Trial(w) == IF w.row /\ w.marked THEN w ELSE [row |-> TRUE, marked |-> TRUE, trials |-> w.trials + 1]

\* POST /v5/auth/apps and companies: a company with its app, and the trial.
Provision(v, a, x) ==
    /\ SignedIn(v, a) /\ (mail => a \in verified)
    /\ owner[x] = Nothing
    /\ owner' = [owner EXCEPT ![x] = a]
    /\ company' = company \union {x}
    /\ wallet' = [wallet EXCEPT ![a] = Trial(@)]
    /\ UNCHANGED <<userVars, visitVars, mailVars, off, revoked, at>>

\* A credit purchase is awarded to the wallet, whose row it may create.
Buy(a) ==
    /\ password[a] # Nothing /\ ~wallet[a].row
    /\ wallet' = [wallet EXCEPT ![a].row = TRUE]
    /\ UNCHANGED <<userVars, visitVars, mailVars, appVars, at>>

\* POST /v5/apps/register and /v5/admin/apps: an app of the operator's.
OperatorRegisters(x) ==
    /\ owner[x] = Nothing
    /\ owner' = [owner EXCEPT ![x] = "none"]
    /\ UNCHANGED <<userVars, visitVars, mailVars, company, off, revoked, at, wallet>>

\* POST /v5/auth/apps/link: only an app nobody owns can be claimed.
LinkApp(v, a, x) ==
    /\ SignedIn(v, a) /\ owner[x] = "none" /\ x \notin revoked
    /\ owner' = [owner EXCEPT ![x] = a]
    /\ UNCHANGED <<userVars, visitVars, mailVars, company, off, revoked, at, wallet>>

\* POST /v5/auth/companies/:id/disable
DisableCompany(v, a, x) ==
    /\ SignedIn(v, a) /\ x \in company /\ owner[x] = a
    /\ off' = off \union {x}
    /\ UNCHANGED <<userVars, visitVars, mailVars, owner, company, revoked, at, wallet>>

\* POST /v5/admin/apps/:id/revoke (and the holder's own), and unrevoke
RevokeApp(x) ==
    /\ owner[x] # Nothing /\ x \notin revoked
    /\ revoked' = revoked \union {x}
    /\ UNCHANGED <<userVars, visitVars, mailVars, owner, company, off, at, wallet>>

UnrevokeApp(x) ==
    /\ x \in revoked
    /\ revoked' = revoked \ {x}
    /\ UNCHANGED <<userVars, visitVars, mailVars, owner, company, off, at, wallet>>

\* requireApp: the app's own requests are let through.
Served(x) ==
    /\ owner[x] # Nothing /\ x \notin revoked /\ x \notin off
    /\ owner[x] \in Account => owner[x] \notin withheld /\ (mail => owner[x] \in verified)

-----------------------------------------------------------------------------

SignInStep(h) ==
    \/ \E a \in Account, p \in Password : RegisterBegins(h, a, p) \/ LoginBegins(h, a, p)
    \/ \E v \in Visit : Registered(h, v) \/ LoggedIn(h, v)
    \/ RegisterClashes(h) \/ LoginRefused(h)
    \/ \E l \in Link, p \in Password : ResetBegins(h, l, p)
    \/ Reset(h)

VisitStep(v) ==
    \/ \E g \in 1..Rotations : Refresh(v, g) \/ TokenEnds(v, g)
    \/ SessionEnds(v)
    \/ \E a \in Account : Resend(v, a)
    \/ \E a \in Account, x \in App : Provision(v, a, x) \/ LinkApp(v, a, x) \/ DisableCompany(v, a, x)

AccountStep(a) ==
    \/ \E l \in Link : Forgot(a, l)
    \/ VerifyEmail(a) \/ VerifyExpires(a) \/ Withhold(a) \/ Lift(a) \/ Buy(a)

OperatorStep ==
    \/ ConfigureMail
    \/ \E x \in App : OperatorRegisters(x) \/ RevokeApp(x) \/ UnrevokeApp(x)

AccountsNext ==
    \/ \E h \in Handler : SignInStep(h)
    \/ \E v \in Visit : VisitStep(v)
    \/ \E a \in Account : AccountStep(a)
    \/ \E l \in Link : LinkExpires(l)
    \/ OperatorStep

AccountsSpec == AccountsInit /\ [][AccountsNext]_accountsVars

-----------------------------------------------------------------------------

\* A reset and a withholding end every visit of the account: a session or a
\* refresh token that is left began with the password the account has now, and
\* the account is not withheld, unless its sign-in was overtaken (auth.ts:1044-1058,
\* admin-users.ts:110-126).
VisitsAreCurrent ==
    \A v \in Visit : v \in cookie \/ live[v] # {} =>
        \/ visit[v].late
        \/ visit[v].with = password[visit[v].user] /\ visit[v].user \notin withheld

\* Of the refresh tokens that follow one sign-in at most the newest is good,
\* whatever order the requests of several tabs arrive in (auth.ts:278-307).
OnlyTheNewestToken == \A v \in Visit : live[v] \subseteq {issued[v]}

\* However often a reset is asked for, one link of an account works
\* (auth.ts:985-993).
OnlyTheNewestLink ==
    \A k, l \in Link :
        /\ link[k] # Nothing /\ link[l] # Nothing
        /\ link[k].open /\ link[l].open /\ link[k].user = link[l].user
        => k = l

\* Whatever was given for a while is replaced by the next of its kind.
OnlyTheNewest == OnlyTheNewestToken /\ OnlyTheNewestLink

\* An account gets the trial with its first company and never again, whether or
\* not a purchase made its wallet first (auth.ts:424-448).
OneTrial ==
    \A a \in Account :
        wallet[a].trials = IF \E x \in company : owner[x] = a THEN 1 ELSE 0

\* The password of a registered account changes by nothing but a reset: of two
\* registrations that overlap on one address the second changes nothing
\* (auth.ts:180-189).
OnlyResetsRekey ==
    [][\A a \in Account :
          password[a] # Nothing /\ password'[a] # password[a]
          => \E h \in Handler : at[h].doing = "reset" /\ at[h].user = a /\ at'[h] = Idle
      ]_accountsVars

\* Of two accounts that claim an app one gets it, and keeps it (auth.ts:855-867).
OwnersStay ==
    [][\A x \in App : owner[x] \in Account => owner'[x] = owner[x]]_accountsVars
=============================================================================
