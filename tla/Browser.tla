------------------------------- MODULE Browser -------------------------------
(***************************************************************************)
(* One tab of a browser: web-v5/src (App.tsx, api/index.ts and the screens *)
(* Login, Apps, LinkApp, VerifyEmail, ResetPassword, Operator) or          *)
(* dashboard/src (App.tsx, auth.ts, api.ts, AuthScreens, ConnectAppScreen, *)
(* OperatorScreen).                                                        *)
(*                                                                         *)
(* Three kinds of credentials, each stored in its own place and mirrored   *)
(* in a state of the page: the session (a cookie, or the dashboard's       *)
(* token), the app's keys and the operator's secret.  A request carries    *)
(* what is stored when it is sent; its answer may come after the page has  *)
(* turned to something else, or never.                                     *)
(*                                                                         *)
(* A visit is a session with the account it is for: visit n was opened by  *)
(* the n-th form that was sent, visit 0 in an earlier tab.                 *)
(***************************************************************************)
EXTENDS Integers, FiniteSets

CONSTANTS
    Site,     \* "web", "dashboard"
    App,      \* apps
    Secret,   \* operator secrets
    MaxForms, \* bound: forms sent
    Absent    \* no app or secret

ASSUME BrowserAssumption ==
    /\ Site \subseteq {"web", "dashboard"} /\ MaxForms \in Nat
    /\ Secret # {} /\ Absent \notin App \union Secret

VARIABLES
    site,       \* the site the tab shows
    jar,        \* the visit of the browser's cookie or token
    keys,       \* the app whose credentials the tab stores
    secret,     \* the operator secret the tab stores
    user,       \* the page: the visit it takes to be signed in
    wallet,     \* the page: whose balance the top bar shows
    connected,  \* the page: whether it takes an app to be connected
    unlocked,   \* the page: whether the operator's panels are open
    fresh,      \* the page: the app just made, whose secret is shown
    section,    \* the page: where the address, or the dashboard's tab, points
    valid,      \* the server: visits that have a session
    works,      \* the server: apps whose credentials are accepted
    opens,      \* the server: the operator secret it accepts
    underway,   \* the requests under way, served or not
    forms,      \* how many forms were sent
    left,       \* history: no app was connected since the last Sign out
    late,       \* history: but for one whose link was sent before
    mixed,    \* history: the page took up an answer about another visit than the cookie's
    wiped       \* history: an unlock of an earlier screen failed meanwhile

pageVars == <<user, connected, unlocked, fresh, section>>
serverVars == <<valid, works, opens>>
storeVars == <<jar, keys, secret>>
noteVars == <<left, late, mixed, wiped>>
browserVars == <<site, storeVars, pageVars, wallet, serverVars, underway, forms, noteVars>>

Visit == 0..MaxForms
Nobody == -1
Unknown == -2   \* before the first answer about it

Web == site = "web"

\* The addresses that are gated alike are one: "buy" is as "link" is.
Section == IF Web THEN {"none", "login", "apps", "link", "app", "operator", "public"}
           ELSE {"login", "app", "operator"}

What == {"me", "wallet", "logout", "login", "link", "connect", "create", "verify", "reset",
         "use", "unlock", "operate"}

BrowserTypeOK ==
    /\ site \in Site /\ jar \in Visit \union {Nobody} /\ keys \in App \union {Absent}
    /\ secret \in Secret \union {Absent} /\ user \in Visit \union {Nobody, Unknown}
    /\ wallet \in Visit \union {Nobody} /\ fresh \in App \union {Absent} /\ section \in Section
    /\ {connected, unlocked, left, late, mixed, wiped} \subseteq BOOLEAN
    /\ valid \subseteq Visit /\ works \subseteq App /\ opens \in Secret /\ forms \in 0..MaxForms
    /\ underway \subseteq [n : 0..MaxForms, what : What, as : Visit \union {Nobody},
                       arg : Visit \union App \union Secret \union {Absent},
                       home : BOOLEAN, old : BOOLEAN, answer : {"none", "ok", "no", "lost"}]

\* home: whether what asked is still on the page.  old: of a link, whether Sign out came after.
Carries(n, what, as, arg, home) ==
    [n |-> n, what |-> what, as |-> as, arg |-> arg, home |-> home, old |-> FALSE,
     answer |-> "none"]

\* A request without a form: the cookie is all it has.
Plain(what, as) == Carries(0, what, as, Absent, what = "wallet")

-----------------------------------------------------------------------------
(* What is shown                                                            *)

\* The web's screen for an address.
WebScreen(s, u, c) ==
    IF s \in {"operator", "public"} THEN s
    ELSE IF u = Unknown /\ s # "login" THEN "loading"
    ELSE IF s \in {"login", "none"} \/ u = Nobody THEN "login"
    ELSE IF s = "app" /\ ~c THEN "login" ELSE s

\* The dashboard's.
DashboardScreen(s, u, c) ==
    IF u = Nobody THEN "login" ELSE IF ~c THEN "connect" ELSE s

ScreenOf(s, u, c) == IF Web THEN WebScreen(s, u, c) ELSE DashboardScreen(s, u, c)
Showing == ScreenOf(section, user, connected)

\* Where the web's address is moved to.
Gate(s) ==
    IF s \in {"operator", "public"} THEN s
    ELSE IF s = "login" THEN (IF connected THEN "app" ELSE s)
    ELSE IF user = Unknown THEN (IF s = "none" THEN "login" ELSE s)
    ELSE IF user = Nobody THEN "login"
    ELSE IF s = "none" THEN (IF connected THEN "app" ELSE "apps")
    ELSE IF s = "app" /\ ~connected THEN "apps" ELSE s

\* The page is drawn anew.  A screen that goes takes its state with it; the
\* operator's begins with what is stored.
Draw(s, u, c, open, new, requests) ==
    LET next  == ScreenOf(s, u, c)
        stays == next = Showing
    IN  /\ section' = s /\ user' = u /\ connected' = c
        /\ fresh' = (IF stays THEN new ELSE Absent)
        /\ unlocked' = (IF stays THEN open ELSE next = "operator" /\ secret' # Absent)
        /\ wiped' = (wiped /\ stays)
        /\ underway' = {IF stays \/ q.what = "wallet" THEN q ELSE [q EXCEPT !.home = FALSE]
                    : q \in requests}

\* The three stores.
Token(v) == jar' = v
Keys(a) == keys' = a
OperatorSecret(x) == secret' = x

\* As before but for the address, the user and the connection.
Turn(s, u, c, requests) == Draw(s, u, c, unlocked, fresh, requests)

\* Mutant: they are waited for.
WaitsOn(requests) == requests

\* Loads of the balance that were for another user are not waited for.
Dismiss(requests) ==
    {IF q.what = "wallet" THEN [q EXCEPT !.home = FALSE] ELSE q : q \in requests}

\* Another user, or none: his balance is asked for.
Wallet(u, requests) ==
    /\ wallet' = (IF u \in Visit THEN wallet ELSE Nobody)
    /\ mixed' = (u \in Visit /\ u # jar)
    /\ Turn(section, u, connected,
            Dismiss(requests) \union (IF u \in Visit THEN {Plain("wallet", jar)} ELSE {}))

-----------------------------------------------------------------------------
(* The server                                                               *)

\* What a request is answered, and what it does to the sessions and apps.
Replies(q) ==
    CASE q.what = "login" -> {"ok", "no"}
      [] q.what \in {"me", "wallet"} -> {IF q.as \in valid THEN "ok" ELSE "no"}
      [] q.what \in {"link", "create"} -> IF q.as \in valid THEN {"ok", "lost"} ELSE {"no"}
      [] q.what \in {"connect", "use"} -> {IF q.arg \in works THEN "ok" ELSE "no"}
      [] q.what \in {"unlock", "operate"} -> {IF q.arg = opens THEN "ok" ELSE "no"}
      [] OTHER -> {"ok"}

Sessions(q) ==
    CASE q.what = "login" -> valid \union {q.n}
      [] q.what = "logout" -> valid \ {q.as}
      [] q.what = "reset" -> valid \ {q.arg}
      [] OTHER -> valid

ServeIt(q) ==
    /\ q.answer = "none"
    /\ \E a \in Replies(q) :
           /\ underway' = (underway \ {q}) \union {[q EXCEPT !.answer = a]}
           /\ valid' = (IF a = "ok" THEN Sessions(q) ELSE valid)
           /\ works' = (IF a = "ok" /\ q.what = "create" THEN works \union {q.arg} ELSE works)
    /\ UNCHANGED <<site, storeVars, pageVars, wallet, opens, forms, noteVars>>

\* A request, or its answer, is lost: the page is told so.
Drop(q) ==
    /\ q.answer \in {"none", "ok"}
    /\ underway' = (underway \ {q}) \union {[q EXCEPT !.answer = "lost"]}
    /\ UNCHANGED <<site, storeVars, pageVars, wallet, serverVars, forms, noteVars>>

\* A session expires, or is ended from elsewhere.
Expire(v) ==
    /\ v \in valid /\ valid' = valid \ {v}
    /\ UNCHANGED <<site, storeVars, pageVars, wallet, works, opens, underway, forms, noteVars>>

\* An app is revoked.
Withdraw(a) ==
    /\ a \in works /\ works' = works \ {a}
    /\ UNCHANGED <<site, storeVars, pageVars, wallet, valid, opens, underway, forms, noteVars>>

\* The operator secret is rotated.
Rotate(x) ==
    /\ x # opens /\ opens' = x
    /\ UNCHANGED <<site, storeVars, pageVars, wallet, valid, works, underway, forms, noteVars>>

-----------------------------------------------------------------------------
(* The user                                                                 *)

\* A button waits for the answer to its own form.
Form(what, arg) ==
    /\ forms < MaxForms /\ forms' = forms + 1
    /\ ~\E q \in underway : q.what = what /\ q.home
    /\ underway' = underway \union {Carries(forms + 1, what, jar, arg, TRUE)}

\* Sign in, or register and be signed in.
LogIn ==
    /\ Showing = "login" /\ (Web => section = "login" \/ user = Nobody)
    /\ Form("login", Absent)
    /\ UNCHANGED <<site, storeVars, pageVars, wallet, serverVars, noteVars>>

\* The web's Sign out: the server is told, and everything of the visit goes.
WebSignOut ==
    /\ Web /\ (user \in Visit \/ connected)
    /\ Keys(Absent) /\ wallet' = Nobody /\ left' = TRUE /\ late' = FALSE
    /\ UNCHANGED <<site, jar, secret, serverVars, forms, mixed>>
    /\ Turn("login", Nobody, FALSE,
            {[q EXCEPT !.old = q.what = "link"] : q \in Dismiss(underway)} \union {Plain("logout", jar)})

\* The dashboard's: the token goes, the app's keys stay.
SignOut ==
    /\ ~Web /\ user # Nobody /\ Token(Nobody)
    /\ UNCHANGED <<site, keys, secret, wallet, serverVars, forms, left, late, mixed>>
    /\ Turn("login", Nobody, FALSE, underway)

\* Another address is opened, or another tab of the dashboard.
Visits(s) ==
    /\ s \notin {section, "none"} /\ (~Web => s # "login" /\ Showing \in {"app", "operator"})
    /\ UNCHANGED <<site, storeVars, wallet, serverVars, forms, left, late, mixed>>
    /\ Turn(s, user, connected, underway)

\* The web's shell moves the address on.
Redirect ==
    /\ Web /\ Gate(section) # section
    /\ UNCHANGED <<site, storeVars, wallet, serverVars, forms, left, late, mixed>>
    /\ Turn(Gate(section), user, connected, underway)

\* The page is loaded again: what was under way is forgotten.
LoadPage ==
    /\ section' = (IF Web THEN section ELSE IF jar # Nobody THEN "app" ELSE "login")
    /\ user' = (IF Web THEN Unknown ELSE jar) /\ connected' = (keys # Absent)
    /\ wallet' = Nobody /\ fresh' = Absent /\ wiped' = FALSE /\ mixed' = FALSE
    /\ unlocked' = (Web /\ section = "operator" /\ secret # Absent)
    /\ underway' = (IF Web THEN {Plain("me", jar)} ELSE {})
    /\ UNCHANGED <<site, storeVars, serverVars, forms, left, late>>

\* Open: the app of the tab, or else the screen that asks for its secret.
Open(a) ==
    /\ Web /\ Showing = "apps"
    /\ UNCHANGED <<site, storeVars, wallet, serverVars, forms, left, late, mixed>>
    /\ IF keys = a THEN Turn("app", user, TRUE, underway) ELSE Turn("link", user, connected, underway)

\* Create a company, with an app of its own.
Create(a) ==
    /\ Web /\ Showing = "apps" /\ a \notin works /\ Form("create", a)
    /\ UNCHANGED <<site, storeVars, pageVars, wallet, serverVars, noteVars>>

\* The new secret was noted down: its app is connected.
Acknowledge ==
    /\ Web /\ Showing = "apps" /\ fresh # Absent
    /\ Keys(fresh) /\ left' = FALSE /\ late' = FALSE
    /\ UNCHANGED <<site, jar, secret, wallet, serverVars, forms, mixed>>
    /\ Turn("app", user, TRUE, underway)

\* Link an app by its credentials.
Link(a) ==
    /\ Web /\ Showing = "link" /\ Form("link", a)
    /\ UNCHANGED <<site, storeVars, pageVars, wallet, serverVars, noteVars>>

\* Connect an app by its credentials.
Connect(a) ==
    /\ ~Web /\ Showing = "connect" /\ Form("connect", a)
    /\ UNCHANGED <<site, storeVars, pageVars, wallet, serverVars, noteVars>>

\* A link of a mail: the address is verified, or the password set anew.
Verify ==
    /\ Web /\ Showing = "public" /\ Form("verify", Absent)
    /\ UNCHANGED <<site, storeVars, pageVars, wallet, serverVars, noteVars>>

Reset(v) ==
    /\ Web /\ Showing = "public" /\ v \in valid /\ Form("reset", v)
    /\ UNCHANGED <<site, storeVars, pageVars, wallet, serverVars, noteVars>>

\* A screen of the app asks the server something.
Use ==
    /\ Showing = "app" /\ keys # Absent
    /\ underway' = underway \union {Carries(0, "use", Nobody, keys, FALSE)}
    /\ UNCHANGED <<site, storeVars, pageVars, wallet, serverVars, forms, noteVars>>

\* The operator's secret is entered.  The web keeps it once it was accepted,
\* the dashboard before.
Unlock(x) ==
    /\ Showing = "operator" /\ ~unlocked /\ Form("unlock", x)
    /\ OperatorSecret(IF Web THEN secret ELSE x)
    /\ UNCHANGED <<site, jar, keys, pageVars, wallet, serverVars, noteVars>>

\* An operator's panel asks the server something.
Operate ==
    /\ Showing = "operator" /\ unlocked /\ secret # Absent
    /\ underway' = underway \union {Carries(0, "operate", Nobody, secret, FALSE)}
    /\ UNCHANGED <<site, storeVars, pageVars, wallet, serverVars, forms, noteVars>>

Lock ==
    /\ Showing = "operator" /\ unlocked /\ OperatorSecret(Absent)
    /\ UNCHANGED <<site, jar, keys, wallet, serverVars, forms, left, late, mixed>>
    /\ Draw(section, user, connected, FALSE, fresh, underway)

-----------------------------------------------------------------------------
(* An answer comes                                                          *)

\* GET me: the user, or nobody.
Me(q) ==
    /\ q.what = "me"
    /\ UNCHANGED <<site, storeVars, serverVars, forms, left, late>>
    /\ Wallet(IF q.answer = "ok" THEN q.as ELSE Nobody, underway \ {q})

\* The balance, if it is still waited for.
Balance(q) ==
    /\ q.what = "wallet"
    /\ wallet' = (IF ~q.home THEN wallet ELSE IF q.answer = "ok" THEN q.as ELSE Nobody)
    /\ underway' = underway \ {q}
    /\ UNCHANGED <<site, storeVars, pageVars, serverVars, forms, noteVars>>

\* Signed out: the cookie goes, whichever it is by now.
LoggedOut(q) ==
    /\ q.what = "logout" /\ Token(IF q.answer = "ok" THEN Nobody ELSE jar)
    /\ underway' = underway \ {q}
    /\ UNCHANGED <<site, keys, secret, pageVars, wallet, serverVars, forms, noteVars>>

\* Signed in: the web asks who it is, the dashboard takes the token's word.
SignedIn(q) ==
    /\ q.what = "login" /\ q.answer = "ok" /\ Token(q.n)
    /\ UNCHANGED <<site, keys, secret, wallet, serverVars, forms, left, late, mixed>>
    /\ IF Web THEN Turn("apps", user, connected, (underway \ {q}) \union {Plain("me", q.n)})
       ELSE Turn(IF section = "login" THEN "app" ELSE section, q.n, keys # Absent, underway \ {q})

\* Linked, or connected: the keys are stored and the app is opened.
Linked(q) ==
    /\ q.what \in {"link", "connect"} /\ q.answer = "ok" /\ Keys(q.arg)
    /\ left' = (left /\ q.old) /\ late' = q.old
    /\ UNCHANGED <<site, jar, secret, wallet, serverVars, forms, mixed>>
    /\ Turn("app", user, TRUE, underway \ {q})

\* Created: the secret is shown, if the screen is there to show it.
Made(q) ==
    /\ q.what = "create" /\ q.answer = "ok"
    /\ UNCHANGED <<site, storeVars, wallet, serverVars, forms, left, late, mixed>>
    /\ Draw(section, user, connected, unlocked, IF q.home THEN q.arg ELSE fresh, underway \ {q})

\* Verified: the page asks again who is signed in.
Verified(q) ==
    /\ q.what = "verify" /\ q.answer = "ok"
    /\ underway' = (underway \ {q}) \union {Plain("me", jar)}
    /\ UNCHANGED <<site, storeVars, pageVars, wallet, serverVars, forms, noteVars>>

\* Mutant: the page is not told.
RefusedSilently(q) ==
    /\ q.what = "use" /\ q.answer = "no" /\ Keys(Absent)
    /\ UNCHANGED <<site, jar, secret, wallet, serverVars, forms, left, late, mixed>>
    /\ Turn(section, user, connected, underway \ {q})

\* A screen of the app was refused: the keys go, and the page is told.
Refused(q) ==
    /\ q.what = "use" /\ q.answer = "no" /\ Keys(Absent)
    /\ UNCHANGED <<site, jar, secret, wallet, serverVars, forms, left, late, mixed>>
    /\ Turn(section, user, FALSE, underway \ {q})

\* The secret was accepted.
Unlocked(q) ==
    /\ q.what = "unlock" /\ q.answer = "ok" /\ OperatorSecret(IF Web THEN q.arg ELSE secret)
    /\ UNCHANGED <<site, jar, keys, wallet, serverVars, forms, left, late, mixed>>
    /\ Draw(section, user, connected, unlocked \/ q.home, fresh, underway \ {q})

\* The page is told that the operator's secret was refused: the web asks for it
\* again, the dashboard leaves the screen.
Rejected(q) ==
    /\ \/ q.what = "operate" /\ q.answer = "no"
       \/ ~Web /\ q.what = "unlock" /\ q.answer = "no"
    /\ OperatorSecret(Absent)
    /\ UNCHANGED <<site, jar, keys, wallet, serverVars, forms, left, late, mixed>>
    /\ Draw(IF ~Web /\ section = "operator" THEN "app" ELSE section, user, connected,
            FALSE, fresh, underway \ {q})

\* The dashboard could not ask: the secret it kept goes.
Unreached(q) ==
    /\ ~Web /\ q.what = "unlock" /\ q.answer = "lost" /\ OperatorSecret(Absent)
    /\ wiped' = (wiped \/ ~q.home)
    /\ underway' = underway \ {q}
    /\ UNCHANGED <<site, jar, keys, pageVars, wallet, serverVars, forms, left, late, mixed>>

\* Any other answer is at most an error on the screen that asked.
Shrug(q) ==
    /\ \/ q.what \in {"login", "link", "connect", "create", "verify"} /\ q.answer # "ok"
       \/ q.what = "reset"
       \/ q.what \in {"use", "operate"} /\ q.answer # "no"
       \/ Web /\ q.what = "unlock" /\ q.answer # "ok"
    /\ underway' = underway \ {q}
    /\ UNCHANGED <<site, storeVars, pageVars, wallet, serverVars, forms, noteVars>>

Reads(q) ==
    /\ q.answer # "none"
    /\ \/ Me(q) \/ Balance(q) \/ LoggedOut(q) \/ SignedIn(q) \/ Linked(q) \/ Made(q)
       \/ Verified(q) \/ Refused(q) \/ Unlocked(q) \/ Rejected(q) \/ Unreached(q) \/ Shrug(q)

-----------------------------------------------------------------------------
\* A tab is opened, afresh or as the copy of another.
BrowserInit ==
    /\ site \in Site /\ jar \in {Nobody, 0} /\ keys \in App \union {Absent} /\ secret = Absent
    /\ section \in (IF Web THEN Section ELSE {IF jar = Nobody THEN "login" ELSE "app"})
    /\ user = (IF Web THEN Unknown ELSE jar) /\ wallet = Nobody
    /\ connected = (keys # Absent) /\ unlocked = FALSE /\ fresh = Absent
    /\ valid = {0} /\ works = App /\ opens = (CHOOSE x \in Secret : TRUE)
    /\ underway = (IF Web THEN {Plain("me", jar)} ELSE {}) /\ forms = 0
    /\ left = FALSE /\ late = FALSE /\ mixed = FALSE /\ wiped = FALSE

BrowserNext ==
    \/ \E q \in underway : ServeIt(q) \/ Drop(q) \/ Reads(q)
    \/ \E v \in Visit : Expire(v) \/ Reset(v)
    \/ \E a \in App : Withdraw(a) \/ Open(a) \/ Create(a) \/ Link(a) \/ Connect(a)
    \/ \E x \in Secret : Rotate(x) \/ Unlock(x)
    \/ \E s \in Section : Visits(s)
    \/ LogIn \/ WebSignOut \/ SignOut \/ Redirect \/ LoadPage \/ Acknowledge \/ Verify
    \/ Use \/ Operate \/ Lock

BrowserSpec == BrowserInit /\ [][BrowserNext]_browserVars

-----------------------------------------------------------------------------
(* Stored credentials and their mirrors in the page change by different    *)
(* writes, some of them made by answers to a screen that is gone.  A page  *)
(* that takes an app to be connected has its keys, the web's even          *)
(* conversely, and open operator's panels have a secret to ask with,       *)
(* unless an unlock of an earlier screen failed meanwhile.                 *)
ScreensHaveKeys ==
    /\ connected => keys # Absent
    /\ Web => (keys # Absent => connected)
    /\ unlocked => secret # Absent \/ wiped

(* What one visit leaves is not the next one's: after Sign out the web's   *)
(* tab holds no app's keys until an app is linked, made or opened anew,    *)
(* but for a link sent before; and the balance in the top bar is that of   *)
(* the user beside it, however the loads overlap, unless it is being       *)
(* loaded, or the cookie had changed when the user was answered.           *)
NothingIsLeft ==
    /\ left /\ keys # Absent => late
    /\ wallet # Nobody /\ user \in Visit /\ ~mixed =>
           wallet = user \/ \E q \in underway : q.what = "wallet" /\ q.home
=============================================================================
