--------------------------------- MODULE Fleet ---------------------------------
(***************************************************************************)
(* A gateway phone joins a deployment and keeps its number there: the      *)
(* first-launch wizard, the settings, the reset and the background         *)
(* enrolment of authenticator-app (MainActivity.kt, V5ApiClient.kt,        *)
(* AuthenticatorService.kt, EncryptedPrefsHelper.kt) over the device       *)
(* routes of server/src/routes/device.ts.                                  *)
(*                                                                         *)
(* The server's rows are permanent: a revoked phone's row keeps its        *)
(* number.  The phone's screen is destroyed and made anew at any time, and *)
(* takes with it what it was waiting for.  Plan slots are in Plans; here   *)
(* the server may refuse an enrolment on their account.                    *)
(***************************************************************************)
EXTENDS Integers, FiniteSets

CONSTANTS
    Phone, Number,
    MaxRow,     \* bound: rows of devices
    Call,       \* bound: requests under way
    MaxSecret,  \* bound: enrolment secrets the app has had
    MaxStep,    \* bound: requests made
    Nobody      \* no row, number, secret or request

Global == 0     \* DEVICE_ENROLLMENT_SECRET
Row == 1..MaxRow

\* A row of devices; by: history, the phone that made it.
Enrolled == [number : Number \union {Nobody}, revoked : BOOLEAN, by : Phone]

\* A request: its phone and what it carries, whether the screen still waits for the reply,
\* and the reply, with the row that is given or the one that has the number.
Request == [phone : Phone, kind : {"wizard", "heal", "number"}, secret : 0..MaxSecret \union {Nobody},
            number : Number \union {Nobody}, row : Row \union {Nobody}, waits : BOOLEAN,
            reply : {Nobody, "ok", "clash", "refused"}, with : Row \union {Nobody}]

ASSUME FleetAssumption ==
    /\ MaxSecret \in Nat \ {0} /\ MaxStep \in Nat /\ MaxRow \in Nat
    /\ Nobody \notin Number \union Nat \union {"ok", "clash", "refused"}
    /\ Nobody \notin Enrolled \union Request

VARIABLES
    device,     \* devices
    current,    \* the app's enrolment secret
    key,        \* the phone's device_api_key: its row
    number,     \* the phone's gateway number, shown on its screen
    secret,     \* app_enrollment_secret
    legacy,     \* whether an older build has left the global secret in the phone
    wizard,     \* "closed", "open" or "connecting"
    call,       \* the requests under way
    step,       \* how many there have been
    strays      \* history: what has gone astray between a phone and the server: a reply
                \* dropped, a reset, or replies lost or crossed, or several of these

serverVars == <<device, current>>
prefs == <<key, number, secret, legacy>>
fleetVars == <<serverVars, prefs, wizard, call, step, strays>>

FleetTypeOK ==
    /\ device \in [Row -> Enrolled \union {Nobody}] /\ current \in 1..MaxSecret
    /\ key \in [Phone -> Row \union {Nobody}] /\ number \in [Phone -> Number \union {Nobody}]
    /\ secret \in [Phone -> 1..MaxSecret \union {Nobody}] /\ legacy \in [Phone -> BOOLEAN]
    /\ wizard \in [Phone -> {"closed", "open", "connecting"}]
    /\ call \in [Call -> Request \union {Nobody}] /\ step \in 0..MaxStep
    /\ strays \in [Phone -> {"none", "dropped", "reset", "lost"}]

\* A phone is new, or an older build's that has not enrolled yet.
FleetInit ==
    /\ device = [d \in Row |-> Nobody] /\ current = 1
    /\ key = [p \in Phone |-> Nobody] /\ number = key /\ secret = key
    /\ legacy \in [Phone -> BOOLEAN]
    /\ wizard = [p \in Phone |-> "open"]
    /\ call = [c \in Call |-> Nobody] /\ step = 0
    /\ strays = [p \in Phone |-> "none"]

Under(p) == {c \in Call : call[c] # Nobody /\ call[c].phone = p}
Stray(p, why) == strays' = [strays EXCEPT ![p] = IF @ \in {"none", why} THEN why ELSE "lost"]

Sends(c, p, kind, s, n) ==
    /\ call[c] = Nobody /\ step < MaxStep /\ step' = step + 1
    /\ call' = [call EXCEPT ![c] = [phone |-> p, kind |-> kind, secret |-> s, number |-> n, row |-> key[p],
                                    waits |-> TRUE, reply |-> Nobody, with |-> Nobody]]
    /\ IF Under(p) = {} THEN strays' = strays ELSE Stray(p, "lost")

-----------------------------------------------------------------------------
(* The phone. *)

\* connectGateway: the wizard enrols with what the user typed.
ConnectGateway(p, c, n, s) ==
    /\ wizard[p] = "open" /\ wizard' = [wizard EXCEPT ![p] = "connecting"]
    /\ Sends(c, p, "wizard", s, n)
    /\ UNCHANGED <<serverVars, prefs>>

\* selectEnrollmentBearer
Bearer(p) == IF secret[p] # Nobody THEN secret[p] ELSE IF legacy[p] THEN Global ELSE Nobody

\* enrollIfNeeded: the service, which starts at boot whether or not the wizard is done,
\* enrols with what is stored; a restarted service runs a second loop.
EnrollIfNeeded(p, c) ==
    /\ key[p] = Nobody /\ Bearer(p) # Nobody
    /\ Sends(c, p, "heal", Bearer(p), number[p])
    /\ UNCHANGED <<serverVars, prefs, wizard>>

Persist(p, n, s) ==
    /\ number' = [number EXCEPT ![p] = n] /\ secret' = [secret EXCEPT ![p] = s]
    /\ UNCHANGED <<key, legacy>>

\* Mutant: save locally, push later.
SaveSettingsFirst(p, c, n, s) ==
    /\ wizard[p] = "closed"
    /\ Persist(p, n, s)
    /\ IF n = Nobody \/ n = number[p] THEN UNCHANGED <<call, step, strays>> ELSE Sends(c, p, "number", s, n)
    /\ UNCHANGED <<serverVars, wizard>>

\* saveSettings: a changed number is saved once the server has taken it.
SaveSettings(p, c, n, s) ==
    /\ wizard[p] = "closed"
    /\ \/ /\ n = Nobody \/ n = number[p] \/ key[p] = Nobody
          /\ Persist(p, n, s) /\ UNCHANGED <<call, step, strays>>
       \/ /\ n # Nobody /\ n # number[p] /\ key[p] # Nobody
          /\ Sends(c, p, "number", s, n) /\ UNCHANGED prefs
    /\ UNCHANGED <<serverVars, wizard>>

\* clearAndRepromptEnrollment: the credentials go, the number stays.
ResetEnrollment(p) ==
    /\ wizard[p] = "closed" /\ wizard' = [wizard EXCEPT ![p] = "open"]
    /\ key' = [key EXCEPT ![p] = Nobody] /\ secret' = [secret EXCEPT ![p] = Nobody]
    /\ legacy' = [legacy EXCEPT ![p] = FALSE]
    /\ Stray(p, "reset")
    /\ UNCHANGED <<serverVars, number, call, step>>

\* The screen is turned, or closed and opened: its coroutines are cancelled, and onCreate
\* asks anew whether the wizard is needed.
OnCreate(p) ==
    LET its == {c \in Under(p) : call[c].kind # "heal" /\ call[c].waits}
    IN /\ wizard' = [wizard EXCEPT ![p] = IF key[p] = Nobody THEN "open" ELSE "closed"]
       /\ call' = [c \in Call |-> IF c \in its THEN [call[c] EXCEPT !.waits = FALSE] ELSE call[c]]
       /\ IF its = {} THEN strays' = strays ELSE Stray(p, "dropped")
       /\ UNCHANGED <<serverVars, prefs, step>>

-----------------------------------------------------------------------------
(* The server. *)

Pending(c, kinds) == call[c] # Nobody /\ call[c].kind \in kinds /\ call[c].reply = Nobody

\* The rows that have a number, revoked ones too.
Having(n) == {d \in Row : device[d] # Nobody /\ n # Nobody /\ device[d].number = n}

Replies(c, reply, d) == call' = [call EXCEPT ![c] = [@ EXCEPT !.reply = reply, !.with = d]]

\* POST /v5/device/enroll
Enrolls(c) ==
    LET d == Cardinality({r \in Row : device[r] # Nobody}) + 1
    IN /\ Pending(c, {"wizard", "heal"}) /\ d \in Row
       /\ call[c].secret \in {Global, current} /\ Having(call[c].number) = {}
       /\ device' = [device EXCEPT ![d] = [number |-> call[c].number, revoked |-> FALSE, by |-> call[c].phone]]
       /\ Replies(c, "ok", d)
       /\ UNCHANGED <<current, prefs, wizard, step, strays>>

\* POST /v5/device/phone-number
SetsNumber(c) ==
    LET d == call[c].row
    IN /\ Pending(c, {"number"}) /\ ~device[d].revoked
       /\ Having(call[c].number) \subseteq {d}
       /\ device' = [device EXCEPT ![d].number = call[c].number]
       /\ Replies(c, "ok", d)
       /\ UNCHANGED <<current, prefs, wizard, step, strays>>

\* phone_number_exists
Clashes(c, d) ==
    /\ Pending(c, {"wizard", "heal", "number"})
    /\ d \in Having(call[c].number)
    /\ IF call[c].kind = "number" THEN d # call[c].row /\ ~device[call[c].row].revoked
       ELSE call[c].secret \in {Global, current}
    /\ Replies(c, "clash", d)
    /\ UNCHANGED <<serverVars, prefs, wizard, step, strays>>

\* An old secret, a revoked key, a rate or plan limit.
Refuses(c) ==
    /\ Pending(c, {"wizard", "heal", "number"})
    /\ call[c].kind = "number" => device[call[c].row].revoked
    /\ Replies(c, "refused", Nobody)
    /\ UNCHANGED <<serverVars, prefs, wizard, step, strays>>

\* DELETE /v5/apps/devices/:deviceId, or the operator's revoke.
DeleteDevice(d) ==
    /\ device[d] # Nobody /\ ~device[d].revoked
    /\ device' = [device EXCEPT ![d].revoked = TRUE]
    /\ UNCHANGED <<current, prefs, wizard, call, step, strays>>

RotateDeviceSecret ==
    /\ current < MaxSecret /\ current' = current + 1
    /\ UNCHANGED <<device, prefs, wizard, call, step, strays>>

-----------------------------------------------------------------------------
(* The reply comes, or not. *)

Returns(c, kind, reply) == call[c] # Nobody /\ call[c].kind = kind /\ call[c].waits /\ call[c].reply = reply
Over(c) == call' = [call EXCEPT ![c] = Nobody] /\ step' = step

\* The 201 of the wizard: the credentials are stored, and the setup goes on.
Connected(c) ==
    LET p == call[c].phone
    IN /\ Returns(c, "wizard", "ok") /\ Over(c)
       /\ key' = [key EXCEPT ![p] = call[c].with]
       /\ number' = [number EXCEPT ![p] = call[c].number]
       /\ secret' = [secret EXCEPT ![p] = call[c].secret]
       /\ wizard' = [wizard EXCEPT ![p] = "closed"]
       /\ UNCHANGED <<serverVars, legacy, strays>>

NotConnected(c) ==
    /\ \E reply \in {"clash", "refused"} : Returns(c, "wizard", reply)
    /\ Over(c)
    /\ wizard' = [wizard EXCEPT ![call[c].phone] = "open"]
    /\ UNCHANGED <<serverVars, prefs, strays>>

\* The background enrolment's 201: the key is stored, over any that has come meanwhile.
Healed(c) ==
    /\ Returns(c, "heal", "ok") /\ Over(c)
    /\ key' = [key EXCEPT ![call[c].phone] = call[c].with]
    /\ UNCHANGED <<serverVars, number, secret, legacy, wizard, strays>>

\* persistSettings, once the number is verified.
Verified(c) ==
    /\ Returns(c, "number", "ok") /\ Over(c)
    /\ Persist(call[c].phone, call[c].number, call[c].secret)
    /\ UNCHANGED <<serverVars, wizard, strays>>

\* A rejection is shown, and nothing is stored.
NotVerified(c) ==
    /\ \E kind \in {"number", "heal"}, reply \in {"clash", "refused"} : Returns(c, kind, reply)
    /\ Over(c)
    /\ UNCHANGED <<serverVars, prefs, wizard, strays>>

\* No reply: to the phone the server is unreachable.
Unreachable(c) ==
    LET p == call[c].phone
    IN /\ call[c] # Nobody /\ call[c].waits /\ Over(c)
       /\ wizard' = (IF call[c].kind = "wizard" THEN [wizard EXCEPT ![p] = "open"] ELSE wizard)
       /\ Stray(p, "lost")
       /\ UNCHANGED <<serverVars, prefs>>

\* Nobody waits for it any more.
Dropped(c) ==
    /\ call[c] # Nobody /\ ~call[c].waits /\ Over(c)
    /\ UNCHANGED <<serverVars, prefs, wizard, strays>>

FleetNext ==
    \/ \E p \in Phone :
          \/ ResetEnrollment(p) \/ OnCreate(p)
          \/ \E c \in Call :
                \/ EnrollIfNeeded(p, c)
                \/ \E n \in Number, s \in 1..current : ConnectGateway(p, c, n, s)
                \/ \E n \in Number \union {Nobody}, s \in {secret[p], Nobody} : SaveSettings(p, c, n, s)
    \/ \E c \in Call :
          \/ \E d \in Row : Clashes(c, d)
          \/ Enrolls(c) \/ SetsNumber(c) \/ Refuses(c)
          \/ Connected(c) \/ NotConnected(c) \/ Healed(c) \/ Verified(c) \/ NotVerified(c)
          \/ Unreachable(c) \/ Dropped(c)
    \/ \E d \in Row : DeleteDevice(d)
    \/ RotateDeviceSecret

FleetSpec == FleetInit /\ [][FleetNext]_fleetVars

-----------------------------------------------------------------------------

\* The number a phone shows is the one the server has for it: "an unverifiable number must
\* never reach the prefs" (MainActivity.kt:166), nor a verified one stay behind.  But for a
\* phone whose requests were lost, dropped by its screen, or overlapped.
ShownIsRegistered ==
    \A p \in Phone :
        strays[p] \in {"none", "reset"} /\ Under(p) = {} /\ key[p] # Nobody /\ number[p] # Nobody
        => device[key[p]].number = number[p]

\* A number that is refused as taken is another phone's, and not one the phone itself
\* has registered: whose requests were not lost, dropped or doubled, and which was not
\* reset (device.ts:223-236, 387-396).
ClashIsAnothers ==
    \A c \in Call :
        call[c] # Nobody /\ call[c].reply = "clash" /\ strays[call[c].phone] = "none"
        => device[call[c].with].by # call[c].phone

\* The phone and the server agree on whose number is whose.
NumbersAgree == ShownIsRegistered /\ ClashIsAnothers
=============================================================================
