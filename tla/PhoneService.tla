--------------------------- MODULE PhoneService ---------------------------
(* What keeps the gateway phone's service running, and the legacy plane it carries:    *)
(* AuthenticatorService with its starters (MainActivity, the boot receiver, the        *)
(* keep-alive alarm, the periodic worker, a push), the Firebase sign-in that every     *)
(* start runs again, and PendingSmsListener, which sends the entries of /pending_sms.  *)
(* The v5 messages themselves are Gateway's, the phone's enrolment is Fleet's; here    *)
(* the v5 plane is its loop, started once in a process.                                *)
(*                                                                                     *)
(* A kill ends the process: everything but the alarm, the work and the database's      *)
(* persisted entries.  START_STICKY brings the service back with a null intent, whose  *)
(* `when` starts nothing, so that is no step.  Health pings, the wake lock and the     *)
(* notification are left out.                                                          *)
EXTENDS Naturals, Sequences, FiniteSets, SequencesExt

CONSTANTS
    Session,        \* sessions whose text is handed to /pending_sms
    MaxListener,    \* listener objects that live at a time
    MaxSignIn,      \* sign-ins under way at a time
    MaxJobs,        \* texts in the rate limiter's queue
    MaxPosted       \* database events waiting for the main thread

ASSUME PhoneServiceAssumption ==
    {MaxListener, MaxSignIn, MaxJobs, MaxPosted} \subseteq Nat \ {0} /\ IsFiniteSet(Session)

Listener == 1 .. MaxListener

VARIABLES
    opened,     \* MainActivity.startService has run on this phone
    power,      \* "off", "booting" (BOOT_COMPLETED is still to come) or "on"
    alarm,      \* "none", "once" (exact) or "repeating" (the fallback)
    waking,     \* a receiver has asked for the service and is still to arm the alarm
    cut,        \* the process died in that gap, and nobody has armed it since
    starting,   \* a START_SERVICE intent waits for onStartCommand
    v5Plane,    \* the v5 loop runs in this process
    reachable,  \* the server holds a push token of this phone
    signingIn,  \* sign-ins asking for a token: a refused one asks again, for ever
    switching,  \* signed in, the old listener stopped, the new one still to start
    listening,  \* the service's field: its listener, or 0
    attached,   \* the listeners the database and the radio call
    active,     \* each listener's activeSessions
    posted,     \* events on their way to the listeners: [kind, to, of]
    entries,    \* /pending_sms as this phone sees it
    writing,    \* sessions with an error write the database is still to take up
    jobs,       \* the rate limiter's queue
    reports,    \* sessions whose sent intent the radio still holds
    unheard     \* the entries this phone has not been sent yet

wakeVars == <<opened, power, alarm, waking, cut, starting, v5Plane, reachable>>
signVars == <<signingIn, switching, listening>>
sendVars == <<attached, active, posted, entries, writing, jobs, reports, unheard>>
serviceVars == <<wakeVars, signVars, sendVars>>

Waiting(s) == entries[s] \in {"fresh", "stale"}

PhoneServiceTypeOK ==
    /\ {opened, waking, cut, starting, v5Plane, reachable} \subseteq BOOLEAN
    /\ power \in {"off", "booting", "on"} /\ alarm \in {"none", "once", "repeating"}
    /\ signingIn \in 0 .. MaxSignIn /\ switching \in 0 .. MaxSignIn
    /\ listening \in 0 .. MaxListener /\ attached \subseteq Listener
    /\ active \in [Listener -> SUBSET Session]
    /\ entries \in [Session -> {"absent", "fresh", "stale", "ghost"}]
    /\ writing \subseteq Session /\ reports \subseteq Session /\ unheard \subseteq Session

PhoneServiceInit ==
    /\ opened = FALSE /\ power = "on" /\ alarm = "none" /\ waking = FALSE /\ cut = FALSE
    /\ starting = FALSE /\ v5Plane = FALSE /\ reachable = FALSE
    /\ signingIn = 0 /\ switching = 0 /\ listening = 0
    /\ attached = {} /\ active = [l \in Listener |-> {}] /\ posted = <<>>
    /\ entries = [s \in Session |-> "absent"] /\ writing = {} /\ jobs = <<>>
    /\ reports = {} /\ unheard = Session

-----------------------------------------------------------------------------
(* Starting.                                                                           *)

\* scheduleKeepAlive: exact where the permission allows it, repeating where not.
Armed == {"once", "repeating"}

\* The wizard is through, or the app is opened again: the service is asked for, the
\* alarm armed, the periodic work kept.
OpenApp ==
    /\ power = "on" /\ ~waking
    /\ opened' = TRUE /\ starting' = TRUE /\ alarm' \in Armed /\ cut' = FALSE
    /\ UNCHANGED <<power, waking, v5Plane, reachable, signVars, sendVars>>

\* The alarm fires: an exact one is spent, and the receiver asks for the service.
AlarmFires ==
    /\ power = "on" /\ alarm # "none" /\ ~waking
    /\ alarm' = IF alarm = "once" THEN "none" ELSE alarm
    /\ starting' = TRUE /\ waking' = TRUE
    /\ UNCHANGED <<opened, power, cut, v5Plane, reachable, signVars, sendVars>>

\* BOOT_COMPLETED: the receiver asks for the service; an app never opened is given
\* no such broadcast.
BootCompleted ==
    /\ power = "booting"
    /\ power' = "on" /\ starting' = opened /\ waking' = opened
    /\ UNCHANGED <<opened, alarm, cut, v5Plane, reachable, signVars, sendVars>>

\* Mutant: the receiver only restarts the service.
StartsOnly ==
    /\ waking
    /\ waking' = FALSE
    /\ UNCHANGED <<opened, power, alarm, cut, starting, v5Plane, reachable, signVars,
                   sendVars>>

\* The receiver's second call: the next alarm.
Rearm ==
    /\ waking
    /\ waking' = FALSE /\ alarm' \in Armed /\ cut' = FALSE
    /\ UNCHANGED <<opened, power, starting, v5Plane, reachable, signVars, sendVars>>

\* The periodic worker asks for the service and arms nothing.  A start the system
\* refuses is retried.
WorkerRuns ==
    /\ power = "on" /\ opened
    /\ starting' = TRUE
    /\ UNCHANGED <<opened, power, alarm, waking, cut, v5Plane, reachable, signVars,
                   sendVars>>

\* The server pushes to the newest token it has, best effort: a push that is not
\* sent or lost is a step not taken.
wakeGateway == reachable

\* A push asks for the service; the fetch it also makes is Gateway's.
PushReceived ==
    /\ power = "on" /\ wakeGateway
    /\ starting' = TRUE
    /\ UNCHANGED <<opened, power, alarm, waking, cut, v5Plane, reachable, signVars,
                   sendVars>>

\* A new push token is posted from the messaging service.
NewToken ==
    /\ power = "on" /\ opened
    /\ reachable' = TRUE
    /\ UNCHANGED <<opened, power, alarm, waking, cut, starting, v5Plane, signVars,
                   sendVars>>

\* onStartCommand: every start signs in to Firebase again; the v5 loop starts once.
OnStartCommand ==
    /\ power = "on" /\ starting /\ signingIn < MaxSignIn
    /\ starting' = FALSE
    /\ signingIn' = signingIn + 1
    /\ v5Plane' = TRUE
    /\ UNCHANGED <<opened, power, alarm, waking, cut, reachable, switching, listening,
                   sendVars>>

\* A tick of the v5 loop that reaches the server posts the push token.
V5Tick ==
    /\ v5Plane
    /\ reachable' = TRUE
    /\ UNCHANGED <<opened, power, alarm, waking, cut, starting, v5Plane, signVars,
                   sendVars>>

-----------------------------------------------------------------------------
(* Signing in, and the listener.                                                       *)

\* Numbers nothing speaks of any more.
Free == Listener \ (attached \union {j.by : j \in ToSet(jobs)} \union {e.to : e \in ToSet(posted)})

\* stopPendingSmsListener: the listener the field names, if any.  Events on their way
\* to it are dropped when their turn comes.
SignedIn ==
    /\ signingIn > 0 /\ switching < MaxSignIn
    /\ signingIn' = signingIn - 1 /\ switching' = switching + 1
    /\ listening' = 0
    /\ attached' = attached \ {listening}
    /\ active' = [l \in Listener |-> IF l = listening THEN {} ELSE active[l]]
    /\ UNCHANGED <<wakeVars, posted, entries, writing, jobs, reports, unheard>>

\* What the database tells listener l as it attaches: every entry, as added.
Added(l) ==
    LET present == {s \in Session : entries[s] # "absent"}
    IN  SetToSeq({[kind |-> IF Waiting(s) THEN "added" ELSE "ghost", to |-> l, of |-> s]
                  : s \in present})

\* startPendingSmsListener: a new listener, attached and in the field.  A second
\* sign-in that stopped nothing in between leaves the first one attached for good.
Attach ==
    /\ switching > 0 /\ Free # {}
    /\ LET l == CHOOSE l \in Free : \A k \in Free : l <= k
           told == posted \o Added(l)
       IN  /\ Len(told) <= MaxPosted
           /\ listening' = l /\ attached' = attached \union {l} /\ posted' = told
           /\ active' = [active EXCEPT ![l] = {}]
    /\ switching' = switching - 1
    /\ UNCHANGED <<wakeVars, signingIn, entries, writing, jobs, reports, unheard>>

\* Firebase signs the phone out: the one state listener signs it in again.
SignedOut ==
    /\ listening # 0 /\ signingIn < MaxSignIn
    /\ signingIn' = signingIn + 1
    /\ UNCHANGED <<wakeVars, switching, listening, sendVars>>

-----------------------------------------------------------------------------
(* The entries.                                                                        *)

\* Every attached listener is to hear of s.
ToAll(kind, s) == {[kind |-> kind, to |-> l, of |-> s] : l \in attached}

Tell(kind, s) ==
    LET told == posted \o SetToSeq(ToAll(kind, s))
    IN  Len(told) <= MaxPosted /\ posted' = told

\* The relay's legacy functions put an entry there.
EntryArrives(s) ==
    /\ s \in unheard
    /\ unheard' = unheard \ {s}
    /\ entries' = [entries EXCEPT ![s] = "fresh"]
    /\ Tell("added", s)
    /\ UNCHANGED <<wakeVars, signVars, attached, active, writing, jobs, reports>>

\* Five minutes pass.
EntryAges(s) ==
    /\ entries[s] = "fresh"
    /\ entries' = [entries EXCEPT ![s] = "stale"]
    /\ UNCHANGED <<wakeVars, signVars, attached, active, posted, writing, jobs, reports,
                   unheard>>

\* startTimeoutTracker and sendSms.
Pursue(e) ==
    /\ Len(jobs) < MaxJobs
    /\ active' = [active EXCEPT ![e.to] = @ \union {e.of}]
    /\ jobs' = Append(jobs, [by |-> e.to, of |-> e.of, blank |-> e.kind = "ghost"])
    /\ posted' = Tail(posted)
    /\ UNCHANGED entries

\* removeValue: the phone's own view loses the entry at once, and the listeners hear.
Discard(e) ==
    /\ entries' = [entries EXCEPT ![e.of] = "absent"]
    /\ posted' = Tail(posted) \o SetToSeq(ToAll("removed", e.of))
    /\ UNCHANGED <<active, jobs>>

Forget(e) ==
    /\ active' = [active EXCEPT ![e.to] = @ \ {e.of}]
    /\ posted' = Tail(posted)
    /\ UNCHANGED <<entries, jobs>>

\* The listener is called, unless it was stopped.  Only an added entry is tried for its
\* age; one whose error was written is still "pending", so it is sent again.
Hear ==
    /\ posted # <<>> /\ Head(posted).to \in attached
    /\ LET e == Head(posted) IN
       \/ e.kind = "added" /\ entries[e.of] = "stale" /\ Discard(e)
       \/ e.kind = "added" /\ entries[e.of] # "stale" /\ Pursue(e)
       \/ e.kind \in {"changed", "ghost"} /\ Pursue(e)
       \/ e.kind = "removed" /\ Forget(e)
    /\ UNCHANGED <<wakeVars, signVars, attached, writing, reports, unheard>>

HearNobody ==
    /\ posted # <<>> /\ Head(posted).to \notin attached
    /\ posted' = Tail(posted)
    /\ UNCHANGED <<wakeVars, signVars, attached, active, entries, writing, jobs, reports, unheard>>

\* sendAction throws: the session is no longer timed, and the error is written.
QueueFailed(j) ==
    /\ active' = [active EXCEPT ![j.by] = @ \ {j.of}]
    /\ writing' = writing \union {j.of}
    /\ UNCHANGED reports

\* The rate limiter lets the next text go.  A blank one has no number: it throws.
SendJob ==
    /\ jobs # <<>>
    /\ jobs' = Tail(jobs)
    /\ LET j == Head(jobs) IN
       \/ QueueFailed(j)
       \/ /\ ~j.blank
          /\ reports' = reports \union {j.of}
          /\ UNCHANGED <<active, writing>>
    /\ UNCHANGED <<wakeVars, signVars, attached, posted, entries, unheard>>

\* The text left the phone: every attached listener drops the session and the entry.
SentOk(s) ==
    /\ s \in reports
    /\ reports' = reports \ {s}
    /\ IF attached = {}
       THEN UNCHANGED <<active, entries, posted>>
       ELSE /\ active' = [l \in Listener |-> IF l \in attached THEN active[l] \ {s}
                                             ELSE active[l]]
            /\ entries' = [entries EXCEPT ![s] = "absent"]
            /\ IF entries[s] = "absent" THEN UNCHANGED posted ELSE Tell("removed", s)
    /\ UNCHANGED <<wakeVars, signVars, attached, writing, jobs, unheard>>

\* It did not, for one of the four reasons the receiver knows.
SentFailed(s) ==
    /\ s \in reports
    /\ reports' = reports \ {s}
    /\ active' = [l \in Listener |-> IF l \in attached THEN active[l] \ {s} ELSE active[l]]
    /\ writing' = IF attached = {} THEN writing ELSE writing \union {s}
    /\ UNCHANGED <<wakeVars, signVars, attached, posted, entries, jobs, unheard>>

\* It did not, for another reason, or nobody is told.
ReportLost(s) ==
    /\ s \in reports
    /\ reports' = reports \ {s}
    /\ UNCHANGED <<wakeVars, signVars, attached, active, posted, entries, writing, jobs,
                   unheard>>

\* Mutant: the tracker is dropped and nothing is written.
GivesUp(l, s) ==
    /\ s \in active[l]
    /\ active' = [active EXCEPT ![l] = @ \ {s}]
    /\ UNCHANGED <<wakeVars, signVars, attached, posted, entries, writing, jobs, reports,
                   unheard>>

\* The minute is over for a session still timed: a timer of an earlier send counts.
SendTimesOut(l, s) ==
    /\ s \in active[l]
    /\ active' = [active EXCEPT ![l] = @ \ {s}]
    /\ writing' = writing \union {s}
    /\ UNCHANGED <<wakeVars, signVars, attached, posted, entries, jobs, reports, unheard>>

\* The database takes an error up.  Under an entry that is gone it makes a new one,
\* without a number or a time.
ErrorWritten(s) ==
    /\ s \in writing
    /\ writing' = writing \ {s}
    /\ entries' = [entries EXCEPT ![s] = IF @ = "absent" THEN "ghost" ELSE @]
    /\ IF entries[s] = "ghost" THEN UNCHANGED posted
       ELSE Tell(IF Waiting(s) THEN "changed" ELSE "ghost", s)
    /\ UNCHANGED <<wakeVars, signVars, attached, active, jobs, reports, unheard>>

-----------------------------------------------------------------------------
(* Kills and power.                                                                    *)

ProcessEnds ==
    /\ waking' = FALSE /\ v5Plane' = FALSE
    /\ signingIn' = 0 /\ switching' = 0 /\ listening' = 0
    /\ attached' = {} /\ active' = [l \in Listener |-> {}]
    /\ posted' = <<>> /\ writing' = {} /\ jobs' = <<>>
    /\ UNCHANGED <<opened, reachable, entries, unheard>>

\* The system kills the process.  A start nobody has taken may be lost with it.
ProcessKilled ==
    /\ power = "on"
    /\ ProcessEnds
    /\ cut' = (cut \/ (waking /\ alarm = "none"))
    /\ starting' \in {FALSE, starting}
    /\ UNCHANGED <<power, alarm, reports>>

PowerLost ==
    /\ power # "off"
    /\ ProcessEnds
    /\ power' = "off" /\ alarm' = "none" /\ starting' = FALSE /\ cut' = FALSE
    /\ reports' = {}

PowerOn ==
    /\ power = "off"
    /\ power' = "booting"
    /\ UNCHANGED <<opened, alarm, waking, cut, starting, v5Plane, reachable, signVars,
                   sendVars>>

PhoneServiceNext ==
    \/ OpenApp \/ AlarmFires \/ BootCompleted \/ Rearm \/ WorkerRuns \/ PushReceived
    \/ NewToken \/ OnStartCommand \/ V5Tick
    \/ SignedIn \/ Attach \/ SignedOut
    \/ Hear \/ HearNobody \/ SendJob
    \/ \E s \in Session :
          \/ EntryArrives(s) \/ EntryAges(s)
          \/ SentOk(s) \/ SentFailed(s) \/ ReportLost(s) \/ ErrorWritten(s)
          \/ \E l \in attached : SendTimesOut(l, s)
    \/ ProcessKilled \/ PowerLost \/ PowerOn

PhoneServiceSpec == PhoneServiceInit /\ [][PhoneServiceNext]_serviceVars

-----------------------------------------------------------------------------
(* A phone that was ever opened and is on never stands with its v5 loop dead and       *)
(* nothing on its way to start it: the exact alarm is spent each time it fires, so     *)
(* the receivers have to arm the next one whatever was killed, rebooted or refused in  *)
(* between.  The one way out is a kill between a receiver's two calls (`cut`), after   *)
(* which only the periodic worker brings the service back, without the alarm.          *)
SomethingWillStart ==
    opened /\ power = "on" /\ ~v5Plane
        => alarm # "none" \/ waking \/ starting \/ cut

\* A listener never loses sight of an entry that still waits to be sent: for each
\* attached listener, leaked ones included, the session is timed, or an event of it is
\* on its way, or an error that will raise one is being written - through re-sends,
\* overlapping sign-ins, late reports and listeners that come and go.
EntryIsPursued ==
    \A l \in attached, s \in Session : Waiting(s) =>
        \/ s \in active[l] \/ s \in writing
        \/ \E i \in DOMAIN posted :
              posted[i].to = l /\ posted[i].of = s /\ posted[i].kind # "removed"
=============================================================================
