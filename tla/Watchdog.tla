------------------------------ MODULE Watchdog ------------------------------
(***************************************************************************)
(* The heartbeat watchdog and the alert canary (server/src/jobs.ts).       *)
(*                                                                         *)
(* A watchdog pass is started by its own cron, by the catch-up cron, by    *)
(* the boot sweep and by the first request after an idle gap, each of them *)
(* a ticker here.  A pass reads the devices and the dedupe state, waits    *)
(* for its alert and then writes the dedupe state it computed before; a    *)
(* pass of another ticker may run in between.                              *)
(*                                                                         *)
(* The length of an alert (two sinks of ten seconds) is nothing next to    *)
(* the repeat interval, so no part of that interval passes during one.     *)
(***************************************************************************)
EXTENDS AlertSinks

CONSTANTS
    Device, Revocable,   \* devices, and those with revocable = 1
    Ticker,      \* the four sources of watchdog passes, threads
    Canary,      \* the canary's job, a thread
    Repeat,      \* WATCHDOG_ALERT_REPEAT_SEC, in units of the model
    MaxAge       \* ALERT_CANARY_MAX_AGE_SEC, in units of the model

ASSUME WatchdogAssumption ==
    /\ Repeat \in Nat \ {0} /\ MaxAge \in Nat
    /\ Revocable \subseteq Device
    /\ Ticker \subseteq Thread /\ Canary \in Thread \ Ticker

VARIABLES
    life,        \* a device's age by its heartbeats, or by its creation
    revoked, quarantined,   \* devices with revoked_at, quarantined_at
    announced,   \* lastStaleSignature, the set of its devices; {} is null
    elapsed,     \* the time since lastStaleAlertAtMs
    asked,       \* the stale set of a ticker's pass that waits for its alert
    misses,      \* the canary's consecutiveFailures
    receipt,     \* the age of its last receipt; MaxAge + 1: too old, or none
    probing      \* the canary waits for Telegram, not for its own alert

deviceVars == <<life, revoked, quarantined>>
passVars   == <<announced, elapsed, asked>>
canaryVars == <<misses, receipt, probing>>
dogVars    == <<deviceVars, passVars, canaryVars>>

Life == {"absent", "new", "overdue", "abandoned",   \* never seen, by its creation
         "fresh", "quiet"}                          \* by its last heartbeat

WatchdogTypeOK ==
    /\ life \in [Device -> Life]
    /\ revoked \subseteq Device /\ quarantined \subseteq Device
    /\ announced \subseteq Device /\ elapsed \in 0..Repeat
    /\ asked \in [Ticker -> SUBSET Device]
    /\ misses \in 0..(2 * Threshold - 1) /\ receipt \in 0..(MaxAge + 1)
    /\ probing \in BOOLEAN

WatchdogInit ==
    /\ life = [d \in Device |-> "absent"]
    /\ revoked = {} /\ quarantined = {}
    /\ announced = {} /\ elapsed = Repeat
    /\ asked = [t \in Ticker |-> {}]
    /\ misses = 0 /\ receipt = MaxAge + 1 /\ probing = FALSE

-----------------------------------------------------------------------------
(* Devices                                                                  *)

Enroll(d) ==
    /\ life[d] = "absent"
    /\ life' = [life EXCEPT ![d] = "new"]
    /\ UNCHANGED <<sinkVars, revoked, quarantined, passVars, canaryVars>>

\* requireDevice keeps revoked devices out.
Heartbeat(d) ==
    /\ life[d] # "absent" /\ d \notin revoked
    /\ life' = [life EXCEPT ![d] = "fresh"]
    /\ quarantined' = quarantined \ {d}
    /\ UNCHANGED <<sinkVars, revoked, passVars, canaryVars>>

Older == [new |-> "overdue", overdue |-> "abandoned", fresh |-> "quiet"]

\* WATCHDOG_STALE_SEC or DEVICE_QUARANTINE_SEC go by.
Age(d) ==
    /\ life[d] \in DOMAIN Older
    /\ life' = [life EXCEPT ![d] = Older[@]]
    /\ UNCHANGED <<sinkVars, revoked, quarantined, passVars, canaryVars>>

Revoke(d) ==
    /\ life[d] # "absent" /\ d \in Revocable \ revoked
    /\ revoked' = revoked \cup {d}
    /\ UNCHANGED <<sinkVars, life, quarantined, passVars, canaryVars>>

Unquarantine(d) ==
    /\ d \in quarantined \ revoked
    /\ quarantined' = quarantined \ {d}
    /\ UNCHANGED <<sinkVars, life, revoked, passVars, canaryVars>>

-----------------------------------------------------------------------------
(* Passes                                                                   *)

\* Mutant: the dedupe forgets the repeat interval.
SuppressedForGood(S) == S = announced

\* quarantineNeverSeenDevices, findStaleDevices.
Abandoned == {d \in Device \ (revoked \cup quarantined) : life[d] = "abandoned"}
Stale     == {d \in Device \ (revoked \cup quarantined) :
                 life[d] \in {"overdue", "abandoned", "quiet"}}

Suppressed(S) == S = announced /\ elapsed < Repeat

\* A pass mutes the abandoned devices and looks at the rest.
Begin(t) ==
    /\ asked[t] = {}
    /\ quarantined' = quarantined \cup Abandoned
    /\ UNCHANGED <<life, revoked, canaryVars>>

AllWell(t) ==
    /\ Begin(t) /\ Stale \ Abandoned = {}
    /\ announced' = {} /\ elapsed' = Repeat
    /\ UNCHANGED <<sinkVars, asked>>

NothingNew(t) ==
    /\ Begin(t) /\ Stale \ Abandoned # {} /\ Suppressed(Stale \ Abandoned)
    /\ UNCHANGED <<sinkVars, passVars>>

\* Without a sink the alert is a line of the log, and over at once.
Announce(t) ==
    LET S == Stale \ Abandoned IN
    /\ Begin(t) /\ S # {} /\ ~Suppressed(S)
    /\ Send(t, "stale")
    /\ IF LastAnswer(t)
       THEN announced' = S /\ elapsed' = 0 /\ UNCHANGED asked
       ELSE asked' = [asked EXCEPT ![t] = S] /\ UNCHANGED <<announced, elapsed>>

WatchdogTick(t) == AllWell(t) \/ NothingNew(t) \/ Announce(t)

\* The pass goes on after its alert and keeps the signature it began with.
Announced(t) ==
    /\ asked[t] # {}
    /\ \E ok \in BOOLEAN : Answered(t, ok, TRUE)
    /\ IF LastAnswer(t)
       THEN /\ announced' = asked[t] /\ elapsed' = 0
            /\ asked' = [asked EXCEPT ![t] = {}]
       ELSE UNCHANGED passVars
    /\ UNCHANGED <<deviceVars, canaryVars>>

Elapse ==
    /\ elapsed < Repeat /\ \A t \in Ticker : asked[t] = {}
    /\ elapsed' = elapsed + 1
    /\ UNCHANGED <<sinkVars, deviceVars, announced, asked, canaryVars>>

-----------------------------------------------------------------------------
(* The canary: a message a day, whose receipt is Telegram's message id      *)

\* Mutant: an attempt counts as a receipt.
CanaryMissedIsReceipt ==
    /\ misses' = IF misses = 2 * Threshold - 1 THEN Threshold ELSE misses + 1
    /\ receipt' = 0

CanaryTick ==
    /\ call[Canary] = <<>> /\ "telegram" \in Configured
    /\ call' = [call EXCEPT ![Canary] = <<"telegram">>]
    /\ probing' = TRUE
    /\ UNCHANGED <<up, fails, degraded, saved, deviceVars, passVars, misses, receipt>>

\* Misses count on past the threshold and escalate at each multiple of it; the
\* model goes from twice the threshold back to it.
CanaryMissed ==
    /\ misses' = IF misses = 2 * Threshold - 1 THEN Threshold ELSE misses + 1
    /\ UNCHANGED receipt

\* The canary's outcome is evidence about the Telegram sink.
Feed(ok) == RecordOutcome("telegram", ok, TRUE)

CanaryProbed ==
    /\ probing /\ call[Canary] # <<>>
    /\ \E ok \in BOOLEAN :
        /\ ok = up["telegram"]
        /\ Feed(ok)
        /\ IF ok THEN misses' = 0 /\ receipt' = 0 ELSE CanaryMissed
        /\ call' = [call EXCEPT ![Canary] =
                       IF ~ok /\ misses' = Threshold THEN Route("canary") ELSE <<>>]
    /\ probing' = FALSE
    /\ UNCHANGED <<up, deviceVars, passVars>>

CanaryEscalated ==
    /\ ~probing
    /\ \E ok \in BOOLEAN : Answered(Canary, ok, TRUE)
    /\ UNCHANGED <<deviceVars, passVars, canaryVars>>

ReceiptAges ==
    /\ receipt <= MaxAge
    /\ receipt' = receipt + 1
    /\ UNCHANGED <<sinkVars, deviceVars, passVars, misses, probing>>

-----------------------------------------------------------------------------

\* The dedupe state and the canary's are in job_state at every step and are read
\* back; the passes that waited are gone.
WatchdogRestart ==
    /\ asked' = [t \in Ticker |-> {}]
    /\ probing' = FALSE
    /\ UNCHANGED <<deviceVars, announced, elapsed, misses, receipt>>

SinkFlips(k) == Flip(k) /\ UNCHANGED dogVars

WatchdogStep ==
    \/ \E d \in Device : \/ Enroll(d) \/ Heartbeat(d) \/ Age(d)
                         \/ Revoke(d) \/ Unquarantine(d)
    \/ \E t \in Ticker : WatchdogTick(t) \/ Announced(t)
    \/ Elapse
    \/ CanaryTick \/ CanaryProbed \/ CanaryEscalated \/ ReceiptAges
    \/ \E k \in Sink : SinkFlips(k)

\* Crons tick, sinks answer or time out, and time passes.
WatchdogFairness ==
    /\ \A t \in Ticker : WF_<<sinkVars, dogVars>>(WatchdogTick(t))
                         /\ WF_<<sinkVars, dogVars>>(Announced(t))
    /\ SF_<<sinkVars, dogVars>>(Elapse)
    /\ WF_<<sinkVars, dogVars>>(CanaryTick)
    /\ WF_<<sinkVars, dogVars>>(CanaryProbed)
    /\ WF_<<sinkVars, dogVars>>(CanaryEscalated)
    /\ WF_<<sinkVars, dogVars>>(ReceiptAges)

\* GET /health/alerts.
Red == SinksRed \/ receipt > MaxAge
=============================================================================
