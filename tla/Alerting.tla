------------------------------ MODULE Alerting ------------------------------
(***************************************************************************)
(* The alerting side of the server: the watchdog's passes, the canary and  *)
(* the webhook dispatches share the sinks, their health and the process.   *)
(***************************************************************************)
EXTENDS Watchdog, Webhooks

\* The watchdog's and the canary's jobs dispatch no webhook.
ASSUME AlertingAssumption == Slot \cap (Ticker \cup {Canary}) = {}

vars == <<sinkVars, dogVars, hookVars>>

TypeOK == SinksTypeOK /\ WatchdogTypeOK /\ WebhooksTypeOK

Init == SinksInit /\ WatchdogInit /\ WebhooksInit

\* registerJobs after a restart: the health and the dedupe state are read back.
Restart == SinksRestart /\ WatchdogRestart /\ WebhooksRestart

Next ==
    \/ WatchdogStep /\ UNCHANGED hookVars
    \/ WebhooksStep /\ UNCHANGED dogVars
    \/ Restart

Spec == Init /\ [][Next]_vars
FairSpec == Spec /\ WatchdogFairness /\ WebhooksFairness

-----------------------------------------------------------------------------

\* A device that is stale for good is told to the operator again and again: no
\* overlap of passes, no restart and no other device's recovery pins the
\* signature for ever (watchdogTick's dedupe state, kept in job_state).
StaleIsRetold ==
    \A d \in Device :
        <>[](d \in Stale) => []<><<\E t \in Ticker : Announce(t) /\ d \in Stale>>_vars

\* With the canary on, a Telegram that stopped for good turns /health/alerts red
\* for good, though the server restarts as often as it likes: the receipt's age
\* is in job_state.
DeadTelegramIsRed == <>[]~up["telegram"] => <>[]Red

\* If the server stays up, the sink itself is reported as well: the canary feeds
\* its outcomes to the sink's health.
DeadTelegramDegrades ==
    (<>[]~up["telegram"] /\ <>[][~Restart]_vars) => <>[]degraded["telegram"]

\* A receiver that is dead for good, while messages for it keep exhausting their
\* attempts and the server stays up, is told to the operator again and again: the
\* counter, the damper and the alerts of overlapping dispatches never silence it.
DeadReceiverRings ==
    \A a \in App :
        (/\ <>[]~alive[a] /\ <>[][~Restart]_vars
         /\ []<><<\E w \in Slot : owner[w] = a /\ Exhausted(w)>>_vars)
        => []<><<\E w \in Slot : owner[w] = a /\ Exhausted(w) /\ stamp'[a] = 0>>_vars

\* No alert is offered to the sink it complains about.
CanaryAvoidsTelegram ==
    ~probing => \A i \in DOMAIN call[Canary] : call[Canary][i] # "telegram"

\* The health of the sinks is what their calls were, and no sink judges itself.
SinksAreTrue == DegradedIffFails /\ CanaryAvoidsTelegram

\* A dead Telegram shows: on /health/alerts, and in the health of the sink.
DeadTelegramShows == DeadTelegramIsRed /\ DeadTelegramDegrades
=============================================================================
