----------------------------- MODULE AlertSinks -----------------------------
(***************************************************************************)
(* The operator's alert channels (server/src/jobs.ts): dispatchAlert tries *)
(* Telegram and then the webhook, each outcome moves the sink's health,    *)
(* and the health is written to job_state when a sink turns.               *)
(*                                                                         *)
(* An alert is dispatched by a thread, a handler or job of the server, and *)
(* only that thread waits: between two answers every other thread may run. *)
(* What the thread does after its alert belongs to the last answer's step, *)
(* so the modules that dispatch alerts build their actions from Send and   *)
(* Answered.                                                               *)
(***************************************************************************)
EXTENDS Integers, Sequences, SequencesExt

CONSTANTS
    Thread,       \* the jobs and handlers that dispatch alerts
    Threshold,    \* ALERT_SINK_FAILURE_THRESHOLD
    Configured    \* the sinks that have their settings

Sink == {"telegram", "webhook"}

ASSUME SinkAssumption ==
    /\ Threshold \in Nat \ {0}
    /\ Configured \subseteq Sink

VARIABLES
    up,           \* whether the service behind a sink takes messages
    fails,        \* consecutiveFailures, counted up to the threshold
    degraded,     \* degradedSince is set
    saved,        \* the alert-sink row of job_state
    call          \* the sinks a thread has yet to hear from, the asked one first

sinkVars == <<up, fails, degraded, saved, call>>

Health == [fails : 0..Threshold, degraded : BOOLEAN]

SinksTypeOK ==
    /\ up \in [Sink -> BOOLEAN]
    /\ fails \in [Sink -> 0..Threshold]
    /\ degraded \in [Sink -> BOOLEAN]
    /\ saved \in [Sink -> Health]
    /\ call \in [Thread -> Seq(Sink)]

Healthy == [fails |-> 0, degraded |-> FALSE]

SinksInit ==
    /\ up = [k \in Sink |-> TRUE]
    /\ fails = [k \in Sink |-> 0]
    /\ degraded = [k \in Sink |-> FALSE]
    /\ saved = [k \in Sink |-> Healthy]
    /\ call = [t \in Thread |-> <<>>]

-----------------------------------------------------------------------------

\* Mutant: a sink once degraded stays so.
DegradedForGood(k, ok) == degraded[k] \/ fails[k] + 1 = Threshold

\* The sinks an alert is offered to.  The canary complains about Telegram and
\* must not depend on it.
Route(kind) ==
    (IF kind # "canary" /\ "telegram" \in Configured THEN <<"telegram">> ELSE <<>>)
    \o (IF "webhook" \in Configured THEN <<"webhook">> ELSE <<>>)

\* The sink's health after an outcome: it is degraded from the Threshold-th
\* consecutive failure to the next success.
FailsAfter(k, ok)    == IF ok THEN 0 ELSE IF fails[k] < Threshold THEN fails[k] + 1 ELSE fails[k]
DegradedAfter(k, ok) == ~ok /\ (degraded[k] \/ fails[k] + 1 = Threshold)
Turns(k, ok)         == IF ok THEN degraded[k] ELSE fails[k] + 1 = Threshold

\* recordSinkOutcome: the whole map is written when a sink turns, if the caller
\* gave its database.
RecordOutcome(k, ok, db) ==
    /\ fails' = [fails EXCEPT ![k] = FailsAfter(k, ok)]
    /\ degraded' = [degraded EXCEPT ![k] = DegradedAfter(k, ok)]
    /\ saved' = IF Turns(k, ok) /\ db
                THEN [j \in Sink |-> [fails |-> fails'[j], degraded |-> degraded'[j]]]
                ELSE saved

\* dispatchAlert: the first sink of the route is asked.
Send(t, kind) ==
    /\ call[t] = <<>>
    /\ call' = [call EXCEPT ![t] = Route(kind)]
    /\ UNCHANGED <<up, fails, degraded, saved>>

\* The asked sink answers, or ten seconds pass without an answer; a failure
\* leaves the rest of the route.
Answered(t, ok, db) ==
    /\ call[t] # <<>>
    /\ ok = up[Head(call[t])]
    /\ RecordOutcome(Head(call[t]), ok, db)
    /\ call' = [call EXCEPT ![t] = IF ok THEN <<>> ELSE Tail(@)]
    /\ UNCHANGED up

\* The dispatch is over with this answer.
LastAnswer(t) == call'[t] = <<>>

\* GET /health/alerts, as far as the sinks go.
SinksRed == Configured = {} \/ \E k \in Configured : degraded[k]

\* A restart drops the calls and takes the health from job_state.
SinksRestart ==
    /\ call' = [t \in Thread |-> <<>>]
    /\ fails' = [k \in Sink |-> saved[k].fails]
    /\ degraded' = [k \in Sink |-> saved[k].degraded]
    /\ UNCHANGED <<up, saved>>

\* The service behind a sink goes away or comes back.
Flip(k) ==
    /\ k \in Configured
    /\ up' = [up EXCEPT ![k] = ~@]
    /\ UNCHANGED <<fails, degraded, saved, call>>

\* A sink carries its mark exactly while its last Threshold outcomes or more
\* were failures, in memory and in the row a restart reads: recordSinkOutcome
\* sets the mark only at the crossing and saves it only when it turns.
DegradedIffFails ==
    \A k \in Sink : /\ degraded[k] <=> fails[k] = Threshold
                    /\ saved[k].degraded <=> saved[k].fails = Threshold
=============================================================================
