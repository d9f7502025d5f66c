------------------------------ MODULE Webhooks ------------------------------
(***************************************************************************)
(* Signed webhooks to the client apps (server/src/services/webhooks.ts): a *)
(* dispatch posts its message, waits and posts again, keeps a delivery row *)
(* per attempt, and after its last failure counts towards the alert about  *)
(* a dead receiver.                                                        *)
(*                                                                         *)
(* A dispatch is run by the handler or job that caused it (the results     *)
(* route, the OTP verify route, the bulk pass), a slot here: they overlap  *)
(* at every wait.                                                          *)
(***************************************************************************)
EXTENDS AlertSinks

CONSTANTS
    Slot,         \* handlers and jobs that dispatch, threads
    App,          \* apps with a webhook configured
    Attempts,     \* WEBHOOK_RETRY_ATTEMPTS
    Exhaustions,  \* WEBHOOK_EXHAUSTION_ALERT_THRESHOLD
    Damping       \* WEBHOOK_EXHAUSTION_DAMPING_SEC, in units of the model

ASSUME WebhooksAssumption ==
    /\ Slot \subseteq Thread
    /\ Attempts \in Nat \ {0} /\ Exhaustions \in Nat \ {0} /\ Damping \in Nat \ {0}

VARIABLES
    alive,       \* whether an app's receiver answers with success
    at,          \* where a slot's dispatch is
    owner,       \* whose message it is
    rows,        \* the webhook_deliveries of the slot's latest dispatch
    streak,      \* exhaustionCounters, counted up to the threshold
    stamp        \* the time since exhaustionAlertTimestamps; Damping: or none

hookVars == <<alive, at, owner, rows, streak, stamp>>

WebhooksTypeOK ==
    /\ alive \in [App -> BOOLEAN]
    /\ at \in [Slot -> {"over", "posting", "hung", "sleeping", "alerting", "killed"}]
    /\ owner \in [Slot -> App]
    /\ rows \in [Slot -> Seq({"pending", "delivered", "failed"})]
    /\ \A w \in Slot : Len(rows[w]) <= Attempts
    /\ streak \in [App -> 0..Exhaustions]
    /\ stamp \in [App -> 0..Damping]

WebhooksInit ==
    /\ alive = [a \in App |-> TRUE]
    /\ at = [w \in Slot |-> "over"]
    /\ owner \in [Slot -> App]
    /\ rows = [w \in Slot |-> <<>>]
    /\ streak = [a \in App |-> 0]
    /\ stamp = [a \in App |-> Damping]

Goes(w, place) == at' = [at EXCEPT ![w] = place]
Ends(w, status) == rows' = [rows EXCEPT ![w] = Append(Front(@), status)]

-----------------------------------------------------------------------------

\* Mutants: a success does not end the retries; a retry starts to count anew.
DeliveredGoesOn(w) ==
    /\ at[w] = "posting" /\ alive[owner[w]]
    /\ Ends(w, "delivered") /\ Goes(w, "sleeping")
    /\ UNCHANGED <<sinkVars, alive, owner, streak, stamp>>
RetryAfresh(w) ==
    /\ at[w] = "sleeping"
    /\ rows' = [rows EXCEPT ![w] = <<"pending">>]
    /\ Goes(w, "posting")
    /\ UNCHANGED <<sinkVars, alive, owner, streak, stamp>>

\* A message's dispatch begins: a row, and the first post.
Dispatch(w, a) ==
    /\ at[w] \in {"over", "killed"}
    /\ Goes(w, "posting")
    /\ owner' = [owner EXCEPT ![w] = a]
    /\ rows' = [rows EXCEPT ![w] = <<"pending">>]
    /\ UNCHANGED <<sinkVars, alive, streak, stamp>>

\* Any success arms the alert anew.
Delivered(w) ==
    /\ at[w] = "posting" /\ alive[owner[w]]
    /\ Ends(w, "delivered") /\ Goes(w, "over")
    /\ streak' = [streak EXCEPT ![owner[w]] = 0]
    /\ stamp' = [stamp EXCEPT ![owner[w]] = Damping]
    /\ UNCHANGED <<sinkVars, alive, owner>>

\* A refusal, a transport error or a timeout; the last answer of a receiver
\* that lives may be lost too.
Failed(w) ==
    /\ at[w] = "posting" /\ Len(rows[w]) < Attempts
    /\ Ends(w, "failed") /\ Goes(w, "sleeping")
    /\ UNCHANGED <<sinkVars, alive, owner, streak, stamp>>

Retry(w) ==
    /\ at[w] = "sleeping"
    /\ rows' = [rows EXCEPT ![w] = Append(@, "pending")]
    /\ Goes(w, "posting")
    /\ UNCHANGED <<sinkVars, alive, owner, streak, stamp>>

\* Mutant: the alert is sent at the threshold, not from it on.
RingsOnce(a) == streak[a] + 1 = Exhaustions /\ stamp[a] = Damping

\* Whether one more exhausted dispatch sends the alert.
Rings(a) == streak[a] + 1 >= Exhaustions /\ stamp[a] = Damping

\* The last attempt failed: the app's streak grows, and from the threshold on it
\* is told to the operator, once in a damping window.  The alert is dispatched
\* without the database.
Exhausted(w) ==
    LET a == owner[w] IN
    /\ at[w] = "posting" /\ Len(rows[w]) = Attempts
    /\ Ends(w, "failed")
    /\ streak' = [streak EXCEPT ![a] = IF @ < Exhaustions THEN @ + 1 ELSE @]
    /\ IF Rings(a)
       THEN /\ stamp' = [stamp EXCEPT ![a] = 0]
            /\ Send(w, "exhausted")
            /\ Goes(w, IF LastAnswer(w) THEN "over" ELSE "alerting")
       ELSE Goes(w, "over") /\ UNCHANGED <<sinkVars, stamp>>
    /\ UNCHANGED <<alive, owner>>

AlertOver(w) ==
    /\ at[w] = "alerting"
    /\ \E ok \in BOOLEAN : Answered(w, ok, FALSE)
    /\ Goes(w, IF LastAnswer(w) THEN "over" ELSE "alerting")
    /\ UNCHANGED <<alive, owner, rows, streak, stamp>>

\* postWebhook settles at the end of a response or at an error of the request; a
\* response that is cut off in its body is neither.
CutOff(w) ==
    /\ at[w] = "posting" /\ alive[owner[w]]
    /\ Goes(w, "hung")
    /\ UNCHANGED <<sinkVars, alive, owner, rows, streak, stamp>>

WindowPasses(a) ==
    /\ stamp[a] < Damping
    /\ stamp' = [stamp EXCEPT ![a] = @ + 1]
    /\ UNCHANGED <<sinkVars, alive, at, owner, rows, streak>>

ReceiverFlips(a) ==
    /\ alive' = [alive EXCEPT ![a] = ~@]
    /\ UNCHANGED <<sinkVars, at, owner, rows, streak, stamp>>

\* A restart forgets the dispatches and the counters; the rows stay.
WebhooksRestart ==
    /\ at' = [w \in Slot |-> IF at[w] = "over" THEN "over" ELSE "killed"]
    /\ streak' = [a \in App |-> 0]
    /\ stamp' = [a \in App |-> Damping]
    /\ UNCHANGED <<alive, owner, rows>>

WebhooksStep ==
    \/ \E w \in Slot : \/ \E a \in App : Dispatch(w, a)
                       \/ Delivered(w) \/ Failed(w) \/ Retry(w) \/ Exhausted(w)
                       \/ AlertOver(w) \/ CutOff(w)
    \/ \E a \in App : WindowPasses(a) \/ ReceiverFlips(a)

\* An attempt ends by its timeout, a sleep by its timer.
WebhooksFairness ==
    /\ \A w \in Slot : /\ WF_<<sinkVars, hookVars>>(Delivered(w) \/ Failed(w) \/ Exhausted(w))
                       /\ WF_<<sinkVars, hookVars>>(Retry(w))
                       /\ WF_<<sinkVars, hookVars>>(AlertOver(w))
    /\ \A a \in App : WF_<<sinkVars, hookVars>>(WindowPasses(a))

-----------------------------------------------------------------------------

Ended(w) == rows[w] # <<>> /\ at[w] \in {"over", "alerting"}
Gone(w)  == rows[w] # <<>> /\ Last(rows[w]) = "pending"

\* The audit rows tell a dispatch truly: a success is the last row, a dispatch
\* that is over either has it or failed all its attempts, and a row stays
\* pending only for the attempt under way, or for good if that attempt was
\* killed or never answers (deliverSigned inserts before it posts).
AuditTellsAll ==
    \A w \in Slot :
        /\ \A i \in DOMAIN rows[w] : rows[w][i] # "failed" => i = Len(rows[w])
        /\ Ended(w) => \/ Last(rows[w]) = "delivered"
                       \/ Len(rows[w]) = Attempts /\ Last(rows[w]) = "failed"
        /\ at[w] \in {"posting", "hung"} => Gone(w)
        /\ Gone(w) => at[w] \in {"posting", "hung", "killed"}

\* A dispatch that posts comes to its end, unless the server dies or the
\* receiver's response breaks off: no alert and no retry holds the phone's report
\* for ever.
DispatchEnds == \A w \in Slot : at[w] = "posting" ~> at[w] \in {"over", "hung", "killed"}
=============================================================================
