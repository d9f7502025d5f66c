---------------------------- MODULE BulkCampaigns ----------------------------
(***************************************************************************)
(* Bulk campaigns: the routes that create, pause, resume, cancel and retry *)
(* a campaign (server/src/routes/bulk.ts), the credit primitives and the   *)
(* queue tick (server/src/services/bulk.ts).                               *)
(*                                                                         *)
(* The process is single-threaded, so a handler or a tick runs alone until *)
(* it awaits; cpu names who runs.  Each SQLite transaction, or statement   *)
(* outside one, is a step, and the process may die between any two: that   *)
(* is the whole of what a crash can do to the tables.  A tick awaits only  *)
(* while it delivers a completion webhook, and then everything else runs,  *)
(* further ticks included (the cron job, the catch-up sweep, the boot      *)
(* sweep and the wake guard start them independently).                     *)
(*                                                                         *)
(* The outbound queue is the life cycle that SmsQueue implements.  One     *)
(* app, hence one wallet.                                                  *)
(***************************************************************************)
EXTENDS Naturals, FiniteSets, FiniteSetsExt

CONSTANTS
    Campaign, Recipient,
    CampaignOf,        \* CampaignOf[r]: the campaign whose list r is on
    Idx,               \* Idx[r]: position in that list
    Phone, PhoneOf,    \* the number of a recipient
    Tick,              \* instances of the queue tick that may overlap
    Hook,              \* the app has a webhook configured
    Rate,              \* BULK_SMS_RATE_PER_MINUTE
    MaxAttempts,       \* BULK_RETRY_MAX_ATTEMPTS
    Free,              \* nobody has the cpu
    MaxBought, MaxRetries, MaxCrashes     \* bounds of the model

\* A list has one recipient at a position.
ASSUME BulkAssumption ==
    /\ IsFiniteSet(Campaign) /\ IsFiniteSet(Recipient)
    /\ CampaignOf \in [Recipient -> Campaign]
    /\ Idx \in [Recipient -> Nat]
    /\ \A r, q \in Recipient : CampaignOf[r] = CampaignOf[q] /\ Idx[r] = Idx[q] => r = q
    /\ PhoneOf \in [Recipient -> Phone]
    /\ Hook \in BOOLEAN
    /\ Rate \in Nat \ {0} /\ MaxAttempts \in Nat \ {0}
    /\ {MaxBought, MaxRetries, MaxCrashes} \subseteq Nat
    /\ Free \notin Tick \cup Campaign
    /\ Tick \cap Campaign = {}

\* Every attempt of a recipient inserts a row of its own.
MaxRows == MaxAttempts * (1 + MaxRetries)
Row     == Recipient \X (1..MaxRows)

VARIABLES
    wallet,      \* bulk_sms_remaining
    bought,      \* history: credits ever bought
    camp,        \* bulk_campaigns.status ("none": no row)
    passed,      \* bulk_campaigns.unlimited_pass
    total, sent, failed,    \* total_recipients, sent_count, failed_count
    born,        \* rank of bulk_campaigns.created_at
    rec,         \* bulk_recipients.status ("none": no row)
    attempts,    \* bulk_recipients.attempts
    rowOf,       \* bulk_recipients.pending_sms_id: <<r, rowOf[r]>>, 0 is NULL
    sms,         \* the pending_sms rows of the campaigns
    cooling,     \* phones with an unexpired bulk_phone_cooldowns row
    cpu,         \* the tick, or the campaign whose handler, runs now
    phase,       \* where each tick, and the running handler, stands
    todo,        \* the tick's list: to finalize, then to enqueue
    budget,      \* the tick's budget and per-campaign share
    failedCount, \* the running retry's count of failed recipients
    retries, crashes,       \* bounded counters
    torn         \* history: a crash hit a create or a retry between its commits

credits  == <<wallet, bought>>
campVars == <<camp, passed, total, sent, failed, born>>
recVars  == <<rec, attempts, rowOf>>
tickVars == <<todo, budget, failedCount>>
counters == <<retries, crashes>>
vars     == <<credits, campVars, recVars, sms, cooling, cpu, phase, tickVars,
              counters, torn>>

Queue == INSTANCE Lifecycle WITH Msg <- Row, state <- sms

ListOf(c) == {r \in Recipient : CampaignOf[r] = c}
In(c, st) == {r \in ListOf(c) : rec[r] \in st}
OpenOf(c) == In(c, {"pending", "queued"})
RowState(r) == IF rowOf[r] = 0 THEN "none" ELSE sms[<<r, rowOf[r]>>]
InFlight  == {r \in Recipient : RowState(r) = "open"}

TypeOK ==
    /\ wallet \in Nat /\ bought \in 0..MaxBought
    /\ camp \in [Campaign -> {"none", "queued", "sending", "paused", "completed", "cancelled"}]
    /\ passed \in [Campaign -> BOOLEAN]
    /\ {total, sent, failed, born} \subseteq [Campaign -> Nat]
    /\ rec \in [Recipient -> {"none", "pending", "queued", "sent", "failed", "cancelled"}]
    /\ attempts \in [Recipient -> 0..MaxAttempts]
    /\ rowOf \in [Recipient -> 0..MaxRows]
    /\ sms \in [Row -> {"none", "open", "sent", "failed", "deleted"}]
    /\ cooling \subseteq Phone
    /\ cpu \in Tick \cup Campaign \cup {Free}
    /\ phase \in [Tick \cup Campaign -> {"idle", "reconcile", "finalize", "hook", "enqueue",
                                         "reserved", "inserting", "deducted", "reset"}]
    /\ todo \in [Tick -> SUBSET Campaign]
    /\ budget \in [Tick -> [left : 0..Rate, share : 0..Rate]]
    /\ failedCount \in 0..Cardinality(Recipient)
    /\ retries \in [Campaign -> 0..MaxRetries]
    /\ crashes \in 0..MaxCrashes
    /\ torn \in BOOLEAN

NoBudget == [left |-> 0, share |-> 0]

Init ==
    /\ wallet = 0 /\ bought = 0
    /\ camp = [c \in Campaign |-> "none"]
    /\ passed = [c \in Campaign |-> FALSE]
    /\ total = [c \in Campaign |-> 0]
    /\ sent = [c \in Campaign |-> 0]
    /\ failed = [c \in Campaign |-> 0]
    /\ born = [c \in Campaign |-> 0]
    /\ rec = [r \in Recipient |-> "none"]
    /\ attempts = [r \in Recipient |-> 0]
    /\ rowOf = [r \in Recipient |-> 0]
    /\ sms = [x \in Row |-> "none"]
    /\ cooling = {}
    /\ cpu = Free
    /\ phase = [p \in Tick \cup Campaign |-> "idle"]
    /\ todo = [t \in Tick |-> {}]
    /\ budget = [t \in Tick |-> NoBudget]
    /\ failedCount = 0
    /\ retries = [c \in Campaign |-> 0]
    /\ crashes = 0
    /\ torn = FALSE

\* p goes on to phase ph and keeps the cpu unless it is done or awaits.
Goto(p, ph) ==
    /\ phase' = [phase EXCEPT ![p] = ph]
    /\ cpu' = IF ph \in {"idle", "hook"} THEN Free ELSE p

Runs(p, ph) == cpu = p /\ phase[p] = ph

-----------------------------------------------------------------------------
(* Credits                                                                  *)

\* An award credits the wallet (services/credits.ts); n credits at a time.
Buy(n) ==
    /\ cpu = Free
    /\ bought + n <= MaxBought
    /\ bought' = bought + n
    /\ wallet' = wallet + n
    /\ UNCHANGED <<campVars, recVars, sms, cooling, cpu, phase, tickVars, counters, torn>>

\* reserveBulkCredits and deductBulkCredits: nothing under the free pass,
\* otherwise the whole amount or a refusal.
Deduct(n, free) ==
    /\ free \/ wallet >= n
    /\ wallet' = IF free THEN wallet ELSE wallet - n
    /\ UNCHANGED bought

-----------------------------------------------------------------------------
(* The routes                                                               *)

\* POST /v5/bulk/campaigns.  The free pass is a snapshot of byodEligible taken
\* with the reservation.  The rows follow outside that transaction.
CreateReserve(c, free) ==
    /\ cpu = Free
    /\ camp[c] = "none" /\ ListOf(c) # {}
    /\ Deduct(Cardinality(ListOf(c)), free)
    /\ passed' = [passed EXCEPT ![c] = free]
    /\ Goto(c, "reserved")
    /\ UNCHANGED <<camp, total, sent, failed, born, recVars, sms, cooling, tickVars,
                   counters, torn>>

CreateInsertCampaign(c) ==
    /\ Runs(c, "reserved")
    /\ camp' = [camp EXCEPT ![c] = "queued"]
    /\ total' = [total EXCEPT ![c] = Cardinality(ListOf(c))]
    /\ born' = [born EXCEPT ![c] = Cardinality({b \in Campaign : camp[b] # "none"})]
    /\ Goto(c, "inserting")
    /\ UNCHANGED <<credits, passed, sent, failed, recVars, sms, cooling, tickVars,
                   counters, torn>>

CreateInsertRecipient(c) ==
    /\ Runs(c, "inserting")
    /\ \E r \in In(c, {"none"}) :
          /\ \A q \in In(c, {"none"}) : Idx[r] <= Idx[q]
          /\ rec' = [rec EXCEPT ![r] = "pending"]
          /\ Goto(c, IF In(c, {"none"}) = {r} THEN "idle" ELSE "inserting")
    /\ UNCHANGED <<credits, campVars, attempts, rowOf, sms, cooling, tickVars,
                   counters, torn>>

SetStatus(c, from, to) ==
    /\ cpu = Free
    /\ camp[c] \in from
    /\ camp' = [camp EXCEPT ![c] = to]
    /\ UNCHANGED <<credits, passed, total, sent, failed, born, recVars, sms, cooling,
                   cpu, phase, tickVars, counters, torn>>

Pause(c)  == SetStatus(c, {"queued", "sending"}, "paused")
Resume(c) == SetStatus(c, {"paused"}, "sending")

\* refundBulkCredits is called only for a campaign that was charged.
\* Mutant: it is called for every campaign.
RefundAlways(c) == Cardinality(OpenOf(c))
Refund(c) == IF passed[c] THEN 0 ELSE Cardinality(OpenOf(c))

\* Mutant: the queue rows are left to the phones.
CancelKeepsRows(c) ==
    /\ cpu = Free
    /\ camp[c] \in {"queued", "sending", "paused"}
    /\ rec' = [r \in Recipient |-> IF r \in OpenOf(c) THEN "cancelled" ELSE rec[r]]
    /\ camp' = [camp EXCEPT ![c] = "cancelled"]
    /\ wallet' = wallet + Refund(c)
    /\ UNCHANGED <<bought, passed, total, sent, failed, born, attempts, rowOf, sms, cooling,
                   cpu, phase, tickVars, counters, torn>>

\* POST .../cancel, one transaction: the open recipients are refunded, their
\* queue rows deleted unless they already have an outcome.
Cancel(c) ==
    /\ cpu = Free
    /\ camp[c] \in {"queued", "sending", "paused"}
    /\ Queue!Withdraw({<<r, rowOf[r]>> : r \in In(c, {"queued"})})
    /\ rec' = [r \in Recipient |-> IF r \in OpenOf(c) THEN "cancelled" ELSE rec[r]]
    /\ camp' = [camp EXCEPT ![c] = "cancelled"]
    /\ wallet' = wallet + Refund(c)
    /\ UNCHANGED <<bought, passed, total, sent, failed, born, attempts, rowOf, cooling,
                   cpu, phase, tickVars, counters, torn>>

\* POST .../retry-failed: three commits, the charge, the recipients, the campaign.
RetryDeduct(c) ==
    /\ cpu = Free
    /\ camp[c] \notin {"none", "cancelled"}
    /\ In(c, {"failed"}) # {}
    /\ retries[c] < MaxRetries
    /\ retries' = [retries EXCEPT ![c] = @ + 1]
    /\ Deduct(Cardinality(In(c, {"failed"})), passed[c])
    /\ failedCount' = Cardinality(In(c, {"failed"}))
    /\ Goto(c, "deducted")
    /\ UNCHANGED <<campVars, recVars, sms, cooling, todo, budget, crashes, torn>>

RetryReset(c) ==
    /\ Runs(c, "deducted")
    /\ rec' = [r \in Recipient |-> IF r \in In(c, {"failed"}) THEN "pending" ELSE rec[r]]
    /\ attempts' = [r \in Recipient |-> IF r \in In(c, {"failed"}) THEN 0 ELSE attempts[r]]
    /\ Goto(c, "reset")
    /\ UNCHANGED <<credits, campVars, rowOf, sms, cooling, tickVars, counters, torn>>

\* Mutant: the total is not grown.
RetryReopenOnly(c) ==
    /\ Runs(c, "reset")
    /\ camp' = [camp EXCEPT ![c] = "sending"]
    /\ failedCount' = 0
    /\ Goto(c, "idle")
    /\ UNCHANGED <<credits, passed, total, sent, failed, born, recVars, sms, cooling, todo,
                   budget, counters, torn>>

RetryReopen(c) ==
    /\ Runs(c, "reset")
    /\ camp' = [camp EXCEPT ![c] = "sending"]
    /\ total' = [total EXCEPT ![c] = @ + failedCount]
    /\ failedCount' = 0
    /\ Goto(c, "idle")
    /\ UNCHANGED <<credits, passed, sent, failed, born, recVars, sms, cooling, todo, budget,
                   counters, torn>>

-----------------------------------------------------------------------------
(* runBulkQueueTick                                                         *)

StartTick(t) ==
    /\ cpu = Free /\ phase[t] = "idle"
    /\ Goto(t, "reconcile")
    /\ UNCHANGED <<credits, campVars, recVars, sms, cooling, tickVars, counters, torn>>

\* The recipients whose row has an outcome.  The list is read once; nothing can
\* change it while the tick keeps the cpu.
Resolved == {r \in Recipient : rec[r] = "queued" /\ RowState(r) \in {"sent", "failed"}}

\* What the outcome of its row makes of a recipient.
AfterAttempt(r) ==
    IF RowState(r) = "sent" THEN "sent"
    ELSE IF attempts[r] + 1 < MaxAttempts THEN "pending" ELSE "failed"

\* reconcileResults, one transaction per recipient.
ReconcileOne(t, r) ==
    LET c    == CampaignOf[r]
        next == AfterAttempt(r)
    IN  /\ Runs(t, "reconcile") /\ r \in Resolved
        /\ rec' = [rec EXCEPT ![r] = next]
        /\ attempts' = [attempts EXCEPT ![r] = @ + 1]
        /\ sent' = [sent EXCEPT ![c] = IF next = "sent" THEN @ + 1 ELSE @]
        /\ failed' = [failed EXCEPT ![c] = IF next = "failed" THEN @ + 1 ELSE @]
        /\ cooling' = IF next = "sent" THEN cooling \cup {PhoneOf[r]} ELSE cooling
        /\ UNCHANGED <<credits, camp, passed, total, born, rowOf, sms, cpu, phase, tickVars,
                       counters, torn>>

\* Mutant: recipients waiting for another attempt are forgotten.
FinalizableTooSoon == {c \in Campaign : camp[c] = "sending" /\ In(c, {"queued"}) = {}}

\* findFinalizableCampaigns: the list the tick keeps across its awaits.
Finalizable == {c \in Campaign : camp[c] = "sending" /\ OpenOf(c) = {}}

StartFinalize(t) ==
    /\ Runs(t, "reconcile") /\ Resolved = {}
    /\ todo' = [todo EXCEPT ![t] = Finalizable]
    /\ Goto(t, "finalize")
    /\ UNCHANGED <<credits, campVars, recVars, sms, cooling, budget, failedCount, counters,
                   torn>>

\* UPDATE ... SET status = 'completed' ... AND status = 'sending'; the webhook
\* follows whether or not the update changed the row.
FinalizeOne(t, c) ==
    /\ Runs(t, "finalize") /\ c \in todo[t]
    /\ camp' = [camp EXCEPT ![c] = IF @ = "sending" THEN "completed" ELSE @]
    /\ todo' = [todo EXCEPT ![t] = @ \ {c}]
    /\ Goto(t, IF Hook THEN "hook" ELSE "finalize")
    /\ UNCHANGED <<credits, passed, total, sent, failed, born, recVars, sms, cooling,
                   budget, failedCount, counters, torn>>

\* The webhook got through, or its retries ran out; the tick goes on.
HookDone(t) ==
    /\ cpu = Free /\ phase[t] = "hook"
    /\ Goto(t, "finalize")
    /\ UNCHANGED <<credits, campVars, recVars, sms, cooling, tickVars, counters, torn>>

\* Mutants: rows in flight are not subtracted; resolved rows stay subtracted.
BudgetFull  == Rate
BudgetLeaky == LET used == Cardinality({r \in Recipient : RowState(r) # "none"})
               IN  IF used < Rate THEN Rate - used ELSE 0

Budget == IF Cardinality(InFlight) < Rate THEN Rate - Cardinality(InFlight) ELSE 0

StartEnqueue(t) ==
    LET active == {c \in Campaign : camp[c] \in {"queued", "sending"}}
        left   == Budget
    IN  /\ Runs(t, "finalize") /\ todo[t] = {}
        /\ IF left = 0 \/ active = {}
           THEN Goto(t, "idle") /\ UNCHANGED <<todo, budget>>
           ELSE /\ Goto(t, "enqueue")
                /\ todo' = [todo EXCEPT ![t] = active]
                /\ budget' = [budget EXCEPT ![t].left = left,
                                  ![t].share = Max({1, left \div Cardinality(active)})]
        /\ UNCHANGED <<credits, campVars, recVars, sms, cooling, failedCount, counters, torn>>

\* Mutant: a recipient whose row is still open is taken again.
FirstUnsent(c, n) ==
    LET ready == {r \in OpenOf(c) : PhoneOf[r] \notin cooling}
    IN  {r \in ready : Cardinality({q \in ready : Idx[q] < Idx[r]}) < n}

\* SELECT ... ORDER BY idx LIMIT n over the pending recipients that do not cool down.
FirstPending(c, n) ==
    LET ready == {r \in In(c, {"pending"}) : PhoneOf[r] \notin cooling}
    IN  {r \in ready : Cardinality({q \in ready : Idx[q] < Idx[r]}) < n}

\* The turn of the oldest campaign left, one transaction.
EnqueueOne(t, c) ==
    LET batch == FirstPending(c, Min({budget[t].share, budget[t].left}))
        left  == budget[t].left - Cardinality(batch)
        done  == left = 0 \/ todo[t] = {c}
    IN  /\ Runs(t, "enqueue") /\ c \in todo[t]
        /\ \A b \in todo[t] : born[c] <= born[b]
        /\ camp' = [camp EXCEPT ![c] = "sending"]
        /\ rowOf' = [r \in Recipient |-> IF r \in batch THEN rowOf[r] + 1 ELSE rowOf[r]]
        /\ Queue!Accept({<<r, rowOf[r] + 1>> : r \in batch})
        /\ rec' = [r \in Recipient |-> IF r \in batch THEN "queued" ELSE rec[r]]
        /\ todo' = [todo EXCEPT ![t] = IF done THEN {} ELSE @ \ {c}]
        /\ budget' = [budget EXCEPT ![t] = IF done THEN NoBudget ELSE [@ EXCEPT !.left = left]]
        /\ Goto(t, IF done THEN "idle" ELSE "enqueue")
        /\ UNCHANGED <<credits, passed, total, sent, failed, born, attempts, cooling,
                       failedCount, counters, torn>>

-----------------------------------------------------------------------------
(* The world                                                                *)

\* A phone reports an outcome for an open row.
Resolve(x, outcome) ==
    /\ cpu = Free /\ sms[x] = "open"
    /\ Queue!Resolve([y \in {x} |-> outcome])
    /\ UNCHANGED <<credits, campVars, recVars, cooling, cpu, phase, tickVars, counters, torn>>

CooldownEnds(p) ==
    /\ cpu = Free /\ p \in cooling
    /\ cooling' = cooling \ {p}
    /\ UNCHANGED <<credits, campVars, recVars, sms, cpu, phase, tickVars, counters, torn>>

\* The process dies with work in progress; the tables keep what was committed.
Crash ==
    /\ crashes < MaxCrashes
    /\ \E p \in Tick \cup Campaign : phase[p] # "idle"
    /\ crashes' = crashes + 1
    /\ torn' = (torn \/ \E c \in Campaign : phase[c] # "idle")
    /\ cpu' = Free
    /\ phase' = [p \in Tick \cup Campaign |-> "idle"]
    /\ todo' = [t \in Tick |-> {}]
    /\ budget' = [t \in Tick |-> NoBudget]
    /\ failedCount' = 0
    /\ UNCHANGED <<credits, campVars, recVars, sms, cooling, retries>>

Handler(c) ==
    \/ CreateInsertCampaign(c) \/ CreateInsertRecipient(c)
    \/ RetryReset(c) \/ RetryReopen(c)

TickStep(t) ==
    \/ \E r \in Recipient : ReconcileOne(t, r)
    \/ StartFinalize(t)
    \/ \E c \in Campaign : FinalizeOne(t, c) \/ EnqueueOne(t, c)
    \/ StartEnqueue(t)

Next ==
    \/ \E n \in 1..MaxBought : Buy(n)
    \/ \E c \in Campaign : \/ \E free \in BOOLEAN : CreateReserve(c, free)
                           \/ Pause(c) \/ Resume(c) \/ Cancel(c) \/ RetryDeduct(c)
                           \/ Handler(c)
    \/ \E t \in Tick : StartTick(t) \/ TickStep(t) \/ HookDone(t)
    \/ \E x \in Row, outcome \in {"sent", "failed"} : Resolve(x, outcome)
    \/ \E p \in Phone : CooldownEnds(p)
    \/ Crash

Spec == Init /\ [][Next]_vars

\* The scheduler starts ticks for ever, code that runs goes on, phones report
\* every row some time (SmsQueue!EventuallyResolved), cooldowns expire.  The
\* event loop serves a waiting request between two ticks: hence SF.
Fairness ==
    /\ \A t \in Tick : /\ SF_vars(StartTick(t)) /\ WF_vars(TickStep(t))
                       /\ SF_vars(HookDone(t))
    /\ \A c \in Campaign : WF_vars(Handler(c))
    /\ \A x \in Row : SF_vars(\E outcome \in {"sent", "failed"} : Resolve(x, outcome))
    /\ \A p \in Phone : SF_vars(CooldownEnds(p))

FairSpec == Spec /\ Fairness

-----------------------------------------------------------------------------
(* Properties                                                               *)

\* Between two requests the counters of a campaign account for every recipient
\* it was charged for (the dashboard's queued count is total - sent - failed),
\* unless a create or a retry was torn.
CountersMatch ==
    cpu = Free /\ ~torn =>
        \A c \in Campaign : camp[c] # "none" =>
            total[c] = sent[c] + failed[c]
                       + Cardinality(In(c, {"pending", "queued", "cancelled"}))

\* Credits are never minted: what is in the wallet or was paid for a recipient
\* of a campaign without the free pass was bought, through retries,
\* cancellations, overlapping ticks and crashes.  They are burnt only by a
\* crash between the commits of a create or a retry.  A credit is spent on
\* every outcome counted, and reserved for every recipient still open.
Spent == UNION {({"sent"} \X {c} \X (1..sent[c])) \cup ({"failed"} \X {c} \X (1..failed[c])) :
                    c \in {b \in Campaign : ~passed[b]}}
Reserved == {r \in Recipient : ~passed[CampaignOf[r]] /\ rec[r] \in {"pending", "queued"}}

CreditsConserved ==
    cpu = Free => LET accounted == wallet + Cardinality(Spent) + Cardinality(Reserved)
                  IN  accounted <= bought /\ (~torn => accounted = bought)

\* The rate budget: never more bulk rows in flight than BULK_SMS_RATE_PER_MINUTE.
RateBudget == Cardinality(InFlight) <= Rate

\* However a recipient's attempts, retries and crashes fall, at most one of its
\* rows is ever sent, and it never has two rows open at once.
DeliveredOnce ==
    \A r \in Recipient, st \in {"sent", "open"} :
        Cardinality({k \in 1..MaxRows : sms[<<r, k>>] = st}) <= 1

\* "Campaigns whose recipients have all reached a terminal state"
\* (services/bulk.ts:367): a completed campaign has nobody left to serve, unless it was
\* retried while a tick that had it on its list awaited the webhook of another one.
CompletedIsDone ==
    cpu = Free /\ ~torn =>
        \A c \in Campaign : camp[c] = "completed" => OpenOf(c) = {} \/ (Hook /\ retries[c] > 0)

\* Cancelling refunds "every unprocessed recipient" and voids the rows "so the
\* phone never sends them" (routes/bulk.ts:585-588): whatever ticks and retries are
\* under way, no SMS of a refunded recipient is recorded as sent from then on.
NothingSentAfterRefund ==
    [][\A r \in Recipient :
          rec[r] = "cancelled" /\ RowState(r) # "sent" => RowState(r)' # "sent"]_vars

\* Every recipient of a campaign that is not stopped ends.
EveryRecipientEnds ==
    \A r \in Recipient :
        rec[r] \in {"pending", "queued"} ~>
            \/ rec[r] \notin {"pending", "queued"}
            \/ camp[CampaignOf[r]] \notin {"queued", "sending"}
=============================================================================
