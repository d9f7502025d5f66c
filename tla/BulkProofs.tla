----------------------------- MODULE BulkProofs -----------------------------
(***************************************************************************)
(* Theorems about BulkCampaigns, for any campaigns, lists, ticks, rates    *)
(* and limits.                                                             *)
(***************************************************************************)
EXTENDS BulkCampaigns, FiniteSetTheorems, WellFoundedInduction, NaturalsInduction, TLAPS

\* A set of recipients is finite.
LEMMA Counted ==
    ASSUME NEW S, S \subseteq Recipient
    PROVE  IsFiniteSet(S) /\ Cardinality(S) \in Nat /\ Cardinality(S) <= Cardinality(Recipient)
BY BulkAssumption, FS_Subset, FS_CardinalityType DEF BulkAssumption

\* The smaller of two numbers, and a share of one.
LEMMA MinOfTwo ==
    ASSUME NEW a \in Nat, NEW b \in Nat
    PROVE  Min({a, b}) \in {a, b} /\ Min({a, b}) <= a /\ Min({a, b}) <= b
<1>1. \E x \in {a, b} : \A y \in {a, b} : x <= y
  OBVIOUS
<1> QED
  BY <1>1 DEF Min

\* A tick's share of the rate is at least one row and no more than what is left.
LEMMA ShareType ==
    ASSUME NEW a \in Nat, NEW n \in Nat, n # 0
    PROVE  /\ Max({1, a \div n}) \in Nat
           /\ a # 0 => Max({1, a \div n}) <= a
<1>1. a \div n \in Nat /\ a \div n <= a
  OBVIOUS
<1>2. \E x \in {1, a \div n} : \A y \in {1, a \div n} : x >= y
  BY <1>1
<1> QED
  BY <1>1, <1>2 DEF Max

\* Of the recipients of a campaign that are ready, the first n are no more than n: the
\* last of them has fewer than n before it.
LEMMA FirstAreFew ==
    ASSUME NEW c \in Campaign, NEW n \in Nat
    PROVE  /\ FirstPending(c, n) \subseteq In(c, {"pending"})
           /\ Cardinality(FirstPending(c, n)) <= n
<1> DEFINE ready == {r \in In(c, {"pending"}) : PhoneOf[r] \notin cooling}
           before(r) == {q \in ready : Idx[q] < Idx[r]}
           F == FirstPending(c, n)
<1>1. F = {r \in ready : Cardinality(before(r)) < n}
  BY DEF FirstPending
<1>2. ready \subseteq In(c, {"pending"}) /\ ready \subseteq Recipient /\ F \subseteq ready
  BY <1>1 DEF In, ListOf
<1>3. \A r, q \in ready : Idx[r] \in Nat /\ (Idx[r] = Idx[q] => r = q)
  BY <1>2, BulkAssumption DEF BulkAssumption, In, ListOf
<1> HIDE DEF ready
<1>4. CASE F = {}
  BY <1>2, <1>4, FS_EmptySet
<1>5. CASE F # {}
  <2> DEFINE rank(r) == Cardinality(before(r))
  <2>1. \A r \in ready : rank(r) \in Nat /\ IsFiniteSet(before(r))
    BY <1>2, Counted
  <2>2. PICK last \in F : \A r \in F : rank(r) <= rank(last)
    <3> DEFINE room == {n - rank(r) : r \in F}
    <3>1. room \subseteq Nat /\ room # {}
      <4>1. \A r \in F : rank(r) \in Nat /\ rank(r) < n
        BY <1>1, <1>2, <2>1
      <4> HIDE DEF rank, F
      <4> QED
        BY <1>5, <4>1
    <3>2. PICK x \in room : \A y \in room : ~(<<y, x>> \in OpToRel(<, Nat))
      BY <3>1, NatLessThanWellFounded, WFMin
    <3>3. PICK last \in F : x = n - rank(last)
      OBVIOUS
    <3>4. ASSUME NEW r \in F PROVE rank(r) <= rank(last)
      <4>1. n - rank(r) \in room /\ n - rank(r) \in Nat /\ x \in Nat
        BY <3>1
      <4>2. ~(n - rank(r) < x)
        BY <3>2, <4>1 DEF OpToRel
      <4>3. rank(r) \in Nat /\ rank(last) \in Nat
        BY <1>2, <2>1
      <4> HIDE DEF rank
      <4> QED
        BY <3>3, <4>1, <4>2, <4>3
    <3> QED
      BY <3>4
  <2>3. F \ {last} \subseteq before(last)
    <3> SUFFICES ASSUME NEW r \in F, r # last PROVE Idx[r] < Idx[last]
      BY <1>2
    <3>1. CASE Idx[last] < Idx[r]
      <4>1. before(last) \union {last} \subseteq before(r) /\ last \notin before(last)
        BY <1>2, <1>3, <3>1
      <4>2. IsFiniteSet(before(last)) /\ IsFiniteSet(before(r))
        BY <1>2, <2>1
      <4>3. Cardinality(before(last) \union {last}) = rank(last) + 1
        BY <4>1, <4>2, FS_AddElement
      <4>4. Cardinality(before(last) \union {last}) <= rank(r)
        BY <4>1, <4>2, FS_Subset
      <4>5. rank(r) \in Nat /\ rank(last) \in Nat /\ rank(r) <= rank(last)
        BY <1>2, <2>1, <2>2
      <4> HIDE DEF rank, before
      <4> QED
        BY <4>3, <4>4, <4>5
    <3> QED
      BY <1>2, <1>3, <3>1
  <2>4. IsFiniteSet(F) /\ Cardinality(F \ {last}) <= rank(last) /\ rank(last) < n
    BY <1>1, <1>2, <2>1, <2>3, Counted, FS_Subset
  <2>5. Cardinality(F \ {last}) = Cardinality(F) - 1
    BY <2>4, FS_RemoveElement
  <2>6. Cardinality(F) \in Nat /\ Cardinality(F \ {last}) \in Nat
    BY <1>2, Counted
  <2> QED
    BY <1>2, <2>1, <2>4, <2>5, <2>6
<1> QED
  BY <1>2, <1>4, <1>5

-----------------------------------------------------------------------------
(* Who runs.  Between two of its steps a handler keeps the cpu, and so does *)
(* a tick that does not wait for a webhook.                                 *)

PhaseInv ==
    /\ cpu \in Tick \union Campaign \union {Free}
    /\ phase \in [Tick \union Campaign ->
            {"idle", "reconcile", "finalize", "hook", "enqueue",
             "reserved", "inserting", "deducted", "reset"}]
    /\ \A c \in Campaign : /\ phase[c] \in {"idle", "reserved", "inserting", "deducted", "reset"}
                           /\ phase[c] # "idle" => cpu = c
    /\ \A t \in Tick : /\ phase[t] \in {"idle", "reconcile", "finalize", "hook", "enqueue"}
                       /\ phase[t] \notin {"idle", "hook"} => cpu = t

\* Whoever has the cpu may move to any of its own phases.
LEMMA GotoKeeps ==
    ASSUME PhaseInv, NEW p \in Tick \union Campaign, NEW ph,
           cpu \in {Free, p}, Goto(p, ph),
           \/ p \in Campaign /\ ph \in {"idle", "reserved", "inserting", "deducted", "reset"}
           \/ p \in Tick /\ ph \in {"idle", "reconcile", "finalize", "hook", "enqueue"}
    PROVE  PhaseInv'
<1>1. Free \notin Tick \union Campaign /\ Tick \cap Campaign = {}
  BY BulkAssumption DEF BulkAssumption
<1>2. \A q \in (Tick \union Campaign) \ {p} : phase'[q] = phase[q] /\ phase[q] \in {"idle", "hook"}
  BY <1>1 DEF Goto, PhaseInv
<1>3. /\ phase'[p] = ph /\ phase' \in [Tick \union Campaign ->
            {"idle", "reconcile", "finalize", "hook", "enqueue",
             "reserved", "inserting", "deducted", "reset"}]
      /\ cpu' \in {p, Free} /\ (ph \notin {"idle", "hook"} => cpu' = p)
  BY DEF Goto, PhaseInv
<1>4. \A c \in Campaign : phase'[c] # "hook"
  BY <1>1, <1>2, <1>3 DEF PhaseInv
<1>5. ASSUME NEW c \in Campaign
      PROVE  /\ phase'[c] \in {"idle", "reserved", "inserting", "deducted", "reset"}
             /\ phase'[c] # "idle" => cpu' = c
  BY <1>1, <1>2, <1>3 DEF PhaseInv
<1>6. ASSUME NEW t \in Tick
      PROVE  /\ phase'[t] \in {"idle", "reconcile", "finalize", "hook", "enqueue"}
             /\ phase'[t] \notin {"idle", "hook"} => cpu' = t
  BY <1>1, <1>2, <1>3 DEF PhaseInv
<1> QED
  BY <1>3, <1>5, <1>6 DEF PhaseInv

LEMMA PhaseInit == Init => PhaseInv
BY DEF Init, PhaseInv

LEMMA PhaseStep == PhaseInv /\ [Next]_vars => PhaseInv'
<1> SUFFICES ASSUME PhaseInv, [Next]_vars PROVE PhaseInv'
  OBVIOUS
<1>1. ASSUME UNCHANGED <<cpu, phase>> PROVE PhaseInv'
  BY <1>1 DEF PhaseInv
<1>2. ASSUME NEW c \in Campaign, NEW free \in BOOLEAN,
             CreateReserve(c, free) \/ Pause(c) \/ Resume(c) \/ Cancel(c) \/ RetryDeduct(c) \/ Handler(c)
      PROVE  PhaseInv'
  <2>1. CASE Pause(c) \/ Resume(c) \/ Cancel(c)
    BY <1>1, <2>1 DEF Pause, Resume, SetStatus, Cancel
  <2>2. CASE CreateReserve(c, free)
    BY <2>2, GotoKeeps DEF CreateReserve
  <2>3. CASE RetryDeduct(c)
    BY <2>3, GotoKeeps DEF RetryDeduct
  <2>4. CASE CreateInsertCampaign(c)
    BY <2>4, GotoKeeps DEF CreateInsertCampaign, Runs
  <2>5. CASE CreateInsertRecipient(c)
    BY <2>5, GotoKeeps DEF CreateInsertRecipient, Runs
  <2>6. CASE RetryReset(c)
    BY <2>6, GotoKeeps DEF RetryReset, Runs
  <2>7. CASE RetryReopen(c)
    BY <2>7, GotoKeeps DEF RetryReopen, Runs
  <2> QED
    BY <1>2, <2>1, <2>2, <2>3, <2>4, <2>5, <2>6, <2>7 DEF Handler
<1>3. ASSUME NEW t \in Tick, StartTick(t) \/ TickStep(t) \/ HookDone(t)
      PROVE  PhaseInv'
  <2>1. CASE StartTick(t)
    BY <2>1, GotoKeeps DEF StartTick
  <2>2. CASE HookDone(t)
    BY <2>2, GotoKeeps DEF HookDone
  <2>3. ASSUME NEW r \in Recipient, ReconcileOne(t, r) PROVE PhaseInv'
    BY <1>1, <2>3 DEF ReconcileOne
  <2>4. CASE StartFinalize(t)
    BY <2>4, GotoKeeps DEF StartFinalize, Runs
  <2>5. ASSUME NEW c \in Campaign, FinalizeOne(t, c) PROVE PhaseInv'
    BY <2>5, GotoKeeps DEF FinalizeOne, Runs
  <2>6. ASSUME NEW c \in Campaign, EnqueueOne(t, c) PROVE PhaseInv'
    <3>1. Goto(t, "idle") \/ Goto(t, "enqueue")
      BY <2>6 DEF EnqueueOne
    <3> QED
      BY <2>6, <3>1, GotoKeeps DEF EnqueueOne, Runs
  <2>7. CASE StartEnqueue(t)
    <3>1. Goto(t, "idle") \/ Goto(t, "enqueue")
      BY <2>7 DEF StartEnqueue
    <3> QED
      BY <2>7, <3>1, GotoKeeps DEF StartEnqueue, Runs
  <2> QED
    BY <1>3, <2>1, <2>2, <2>3, <2>4, <2>5, <2>6, <2>7 DEF TickStep
<1>4. CASE Crash
  BY <1>4 DEF Crash, PhaseInv
<1>5. CASE \/ \E n \in 1..MaxBought : Buy(n)
           \/ \E x \in Row, outcome \in {"sent", "failed"} : Resolve(x, outcome)
           \/ \E p \in Phone : CooldownEnds(p)
           \/ UNCHANGED vars
  BY <1>1, <1>5 DEF Buy, Resolve, CooldownEnds, vars
<1> QED
  BY <1>2, <1>3, <1>4, <1>5 DEF Next

-----------------------------------------------------------------------------
(* Types.  That there is a row left for every attempt is the one that is    *)
(* not a matter of form: a row is an attempt, or the one on its way, since  *)
(* the campaign's last retry.                                               *)

Used(r) == MaxAttempts * retries[CampaignOf[r]]

Bounded(r) ==
    /\ rec[r] = "none" => rowOf[r] = 0 /\ attempts[r] = 0
    /\ rec[r] = "pending" => rowOf[r] <= Used(r) + attempts[r] /\ attempts[r] < MaxAttempts
    /\ rec[r] = "queued" => rowOf[r] <= Used(r) + attempts[r] + 1 /\ attempts[r] < MaxAttempts
    /\ rec[r] = "failed" => /\ rowOf[r] <= Used(r) + MaxAttempts
                            /\ phase[CampaignOf[r]] = "deducted" => rowOf[r] <= Used(r)

TypeInv == TypeOK /\ PhaseInv /\ \A r \in Recipient : Bounded(r)

\* What the bound on a recipient's rows needs of multiplication.
LEMMA Times ==
    ASSUME NEW a \in Nat, NEW k \in Nat, NEW m \in Nat, k <= m
    PROVE  /\ a * k \in Nat /\ a * m \in Nat
           /\ a * k <= a * m
           /\ a * (k + 1) = a * k + a
           /\ a * (1 + m) = a * m + a
OBVIOUS

LEMMA RowsType == MaxRows \in Nat
<1>1. MaxAttempts \in Nat /\ MaxRetries \in Nat
  BY BulkAssumption DEF BulkAssumption
<1> QED
  BY <1>1, Times DEF MaxRows

\* A recipient has used so many rows that one more round of attempts still fits.
LEMMA UsedType ==
    ASSUME TypeOK, NEW r \in Recipient
    PROVE  /\ Used(r) \in Nat /\ MaxRows \in Nat
           /\ Used(r) + MaxAttempts <= MaxRows
           /\ CampaignOf[r] \in Campaign
<1>1. /\ MaxAttempts \in Nat /\ MaxRetries \in Nat /\ CampaignOf[r] \in Campaign
      /\ retries[CampaignOf[r]] \in Nat /\ retries[CampaignOf[r]] <= MaxRetries
  BY BulkAssumption DEF BulkAssumption, TypeOK
<1> QED
  BY <1>1, Times DEF Used, MaxRows

\* A pending recipient has room for another row.
LEMMA RoomForRow ==
    ASSUME TypeInv, NEW r \in Recipient, rec[r] = "pending"
    PROVE  rowOf[r] + 1 \in 1..MaxRows /\ <<r, rowOf[r] + 1>> \in Row
<1>1. rowOf[r] \in Nat /\ attempts[r] \in Nat /\ MaxAttempts \in Nat
  BY BulkAssumption, UsedType DEF BulkAssumption, TypeInv, TypeOK
<1>2. rowOf[r] <= Used(r) + attempts[r] /\ attempts[r] < MaxAttempts
  BY DEF TypeInv, Bounded
<1>3. rowOf[r] + 1 <= MaxRows
  BY <1>1, <1>2, UsedType DEF TypeInv
<1> QED
  BY <1>1, <1>3, UsedType DEF Row, TypeInv

LEMMA TypesInit == Init => TypeInv
<1> SUFFICES ASSUME Init PROVE TypeInv
  OBVIOUS
<1>1. Cardinality(Recipient) \in Nat
  BY Counted
<1>2. MaxRows \in Nat /\ MaxBought \in Nat /\ MaxRetries \in Nat /\ MaxCrashes \in Nat
      /\ Rate \in Nat /\ MaxAttempts \in Nat
  BY RowsType, BulkAssumption DEF BulkAssumption
<1>3. TypeOK
  <2>1. budget \in [Tick -> [left : 0..Rate, share : 0..Rate]]
    BY <1>2 DEF Init, NoBudget
  <2>2. /\ cpu \in Tick \union Campaign \union {Free}
        /\ phase \in [Tick \union Campaign -> {"idle", "reconcile", "finalize", "hook", "enqueue",
                                                "reserved", "inserting", "deducted", "reset"}]
    BY DEF Init
  <2>3. /\ {total, sent, failed, born} \subseteq [Campaign -> Nat]
        /\ wallet \in Nat /\ bought \in 0..MaxBought /\ crashes \in 0..MaxCrashes
        /\ failedCount \in 0..Cardinality(Recipient)
    BY <1>1, <1>2 DEF Init
  <2>4. /\ retries \in [Campaign -> 0..MaxRetries]
        /\ attempts \in [Recipient -> 0..MaxAttempts] /\ rowOf \in [Recipient -> 0..MaxRows]
    BY <1>2 DEF Init
  <2>5. /\ camp \in [Campaign -> {"none", "queued", "sending", "paused", "completed", "cancelled"}]
        /\ passed \in [Campaign -> BOOLEAN]
        /\ rec \in [Recipient -> {"none", "pending", "queued", "sent", "failed", "cancelled"}]
        /\ sms \in [Row -> {"none", "open", "sent", "failed", "deleted"}]
        /\ cooling \subseteq Phone /\ todo \in [Tick -> SUBSET Campaign] /\ torn \in BOOLEAN
    BY DEF Init
  <2> QED
    BY <2>1, <2>2, <2>3, <2>4, <2>5 DEF TypeOK
<1>4. \A r \in Recipient : Bounded(r)
  BY DEF Init, Bounded
<1> QED
  BY <1>3, <1>4, PhaseInit DEF TypeInv

\* The steps of the routes.
LEMMA RouteTypes ==
    ASSUME TypeInv, PhaseInv', NEW c \in Campaign,
           \/ \E free \in BOOLEAN : CreateReserve(c, free)
           \/ Pause(c) \/ Resume(c) \/ Cancel(c) \/ RetryDeduct(c) \/ Handler(c)
    PROVE  TypeOK'
<1> USE BulkAssumption DEF BulkAssumption, TypeInv, TypeOK, PhaseInv, credits, campVars, recVars, tickVars, counters
<1>1. ListOf(c) \subseteq Recipient /\ OpenOf(c) \subseteq Recipient /\ In(c, {"failed"}) \subseteq Recipient
  BY DEF ListOf, OpenOf, In
<1>2. ASSUME NEW free \in BOOLEAN, CreateReserve(c, free) PROVE TypeOK'
  <2>1. wallet' \in Nat
    BY <1>1, <1>2, Counted DEF CreateReserve, Deduct
  <2> QED
    BY <1>2, <2>1 DEF CreateReserve, Deduct
<1>3. CASE Pause(c) \/ Resume(c)
  BY <1>3 DEF Pause, Resume, SetStatus
<1>4. CASE Cancel(c)
  <2>1. wallet' \in Nat
    BY <1>1, <1>4, Counted DEF Cancel, Refund
  <2>2. sms' \in [Row -> {"none", "open", "sent", "failed", "deleted"}]
    BY <1>4 DEF Cancel, Queue!Withdraw
  <2> QED
    BY <1>4, <2>1, <2>2 DEF Cancel
<1>5. CASE RetryDeduct(c)
  <2>1. wallet' \in Nat /\ failedCount' \in 0..Cardinality(Recipient)
    BY <1>1, <1>5, Counted DEF RetryDeduct, Deduct
  <2> QED
    BY <1>5, <2>1 DEF RetryDeduct, Deduct
<1>6. CASE CreateInsertCampaign(c)
  <2>1. Cardinality(ListOf(c)) \in Nat
    BY <1>1, Counted
  <2>2. Cardinality({b \in Campaign : camp[b] # "none"}) \in Nat
    BY FS_Subset, FS_CardinalityType
  <2> QED
    BY <1>6, <2>1, <2>2 DEF CreateInsertCampaign
<1>7. CASE CreateInsertRecipient(c)
  BY <1>7 DEF CreateInsertRecipient
<1>8. CASE RetryReset(c)
  BY <1>8 DEF RetryReset
<1>9. CASE RetryReopen(c)
  <2>1. failedCount \in Nat
    BY Counted
  <2> QED
    BY <1>9, <2>1, Counted DEF RetryReopen
<1> QED
  BY <1>2, <1>3, <1>4, <1>5, <1>6, <1>7, <1>8, <1>9 DEF Handler

LEMMA EnqueueTypes ==
    ASSUME TypeInv, PhaseInv', NEW t \in Tick, NEW c \in Campaign, EnqueueOne(t, c)
    PROVE  TypeOK'
<1> DEFINE n == Min({budget[t].share, budget[t].left})
           batch == FirstPending(c, n)
           left == budget[t].left - Cardinality(batch)
           Budgets == [left : 0..Rate, share : 0..Rate]
<1>1. budget \in [Tick -> Budgets] /\ Rate \in Nat
  BY BulkAssumption DEF TypeInv, TypeOK, BulkAssumption
<1>2. budget[t] \in Budgets /\ budget[t].left \in 0..Rate /\ budget[t].left \in Nat /\ budget[t].share \in Nat
  BY <1>1
<1>3. n \in Nat /\ n <= budget[t].left
  BY <1>2, MinOfTwo
<1>4. batch \subseteq In(c, {"pending"}) /\ Cardinality(batch) <= n
  BY <1>3, FirstAreFew
<1>5. batch \subseteq Recipient /\ \A r \in batch : rec[r] = "pending"
  BY <1>4 DEF In, ListOf
<1>6. Cardinality(batch) \in Nat
  BY <1>5, Counted
<1>7. left \in 0..Rate
  <2> HIDE DEF batch, n
  <2> QED
    BY <1>1, <1>2, <1>3, <1>4, <1>6
<1>8. budget' \in [Tick -> Budgets]
  <2>1. NoBudget \in Budgets
    BY <1>1 DEF NoBudget
  <2>2. \/ budget' = [budget EXCEPT ![t] = NoBudget]
        \/ budget' = [budget EXCEPT ![t] = [budget[t] EXCEPT !.left = left]]
    BY DEF EnqueueOne
  <2> HIDE DEF left, batch, n
  <2>3. [budget[t] EXCEPT !.left = left] \in Budgets
    BY <1>2, <1>7
  <2> HIDE DEF Budgets
  <2> QED
    BY <1>1, <2>1, <2>2, <2>3
<1>9. rowOf' \in [Recipient -> 0..MaxRows]
  <2>1. \A r \in batch : rowOf[r] + 1 \in 0..MaxRows
    <3> SUFFICES ASSUME NEW r \in batch PROVE rowOf[r] + 1 \in 0..MaxRows
      OBVIOUS
    <3>1. rowOf[r] + 1 \in 1..MaxRows
      BY <1>5, RoomForRow
    <3> QED
      BY <3>1, RowsType
  <2>2. rowOf' = [r \in Recipient |-> IF r \in batch THEN rowOf[r] + 1 ELSE rowOf[r]]
    BY DEF EnqueueOne
  <2>3. rowOf \in [Recipient -> 0..MaxRows]
    BY DEF TypeInv, TypeOK
  <2> HIDE DEF batch
  <2> QED
    BY <2>1, <2>2, <2>3
<1>10. sms' \in [Row -> {"none", "open", "sent", "failed", "deleted"}]
  BY DEF EnqueueOne, Queue!Accept, TypeInv, TypeOK
<1>11. todo' \in [Tick -> SUBSET Campaign]
  BY DEF EnqueueOne, TypeInv, TypeOK
<1>12. /\ rec' \in [Recipient -> {"none", "pending", "queued", "sent", "failed", "cancelled"}]
       /\ camp' \in [Campaign -> {"none", "queued", "sending", "paused", "completed", "cancelled"}]
  BY DEF EnqueueOne, TypeInv, TypeOK
<1>13. UNCHANGED <<wallet, bought, passed, total, sent, failed, born, attempts, cooling,
                   failedCount, retries, crashes, torn>>
  BY DEF EnqueueOne, credits, counters
<1> HIDE DEF batch, n, left
<1> QED
  BY <1>8, <1>9, <1>10, <1>11, <1>12, <1>13 DEF TypeInv, TypeOK, PhaseInv

LEMMA StartEnqueueTypes ==
    ASSUME TypeInv, PhaseInv', NEW t \in Tick, StartEnqueue(t)
    PROVE  TypeOK'
<1> DEFINE active == {c \in Campaign : camp[c] \in {"queued", "sending"}}
           share == Max({1, Budget \div Cardinality(active)})
           Budgets == [left : 0..Rate, share : 0..Rate]
<1>1. Cardinality(active) \in Nat /\ (active # {} => Cardinality(active) # 0)
  <2>1. IsFiniteSet(active)
    BY BulkAssumption, FS_Subset DEF BulkAssumption
  <2> HIDE DEF active
  <2> QED
    BY <2>1, FS_CardinalityType, FS_EmptySet
<1>2. Budget \in 0..Rate /\ Budget \in Nat /\ Rate \in Nat
  <2>1. Cardinality(InFlight) \in Nat
    BY Counted DEF InFlight
  <2> QED
    BY <2>1, BulkAssumption DEF Budget, BulkAssumption
<1>3. active # {} /\ Budget # 0 => share \in 0..Rate
  <2> DEFINE k == Cardinality(active)
  <2> SUFFICES ASSUME active # {}, Budget # 0 PROVE Max({1, Budget \div k}) \in 0..Rate
    OBVIOUS
  <2>1. k \in Nat /\ k # 0
    BY <1>1
  <2> HIDE DEF active, k
  <2>2. Max({1, Budget \div k}) \in Nat /\ Max({1, Budget \div k}) <= Budget
    BY <1>2, <2>1, ShareType
  <2> QED
    BY <1>2, <2>2
<1>4. todo' \in [Tick -> SUBSET Campaign]
  <2>1. todo \in [Tick -> SUBSET Campaign] /\ active \in SUBSET Campaign
    BY DEF TypeInv, TypeOK
  <2>2. UNCHANGED todo \/ todo' = [todo EXCEPT ![t] = active]
    BY DEF StartEnqueue
  <2> HIDE DEF active
  <2> QED
    BY <2>1, <2>2
<1>5. budget' \in [Tick -> Budgets]
  <2>1. budget \in [Tick -> Budgets]
    BY DEF TypeInv, TypeOK
  <2>2. \/ UNCHANGED budget
        \/ /\ active # {} /\ Budget # 0
           /\ budget' = [budget EXCEPT ![t].left = Budget, ![t].share = share]
    BY DEF StartEnqueue
  <2> HIDE DEF active, share
  <2> QED
    BY <1>2, <1>3, <2>1, <2>2
<1>6. UNCHANGED <<credits, campVars, recVars, sms, cooling, failedCount, counters, torn>>
  BY DEF StartEnqueue
<1> QED
  BY <1>4, <1>5, <1>6 DEF TypeInv, TypeOK, PhaseInv, credits, campVars, recVars, counters

\* The steps of a tick.
LEMMA TickTypes ==
    ASSUME TypeInv, PhaseInv', NEW t \in Tick, StartTick(t) \/ TickStep(t) \/ HookDone(t)
    PROVE  TypeOK'
<1> USE BulkAssumption DEF BulkAssumption, TypeInv, TypeOK, PhaseInv, credits, campVars, recVars, tickVars, counters
<1>1. CASE StartTick(t) \/ HookDone(t)
  BY <1>1 DEF StartTick, HookDone
<1>2. ASSUME NEW r \in Recipient, ReconcileOne(t, r) PROVE TypeOK'
  <2>1. attempts[r] + 1 \in 0..MaxAttempts
    BY <1>2 DEF ReconcileOne, Resolved, Bounded
  <2>2. AfterAttempt(r) \in {"sent", "pending", "failed"}
    BY DEF AfterAttempt
  <2> HIDE DEF AfterAttempt
  <2>3. rec' \in [Recipient -> {"none", "pending", "queued", "sent", "failed", "cancelled"}]
    BY <1>2, <2>2 DEF ReconcileOne
  <2>4. sent' \in [Campaign -> Nat] /\ failed' \in [Campaign -> Nat]
    BY <1>2 DEF ReconcileOne
  <2>5. cooling' \subseteq Phone
    BY <1>2 DEF ReconcileOne
  <2>6. attempts' \in [Recipient -> 0..MaxAttempts]
    BY <1>2, <2>1 DEF ReconcileOne
  <2> QED
    BY <1>2, <2>3, <2>4, <2>5, <2>6 DEF ReconcileOne
<1>3. CASE StartFinalize(t)
  <2>1. Finalizable \in SUBSET Campaign
    BY DEF Finalizable
  <2> QED
    BY <1>3, <2>1 DEF StartFinalize
<1>4. ASSUME NEW c \in Campaign, FinalizeOne(t, c) PROVE TypeOK'
  BY <1>4 DEF FinalizeOne
<1>5. ASSUME NEW c \in Campaign, EnqueueOne(t, c) PROVE TypeOK'
  BY <1>5, EnqueueTypes
<1>6. CASE StartEnqueue(t)
  BY <1>6, StartEnqueueTypes
<1> QED
  BY <1>1, <1>2, <1>3, <1>4, <1>5, <1>6 DEF TickStep

-----------------------------------------------------------------------------
(* A recipient and its rows: the rows before the last have failed, and what  *)
(* became of the last one agrees with the recipient's status.                *)

Rows(r) ==
    /\ \A k \in 1..MaxRows : /\ k > rowOf[r] => sms[<<r, k>>] = "none"
                             /\ k < rowOf[r] => sms[<<r, k>>] = "failed"
    /\ rec[r] \in {"pending", "failed"} => rowOf[r] = 0 \/ RowState(r) = "failed"
    /\ rec[r] = "queued" => RowState(r) \in {"open", "sent", "failed"}
    /\ rec[r] = "cancelled" => RowState(r) # "open"

RowInv == TypeInv /\ \A r \in Recipient : Rows(r)

LEMMA RecipientTypes ==
    ASSUME TypeOK, NEW r \in Recipient
    PROVE  /\ rowOf[r] \in 0..MaxRows /\ rowOf[r] \in Nat
           /\ attempts[r] \in Nat /\ MaxRows \in Nat
           /\ MaxAttempts \in Nat /\ MaxAttempts # 0
           /\ rowOf[r] # 0 => <<r, rowOf[r]>> \in Row
           /\ rec[r] \in {"none", "pending", "queued", "sent", "failed", "cancelled"}
<1>1. MaxAttempts \in Nat /\ MaxAttempts # 0 /\ MaxRows \in Nat
  BY RowsType, BulkAssumption DEF BulkAssumption
<1>2. rowOf[r] \in 0..MaxRows /\ attempts[r] \in 0..MaxAttempts
  BY DEF TypeOK
<1>3. rec[r] \in {"none", "pending", "queued", "sent", "failed", "cancelled"}
  BY DEF TypeOK
<1>4. rowOf[r] # 0 => rowOf[r] \in 1..MaxRows
  BY <1>1, <1>2
<1> QED
  BY <1>1, <1>2, <1>3, <1>4 DEF Row

\* A step that only moves the handlers, or changes campaigns and counters.
LEMMA RowsUntouched ==
    ASSUME RowInv, UNCHANGED <<rec, attempts, rowOf, retries, sms>>,
           \A c \in Campaign : phase'[c] = "deducted" => phase[c] = "deducted"
    PROVE  \A r \in Recipient : Bounded(r)' /\ Rows(r)'
<1> SUFFICES ASSUME NEW r \in Recipient PROVE Bounded(r)' /\ Rows(r)'
  OBVIOUS
<1>1. CampaignOf[r] \in Campaign /\ Bounded(r) /\ Rows(r)
  BY UsedType DEF RowInv, TypeInv
<1>2. Bounded(r)'
  BY <1>1 DEF Bounded, Used
<1>3. Rows(r)'
  BY <1>1 DEF Rows, RowState
<1> QED
  BY <1>2, <1>3

LEMMA RowsOfInsert ==
    ASSUME RowInv, PhaseInv', NEW c \in Campaign, CreateInsertRecipient(c)
    PROVE  \A r \in Recipient : Bounded(r)' /\ Rows(r)'
<1> SUFFICES ASSUME NEW r \in Recipient PROVE Bounded(r)' /\ Rows(r)'
  OBVIOUS
<1>1. PICK q \in In(c, {"none"}) : /\ rec' = [rec EXCEPT ![q] = "pending"]
                                   /\ Goto(c, "idle") \/ Goto(c, "inserting")
  BY DEF CreateInsertRecipient
<1>2. UNCHANGED <<attempts, rowOf, sms, retries>>
  BY DEF CreateInsertRecipient, counters
<1>3. \A b \in Campaign : phase'[b] = "deducted" => phase[b] = "deducted"
  BY <1>1 DEF Goto, RowInv, TypeInv, PhaseInv
<1>4. CampaignOf[r] \in Campaign /\ Bounded(r) /\ Rows(r) /\ Used(r) \in Nat
  BY UsedType DEF RowInv, TypeInv
<1>5. CASE r = q
  <2>1. rec[r] = "none" /\ rec'[r] = "pending"
    BY <1>1, <1>5 DEF In, RowInv, TypeInv, TypeOK
  <2>2. rowOf[r] = 0 /\ attempts[r] = 0
    BY <1>4, <2>1 DEF Bounded
  <2>3. MaxAttempts \in Nat /\ 0 < MaxAttempts
    BY BulkAssumption DEF BulkAssumption
  <2>4. Used(r)' = Used(r)
    BY <1>2 DEF Used
  <2>5. Bounded(r)'
    BY <1>2, <1>4, <2>1, <2>2, <2>3, <2>4 DEF Bounded
  <2>6. Rows(r)'
    BY <1>2, <1>4, <2>1, <2>2 DEF Rows, RowState
  <2> QED
    BY <2>5, <2>6
<1>6. CASE r # q
  <2>1. rec'[r] = rec[r]
    BY <1>1, <1>6 DEF RowInv, TypeInv, TypeOK
  <2> QED
    BY <1>2, <1>3, <1>4, <2>1 DEF Bounded, Used, Rows, RowState
<1> QED
  BY <1>5, <1>6

LEMMA RowsOfCancel ==
    ASSUME RowInv, NEW c \in Campaign, Cancel(c)
    PROVE  \A r \in Recipient : Bounded(r)' /\ Rows(r)'
<1> SUFFICES ASSUME NEW r \in Recipient PROVE Bounded(r)' /\ Rows(r)'
  OBVIOUS
<1>1. UNCHANGED <<attempts, rowOf, retries, phase>>
  BY DEF Cancel, counters
<1>2. /\ rec'[r] = IF r \in OpenOf(c) THEN "cancelled" ELSE rec[r]
      /\ \A k \in 1..MaxRows :
            sms'[<<r, k>>] = IF r \in In(c, {"queued"}) /\ k = rowOf[r] /\ sms[<<r, k>>] = "open"
                             THEN "deleted" ELSE sms[<<r, k>>]
  BY DEF Cancel, Queue!Withdraw, Row
<1>3. Bounded(r) /\ Rows(r)
  BY DEF RowInv, TypeInv
<1>4. Bounded(r)'
  BY <1>1, <1>2, <1>3 DEF Bounded, Used
<1>5. /\ rowOf[r] \in 0..MaxRows /\ MaxRows \in Nat
      /\ rec[r] \in {"none", "pending", "queued", "sent", "failed", "cancelled"}
  BY RecipientTypes DEF RowInv, TypeInv
<1>6. r \in In(c, {"queued"}) => rec[r] = "queued" /\ r \in OpenOf(c)
  BY DEF In, OpenOf
<1>7. r \in OpenOf(c) /\ rec[r] = "queued" => r \in In(c, {"queued"})
  BY DEF In, OpenOf
<1>8. r \in OpenOf(c) => rec[r] \in {"pending", "queued"}
  BY DEF In, OpenOf
<1>9. RowState(r)' = IF r \in In(c, {"queued"}) /\ RowState(r) = "open" THEN "deleted" ELSE RowState(r)
  <2>1. rowOf[r] # 0 => rowOf[r] \in 1..MaxRows
    BY <1>5
  <2> QED
    BY <1>1, <1>2, <2>1 DEF RowState
<1>10. Rows(r)'
  <2>1. \A k \in 1..MaxRows : /\ k > rowOf[r] => sms'[<<r, k>>] = "none"
                              /\ k < rowOf[r] => sms'[<<r, k>>] = "failed"
    BY <1>2, <1>3, <1>5 DEF Rows
  <2>2. /\ rec'[r] \in {"pending", "failed"} => rowOf[r] = 0 \/ RowState(r)' = "failed"
        /\ rec'[r] = "queued" => RowState(r)' \in {"open", "sent", "failed"}
        /\ rec'[r] = "cancelled" => RowState(r)' # "open"
    <3>1. CASE r \in OpenOf(c)
      <4>1. rec'[r] = "cancelled"
        BY <1>2, <3>1
      <4>2. CASE rec[r] = "queued"
        BY <1>7, <1>9, <3>1, <4>1, <4>2
      <4>3. CASE rec[r] = "pending"
        BY <1>3, <1>6, <1>9, <4>1, <4>3 DEF Rows, RowState
      <4> QED
        BY <1>8, <3>1, <4>2, <4>3
    <3>2. CASE r \notin OpenOf(c)
      BY <1>2, <1>3, <1>6, <1>9, <3>2 DEF Rows
    <3> QED
      BY <3>1, <3>2
  <2> QED
    BY <1>1, <2>1, <2>2 DEF Rows
<1> QED
  BY <1>4, <1>10

LEMMA RowsOfRetry ==
    ASSUME RowInv, PhaseInv', NEW c \in Campaign, RetryDeduct(c) \/ RetryReset(c)
    PROVE  \A r \in Recipient : Bounded(r)' /\ Rows(r)'
<1> SUFFICES ASSUME NEW r \in Recipient PROVE Bounded(r)' /\ Rows(r)'
  OBVIOUS
<1>1. CampaignOf[r] \in Campaign /\ Bounded(r) /\ Rows(r) /\ Used(r) \in Nat
  BY UsedType DEF RowInv, TypeInv
<1>2. /\ rowOf[r] \in Nat /\ attempts[r] \in Nat /\ MaxAttempts \in Nat /\ MaxAttempts # 0
      /\ MaxRows \in Nat
  BY RecipientTypes DEF RowInv, TypeInv
<1>3. CASE RetryDeduct(c)
  <2>1. UNCHANGED <<rec, attempts, rowOf, sms>>
    BY <1>3 DEF RetryDeduct, recVars
  <2>2. \A b \in Campaign \ {c} : phase'[b] = phase[b] /\ retries'[b] = retries[b]
    BY <1>3 DEF RetryDeduct, Goto, RowInv, TypeInv, PhaseInv, TypeOK
  <2>3. retries'[c] = retries[c] + 1 /\ retries[c] \in Nat
    BY <1>3, BulkAssumption DEF RetryDeduct, RowInv, TypeInv, TypeOK, BulkAssumption
  <2>4. CampaignOf[r] = c => Used(r)' = Used(r) + MaxAttempts
    <3>1. MaxAttempts * (retries[c] + 1) = MaxAttempts * retries[c] + MaxAttempts
      BY <1>2, <2>3, Times
    <3> QED
      BY <2>3, <3>1 DEF Used
  <2>5. CampaignOf[r] # c => Used(r)' = Used(r)
    BY <1>1, <2>2 DEF Used
  <2> HIDE DEF Used
  <2>6. Bounded(r)'
    BY <1>1, <1>2, <2>1, <2>2, <2>4, <2>5 DEF Bounded
  <2>7. Rows(r)'
    BY <1>1, <2>1 DEF Rows, RowState
  <2> QED
    BY <2>6, <2>7
<1>4. CASE RetryReset(c)
  <2>1. UNCHANGED <<rowOf, sms, retries>>
    BY <1>4 DEF RetryReset, counters
  <2>2. phase[c] = "deducted"
    BY <1>4 DEF RetryReset, Runs
  <2>3. \A b \in Campaign : phase'[b] = "deducted" => phase[b] = "deducted"
    BY <1>4 DEF RetryReset, Goto, RowInv, TypeInv, PhaseInv
  <2>4. /\ rec'[r] = IF r \in In(c, {"failed"}) THEN "pending" ELSE rec[r]
        /\ attempts'[r] = IF r \in In(c, {"failed"}) THEN 0 ELSE attempts[r]
    BY <1>4 DEF RetryReset
  <2>5. r \in In(c, {"failed"}) => rec[r] = "failed" /\ CampaignOf[r] = c
    BY DEF In, ListOf
  <2>6. Used(r)' = Used(r)
    BY <2>1 DEF Used
  <2>7. Bounded(r)'
    BY <1>1, <1>2, <2>1, <2>2, <2>3, <2>4, <2>5, <2>6 DEF Bounded
  <2>8. Rows(r)'
    BY <1>1, <2>1, <2>4, <2>5 DEF Rows, RowState
  <2> QED
    BY <2>7, <2>8
<1> QED
  BY <1>3, <1>4

LEMMA RowsOfReconcile ==
    ASSUME RowInv, NEW t \in Tick, NEW q \in Recipient, ReconcileOne(t, q)
    PROVE  \A r \in Recipient : Bounded(r)' /\ Rows(r)'
<1> SUFFICES ASSUME NEW r \in Recipient PROVE Bounded(r)' /\ Rows(r)'
  OBVIOUS
<1>1. CampaignOf[r] \in Campaign /\ Bounded(r) /\ Rows(r) /\ Used(r) \in Nat
  BY UsedType DEF RowInv, TypeInv
<1>2. rowOf[r] \in Nat /\ attempts[r] \in Nat /\ MaxAttempts \in Nat
  BY RecipientTypes DEF RowInv, TypeInv
<1>3. UNCHANGED <<rowOf, sms, retries, phase, cpu>> /\ Used(r)' = Used(r)
  BY DEF ReconcileOne, counters, Used
<1>4. CASE r # q
  <2>1. rec'[r] = rec[r] /\ attempts'[r] = attempts[r]
    BY <1>4 DEF ReconcileOne, RowInv, TypeInv, TypeOK
  <2> QED
    BY <1>1, <1>3, <2>1 DEF Bounded, Rows, RowState
<1>5. CASE r = q
  <2>1. rec[r] = "queued" /\ RowState(r) \in {"sent", "failed"}
    BY <1>5 DEF ReconcileOne, Resolved
  <2>2. rec'[r] = AfterAttempt(r) /\ attempts'[r] = attempts[r] + 1
    BY <1>5 DEF ReconcileOne, RowInv, TypeInv, TypeOK
  <2>3. phase[CampaignOf[r]] # "deducted"
    <3>1. cpu = t /\ t \notin Campaign
      BY BulkAssumption DEF ReconcileOne, Runs, BulkAssumption
    <3> QED
      BY <1>1, <3>1 DEF RowInv, TypeInv, PhaseInv
  <2>4. Bounded(r)'
    BY <1>1, <1>2, <1>3, <2>1, <2>2, <2>3 DEF Bounded, AfterAttempt
  <2>5. Rows(r)'
    BY <1>1, <1>3, <2>1, <2>2 DEF Rows, RowState, AfterAttempt
  <2> QED
    BY <2>4, <2>5
<1> QED
  BY <1>4, <1>5

LEMMA RowsOfEnqueue ==
    ASSUME RowInv, PhaseInv', NEW t \in Tick, NEW c \in Campaign, EnqueueOne(t, c)
    PROVE  \A r \in Recipient : Bounded(r)' /\ Rows(r)'
<1> DEFINE batch == FirstPending(c, Min({budget[t].share, budget[t].left}))
<1> SUFFICES ASSUME NEW r \in Recipient PROVE Bounded(r)' /\ Rows(r)'
  OBVIOUS
<1>1. CampaignOf[r] \in Campaign /\ Bounded(r) /\ Rows(r) /\ Used(r) \in Nat
  BY UsedType DEF RowInv, TypeInv
<1>2. /\ rowOf[r] \in 0..MaxRows /\ rowOf[r] \in Nat /\ attempts[r] \in Nat /\ MaxAttempts \in Nat
      /\ MaxRows \in Nat
  BY RecipientTypes DEF RowInv, TypeInv
<1>3. UNCHANGED <<attempts, retries>> /\ Used(r)' = Used(r)
  BY DEF EnqueueOne, counters, Used
<1>4. /\ rec'[r] = IF r \in batch THEN "queued" ELSE rec[r]
      /\ rowOf'[r] = IF r \in batch THEN rowOf[r] + 1 ELSE rowOf[r]
      /\ \A k \in 1..MaxRows :
            sms'[<<r, k>>] = IF r \in batch /\ k = rowOf[r] + 1 THEN "open" ELSE sms[<<r, k>>]
  BY DEF EnqueueOne, Queue!Accept, Row
<1>5. \A b \in Campaign : phase'[b] = phase[b]
  BY BulkAssumption DEF EnqueueOne, Goto, RowInv, TypeInv, PhaseInv, BulkAssumption
<1>6. r \in batch => rec[r] = "pending"
  BY DEF FirstPending, In
<1> HIDE DEF batch
<1>7. CASE r \notin batch
  <2>1. Bounded(r)'
    BY <1>1, <1>3, <1>4, <1>5, <1>7 DEF Bounded
  <2>2. RowState(r)' = RowState(r)
    <3>1. rowOf[r] # 0 => rowOf[r] \in 1..MaxRows
      BY <1>2
    <3> QED
      BY <1>4, <1>7, <3>1 DEF RowState
  <2>3. Rows(r)'
    BY <1>1, <1>4, <1>7, <2>2 DEF Rows
  <2> QED
    BY <2>1, <2>3
<1>8. CASE r \in batch
  <2>1. rowOf[r] + 1 \in 1..MaxRows
    BY <1>6, <1>8, RoomForRow DEF RowInv
  <2>2. Bounded(r)'
    BY <1>1, <1>2, <1>3, <1>4, <1>6, <1>8 DEF Bounded
  <2>3. RowState(r)' = "open"
    BY <1>2, <1>4, <1>8, <2>1 DEF RowState
  <2>4. rowOf[r] # 0 => rowOf[r] \in 1..MaxRows /\ sms[<<r, rowOf[r]>>] = "failed"
    BY <1>1, <1>2, <1>6, <1>8 DEF Rows, RowState
  <2>5. \A k \in 1..MaxRows : /\ k > rowOf[r] + 1 => sms'[<<r, k>>] = "none"
                              /\ k < rowOf[r] + 1 => sms'[<<r, k>>] = "failed"
    <3> SUFFICES ASSUME NEW k \in 1..MaxRows
                 PROVE  /\ k > rowOf[r] + 1 => sms'[<<r, k>>] = "none"
                        /\ k < rowOf[r] + 1 => sms'[<<r, k>>] = "failed"
      OBVIOUS
    <3>1. k # rowOf[r] + 1 => sms'[<<r, k>>] = sms[<<r, k>>]
      BY <1>4, <1>8
    <3>2. CASE k > rowOf[r] + 1
      BY <1>1, <1>2, <3>1, <3>2 DEF Rows
    <3>3. CASE k < rowOf[r]
      BY <1>1, <1>2, <3>1, <3>3 DEF Rows
    <3>4. CASE k = rowOf[r]
      BY <1>2, <2>4, <3>1, <3>4
    <3> QED
      BY <1>2, <3>2, <3>3, <3>4
  <2>6. Rows(r)'
    BY <1>4, <1>8, <2>3, <2>5 DEF Rows
  <2> QED
    BY <2>2, <2>6
<1> QED
  BY <1>7, <1>8

LEMMA RowsOfResolve ==
    ASSUME RowInv, NEW x \in Row, NEW outcome \in {"sent", "failed"}, Resolve(x, outcome)
    PROVE  \A r \in Recipient : Bounded(r)' /\ Rows(r)'
<1> SUFFICES ASSUME NEW r \in Recipient PROVE Bounded(r)' /\ Rows(r)'
  OBVIOUS
<1>1. Bounded(r) /\ Rows(r)
  BY DEF RowInv, TypeInv
<1>2. UNCHANGED <<rec, attempts, rowOf, retries, phase>>
  BY DEF Resolve, recVars, counters
<1>3. rowOf[r] \in 0..MaxRows /\ MaxRows \in Nat
  BY RecipientTypes DEF RowInv, TypeInv
<1>4. \A k \in 1..MaxRows :
         sms'[<<r, k>>] = IF <<r, k>> = x THEN outcome ELSE sms[<<r, k>>]
  BY DEF Resolve, Queue!Resolve, Row
<1>5. \A k \in 1..MaxRows : <<r, k>> = x => k = rowOf[r] /\ RowState(r) = "open"
  <2> SUFFICES ASSUME NEW k \in 1..MaxRows, <<r, k>> = x PROVE k = rowOf[r] /\ RowState(r) = "open"
    OBVIOUS
  <2>1. sms[<<r, k>>] = "open"
    BY DEF Resolve
  <2>2. ~(k > rowOf[r]) /\ ~(k < rowOf[r])
    BY <1>1, <2>1 DEF Rows
  <2> QED
    BY <1>3, <2>1, <2>2 DEF RowState
<1>6. RowState(r)' = RowState(r) \/ (RowState(r) = "open" /\ RowState(r)' = outcome)
  <2>1. rowOf[r] # 0 => rowOf[r] \in 1..MaxRows
    BY <1>3
  <2> QED
    BY <1>2, <1>4, <1>5, <2>1 DEF RowState
<1>7. \A k \in 1..MaxRows : /\ k > rowOf[r] => sms'[<<r, k>>] = "none"
                            /\ k < rowOf[r] => sms'[<<r, k>>] = "failed"
  BY <1>1, <1>3, <1>4, <1>5 DEF Rows
<1>8. Rows(r)'
  <2>1. rowOf[r] = 0 => RowState(r) = "none"
    BY DEF RowState
  <2> QED
    BY <1>1, <1>2, <1>6, <1>7, <2>1 DEF Rows
<1>9. Bounded(r)'
  BY <1>1, <1>2 DEF Bounded, Used
<1> QED
  BY <1>8, <1>9

LEMMA RowsInit == Init => RowInv
<1> SUFFICES ASSUME Init PROVE \A r \in Recipient : Rows(r)
  BY TypesInit DEF RowInv
<1>1. \A r \in Recipient : rec[r] = "none" /\ rowOf[r] = 0
  BY DEF Init
<1>2. \A r \in Recipient, k \in 1..MaxRows : sms[<<r, k>>] = "none" /\ ~(k < 0)
  BY RowsType DEF Init, Row
<1> QED
  BY <1>1, <1>2 DEF Rows

LEMMA RowStep == RowInv /\ [Next]_vars => RowInv'
<1> SUFFICES ASSUME RowInv, [Next]_vars PROVE RowInv'
  OBVIOUS
<1>1. PhaseInv' /\ TypeInv
  BY PhaseStep DEF RowInv, TypeInv
<1>2. ASSUME TypeOK', \A r \in Recipient : Bounded(r)' /\ Rows(r)'
      PROVE  RowInv'
  BY <1>1, <1>2 DEF RowInv, TypeInv
<1>3. ASSUME NEW c \in Campaign, NEW free \in BOOLEAN,
             CreateReserve(c, free) \/ Pause(c) \/ Resume(c) \/ Cancel(c) \/ RetryDeduct(c) \/ Handler(c)
      PROVE  RowInv'
  <2>1. TypeOK'
    BY <1>1, <1>3, RouteTypes
  <2>2. CASE CreateReserve(c, free) \/ CreateInsertCampaign(c) \/ RetryReopen(c)
    <3>1. UNCHANGED <<rec, attempts, rowOf, retries, sms>>
      BY <2>2 DEF CreateReserve, CreateInsertCampaign, RetryReopen, recVars, counters
    <3>2. \E ph \in {"idle", "reserved", "inserting"} : Goto(c, ph)
      BY <2>2 DEF CreateReserve, CreateInsertCampaign, RetryReopen
    <3>3. \A b \in Campaign : phase'[b] = "deducted" => phase[b] = "deducted"
      BY <1>1, <3>2 DEF Goto, TypeInv, PhaseInv
    <3> QED
      BY <1>2, <2>1, <3>1, <3>3, RowsUntouched
  <2>3. CASE Pause(c) \/ Resume(c)
    <3>1. UNCHANGED <<rec, attempts, rowOf, retries, sms, phase>>
      BY <2>3 DEF Pause, Resume, SetStatus, recVars, counters
    <3> QED
      BY <1>2, <2>1, <3>1, RowsUntouched
  <2> QED
    BY <1>1, <1>2, <1>3, <2>1, <2>2, <2>3, RowsOfCancel, RowsOfRetry, RowsOfInsert DEF Handler
<1>4. ASSUME NEW t \in Tick, StartTick(t) \/ TickStep(t) \/ HookDone(t)
      PROVE  RowInv'
  <2>1. TypeOK'
    BY <1>1, <1>4, TickTypes
  <2>2. CASE \/ StartTick(t) \/ HookDone(t) \/ StartFinalize(t) \/ StartEnqueue(t)
             \/ \E c \in Campaign : FinalizeOne(t, c)
    <3>1. UNCHANGED <<rec, attempts, rowOf, retries, sms>>
      BY <2>2 DEF StartTick, HookDone, StartFinalize, StartEnqueue, FinalizeOne, recVars, counters
    <3>2. \E ph \in {"idle", "reconcile", "finalize", "hook", "enqueue"} : Goto(t, ph)
      BY <2>2 DEF StartTick, HookDone, StartFinalize, StartEnqueue, FinalizeOne
    <3>3. \A b \in Campaign : phase'[b] = "deducted" => phase[b] = "deducted"
      BY <1>1, <3>2 DEF Goto, TypeInv, PhaseInv
    <3> QED
      BY <1>2, <2>1, <3>1, <3>3, RowsUntouched
  <2> QED
    BY <1>1, <1>2, <1>4, <2>1, <2>2, RowsOfReconcile, RowsOfEnqueue DEF TickStep
<1>5. ASSUME NEW x \in Row, NEW outcome \in {"sent", "failed"}, Resolve(x, outcome)
      PROVE  RowInv'
  <2>1. sms' \in [Row -> {"none", "open", "sent", "failed", "deleted"}]
    BY <1>1, <1>5 DEF Resolve, Queue!Resolve, TypeInv, TypeOK
  <2>2. TypeOK'
    BY <1>1, <1>5, <2>1 DEF Resolve, TypeInv, TypeOK, credits, campVars, recVars, tickVars, counters
  <2> QED
    BY <1>2, <1>5, <2>2, RowsOfResolve
<1>6. ASSUME UNCHANGED <<rec, attempts, rowOf, retries, sms>>, TypeOK',
             \A b \in Campaign : phase'[b] = "deducted" => phase[b] = "deducted"
      PROVE  RowInv'
  BY <1>2, <1>6, RowsUntouched
<1>7. ASSUME NEW n \in 1..MaxBought, Buy(n) PROVE RowInv'
  <2>1. n \in Nat /\ MaxBought \in Nat
    BY BulkAssumption DEF BulkAssumption
  <2>2. TypeOK'
    BY <1>1, <1>7, <2>1 DEF Buy, TypeInv, TypeOK, campVars, recVars, tickVars, counters
  <2> QED
    BY <1>6, <1>7, <2>2 DEF Buy, recVars, counters
<1>8. ASSUME NEW p \in Phone, CooldownEnds(p) PROVE RowInv'
  <2>1. TypeOK'
    BY <1>1, <1>8 DEF CooldownEnds, TypeInv, TypeOK, credits, campVars, recVars, tickVars, counters
  <2> QED
    BY <1>6, <1>8, <2>1 DEF CooldownEnds, recVars, counters
<1>9. CASE Crash
  <2>1. crashes' \in 0..MaxCrashes /\ failedCount' \in 0..Cardinality(Recipient)
    BY <1>1, <1>9, Counted, BulkAssumption DEF Crash, TypeInv, TypeOK, BulkAssumption
  <2>2. budget' \in [Tick -> [left : 0..Rate, share : 0..Rate]]
    BY <1>9, BulkAssumption DEF Crash, NoBudget, BulkAssumption
  <2>3. torn' \in BOOLEAN
    BY <1>1, <1>9 DEF Crash, TypeInv, TypeOK
  <2>4. TypeOK'
    BY <1>1, <1>9, <2>1, <2>2, <2>3 DEF Crash, TypeInv, TypeOK, PhaseInv, credits, campVars, recVars
  <2> QED
    BY <1>6, <1>9, <2>4 DEF Crash, recVars
<1>10. CASE UNCHANGED vars
  <2>1. TypeOK'
    BY <1>1, <1>10 DEF vars, TypeInv, TypeOK, credits, campVars, recVars, tickVars, counters
  <2> QED
    BY <1>6, <1>10, <2>1 DEF vars, recVars, counters
<1> QED
  BY <1>3, <1>4, <1>5, <1>7, <1>8, <1>9, <1>10 DEF Next

\* Types of campaigns, recipients, rows and ticks; the wallet never goes below zero and no
\* recipient needs more rows than there are attempts.
THEOREM TypeCorrect == Spec => []TypeOK
<1>1. RowInv => TypeOK
  BY DEF RowInv, TypeInv
<1> QED
  BY <1>1, RowsInit, RowStep, PTL DEF Spec

\* However a recipient's attempts, retries and crashes fall, at most one of its rows is
\* ever sent, and it never has two rows open at once.
THEOREM DeliversOnce == Spec => []DeliveredOnce
<1>1. RowInv => DeliveredOnce
  <2> SUFFICES ASSUME RowInv, NEW r \in Recipient, NEW st \in {"sent", "open"}
               PROVE  Cardinality({k \in 1..MaxRows : sms[<<r, k>>] = st}) <= 1
    BY DEF DeliveredOnce
  <2> DEFINE S == {k \in 1..MaxRows : sms[<<r, k>>] = st}
  <2>1. rowOf[r] \in Nat /\ MaxRows \in Nat
    BY RecipientTypes DEF RowInv, TypeInv
  <2>2. \A k \in S : k = rowOf[r]
    <3> SUFFICES ASSUME NEW k \in 1..MaxRows, sms[<<r, k>>] = st PROVE k = rowOf[r]
      OBVIOUS
    <3>1. Rows(r)
      BY DEF RowInv
    <3>2. ~(k > rowOf[r]) /\ ~(k < rowOf[r])
      BY <3>1 DEF Rows
    <3> QED
      BY <2>1, <3>2
  <2> HIDE DEF S
  <2>3. CASE S = {}
    <3>1. Cardinality(S) = 0
      BY <2>3, FS_EmptySet
    <3> QED
      BY <3>1 DEF S
  <2>4. CASE S # {}
    <3>1. S = {rowOf[r]}
      BY <2>2, <2>4
    <3>2. Cardinality({rowOf[r]}) = 1
      BY FS_Singleton, Zenon
    <3>3. Cardinality(S) = 1
      BY <3>1, <3>2
    <3> QED
      BY <3>3 DEF S
  <2> QED
    BY <2>3, <2>4 DEF S
<1> QED
  BY <1>1, RowsInit, RowStep, PTL DEF Spec

\* The steps that touch a row.
RowsChange ==
    \/ \E c \in Campaign : Cancel(c)
    \/ \E t \in Tick, c \in Campaign : EnqueueOne(t, c)
    \/ \E x \in Row, outcome \in {"sent", "failed"} : Resolve(x, outcome)

\* Rows change only in the ways that the lemmas above cover.
LEMMA OthersLeaveRows == [Next]_vars => RowsChange \/ UNCHANGED <<sms, rowOf>>
<1> SUFFICES ASSUME [Next]_vars, ~RowsChange PROVE UNCHANGED <<sms, rowOf>>
  OBVIOUS
<1>1. ASSUME NEW c \in Campaign, NEW free \in BOOLEAN,
             CreateReserve(c, free) \/ Pause(c) \/ Resume(c) \/ RetryDeduct(c) \/ Handler(c)
      PROVE  UNCHANGED <<sms, rowOf>>
  BY <1>1 DEF CreateReserve, Pause, Resume, SetStatus, RetryDeduct, Handler, CreateInsertCampaign,
              CreateInsertRecipient, RetryReset, RetryReopen, recVars
<1>2. ASSUME NEW t \in Tick, StartTick(t) \/ TickStep(t) \/ HookDone(t)
      PROVE  UNCHANGED <<sms, rowOf>>
  <2>1. ASSUME NEW r \in Recipient, ReconcileOne(t, r) PROVE UNCHANGED <<sms, rowOf>>
    BY <2>1 DEF ReconcileOne
  <2>2. ASSUME NEW c \in Campaign, FinalizeOne(t, c) PROVE UNCHANGED <<sms, rowOf>>
    BY <2>2 DEF FinalizeOne, recVars
  <2>3. CASE StartTick(t) \/ HookDone(t) \/ StartFinalize(t) \/ StartEnqueue(t)
    BY <2>3 DEF StartTick, HookDone, StartFinalize, StartEnqueue, recVars
  <2> QED
    BY <1>2, <2>1, <2>2, <2>3 DEF TickStep, RowsChange
<1>3. CASE (\E n \in 1..MaxBought : Buy(n)) \/ (\E p \in Phone : CooldownEnds(p)) \/ Crash \/ UNCHANGED vars
  BY <1>3 DEF Buy, CooldownEnds, Crash, vars, recVars
<1> QED
  BY <1>1, <1>2, <1>3 DEF Next, RowsChange

\* What each of these steps does to the last row of a recipient.
LEMMA LastRow ==
    ASSUME RowInv, [Next]_vars, NEW r \in Recipient
    PROVE  \/ RowState(r)' = RowState(r)
           \/ RowState(r) = "open" /\ RowState(r)' \in {"deleted", "sent", "failed"}
           \/ rec[r] = "pending" /\ \E t \in Tick, c \in Campaign : EnqueueOne(t, c)
<1>1. rowOf[r] \in 0..MaxRows /\ MaxRows \in Nat /\ (rowOf[r] # 0 => <<r, rowOf[r]>> \in Row)
  BY RecipientTypes DEF RowInv, TypeInv
<1>2. ASSUME NEW c \in Campaign, Cancel(c)
      PROVE  RowState(r)' = RowState(r) \/ (RowState(r) = "open" /\ RowState(r)' = "deleted")
  BY <1>1, <1>2 DEF Cancel, Queue!Withdraw, RowState
<1>3. ASSUME NEW x \in Row, NEW outcome \in {"sent", "failed"}, Resolve(x, outcome)
      PROVE  RowState(r)' = RowState(r) \/ (RowState(r) = "open" /\ RowState(r)' = outcome)
  BY <1>1, <1>3 DEF Resolve, Queue!Resolve, RowState, recVars
<1>4. ASSUME NEW t \in Tick, NEW c \in Campaign, EnqueueOne(t, c), rec[r] # "pending"
      PROVE  RowState(r)' = RowState(r)
  <2> DEFINE batch == FirstPending(c, Min({budget[t].share, budget[t].left}))
  <2>1. r \notin batch
    BY <1>4 DEF FirstPending, In
  <2>2. /\ rowOf' = [q \in Recipient |-> IF q \in batch THEN rowOf[q] + 1 ELSE rowOf[q]]
        /\ sms' = [m \in Row |-> IF m \in {<<q, rowOf[q] + 1>> : q \in batch} THEN "open" ELSE sms[m]]
    BY <1>4 DEF EnqueueOne, Queue!Accept
  <2> HIDE DEF batch
  <2>3. rowOf'[r] = rowOf[r]
    BY <2>1, <2>2
  <2>4. rowOf[r] # 0 => sms'[<<r, rowOf[r]>>] = sms[<<r, rowOf[r]>>]
    BY <1>1, <2>1, <2>2
  <2> QED
    BY <2>3, <2>4 DEF RowState
<1>5. CASE UNCHANGED <<sms, rowOf>>
  BY <1>5 DEF RowState
<1> QED
  BY <1>2, <1>3, <1>4, <1>5, OthersLeaveRows DEF RowsChange

\* Cancelling refunds "every unprocessed recipient" and voids the rows (routes/bulk.ts:585-588):
\* no SMS of a refunded recipient is recorded as sent from then on.
THEOREM RefundedStaysUnsent == Spec => NothingSentAfterRefund
<1>1. RowInv /\ [Next]_vars =>
        [\A r \in Recipient :
            rec[r] = "cancelled" /\ RowState(r) # "sent" => RowState(r)' # "sent"]_vars
  <2> SUFFICES ASSUME RowInv, [Next]_vars, NEW r \in Recipient,
                      rec[r] = "cancelled", RowState(r) # "sent"
               PROVE  RowState(r)' # "sent"
    OBVIOUS
  <2>1. RowState(r) # "open"
    BY DEF RowInv, Rows
  <2> QED
    BY <2>1, LastRow
<1> QED
  BY <1>1, RowsInit, RowStep, PTL DEF Spec, NothingSentAfterRefund

-----------------------------------------------------------------------------
(* The rate.  A tick that enqueues has taken its budget without giving up    *)
(* the cpu since, and only it puts rows in flight.                           *)

RateInv ==
    /\ RowInv
    /\ Cardinality(InFlight) <= Rate
    /\ \A t \in Tick : phase[t] = "enqueue" => Cardinality(InFlight) + budget[t].left <= Rate

\* What is in flight can be counted.
LEMMA FlightTypes ==
    ASSUME TypeOK
    PROVE  /\ Cardinality(InFlight) \in Nat /\ IsFiniteSet(InFlight) /\ Rate \in Nat
           /\ \A t \in Tick : budget[t].left \in Nat /\ budget[t].share \in Nat
<1>1. \A t \in Tick : budget[t].left \in 0..Rate /\ budget[t].share \in 0..Rate
  BY DEF TypeOK
<1> QED
  BY <1>1, Counted, BulkAssumption DEF InFlight, BulkAssumption

LEMMA RateStep == RateInv /\ [Next]_vars => RateInv'
<1> SUFFICES ASSUME RateInv, [Next]_vars PROVE RateInv'
  OBVIOUS
<1>1. RowInv /\ RowInv' /\ TypeOK /\ TypeOK' /\ PhaseInv /\ PhaseInv'
  BY RowStep DEF RateInv, RowInv, TypeInv
<1>2. /\ Cardinality(InFlight) \in Nat /\ IsFiniteSet(InFlight) /\ Rate \in Nat
      /\ \A t \in Tick : budget[t].left \in Nat /\ budget[t].share \in Nat
  BY <1>1, FlightTypes
<1>3. Cardinality(InFlight') \in Nat /\ \A t \in Tick : budget'[t].left \in Nat
  <2>1. InFlight' \subseteq Recipient
    BY DEF InFlight
  <2>2. budget' \in [Tick -> [left : 0..Rate, share : 0..Rate]]
    BY <1>1 DEF TypeOK
  <2>3. \A t \in Tick : budget'[t].left \in 0..Rate
    BY <2>2
  <2> QED
    BY <1>2, <2>1, <2>3, Counted
<1>4. ASSUME NEW t \in Tick, NEW c \in Campaign, EnqueueOne(t, c) PROVE RateInv'
  <2> DEFINE n == Min({budget[t].share, budget[t].left})
             batch == FirstPending(c, n)
  <2>1. n \in Nat /\ n <= budget[t].left
    BY <1>2, MinOfTwo
  <2>2. batch \subseteq Recipient /\ Cardinality(batch) <= n
    BY <2>1, FirstAreFew DEF In, ListOf
  <2>3. IsFiniteSet(batch) /\ Cardinality(batch) \in Nat
    BY <2>2, Counted
  <2>4. InFlight' \subseteq InFlight \union batch
    <3> SUFFICES ASSUME NEW r \in Recipient, r \notin batch, RowState(r)' = "open"
                 PROVE  RowState(r) = "open"
      BY DEF InFlight
    <3>1. rowOf[r] \in 0..MaxRows /\ MaxRows \in Nat /\ (rowOf[r] # 0 => <<r, rowOf[r]>> \in Row)
      BY <1>1, RecipientTypes
    <3>2. /\ rowOf' = [q \in Recipient |-> IF q \in batch THEN rowOf[q] + 1 ELSE rowOf[q]]
          /\ sms' = [m \in Row |-> IF m \in {<<q, rowOf[q] + 1>> : q \in batch} THEN "open" ELSE sms[m]]
      BY <1>4 DEF EnqueueOne, Queue!Accept
    <3> HIDE DEF batch
    <3>3. rowOf'[r] = rowOf[r]
      BY <3>2
    <3>4. rowOf[r] # 0 => sms'[<<r, rowOf[r]>>] = sms[<<r, rowOf[r]>>]
      BY <3>1, <3>2
    <3> QED
      BY <3>3, <3>4 DEF RowState
  <2>5. Cardinality(InFlight') <= Cardinality(InFlight) + Cardinality(batch)
    <3> HIDE DEF batch
    <3>1. IsFiniteSet(InFlight \union batch) /\ Cardinality(InFlight \union batch) \in Nat
      BY <1>2, <2>3, FS_Union, FS_CardinalityType
    <3>2. Cardinality(InFlight \union batch) = Cardinality(InFlight) + Cardinality(batch) - Cardinality(InFlight \intersect batch)
      BY <1>2, <2>3, FS_Union
    <3>3. Cardinality(InFlight \intersect batch) \in Nat
      BY <2>2, Counted
    <3>4. Cardinality(InFlight') <= Cardinality(InFlight \union batch)
      BY <2>4, <3>1, FS_Subset
    <3> QED
      BY <1>2, <1>3, <2>3, <3>1, <3>2, <3>3, <3>4
  <2>6. phase[t] = "enqueue" /\ cpu = t
    BY <1>4 DEF EnqueueOne, Runs
  <2>7. Cardinality(InFlight) + budget[t].left <= Rate
    BY <2>6 DEF RateInv
  <2>8. Cardinality(InFlight') <= Rate
    <3> HIDE DEF n, batch
    <3> QED
      BY <1>2, <1>3, <2>1, <2>2, <2>3, <2>5, <2>7
  <2>9. ASSUME NEW s \in Tick, phase'[s] = "enqueue"
        PROVE  Cardinality(InFlight') + budget'[s].left <= Rate
    <3>1. cpu' = s
      BY <1>1, <2>9 DEF PhaseInv
    <3>2. cpu' \in {t, Free} /\ Free \notin Tick
      BY <1>4, BulkAssumption DEF EnqueueOne, Goto, BulkAssumption
    <3>3. s = t
      BY <3>1, <3>2
    <3>4. phase' = [phase EXCEPT ![t] = "idle"] \/
          budget' = [budget EXCEPT ![t] = [budget[t] EXCEPT !.left = budget[t].left - Cardinality(batch)]]
      BY <1>4 DEF EnqueueOne, Goto
    <3>5. phase'[t] = "enqueue"
      BY <2>9, <3>3
    <3>6. budget'[t].left = budget[t].left - Cardinality(batch)
      <4> HIDE DEF batch
      <4>1. budget \in [Tick -> [left : 0..Rate, share : 0..Rate]] /\ DOMAIN phase = Tick \union Campaign
        BY <1>1 DEF TypeOK, PhaseInv
      <4>2. budget' = [budget EXCEPT ![t] = [budget[t] EXCEPT !.left = budget[t].left - Cardinality(batch)]]
        BY <3>4, <3>5, <4>1
      <4> QED
        BY <4>1, <4>2
    <3> HIDE DEF batch, n
    <3> QED
      BY <1>2, <1>3, <2>3, <2>5, <2>7, <3>3, <3>6
  <2> QED
    BY <1>1, <2>8, <2>9 DEF RateInv
<1>5. ASSUME ~\E t \in Tick, c \in Campaign : EnqueueOne(t, c)
      PROVE  Cardinality(InFlight') <= Cardinality(InFlight)
  <2>1. InFlight' \subseteq InFlight
    BY <1>1, <1>5, LastRow DEF InFlight
  <2> QED
    BY <1>2, <2>1, FS_Subset
<1>6. ASSUME NEW t \in Tick, StartEnqueue(t) PROVE RateInv'
  <2>1. InFlight' = InFlight
    BY <1>6 DEF StartEnqueue, InFlight, RowState, recVars
  <2>2. ASSUME NEW s \in Tick, phase'[s] = "enqueue"
        PROVE  Cardinality(InFlight') + budget'[s].left <= Rate
    <3>1. cpu' = s
      BY <1>1, <2>2 DEF PhaseInv
    <3>2. cpu' \in {t, Free} /\ Free \notin Tick
      BY <1>6, BulkAssumption DEF StartEnqueue, Goto, BulkAssumption
    <3>3. s = t
      BY <3>1, <3>2
    <3>4. \/ phase' = [phase EXCEPT ![t] = "idle"]
          \/ \E x : budget' = [budget EXCEPT ![t].left = Budget, ![t].share = x]
      BY <1>6 DEF StartEnqueue, Goto
    <3>5. budget \in [Tick -> [left : 0..Rate, share : 0..Rate]] /\ DOMAIN phase = Tick \union Campaign
      BY <1>1 DEF TypeOK, PhaseInv
    <3>6. budget'[t].left = Budget
      BY <2>2, <3>3, <3>4, <3>5
    <3>7. Cardinality(InFlight) + Budget <= Rate
      BY <1>2 DEF Budget, RateInv
    <3> QED
      BY <2>1, <3>3, <3>6, <3>7
  <2> QED
    BY <1>1, <2>1, <2>2 DEF RateInv
<1>7. ASSUME ~\E t \in Tick : StartEnqueue(t) \/ \E c \in Campaign : EnqueueOne(t, c)
      PROVE  RateInv'
  <2>1. Cardinality(InFlight') <= Cardinality(InFlight)
    BY <1>5, <1>7
  <2>2. ASSUME NEW s \in Tick, phase'[s] = "enqueue"
        PROVE  phase[s] = "enqueue" /\ budget'[s] = budget[s]
    <3>1. cpu' = s /\ Free \notin Tick /\ Tick \cap Campaign = {}
      BY <1>1, <2>2, BulkAssumption DEF PhaseInv, BulkAssumption
    <3>2. ASSUME NEW p \in Tick \union Campaign, NEW ph, ph # "enqueue", Goto(p, ph)
          PROVE  phase[s] = "enqueue"
      BY <1>1, <2>2, <3>2 DEF Goto, PhaseInv
    <3>3. ASSUME NEW c \in Campaign, NEW free \in BOOLEAN,
                 CreateReserve(c, free) \/ Pause(c) \/ Resume(c) \/ Cancel(c) \/ RetryDeduct(c) \/ Handler(c)
          PROVE  phase[s] = "enqueue" /\ UNCHANGED budget
      <4>1. UNCHANGED budget
        BY <3>3 DEF CreateReserve, Pause, Resume, SetStatus, Cancel, RetryDeduct, Handler,
             CreateInsertCampaign, CreateInsertRecipient, RetryReset, RetryReopen, tickVars
      <4>2. UNCHANGED phase \/ \E ph \in {"idle", "reserved", "inserting", "deducted", "reset"} : Goto(c, ph)
        BY <3>3 DEF CreateReserve, Pause, Resume, SetStatus, Cancel, RetryDeduct, Handler,
             CreateInsertCampaign, CreateInsertRecipient, RetryReset, RetryReopen
      <4> QED
        BY <2>2, <3>2, <4>1, <4>2
    <3>4. ASSUME NEW t \in Tick, StartTick(t) \/ TickStep(t) \/ HookDone(t)
          PROVE  phase[s] = "enqueue" /\ UNCHANGED budget
      <4>1. ASSUME NEW r \in Recipient, ReconcileOne(t, r) PROVE UNCHANGED <<phase, budget>>
        BY <4>1 DEF ReconcileOne, tickVars
      <4>2. CASE \/ StartTick(t) \/ HookDone(t) \/ StartFinalize(t)
                 \/ \E c \in Campaign : FinalizeOne(t, c)
        <5>1. UNCHANGED budget /\ \E ph \in {"idle", "reconcile", "finalize", "hook"} : Goto(t, ph)
          BY <4>2 DEF StartTick, HookDone, StartFinalize, FinalizeOne, tickVars
        <5> QED
          BY <3>2, <5>1
      <4> QED
        BY <1>7, <2>2, <3>4, <4>1, <4>2 DEF TickStep
    <3>5. CASE Crash
      BY <2>2, <3>5 DEF Crash
    <3>6. CASE \/ \E n \in 1..MaxBought : Buy(n)
               \/ \E x \in Row, outcome \in {"sent", "failed"} : Resolve(x, outcome)
               \/ \E p \in Phone : CooldownEnds(p)
               \/ UNCHANGED vars
      BY <2>2, <3>6 DEF Buy, Resolve, CooldownEnds, vars, tickVars
    <3> QED
      BY <3>3, <3>4, <3>5, <3>6 DEF Next
  <2>3. Cardinality(InFlight') <= Rate
    BY <1>2, <1>3, <2>1 DEF RateInv
  <2>4. ASSUME NEW s \in Tick, phase'[s] = "enqueue"
        PROVE  Cardinality(InFlight') + budget'[s].left <= Rate
    BY <1>2, <1>3, <2>1, <2>2, <2>4 DEF RateInv
  <2> QED
    BY <1>1, <2>3, <2>4 DEF RateInv
<1> QED
  BY <1>4, <1>6, <1>7

\* Never more rows in flight than BULK_SMS_RATE_PER_MINUTE, however many ticks overlap.
THEOREM RateIsKept == Spec => []RateBudget
<1>1. Init => RateInv
  <2> SUFFICES ASSUME Init PROVE RateInv
    OBVIOUS
  <2>1. InFlight = {}
    BY DEF Init, InFlight, RowState
  <2>2. Cardinality(InFlight) = 0
    BY <2>1, FS_EmptySet
  <2>3. \A t \in Tick : phase[t] # "enqueue"
    BY DEF Init
  <2> QED
    BY <2>2, <2>3, RowsInit, BulkAssumption DEF RateInv, BulkAssumption
<1>2. RateInv => RateBudget
  BY DEF RateInv, RateBudget
<1> QED
  BY <1>1, <1>2, RateStep, PTL DEF Spec

-----------------------------------------------------------------------------
(* The counters.  While a create or a retry is under way they do not add up  *)
(* yet; what is missing is what the handler's phase says it still owes.      *)

Unsettled(c) == In(c, {"none", "pending", "queued", "cancelled"})
Owed(c)      == IF phase[c] = "reset" THEN failedCount ELSE 0

Counts(c) ==
    /\ camp[c] = "none" => /\ total[c] = 0 /\ sent[c] = 0 /\ failed[c] = 0
                           /\ \A r \in ListOf(c) : rec[r] = "none"
                           /\ phase[c] \in {"idle", "reserved"}
    /\ camp[c] # "none" => /\ phase[c] # "reserved"
                           /\ phase[c] # "inserting" => In(c, {"none"}) = {}
                           /\ total[c] + Owed(c) = sent[c] + failed[c] + Cardinality(Unsettled(c))
    /\ phase[c] = "deducted" => failedCount = Cardinality(In(c, {"failed"}))

Known == \A t \in Tick : \A c \in todo[t] : camp[c] # "none"

CountInv == RowInv /\ Known /\ (~torn => \A c \in Campaign : Counts(c))

\* The recipients of a campaign in each state can be counted.
LEMMA CountTypes ==
    ASSUME TypeOK, NEW c \in Campaign
    PROVE  /\ total[c] \in Nat /\ sent[c] \in Nat /\ failed[c] \in Nat /\ failedCount \in Nat
           /\ ListOf(c) \subseteq Recipient
           /\ \A st : In(c, st) \subseteq ListOf(c) /\ IsFiniteSet(In(c, st)) /\ Cardinality(In(c, st)) \in Nat
<1>1. \A st : In(c, st) \subseteq Recipient /\ In(c, st) \subseteq ListOf(c)
  BY DEF In, ListOf
<1>2. Cardinality(Recipient) \in Nat
  BY Counted
<1>3. total[c] \in Nat /\ sent[c] \in Nat /\ failed[c] \in Nat /\ failedCount \in Nat
  BY <1>2 DEF TypeOK
<1> QED
  BY <1>1, <1>3, Counted DEF ListOf

\* Moving recipients among the unsettled statuses, or campaigns among those that are
\* there, changes nothing the counters account for.
LEMMA CountsKept ==
    ASSUME NEW c \in Campaign, Counts(c),
           total'[c] = total[c], sent'[c] = sent[c], failed'[c] = failed[c],
           camp'[c] = "none" <=> camp[c] = "none",
           phase'[c] = phase[c],
           phase[c] \in {"deducted", "reset"} => failedCount' = failedCount,
           \A r \in ListOf(c) : \/ rec'[r] = rec[r]
                                \/ {rec[r], rec'[r]} \subseteq {"pending", "queued", "cancelled"}
    PROVE  Counts(c)'
<1>1. /\ In(c, {"none"})' = In(c, {"none"}) /\ In(c, {"failed"})' = In(c, {"failed"})
      /\ Unsettled(c)' = Unsettled(c)
  BY DEF In, ListOf, Unsettled
<1>2. Owed(c)' = Owed(c)
  BY DEF Owed
<1>3. ListOf(c)' = ListOf(c) /\ (camp[c] = "none" => \A r \in ListOf(c) : rec'[r] = "none")
  BY DEF Counts, ListOf
<1> QED
  BY <1>1, <1>2, <1>3 DEF Counts

\* A step of campaign c leaves the others as they are.
LEMMA OthersKept ==
    ASSUME RowInv, NEW c \in Campaign, NEW b \in Campaign, b # c, Counts(b),
           cpu \in {Free, c}, \E ph : Goto(c, ph),
           total'[b] = total[b], sent'[b] = sent[b], failed'[b] = failed[b], camp'[b] = camp[b],
           \A r \in ListOf(b) : rec'[r] = rec[r]
    PROVE  Counts(b)'
<1>1. phase[b] = "idle" /\ phase'[b] = phase[b]
  BY BulkAssumption DEF RowInv, TypeInv, PhaseInv, Goto, BulkAssumption
<1> QED
  BY <1>1, CountsKept

LEMMA CreateCounts ==
    ASSUME RowInv, RowInv', NEW c \in Campaign, Counts(c),
           \/ \E free \in BOOLEAN : CreateReserve(c, free)
           \/ CreateInsertCampaign(c) \/ CreateInsertRecipient(c)
    PROVE  Counts(c)'
<1>1. TypeOK /\ TypeOK' /\ PhaseInv
  BY DEF RowInv, TypeInv
<1>2. \A ph : Goto(c, ph) => phase'[c] = ph
  BY <1>1 DEF Goto, PhaseInv
<1>3. ASSUME NEW free \in BOOLEAN, CreateReserve(c, free) PROVE Counts(c)'
  <2>1. /\ phase'[c] = "reserved" /\ camp[c] = "none"
        /\ UNCHANGED <<camp, total, sent, failed, rec>>
    BY <1>2, <1>3 DEF CreateReserve, recVars
  <2> QED
    BY <2>1 DEF Counts, ListOf
<1>4. CASE CreateInsertCampaign(c)
  <2>1. /\ phase[c] = "reserved" /\ phase'[c] = "inserting" /\ UNCHANGED <<sent, failed, rec>>
        /\ camp'[c] = "queued" /\ total'[c] = Cardinality(ListOf(c))
    BY <1>1, <1>2, <1>4 DEF CreateInsertCampaign, Runs, recVars, TypeOK
  <2>2. camp[c] = "none"
    BY <2>1 DEF Counts
  <2>3. Unsettled(c)' = ListOf(c) /\ sent[c] = 0 /\ failed[c] = 0
    BY <2>1, <2>2 DEF Counts, Unsettled, In, ListOf
  <2>4. Owed(c)' = 0
    BY <2>1 DEF Owed
  <2>5. Cardinality(ListOf(c)) \in Nat
    BY <1>1, CountTypes, Counted
  <2>6. total'[c] + Owed(c)' = sent'[c] + failed'[c] + Cardinality(Unsettled(c)')
    BY <2>1, <2>3, <2>4, <2>5
  <2> QED
    BY <2>1, <2>6 DEF Counts
<1>5. CASE CreateInsertRecipient(c)
  <2>1. phase[c] = "inserting" /\ UNCHANGED <<camp, total, sent, failed, failedCount>>
    BY <1>5 DEF CreateInsertRecipient, Runs, campVars, tickVars
  <2>2. PICK r \in In(c, {"none"}) :
            /\ rec' = [rec EXCEPT ![r] = "pending"]
            /\ Goto(c, IF In(c, {"none"}) = {r} THEN "idle" ELSE "inserting")
    BY <1>5 DEF CreateInsertRecipient
  <2>3. phase'[c] = IF In(c, {"none"}) = {r} THEN "idle" ELSE "inserting"
    BY <1>2, <2>2
  <2>4. In(c, {"none"})' = In(c, {"none"}) \ {r} /\ Unsettled(c)' = Unsettled(c)
    BY <1>1, <2>2 DEF In, ListOf, Unsettled, TypeOK
  <2>5. Owed(c) = 0 /\ Owed(c)' = 0 /\ camp[c] # "none"
    BY <2>1, <2>3 DEF Owed, Counts
  <2> QED
    BY <2>1, <2>3, <2>4, <2>5 DEF Counts
<1> QED
  BY <1>3, <1>4, <1>5

LEMMA RetryCounts ==
    ASSUME RowInv, RowInv', NEW c \in Campaign, Counts(c),
           RetryDeduct(c) \/ RetryReset(c) \/ RetryReopen(c)
    PROVE  Counts(c)'
<1>1. TypeOK /\ TypeOK' /\ PhaseInv
  BY DEF RowInv, TypeInv
<1>2. \A ph : Goto(c, ph) => phase'[c] = ph
  BY <1>1 DEF Goto, PhaseInv
<1>3. /\ total[c] \in Nat /\ sent[c] \in Nat /\ failed[c] \in Nat /\ failedCount \in Nat
      /\ Cardinality(Unsettled(c)) \in Nat /\ Cardinality(In(c, {"failed"})) \in Nat
      /\ IsFiniteSet(Unsettled(c)) /\ IsFiniteSet(In(c, {"failed"}))
  BY <1>1, CountTypes DEF Unsettled
<1>4. CASE RetryDeduct(c)
  <2>1. /\ phase'[c] = "deducted" /\ camp[c] # "none" /\ UNCHANGED <<camp, total, sent, failed, rec>>
        /\ failedCount' = Cardinality(In(c, {"failed"}))
    BY <1>2, <1>4 DEF RetryDeduct, campVars, recVars
  <2>2. cpu = Free /\ phase[c] = "idle"
    BY <1>1, <1>4, BulkAssumption DEF RetryDeduct, PhaseInv, BulkAssumption
  <2>3. /\ In(c, {"none"})' = In(c, {"none"}) /\ In(c, {"failed"})' = In(c, {"failed"})
        /\ Unsettled(c)' = Unsettled(c)
    BY <2>1 DEF In, ListOf, Unsettled
  <2>4. Owed(c) = 0 /\ Owed(c)' = 0
    BY <2>1, <2>2 DEF Owed
  <2> QED
    BY <2>1, <2>2, <2>3, <2>4 DEF Counts
<1>5. CASE RetryReset(c)
  <2>1. /\ phase[c] = "deducted" /\ phase'[c] = "reset"
        /\ UNCHANGED <<camp, total, sent, failed, failedCount>>
    BY <1>2, <1>5 DEF RetryReset, Runs, campVars, tickVars
  <2>2. /\ camp[c] # "none" /\ failedCount = Cardinality(In(c, {"failed"}))
        /\ In(c, {"none"}) = {}
    BY <2>1 DEF Counts
  <2>3. \A r \in Recipient : rec'[r] = IF r \in In(c, {"failed"}) THEN "pending" ELSE rec[r]
    BY <1>5 DEF RetryReset
  <2>4. /\ Unsettled(c)' = Unsettled(c) \union In(c, {"failed"})
        /\ Unsettled(c) \intersect In(c, {"failed"}) = {}
        /\ In(c, {"none"})' = {}
    BY <2>2, <2>3 DEF In, ListOf, Unsettled
  <2>5. Cardinality(Unsettled(c)') = Cardinality(Unsettled(c)) + Cardinality(In(c, {"failed"}))
    BY <1>3, <2>4, FS_Union, FS_EmptySet
  <2>6. Owed(c) = 0 /\ Owed(c)' = failedCount
    BY <2>1 DEF Owed
  <2>7. total[c] + Owed(c) = sent[c] + failed[c] + Cardinality(Unsettled(c))
    BY <2>2 DEF Counts
  <2>8. total'[c] + Owed(c)' = sent'[c] + failed'[c] + Cardinality(Unsettled(c)')
    BY <1>3, <2>1, <2>2, <2>5, <2>6, <2>7
  <2> QED
    BY <2>1, <2>2, <2>4, <2>8 DEF Counts
<1>6. CASE RetryReopen(c)
  <2>1. /\ phase[c] = "reset" /\ phase'[c] = "idle" /\ camp'[c] = "sending"
        /\ total'[c] = total[c] + failedCount /\ UNCHANGED <<sent, failed, rec>>
    BY <1>1, <1>2, <1>6 DEF RetryReopen, Runs, recVars, TypeOK
  <2>2. camp[c] # "none" /\ In(c, {"none"}) = {}
    BY <2>1 DEF Counts
  <2>3. In(c, {"none"})' = In(c, {"none"}) /\ Unsettled(c)' = Unsettled(c)
    BY <2>1 DEF In, ListOf, Unsettled
  <2>4. Owed(c) = failedCount /\ Owed(c)' = 0
    BY <2>1 DEF Owed
  <2>5. total[c] + Owed(c) = sent[c] + failed[c] + Cardinality(Unsettled(c))
    BY <2>2 DEF Counts
  <2>6. total'[c] + Owed(c)' = sent'[c] + failed'[c] + Cardinality(Unsettled(c)')
    BY <1>3, <2>1, <2>3, <2>4, <2>5
  <2> QED
    BY <2>1, <2>2, <2>3, <2>6 DEF Counts
<1> QED
  BY <1>4, <1>5, <1>6

LEMMA ReconcileCounts ==
    ASSUME RowInv, RowInv', NEW t \in Tick, NEW r \in Recipient, ReconcileOne(t, r),
           NEW b \in Campaign, Counts(b)
    PROVE  Counts(b)'
<1>1. TypeOK /\ TypeOK' /\ PhaseInv /\ CampaignOf[r] \in Campaign
  BY BulkAssumption DEF RowInv, TypeInv, BulkAssumption
<1>2. /\ UNCHANGED <<camp, total, phase, failedCount>> /\ rec[r] = "queued"
      /\ rec' = [rec EXCEPT ![r] = AfterAttempt(r)]
      /\ AfterAttempt(r) \in {"sent", "pending", "failed"}
  BY DEF ReconcileOne, Resolved, AfterAttempt, tickVars
<1>3. /\ rec'[r] = AfterAttempt(r) /\ \A q \in Recipient : q # r => rec'[q] = rec[q]
      /\ ListOf(b) \subseteq Recipient
  BY <1>1, <1>2 DEF TypeOK, ListOf
<1>4. CASE b # CampaignOf[r]
  <2>1. sent'[b] = sent[b] /\ failed'[b] = failed[b]
    BY <1>1, <1>4 DEF ReconcileOne, TypeOK
  <2>2. \A q \in ListOf(b) : rec'[q] = rec[q]
    BY <1>3, <1>4 DEF ListOf
  <2> QED
    BY <1>2, <2>1, <2>2, CountsKept
<1>5. CASE b = CampaignOf[r]
  <2>1. /\ sent'[b] = IF AfterAttempt(r) = "sent" THEN sent[b] + 1 ELSE sent[b]
        /\ failed'[b] = IF AfterAttempt(r) = "failed" THEN failed[b] + 1 ELSE failed[b]
    BY <1>1, <1>5 DEF ReconcileOne, TypeOK
  <2>2. CASE AfterAttempt(r) = "pending"
    <3>1. \A q \in ListOf(b) : \/ rec'[q] = rec[q]
                               \/ {rec[q], rec'[q]} \subseteq {"pending", "queued", "cancelled"}
      BY <1>2, <1>3, <2>2
    <3>2. sent'[b] = sent[b] /\ failed'[b] = failed[b]
      BY <2>1, <2>2
    <3> QED
      BY <1>2, <3>1, <3>2, CountsKept
  <2>3. CASE AfterAttempt(r) \in {"sent", "failed"}
    <3>1. phase[b] = "idle" /\ camp[b] # "none"
      <4>1. cpu = t /\ t \notin Campaign
        BY BulkAssumption DEF ReconcileOne, Runs, BulkAssumption
      <4>2. r \in ListOf(b)
        BY <1>5 DEF ListOf
      <4> QED
        BY <1>1, <1>2, <4>1, <4>2 DEF PhaseInv, Counts
    <3>2. r \in Unsettled(b) /\ Unsettled(b)' = Unsettled(b) \ {r} /\ In(b, {"none"})' = In(b, {"none"})
      BY <1>2, <1>3, <1>5, <2>3 DEF Unsettled, In, ListOf
    <3>3. /\ total[b] \in Nat /\ sent[b] \in Nat /\ failed[b] \in Nat
          /\ Cardinality(Unsettled(b)) \in Nat /\ IsFiniteSet(Unsettled(b))
      BY <1>1, CountTypes DEF Unsettled
    <3>4. Cardinality(Unsettled(b)') = Cardinality(Unsettled(b)) - 1
      BY <3>2, <3>3, FS_RemoveElement
    <3>5. Owed(b) = 0 /\ Owed(b)' = 0
      BY <1>2, <3>1 DEF Owed
    <3>6. total[b] + Owed(b) = sent[b] + failed[b] + Cardinality(Unsettled(b)) /\ In(b, {"none"}) = {}
      BY <3>1 DEF Counts
    <3>7. sent'[b] + failed'[b] = sent[b] + failed[b] + 1
      BY <2>1, <2>3, <3>3
    <3>8. sent'[b] \in Nat /\ failed'[b] \in Nat
      BY <1>1, CountTypes DEF TypeOK
    <3>9. total'[b] + Owed(b)' = sent'[b] + failed'[b] + Cardinality(Unsettled(b)')
      BY <1>2, <3>3, <3>4, <3>5, <3>6, <3>7, <3>8
    <3> QED
      BY <1>2, <3>1, <3>2, <3>6, <3>9 DEF Counts
  <2> QED
    BY <1>2, <2>2, <2>3
<1> QED
  BY <1>4, <1>5

\* A tick takes its lists from the campaigns that are there, and none goes away.
LEMMA KnownStep == CountInv /\ [Next]_vars => Known'
<1> SUFFICES ASSUME CountInv, [Next]_vars PROVE Known'
  OBVIOUS
<1>1. TypeOK /\ Known
  BY DEF CountInv, RowInv, TypeInv
<1>2. ASSUME NEW c \in Campaign, camp[c] # "none" PROVE camp'[c] # "none"
  <2>1. ASSUME NEW b \in Campaign, NEW free \in BOOLEAN,
               CreateReserve(b, free) \/ Pause(b) \/ Resume(b) \/ Cancel(b) \/ RetryDeduct(b) \/ Handler(b)
        PROVE  camp'[c] # "none"
    BY <1>1, <1>2, <2>1 DEF TypeOK, CreateReserve, Pause, Resume, SetStatus, Cancel, RetryDeduct, Handler,
         CreateInsertCampaign, CreateInsertRecipient, RetryReset, RetryReopen, campVars
  <2>2. ASSUME NEW t \in Tick, StartTick(t) \/ TickStep(t) \/ HookDone(t)
        PROVE  camp'[c] # "none"
    <3>1. ASSUME NEW b \in Campaign, FinalizeOne(t, b) \/ EnqueueOne(t, b) PROVE camp'[c] # "none"
      BY <1>1, <1>2, <3>1 DEF TypeOK, FinalizeOne, EnqueueOne
    <3>2. ASSUME NEW r \in Recipient, ReconcileOne(t, r) PROVE camp'[c] # "none"
      BY <1>2, <3>2 DEF ReconcileOne
    <3> QED
      BY <1>2, <2>2, <3>1, <3>2 DEF StartTick, TickStep, HookDone, StartFinalize, StartEnqueue, campVars
  <2> QED
    BY <1>2, <2>1, <2>2 DEF Next, Buy, Resolve, CooldownEnds, Crash, vars, campVars
<1>3. ASSUME NEW s \in Tick, NEW c \in todo'[s] PROVE c \in todo[s] \/ (c \in Campaign /\ camp[c] # "none")
  <2>1. ASSUME NEW b \in Campaign, NEW free \in BOOLEAN,
               CreateReserve(b, free) \/ Pause(b) \/ Resume(b) \/ Cancel(b) \/ RetryDeduct(b) \/ Handler(b)
        PROVE  UNCHANGED todo
    BY <2>1 DEF CreateReserve, Pause, Resume, SetStatus, Cancel, RetryDeduct, Handler,
         CreateInsertCampaign, CreateInsertRecipient, RetryReset, RetryReopen, tickVars
  <2>2. ASSUME NEW t \in Tick, StartFinalize(t)
        PROVE  c \in todo[s] \/ (c \in Campaign /\ camp[c] # "none")
    BY <1>1, <1>3, <2>2 DEF TypeOK, StartFinalize, Finalizable
  <2>3. ASSUME NEW t \in Tick, StartEnqueue(t)
        PROVE  c \in todo[s] \/ (c \in Campaign /\ camp[c] # "none")
    <3> DEFINE active == {b \in Campaign : camp[b] \in {"queued", "sending"}}
    <3>1. UNCHANGED todo \/ todo' = [todo EXCEPT ![t] = active]
      BY <2>3 DEF StartEnqueue
    <3>2. \A b \in active : b \in Campaign /\ camp[b] # "none"
      OBVIOUS
    <3> HIDE DEF active
    <3> QED
      BY <1>1, <1>3, <3>1, <3>2 DEF TypeOK
  <2>4. ASSUME NEW t \in Tick, NEW b \in Campaign, FinalizeOne(t, b) \/ EnqueueOne(t, b)
        PROVE  c \in todo[s]
    <3>1. todo' = [todo EXCEPT ![t] = {}] \/ todo' = [todo EXCEPT ![t] = todo[t] \ {b}]
      BY <2>4 DEF FinalizeOne, EnqueueOne
    <3> QED
      BY <1>1, <1>3, <3>1 DEF TypeOK
  <2>5. ASSUME NEW t \in Tick, StartTick(t) \/ HookDone(t) \/ \E r \in Recipient : ReconcileOne(t, r)
        PROVE  UNCHANGED todo
    BY <2>5 DEF StartTick, HookDone, ReconcileOne, tickVars
  <2>6. CASE Crash
    BY <1>3, <2>6 DEF Crash
  <2>7. CASE \/ \E n \in 1..MaxBought : Buy(n)
             \/ \E x \in Row, outcome \in {"sent", "failed"} : Resolve(x, outcome)
             \/ \E p \in Phone : CooldownEnds(p)
             \/ UNCHANGED vars
    BY <1>3, <2>7 DEF Buy, Resolve, CooldownEnds, vars, tickVars
  <2> QED
    BY <1>3, <2>1, <2>2, <2>3, <2>4, <2>5, <2>6, <2>7 DEF Next, TickStep
<1>4. \A t \in Tick : todo[t] \subseteq Campaign
  BY <1>1 DEF TypeOK
<1> QED
  BY <1>1, <1>2, <1>3, <1>4 DEF Known

\* Pausing, resuming and cancelling only move recipients or campaigns.
LEMMA StatusCounts ==
    ASSUME RowInv, NEW c \in Campaign, Pause(c) \/ Resume(c) \/ Cancel(c),
           NEW b \in Campaign, Counts(b)
    PROVE  Counts(b)'
<1>1. /\ UNCHANGED <<total, sent, failed, phase, failedCount>>
      /\ camp'[b] = "none" <=> camp[b] = "none"
  BY DEF Pause, Resume, SetStatus, Cancel, tickVars, RowInv, TypeInv, TypeOK
<1>2. \A r \in ListOf(b) : \/ rec'[r] = rec[r]
                           \/ {rec[r], rec'[r]} \subseteq {"pending", "queued", "cancelled"}
  <2>1. CASE Pause(c) \/ Resume(c)
    BY <2>1 DEF Pause, Resume, SetStatus, recVars
  <2>2. CASE Cancel(c)
    <3>1. \A r \in Recipient : rec'[r] = IF r \in OpenOf(c) THEN "cancelled" ELSE rec[r]
      BY <2>2 DEF Cancel
    <3>2. \A r \in OpenOf(c) : rec[r] \in {"pending", "queued"}
      BY DEF OpenOf, In
    <3> QED
      BY <3>1, <3>2 DEF ListOf
  <2> QED
    BY <2>1, <2>2
<1> QED
  BY <1>1, <1>2, CountsKept

LEMMA TickCounts ==
    ASSUME CountInv, RowInv', NEW t \in Tick, StartTick(t) \/ TickStep(t) \/ HookDone(t),
           NEW b \in Campaign, Counts(b)
    PROVE  Counts(b)'
<1>1. TypeOK /\ PhaseInv /\ RowInv /\ Known /\ t \notin Campaign
  BY BulkAssumption DEF CountInv, RowInv, TypeInv, BulkAssumption
<1>2. CASE \/ StartTick(t) \/ HookDone(t) \/ StartFinalize(t) \/ StartEnqueue(t)
           \/ \E c \in Campaign : FinalizeOne(t, c)
  <2>1. UNCHANGED <<rec, total, sent, failed, failedCount>>
    BY <1>2 DEF StartTick, HookDone, StartFinalize, StartEnqueue, FinalizeOne, recVars, campVars, tickVars
  <2>2. camp'[b] = "none" <=> camp[b] = "none"
    BY <1>1, <1>2 DEF StartTick, HookDone, StartFinalize, StartEnqueue, FinalizeOne, campVars, TypeOK
  <2>3. \E ph : Goto(t, ph)
    BY <1>2 DEF StartTick, HookDone, StartFinalize, StartEnqueue, FinalizeOne
  <2>4. phase'[b] = phase[b]
    BY <1>1, <2>3 DEF Goto, PhaseInv
  <2> QED
    BY <2>1, <2>2, <2>4, CountsKept
<1>3. ASSUME NEW c \in Campaign, EnqueueOne(t, c) PROVE Counts(b)'
  <2> DEFINE batch == FirstPending(c, Min({budget[t].share, budget[t].left}))
  <2>1. UNCHANGED <<total, sent, failed, failedCount>>
    BY <1>3 DEF EnqueueOne
  <2>2. camp'[b] = "none" <=> camp[b] = "none"
    <3>1. camp[c] # "none" /\ camp' = [camp EXCEPT ![c] = "sending"]
      BY <1>1, <1>3 DEF EnqueueOne, Known
    <3> QED
      BY <1>1, <3>1 DEF TypeOK
  <2>3. \E ph : Goto(t, ph)
    BY <1>3 DEF EnqueueOne
  <2>4. phase'[b] = phase[b]
    BY <1>1, <2>3 DEF Goto, PhaseInv
  <2>5. \A r \in Recipient : rec'[r] = IF r \in batch THEN "queued" ELSE rec[r]
    BY <1>3 DEF EnqueueOne
  <2>6. \A r \in batch : rec[r] = "pending"
    BY DEF FirstPending, In
  <2> HIDE DEF batch
  <2>7. \A r \in ListOf(b) : \/ rec'[r] = rec[r]
                             \/ {rec[r], rec'[r]} \subseteq {"pending", "queued", "cancelled"}
    BY <2>5, <2>6 DEF ListOf
  <2> QED
    BY <2>1, <2>2, <2>4, <2>7, CountsKept
<1> QED
  BY <1>1, <1>2, <1>3, ReconcileCounts DEF TickStep

LEMMA CountStep == CountInv /\ [Next]_vars => CountInv'
<1> SUFFICES ASSUME CountInv, [Next]_vars PROVE CountInv'
  OBVIOUS
<1>1. RowInv /\ RowInv' /\ Known' /\ TypeOK /\ PhaseInv
  BY RowStep, KnownStep DEF CountInv, RowInv, TypeInv
<1> SUFFICES ASSUME ~torn', NEW b \in Campaign PROVE Counts(b)'
  BY <1>1 DEF CountInv
<1>2. ~torn
  BY DEF Next, CreateReserve, Pause, Resume, SetStatus, Cancel, RetryDeduct, Handler,
         CreateInsertCampaign, CreateInsertRecipient, RetryReset, RetryReopen, StartTick, TickStep,
         ReconcileOne, StartFinalize, FinalizeOne, EnqueueOne, StartEnqueue, HookDone, Buy, Resolve,
         CooldownEnds, Crash, vars
<1>3. \A c \in Campaign : Counts(c)
  BY <1>2 DEF CountInv
<1>4. ASSUME NEW c \in Campaign, NEW free \in BOOLEAN, CreateReserve(c, free) \/ RetryDeduct(c) \/ Handler(c)
      PROVE  Counts(b)'
  <2>1. CASE b = c
    BY <1>1, <1>3, <1>4, <2>1, CreateCounts, RetryCounts DEF Handler
  <2>2. CASE b # c
    <3>1. cpu \in {Free, c} /\ \E ph : Goto(c, ph)
      BY <1>4 DEF CreateReserve, RetryDeduct, Handler, CreateInsertCampaign, CreateInsertRecipient,
                  RetryReset, RetryReopen, Runs
    <3>2. /\ total'[b] = total[b] /\ sent'[b] = sent[b] /\ failed'[b] = failed[b] /\ camp'[b] = camp[b]
      BY <1>1, <1>4, <2>2 DEF CreateReserve, RetryDeduct, Handler, CreateInsertCampaign,
              CreateInsertRecipient, RetryReset, RetryReopen, campVars, TypeOK
    <3>3. \A r \in ListOf(b) : rec'[r] = rec[r]
      <4>1. \A r \in ListOf(b) : \A st : r \notin In(c, st)
        BY <2>2 DEF In, ListOf
      <4> QED
        BY <1>1, <1>4, <4>1 DEF CreateReserve, RetryDeduct, Handler, CreateInsertCampaign,
             CreateInsertRecipient, RetryReset, RetryReopen, recVars, ListOf, TypeOK
    <3> QED
      BY <1>1, <1>3, <2>2, <3>1, <3>2, <3>3, OthersKept
  <2> QED
    BY <2>1, <2>2
<1>5. ASSUME NEW c \in Campaign, Pause(c) \/ Resume(c) \/ Cancel(c) PROVE Counts(b)'
  BY <1>1, <1>3, <1>5, StatusCounts
<1>6. ASSUME NEW t \in Tick, StartTick(t) \/ TickStep(t) \/ HookDone(t) PROVE Counts(b)'
  BY <1>1, <1>3, <1>6, TickCounts
<1>7. CASE Crash
  <2>1. /\ UNCHANGED <<camp, total, sent, failed, rec>>
        /\ phase[b] = "idle" /\ phase'[b] = "idle"
    BY <1>7 DEF Crash, campVars, recVars
  <2> QED
    BY <1>3, <2>1, CountsKept
<1>8. CASE \/ \E n \in 1..MaxBought : Buy(n)
           \/ \E x \in Row, outcome \in {"sent", "failed"} : Resolve(x, outcome)
           \/ \E p \in Phone : CooldownEnds(p)
           \/ UNCHANGED vars
  <2>1. UNCHANGED <<camp, total, sent, failed, rec, phase, failedCount>>
    BY <1>8 DEF Buy, Resolve, CooldownEnds, vars, campVars, recVars, tickVars
  <2> QED
    BY <1>3, <2>1, CountsKept
<1> QED
  BY <1>4, <1>5, <1>6, <1>7, <1>8 DEF Next

\* Between two requests the counters of a campaign account for every recipient it was
\* charged for, unless a create or a retry was torn.
THEOREM CountersAddUp == Spec => []CountersMatch
<1>1. Init => CountInv
  <2>1. Init => Known /\ \A c \in Campaign : Counts(c)
    BY DEF Init, Known, Counts, ListOf
  <2> QED
    BY <2>1, RowsInit DEF CountInv
<1>2. CountInv => CountersMatch
  <2> SUFFICES ASSUME CountInv, cpu = Free, ~torn, NEW c \in Campaign, camp[c] # "none"
               PROVE  total[c] = sent[c] + failed[c]
                                 + Cardinality(In(c, {"pending", "queued", "cancelled"}))
    BY DEF CountersMatch
  <2>1. TypeOK /\ PhaseInv /\ Counts(c)
    BY DEF CountInv, RowInv, TypeInv
  <2>2. phase[c] = "idle"
    BY <2>1, BulkAssumption DEF PhaseInv, BulkAssumption
  <2>3. Unsettled(c) = In(c, {"pending", "queued", "cancelled"}) /\ Owed(c) = 0
    BY <2>1, <2>2 DEF Counts, Unsettled, Owed, In
  <2>4. total[c] + Owed(c) = sent[c] + failed[c] + Cardinality(Unsettled(c)) /\ total[c] \in Nat
    BY <2>1, <2>2, CountTypes DEF Counts
  <2> QED
    BY <2>3, <2>4
<1> QED
  BY <1>1, <1>2, CountStep, PTL DEF Spec

-----------------------------------------------------------------------------
(* Credits.  The property is about a moment when nobody has the cpu; what is *)
(* inductive counts in the recipients a running handler has paid for and not *)
(* written yet (Due): those still to be inserted, those still to be reset.   *)
(* A crash of the handler burns exactly these.                               *)

Due(r) == LET c == CampaignOf[r]
          IN  \/ phase[c] \in {"reserved", "inserting"} /\ rec[r] = "none"
              \/ phase[c] = "deducted" /\ rec[r] = "failed"

Covered == {r \in Recipient : ~passed[CampaignOf[r]] /\ (rec[r] \in {"pending", "queued"} \/ Due(r))}

\* A campaign without a row has nothing written for it.
Fresh(c) == /\ camp[c] = "none" => /\ sent[c] = 0 /\ failed[c] = 0
                                   /\ \A r \in ListOf(c) : rec[r] = "none"
            /\ phase[c] = "inserting" => camp[c] # "none"

Balanced == LET accounted == wallet + Cardinality(Spent) + Cardinality(Covered)
            IN  accounted <= bought /\ (~torn => accounted = bought)

CreditInv == RowInv /\ (\A c \in Campaign : Fresh(c)) /\ IsFiniteSet(Spent) /\ Balanced

LEMMA CoveredAre == IsFiniteSet(Covered) /\ Cardinality(Covered) \in Nat
BY Counted DEF Covered

\* The spent credits, one by one.
LEMMA SpentAre ==
    ASSUME NEW x
    PROVE  x \in Spent <=> \E c \in Campaign :
              /\ ~passed[c]
              /\ \/ \E i \in 1..sent[c] : x = <<"sent", c, i>>
                 \/ \E i \in 1..failed[c] : x = <<"failed", c, i>>
BY DEF Spent

LEMMA SpentNextAre ==
    ASSUME NEW x
    PROVE  x \in Spent' <=> \E c \in Campaign :
              /\ ~passed'[c]
              /\ \/ \E i \in 1..sent'[c] : x = <<"sent", c, i>>
                 \/ \E i \in 1..failed'[c] : x = <<"failed", c, i>>
BY DEF Spent

\* A step that moves no credit keeps the balance.
LEMMA BalanceKept ==
    ASSUME CreditInv, UNCHANGED <<wallet, bought>>, Spent' = Spent, Covered' = Covered, torn => torn'
    PROVE  IsFiniteSet(Spent') /\ Balanced'
BY DEF CreditInv, Balanced

\* A campaign without a row stays without counters and recipients.
LEMMA FreshStep == CreditInv /\ [Next]_vars => \A c \in Campaign : Fresh(c)'
<1> SUFFICES ASSUME CreditInv, [Next]_vars, NEW c \in Campaign PROVE Fresh(c)'
  OBVIOUS
<1>1. TypeOK /\ PhaseInv /\ Fresh(c) /\ ListOf(c) \subseteq Recipient
  BY DEF CreditInv, RowInv, TypeInv, ListOf
<1>2. ASSUME camp'[c] = "none" => camp[c] = "none",
             camp[c] # "none" => camp'[c] # "none",
             camp[c] = "none" => sent'[c] = sent[c] /\ failed'[c] = failed[c],
             camp[c] = "none" => \A r \in ListOf(c) : rec'[r] = rec[r],
             phase'[c] = "inserting" => phase[c] = "inserting" \/ camp'[c] # "none"
      PROVE  Fresh(c)'
  BY <1>1, <1>2 DEF Fresh, ListOf
<1>3. ASSUME NEW b \in Campaign, NEW free \in BOOLEAN, CreateReserve(b, free) PROVE Fresh(c)'
  BY <1>1, <1>2, <1>3 DEF CreateReserve, Goto, recVars, TypeOK, PhaseInv
<1>4. ASSUME NEW b \in Campaign, CreateInsertCampaign(b) PROVE Fresh(c)'
  BY <1>1, <1>2, <1>4 DEF CreateInsertCampaign, Goto, recVars, TypeOK, PhaseInv
<1>5. ASSUME NEW b \in Campaign, CreateInsertRecipient(b) PROVE Fresh(c)'
  <2>1. phase[b] = "inserting" /\ UNCHANGED <<camp, sent, failed>>
    BY <1>5 DEF CreateInsertRecipient, Runs, campVars
  <2>2. camp[b] # "none"
    BY <2>1 DEF CreditInv, Fresh
  <2>3. PICK r \in ListOf(b) : rec' = [rec EXCEPT ![r] = "pending"] /\ \E ph : Goto(b, ph)
    BY <1>5 DEF CreateInsertRecipient, In
  <2>4. \A q \in ListOf(c) : b # c => rec'[q] = rec[q]
    BY <1>1, <2>3 DEF ListOf, TypeOK
  <2>5. b # c => phase'[c] = phase[c]
    BY <1>1, <2>3 DEF Goto, PhaseInv
  <2> QED
    BY <1>2, <2>1, <2>2, <2>4, <2>5
<1>6. ASSUME NEW b \in Campaign, Pause(b) \/ Resume(b) PROVE Fresh(c)'
  BY <1>1, <1>2, <1>6 DEF Pause, Resume, SetStatus, recVars, TypeOK
<1>7. ASSUME NEW b \in Campaign, Cancel(b) PROVE Fresh(c)'
  <2>1. UNCHANGED <<sent, failed, phase>> /\ camp' = [camp EXCEPT ![b] = "cancelled"] /\ camp[b] # "none"
    BY <1>7 DEF Cancel
  <2>2. \A r \in ListOf(c) : b # c => rec'[r] = rec[r]
    BY <1>1, <1>7 DEF Cancel, OpenOf, In, ListOf
  <2>3. camp'[c] = "none" <=> camp[c] = "none"
    BY <1>1, <2>1 DEF TypeOK
  <2> QED
    BY <1>2, <2>1, <2>2, <2>3
<1>8. ASSUME NEW b \in Campaign, RetryDeduct(b) \/ RetryReset(b) \/ RetryReopen(b) PROVE Fresh(c)'
  <2>1. UNCHANGED <<sent, failed>> /\ (camp'[c] = "none" => camp[c] = "none") /\ (camp[c] # "none" => camp'[c] # "none")
    BY <1>1, <1>8 DEF RetryDeduct, RetryReset, RetryReopen, campVars, TypeOK
  <2>2. \E ph \in {"deducted", "reset", "idle"} : Goto(b, ph)
    BY <1>8 DEF RetryDeduct, RetryReset, RetryReopen
  <2>3. phase'[c] = "inserting" => phase[c] = "inserting"
    BY <1>1, <2>2 DEF Goto, PhaseInv
  <2>4. camp[c] = "none" => \A r \in ListOf(c) : rec'[r] = rec[r]
    <3>1. camp[c] = "none" => \A r \in ListOf(c), b2 \in Campaign : r \notin In(b2, {"failed"})
      BY <1>1 DEF Fresh, In
    <3> QED
      BY <1>1, <1>8, <3>1 DEF RetryDeduct, RetryReset, RetryReopen, recVars
  <2> QED
    BY <1>2, <2>1, <2>3, <2>4
<1>9. ASSUME NEW t \in Tick, StartTick(t) \/ TickStep(t) \/ HookDone(t) PROVE Fresh(c)'
  <2>1. t \notin Campaign
    BY BulkAssumption DEF BulkAssumption
  <2>2. phase'[c] = phase[c]
    <3>1. ASSUME NEW ph, Goto(t, ph) PROVE phase'[c] = phase[c]
      BY <1>1, <2>1, <3>1 DEF Goto, PhaseInv
    <3> QED
      BY <1>9, <3>1 DEF StartTick, TickStep, HookDone, ReconcileOne, StartFinalize, FinalizeOne,
                        EnqueueOne, StartEnqueue
  <2>3. CASE StartTick(t) \/ HookDone(t) \/ StartFinalize(t) \/ StartEnqueue(t)
    BY <1>2, <2>2, <2>3 DEF StartTick, HookDone, StartFinalize, StartEnqueue, campVars, recVars
  <2>4. ASSUME NEW b \in Campaign, FinalizeOne(t, b) PROVE Fresh(c)'
    BY <1>1, <1>2, <2>2, <2>4 DEF FinalizeOne, recVars, TypeOK
  <2>5. ASSUME NEW b \in Campaign, EnqueueOne(t, b) PROVE Fresh(c)'
    <3>1. UNCHANGED <<sent, failed>> /\ camp' = [camp EXCEPT ![b] = "sending"]
      BY <2>5 DEF EnqueueOne
    <3>2. \A r \in Recipient : rec'[r] = rec[r] \/ rec[r] = "pending"
      BY <2>5 DEF EnqueueOne, FirstPending, In
    <3>3. camp[c] = "none" => \A r \in ListOf(c) : rec'[r] = rec[r]
      BY <1>1, <3>2 DEF Fresh
    <3>4. camp'[c] = "none" => camp[c] = "none"
      BY <1>1, <3>1 DEF TypeOK
    <3>5. camp[c] # "none" => camp'[c] # "none"
      BY <1>1, <3>1 DEF TypeOK
    <3> QED
      BY <1>2, <2>2, <3>1, <3>3, <3>4, <3>5
  <2>6. ASSUME NEW r \in Recipient, ReconcileOne(t, r) PROVE Fresh(c)'
    <3>1. UNCHANGED camp /\ rec[r] = "queued" /\ rec' = [rec EXCEPT ![r] = AfterAttempt(r)]
      BY <2>6 DEF ReconcileOne, Resolved
    <3>2. camp[c] = "none" => CampaignOf[r] # c
      BY <1>1, <3>1 DEF Fresh, ListOf
    <3>3. camp[c] = "none" => sent'[c] = sent[c] /\ failed'[c] = failed[c]
      BY <1>1, <2>6, <3>2 DEF ReconcileOne, TypeOK
    <3>4. camp[c] = "none" => \A q \in ListOf(c) : rec'[q] = rec[q]
      BY <1>1, <3>1, <3>2 DEF ListOf, TypeOK
    <3> QED
      BY <1>2, <2>2, <3>1, <3>3, <3>4
  <2> QED
    BY <1>9, <2>3, <2>4, <2>5, <2>6 DEF TickStep
<1>10. CASE Crash
  BY <1>1, <1>2, <1>10 DEF Crash, campVars, recVars
<1>11. CASE \/ \E n \in 1..MaxBought : Buy(n)
            \/ \E x \in Row, outcome \in {"sent", "failed"} : Resolve(x, outcome)
            \/ \E p \in Phone : CooldownEnds(p)
            \/ UNCHANGED vars
  BY <1>2, <1>11 DEF Buy, Resolve, CooldownEnds, vars, campVars, recVars
<1> QED
  BY <1>3, <1>4, <1>5, <1>6, <1>7, <1>8, <1>9, <1>10, <1>11 DEF Next, Handler

\* With nobody running, only what is written is covered.
LEMMA FreeIsSettled ==
    ASSUME PhaseInv, cpu = Free
    PROVE  (\A c \in Campaign : phase[c] = "idle") /\ Covered = Reserved
<1>1. \A c \in Campaign : phase[c] = "idle"
  BY BulkAssumption DEF PhaseInv, BulkAssumption
<1>2. \A r \in Recipient : ~Due(r)
  BY <1>1, BulkAssumption DEF Due, BulkAssumption
<1> QED
  BY <1>1, <1>2 DEF Covered, Reserved

\* A charge of n credits that covers n recipients more.
LEMMA ChargeBalances ==
    ASSUME CreditInv, NEW c \in Campaign, NEW S \in SUBSET Recipient,
           S \cap Covered = {}, Covered' = Covered \cup S,
           Deduct(Cardinality(S), FALSE), Spent' = Spent, torn => torn'
    PROVE  IsFiniteSet(Spent') /\ Balanced'
<1>1. Cardinality(Covered') = Cardinality(Covered) + Cardinality(S)
  <2>1. IsFiniteSet(S) /\ IsFiniteSet(Covered) /\ Cardinality(S) \in Nat /\ Cardinality(Covered) \in Nat
    BY Counted, CoveredAre
  <2>2. Cardinality(Covered \cup S) = Cardinality(Covered) + Cardinality(S) - Cardinality(Covered \cap S)
    BY <2>1, FS_Union
  <2>3. Cardinality(Covered \cap S) = 0
    BY FS_EmptySet
  <2> QED
    BY <2>1, <2>2, <2>3
<1>2. wallet' = wallet - Cardinality(S) /\ bought' = bought
  BY DEF Deduct
<1>3. /\ wallet \in Nat /\ Cardinality(S) \in Nat /\ Cardinality(Covered) \in Nat
      /\ Cardinality(Spent) \in Nat
  BY Counted, CoveredAre, FS_CardinalityType DEF CreditInv, RowInv, TypeInv, TypeOK
<1>4. wallet' + Cardinality(Spent') + Cardinality(Covered') = wallet + Cardinality(Spent) + Cardinality(Covered)
  BY <1>1, <1>2, <1>3
<1> QED
  BY <1>2, <1>4 DEF CreditInv, Balanced

\* A create's credits go from the wallet to the recipients that are due, then to their rows.
LEMMA CreateBalances ==
    ASSUME CreditInv, NEW c \in Campaign,
           \/ \E free \in BOOLEAN : CreateReserve(c, free)
           \/ CreateInsertCampaign(c) \/ CreateInsertRecipient(c)
    PROVE  IsFiniteSet(Spent') /\ Balanced'
<1>1. TypeOK /\ PhaseInv /\ Fresh(c)
  BY DEF CreditInv, RowInv, TypeInv
<1>2. \A ph : Goto(c, ph) => phase' = [phase EXCEPT ![c] = ph] /\ phase'[c] = ph
                             /\ \A b \in Campaign : b # c => phase'[b] = phase[b]
  BY <1>1 DEF Goto, PhaseInv
<1>3. ASSUME NEW free \in BOOLEAN, CreateReserve(c, free) PROVE IsFiniteSet(Spent') /\ Balanced'
  <2>1. /\ cpu = Free /\ camp[c] = "none" /\ UNCHANGED <<sent, failed, rec, torn>>
        /\ Deduct(Cardinality(ListOf(c)), free) /\ passed' = [passed EXCEPT ![c] = free]
        /\ Goto(c, "reserved")
    BY <1>3 DEF CreateReserve, recVars
  <2>2. /\ passed'[c] = free /\ phase'[c] = "reserved"
        /\ \A b \in Campaign : b # c => passed'[b] = passed[b] /\ phase'[b] = phase[b]
    BY <1>1, <1>2, <2>1 DEF TypeOK
  <2>3. sent[c] = 0 /\ failed[c] = 0 /\ \A r \in ListOf(c) : rec[r] = "none"
    BY <1>1, <2>1 DEF Fresh
  <2>4. Spent' = Spent
    <3>1. \A x : x \in Spent' <=> x \in Spent
      BY <2>1, <2>2, <2>3, SpentAre, SpentNextAre
    <3> QED
      BY <3>1
  <2>5. \A b \in Campaign : phase[b] = "idle"
    BY <1>1, <2>1, FreeIsSettled
  <2>6. \A r \in Recipient : CampaignOf[r] \in Campaign /\ (r \in ListOf(c) <=> CampaignOf[r] = c)
    BY BulkAssumption DEF BulkAssumption, ListOf
  <2>7. \A r \in Recipient : r \in Covered <=> ~passed[CampaignOf[r]] /\ rec[r] \in {"pending", "queued"}
    BY <2>5, <2>6 DEF Covered, Due
  <2>8. \A r \in Recipient : CampaignOf[r] # c => (r \in Covered' <=> r \in Covered)
    BY <2>1, <2>2, <2>5, <2>6, <2>7 DEF Covered, Due
  <2>9. \A r \in Recipient : CampaignOf[r] = c => r \notin Covered /\ (r \in Covered' <=> ~free)
    BY <2>1, <2>2, <2>3, <2>6, <2>7 DEF Covered, Due
  <2>10. Covered \subseteq Recipient /\ Covered' \subseteq Recipient
    BY DEF Covered
  <2>11. CASE free
    <3>1. Covered' = Covered
      BY <2>8, <2>9, <2>10, <2>11
    <3> QED
      BY <2>1, <2>4, <2>11, <3>1, BalanceKept DEF Deduct
  <2>12. CASE ~free
    <3>1. ListOf(c) \in SUBSET Recipient /\ ListOf(c) \cap Covered = {} /\ Covered' = Covered \cup ListOf(c)
      BY <2>6, <2>8, <2>9, <2>10, <2>12 DEF ListOf
    <3> QED
      BY <2>1, <2>4, <2>12, <3>1, ChargeBalances
  <2> QED
    BY <2>11, <2>12
<1>4. CASE CreateInsertCampaign(c)
  <2>1. /\ phase[c] = "reserved" /\ phase'[c] = "inserting"
        /\ UNCHANGED <<passed, sent, failed, rec, torn, wallet, bought>>
    BY <1>2, <1>4 DEF CreateInsertCampaign, Runs, recVars, credits
  <2>2. \A b \in Campaign : b # c => phase'[b] = phase[b]
    BY <1>2, <1>4 DEF CreateInsertCampaign
  <2>3. \A r \in Recipient : Due(r)' <=> Due(r)
    BY <2>1, <2>2, BulkAssumption DEF Due, BulkAssumption
  <2> QED
    BY <2>1, <2>3, BalanceKept DEF Spent, Covered
<1>5. CASE CreateInsertRecipient(c)
  <2>1. phase[c] = "inserting" /\ UNCHANGED <<passed, sent, failed, torn, wallet, bought>>
    BY <1>5 DEF CreateInsertRecipient, Runs, campVars, credits
  <2>2. PICK r \in In(c, {"none"}) :
            /\ rec' = [rec EXCEPT ![r] = "pending"]
            /\ Goto(c, IF In(c, {"none"}) = {r} THEN "idle" ELSE "inserting")
    BY <1>5 DEF CreateInsertRecipient
  <2>3. /\ phase'[c] = IF In(c, {"none"}) = {r} THEN "idle" ELSE "inserting"
        /\ \A b \in Campaign : b # c => phase'[b] = phase[b]
    BY <1>2, <2>2
  <2>4. r \in Recipient /\ CampaignOf[r] = c /\ rec[r] = "none"
    BY <2>2 DEF In, ListOf
  <2>5. rec'[r] = "pending" /\ \A q \in Recipient : q # r => rec'[q] = rec[q]
    BY <1>1, <2>2, <2>4 DEF TypeOK
  <2>6. ASSUME NEW q \in Recipient PROVE q \in Covered' <=> q \in Covered
    <3>1. CASE q = r
      BY <2>1, <2>4, <2>5, <3>1 DEF Covered, Due
    <3>2. CASE q # r /\ CampaignOf[q] = c
      <4>1. rec[q] = "none" => phase'[c] = "inserting"
        BY <2>3, <3>2 DEF In, ListOf
      <4>2. phase'[c] \in {"idle", "inserting"}
        BY <2>3
      <4> QED
        BY <2>1, <2>5, <3>2, <4>1, <4>2 DEF Covered, Due
    <3>3. CASE CampaignOf[q] # c
      <4>1. phase'[CampaignOf[q]] = phase[CampaignOf[q]] /\ q # r
        BY <2>3, <2>4, <3>3, BulkAssumption DEF BulkAssumption
      <4> QED
        BY <2>1, <2>5, <4>1 DEF Covered, Due
    <3> QED
      BY <3>1, <3>2, <3>3
  <2>7. Covered' = Covered
    BY <2>6 DEF Covered
  <2> QED
    BY <2>1, <2>7, BalanceKept DEF Spent
<1> QED
  BY <1>3, <1>4, <1>5

\* A cancelled campaign gets back what its open recipients were charged.
LEMMA CancelBalances ==
    ASSUME CreditInv, NEW c \in Campaign, Cancel(c)
    PROVE  IsFiniteSet(Spent') /\ Balanced'
<1>1. /\ cpu = Free /\ UNCHANGED <<bought, passed, sent, failed, phase, torn>>
      /\ rec' = [r \in Recipient |-> IF r \in OpenOf(c) THEN "cancelled" ELSE rec[r]]
      /\ wallet' = wallet + Refund(c)
  BY DEF Cancel
<1>2. PhaseInv /\ TypeOK
  BY DEF CreditInv, RowInv, TypeInv
<1>3. \A b \in Campaign : phase[b] = "idle"
  BY <1>1, <1>2, FreeIsSettled
<1>4. \A r \in Recipient : ~Due(r) /\ ~Due(r)'
  BY <1>1, <1>3, BulkAssumption DEF Due, BulkAssumption
<1>5. \A r \in Recipient : r \in OpenOf(c) <=> CampaignOf[r] = c /\ rec[r] \in {"pending", "queued"}
  BY DEF OpenOf, In, ListOf
<1>6. Spent' = Spent
  BY <1>1 DEF Spent
<1>7. CASE passed[c]
  <2>1. wallet' = wallet
    BY <1>1, <1>2, <1>7 DEF Refund, TypeOK
  <2>2. \A r \in Recipient : r \in Covered' <=> r \in Covered
    BY <1>1, <1>4, <1>5, <1>7 DEF Covered
  <2>3. Covered' = Covered
    BY <2>2 DEF Covered
  <2> QED
    BY <1>1, <1>6, <2>1, <2>3, BalanceKept
<1>8. CASE ~passed[c]
  <2>1. wallet' = wallet + Cardinality(OpenOf(c))
    BY <1>1, <1>8 DEF Refund
  <2>2. \A r \in Recipient : r \in Covered' <=> r \in Covered \ OpenOf(c)
    BY <1>1, <1>4, <1>5, <1>8 DEF Covered
  <2>3. OpenOf(c) \subseteq Covered
    BY <1>5, <1>8 DEF Covered, OpenOf, In, ListOf
  <2>4. Covered = Covered' \cup OpenOf(c) /\ Covered' \cap OpenOf(c) = {}
    BY <2>2, <2>3 DEF Covered
  <2>5. /\ IsFiniteSet(OpenOf(c)) /\ Cardinality(OpenOf(c)) \in Nat
        /\ IsFiniteSet(Covered') /\ Cardinality(Covered') \in Nat
    BY <2>4, Counted, CoveredAre, FS_Subset, FS_CardinalityType DEF OpenOf, In, ListOf
  <2>6. Cardinality(Covered) = Cardinality(Covered') + Cardinality(OpenOf(c))
    <3>1. Cardinality(Covered' \cup OpenOf(c)) =
             Cardinality(Covered') + Cardinality(OpenOf(c)) - Cardinality(Covered' \cap OpenOf(c))
      BY <2>5, FS_Union
    <3>2. Cardinality(Covered' \cap OpenOf(c)) = 0
      BY <2>4, FS_EmptySet
    <3> QED
      BY <2>4, <2>5, <3>1, <3>2
  <2>7. wallet \in Nat /\ Cardinality(Spent) \in Nat
    BY <1>2, FS_CardinalityType DEF TypeOK, CreditInv
  <2>8. wallet' + Cardinality(Spent') + Cardinality(Covered') = wallet + Cardinality(Spent) + Cardinality(Covered)
    BY <1>6, <2>1, <2>5, <2>6, <2>7
  <2> QED
    BY <1>1, <1>6, <2>8 DEF CreditInv, Balanced
<1> QED
  BY <1>7, <1>8

\* A retry's likewise, for the recipients that it makes pending again.
LEMMA RetryBalances ==
    ASSUME CreditInv, NEW c \in Campaign, RetryDeduct(c) \/ RetryReset(c) \/ RetryReopen(c)
    PROVE  IsFiniteSet(Spent') /\ Balanced'
<1>1. TypeOK /\ PhaseInv
  BY DEF CreditInv, RowInv, TypeInv
<1>2. \A ph : Goto(c, ph) => phase'[c] = ph /\ \A b \in Campaign : b # c => phase'[b] = phase[b]
  BY <1>1 DEF Goto, PhaseInv
<1>3. \A r \in Recipient : CampaignOf[r] \in Campaign
  BY BulkAssumption DEF BulkAssumption
<1>4. CASE RetryDeduct(c)
  <2>1. /\ cpu = Free /\ UNCHANGED <<passed, sent, failed, rec, torn>>
        /\ Deduct(Cardinality(In(c, {"failed"})), passed[c]) /\ Goto(c, "deducted")
    BY <1>4 DEF RetryDeduct, campVars, recVars
  <2>2. phase'[c] = "deducted" /\ \A b \in Campaign : b # c => phase'[b] = phase[b]
    BY <1>2, <2>1
  <2>3. \A b \in Campaign : phase[b] = "idle"
    BY <1>1, <2>1, FreeIsSettled
  <2>4. \A r \in Recipient : ~Due(r) /\ (Due(r)' <=> r \in In(c, {"failed"}))
    BY <1>3, <2>1, <2>2, <2>3 DEF Due, In, ListOf
  <2>5. Spent' = Spent
    BY <2>1 DEF Spent
  <2>6. \A r \in In(c, {"failed"}) : r \in Recipient /\ CampaignOf[r] = c /\ rec[r] = "failed"
    BY DEF In, ListOf
  <2>7. Covered \subseteq Recipient /\ Covered' \subseteq Recipient
    BY DEF Covered
  <2>8. CASE passed[c]
    <3>1. \A r \in Recipient : r \in Covered' <=> r \in Covered
      BY <2>1, <2>4, <2>6, <2>8 DEF Covered
    <3>2. Covered' = Covered
      BY <2>7, <3>1
    <3> QED
      BY <2>1, <2>5, <2>8, <3>2, BalanceKept DEF Deduct
  <2>9. CASE ~passed[c]
    <3>1. \A r \in Recipient : r \in Covered' <=> r \in Covered \/ r \in In(c, {"failed"})
      BY <2>1, <2>4, <2>6, <2>9 DEF Covered
    <3>2. Covered' = Covered \cup In(c, {"failed"})
      BY <2>6, <2>7, <3>1
    <3>3. In(c, {"failed"}) \in SUBSET Recipient /\ In(c, {"failed"}) \cap Covered = {}
      BY <2>4, <2>6 DEF Covered
    <3>4. Deduct(Cardinality(In(c, {"failed"})), FALSE)
      BY <2>1, <2>9 DEF Deduct
    <3> QED
      BY <2>1, <2>5, <3>2, <3>3, <3>4, ChargeBalances
  <2> QED
    BY <2>8, <2>9
<1>5. CASE RetryReset(c)
  <2>1. /\ phase[c] = "deducted" /\ phase'[c] = "reset"
        /\ UNCHANGED <<passed, sent, failed, torn, wallet, bought>>
        /\ \A r \in Recipient : rec'[r] = IF r \in In(c, {"failed"}) THEN "pending" ELSE rec[r]
    BY <1>2, <1>5 DEF RetryReset, Runs, campVars, credits
  <2>2. \A b \in Campaign : b # c => phase'[b] = phase[b]
    BY <1>2, <1>5 DEF RetryReset
  <2>3. \A r \in Recipient : r \in In(c, {"failed"}) <=> CampaignOf[r] = c /\ rec[r] = "failed"
    BY DEF In, ListOf
  <2>4. \A r \in Recipient : CampaignOf[r] # c => (Due(r)' <=> Due(r)) /\ rec'[r] = rec[r]
    BY <1>3, <2>1, <2>2, <2>3 DEF Due
  <2>5. \A r \in Recipient : CampaignOf[r] = c =>
           ((rec'[r] \in {"pending", "queued"} \/ Due(r)') <=> (rec[r] \in {"pending", "queued"} \/ Due(r)))
    BY <2>1, <2>3 DEF Due
  <2>6. \A r \in Recipient : r \in Covered' <=> r \in Covered
    BY <2>1, <2>4, <2>5 DEF Covered
  <2>7. Covered' = Covered
    BY <2>6 DEF Covered
  <2> QED
    BY <2>1, <2>7, BalanceKept DEF Spent
<1>6. CASE RetryReopen(c)
  <2>1. /\ phase[c] = "reset" /\ phase'[c] = "idle"
        /\ UNCHANGED <<passed, sent, failed, rec, torn, wallet, bought>>
    BY <1>2, <1>6 DEF RetryReopen, Runs, recVars, credits
  <2>2. \A b \in Campaign : b # c => phase'[b] = phase[b]
    BY <1>2, <1>6 DEF RetryReopen
  <2>3. \A r \in Recipient : Due(r)' <=> Due(r)
    BY <1>3, <2>1, <2>2 DEF Due
  <2> QED
    BY <2>1, <2>3, BalanceKept DEF Spent, Covered
<1> QED
  BY <1>4, <1>5, <1>6

\* An outcome that ends a recipient turns a reservation into a credit spent.
LEMMA ReconcileBalances ==
    ASSUME CreditInv, NEW t \in Tick, NEW r \in Recipient, ReconcileOne(t, r)
    PROVE  IsFiniteSet(Spent') /\ Balanced'
<1> DEFINE c == CampaignOf[r]
<1>1. TypeOK /\ PhaseInv /\ c \in Campaign
  BY BulkAssumption DEF CreditInv, RowInv, TypeInv, BulkAssumption
<1>2. /\ UNCHANGED <<passed, phase, torn, wallet, bought>> /\ rec[r] = "queued"
      /\ AfterAttempt(r) \in {"sent", "pending", "failed"}
  BY DEF ReconcileOne, Resolved, AfterAttempt, credits
<1>3. rec'[r] = AfterAttempt(r) /\ \A q \in Recipient : q # r => rec'[q] = rec[q]
  BY <1>1 DEF ReconcileOne, TypeOK
<1>4. /\ sent'[c] = IF AfterAttempt(r) = "sent" THEN sent[c] + 1 ELSE sent[c]
      /\ failed'[c] = IF AfterAttempt(r) = "failed" THEN failed[c] + 1 ELSE failed[c]
      /\ \A b \in Campaign : b # c => sent'[b] = sent[b] /\ failed'[b] = failed[b]
  BY <1>1 DEF ReconcileOne, TypeOK
<1>5. sent[c] \in Nat /\ failed[c] \in Nat
  BY <1>1 DEF TypeOK
<1>6. phase[c] = "idle"
  <2>1. cpu = t /\ t \notin Campaign
    BY BulkAssumption DEF ReconcileOne, Runs, BulkAssumption
  <2> QED
    BY <1>1, <2>1 DEF PhaseInv
<1>7. ~Due(r) /\ ~Due(r)' /\ \A q \in Recipient : q # r => (Due(q)' <=> Due(q))
  BY <1>2, <1>3, <1>6 DEF Due
<1>8. Covered \subseteq Recipient /\ Covered' \subseteq Recipient
  BY DEF Covered
<1>9. CASE passed[c]
  <2>1. \A q \in Recipient : q \in Covered' <=> q \in Covered
    BY <1>2, <1>3, <1>7, <1>9 DEF Covered
  <2>2. \A x : x \in Spent' <=> x \in Spent
    BY <1>2, <1>4, <1>9, SpentAre, SpentNextAre
  <2>3. Covered' = Covered /\ Spent' = Spent
    BY <1>8, <2>1, <2>2
  <2> QED
    BY <1>2, <2>3, BalanceKept
<1>10. CASE ~passed[c] /\ AfterAttempt(r) = "pending"
  <2>1. \A q \in Recipient : q \in Covered' <=> q \in Covered
    BY <1>2, <1>3, <1>7, <1>10 DEF Covered
  <2>2. \A b \in Campaign : sent'[b] = sent[b] /\ failed'[b] = failed[b]
    BY <1>4, <1>10
  <2>3. \A x : x \in Spent' <=> x \in Spent
    BY <1>2, <2>2, SpentAre, SpentNextAre
  <2>4. Covered' = Covered /\ Spent' = Spent
    BY <1>8, <2>1, <2>3
  <2> QED
    BY <1>2, <2>4, BalanceKept
<1>11. CASE ~passed[c] /\ AfterAttempt(r) \in {"sent", "failed"}
  <2> DEFINE x == IF AfterAttempt(r) = "sent" THEN <<"sent", c, sent[c] + 1>>
                  ELSE <<"failed", c, failed[c] + 1>>
  <2>1. Spent' = Spent \cup {x} /\ x \notin Spent
    <3>1. \A n \in Nat : \A i : i \in 1..(n + 1) <=> i \in 1..n \/ i = n + 1
      OBVIOUS
    <3>2. \A n \in Nat : n + 1 \notin 1..n
      OBVIOUS
    <3>3. CASE AfterAttempt(r) = "sent"
      <4>1. sent'[c] = sent[c] + 1 /\ failed'[c] = failed[c] /\ x = <<"sent", c, sent[c] + 1>>
        BY <1>4, <3>3
      <4>2. \A i : i \in 1..sent'[c] <=> i \in 1..sent[c] \/ i = sent[c] + 1
        BY <1>5, <3>1, <4>1
      <4>3. \A y : y \in Spent' <=> y \in Spent \/ y = x
        BY <1>1, <1>2, <1>4, <1>11, <4>1, <4>2, SpentAre, SpentNextAre
      <4>4. x \notin Spent
        BY <1>5, <3>2, <4>1, SpentAre
      <4> QED
        BY <4>3, <4>4
    <3>4. CASE AfterAttempt(r) = "failed"
      <4>1. failed'[c] = failed[c] + 1 /\ sent'[c] = sent[c] /\ x = <<"failed", c, failed[c] + 1>>
        BY <1>4, <3>4
      <4>2. \A i : i \in 1..failed'[c] <=> i \in 1..failed[c] \/ i = failed[c] + 1
        BY <1>5, <3>1, <4>1
      <4>3. \A y : y \in Spent' <=> y \in Spent \/ y = x
        BY <1>1, <1>2, <1>4, <1>11, <4>1, <4>2, SpentAre, SpentNextAre
      <4>4. x \notin Spent
        BY <1>5, <3>2, <4>1, SpentAre
      <4> QED
        BY <4>3, <4>4
    <3> QED
      BY <1>11, <3>3, <3>4
  <2>2. Covered' = Covered \ {r} /\ r \in Covered
    <3>1. \A q \in Recipient : q \in Covered' <=> q \in Covered /\ q # r
      BY <1>2, <1>3, <1>7, <1>11 DEF Covered
    <3>2. r \in Covered
      BY <1>2, <1>11 DEF Covered
    <3> QED
      BY <1>8, <3>1, <3>2
  <2> HIDE DEF x
  <2>3. IsFiniteSet(Spent) /\ IsFiniteSet(Covered)
    BY CoveredAre DEF CreditInv
  <2>4. IsFiniteSet(Spent') /\ Cardinality(Spent') = Cardinality(Spent) + 1
    BY <2>1, <2>3, FS_AddElement
  <2>5. Cardinality(Covered') = Cardinality(Covered) - 1
    BY <2>2, <2>3, FS_RemoveElement
  <2>6. wallet \in Nat /\ Cardinality(Spent) \in Nat /\ Cardinality(Covered) \in Nat
    BY <1>1, <2>3, FS_CardinalityType DEF TypeOK
  <2>7. wallet' + Cardinality(Spent') + Cardinality(Covered') = wallet + Cardinality(Spent) + Cardinality(Covered)
    BY <1>2, <2>4, <2>5, <2>6
  <2> QED
    BY <1>2, <2>4, <2>7 DEF CreditInv, Balanced
<1> QED
  BY <1>2, <1>9, <1>10, <1>11

\* A tick spends a reserved credit, or hands it on to the next attempt.
LEMMA TickBalances ==
    ASSUME CreditInv, NEW t \in Tick, StartTick(t) \/ TickStep(t) \/ HookDone(t)
    PROVE  IsFiniteSet(Spent') /\ Balanced'
<1>1. TypeOK /\ PhaseInv /\ t \notin Campaign
  BY BulkAssumption DEF CreditInv, RowInv, TypeInv, BulkAssumption
<1>2. \A r \in Recipient : CampaignOf[r] \in Campaign
  BY BulkAssumption DEF BulkAssumption
<1>3. ASSUME NEW ph, Goto(t, ph) PROVE \A c \in Campaign : phase'[c] = phase[c]
  BY <1>1, <1>3 DEF Goto, PhaseInv
<1>4. CASE \/ StartTick(t) \/ HookDone(t) \/ StartFinalize(t) \/ StartEnqueue(t)
           \/ \E c \in Campaign : FinalizeOne(t, c)
  <2>1. /\ UNCHANGED <<rec, passed, sent, failed, torn, wallet, bought>>
        /\ \E ph : Goto(t, ph)
    BY <1>4 DEF StartTick, HookDone, StartFinalize, StartEnqueue, FinalizeOne, recVars, campVars, credits
  <2>2. \A c \in Campaign : phase'[c] = phase[c]
    BY <1>3, <2>1
  <2>3. \A r \in Recipient : Due(r)' <=> Due(r)
    BY <1>2, <2>1, <2>2 DEF Due
  <2> QED
    BY <2>1, <2>3, BalanceKept DEF Spent, Covered
<1>5. ASSUME NEW c \in Campaign, EnqueueOne(t, c) PROVE IsFiniteSet(Spent') /\ Balanced'
  <2>1. UNCHANGED <<passed, sent, failed, torn, wallet, bought>> /\ \E ph : Goto(t, ph)
    BY <1>5 DEF EnqueueOne, credits
  <2>2. \A b \in Campaign : phase'[b] = phase[b]
    BY <1>3, <2>1
  <2>3. \A r \in Recipient : rec'[r] = rec[r] \/ (rec[r] = "pending" /\ rec'[r] = "queued")
    BY <1>5 DEF EnqueueOne, FirstPending, In
  <2>4. \A r \in Recipient : Due(r)' <=> Due(r)
    BY <1>2, <2>2, <2>3 DEF Due
  <2>5. \A r \in Recipient : r \in Covered' <=> r \in Covered
    BY <2>1, <2>3, <2>4 DEF Covered
  <2>6. Covered' = Covered
    BY <2>5 DEF Covered
  <2> QED
    BY <2>1, <2>6, BalanceKept DEF Spent
<1> QED
  BY <1>4, <1>5, ReconcileBalances DEF TickStep

\* A crash burns what a handler had charged and not yet written, and says so in torn.
LEMMA CrashBalances ==
    ASSUME CreditInv, Crash
    PROVE  IsFiniteSet(Spent') /\ Balanced'
<1>1. /\ UNCHANGED <<wallet, bought, passed, sent, failed, rec>>
      /\ phase' = [p \in Tick \cup Campaign |-> "idle"]
      /\ torn' = (torn \/ \E c \in Campaign : phase[c] # "idle")
  BY DEF Crash, credits, campVars, recVars
<1>2. \A r \in Recipient : ~Due(r)'
  BY <1>1, BulkAssumption DEF Due, BulkAssumption
<1>3. Covered' \in SUBSET Covered
  BY <1>1, <1>2 DEF Covered
<1>4. Spent' = Spent
  BY <1>1 DEF Spent
<1>5. Cardinality(Covered') \in Nat /\ Cardinality(Covered') <= Cardinality(Covered)
  BY <1>3, CoveredAre, FS_Subset, FS_CardinalityType
<1>6. ~torn' => ~torn /\ Covered' = Covered
  <2> SUFFICES ASSUME ~torn' PROVE ~torn /\ Covered' = Covered
    OBVIOUS
  <2>1. ~torn /\ \A c \in Campaign : phase[c] = "idle"
    BY <1>1
  <2>2. \A r \in Recipient : ~Due(r)
    BY <2>1, BulkAssumption DEF Due, BulkAssumption
  <2> QED
    BY <1>1, <1>2, <2>1, <2>2 DEF Covered
<1>7. /\ wallet \in Nat /\ bought \in Nat /\ Cardinality(Spent) \in Nat /\ Cardinality(Covered) \in Nat
  BY CoveredAre, FS_CardinalityType, BulkAssumption DEF CreditInv, RowInv, TypeInv, TypeOK, BulkAssumption
<1>8. wallet' + Cardinality(Spent') + Cardinality(Covered') <= bought'
  <2>1. wallet + Cardinality(Spent) + Cardinality(Covered) <= bought
    BY DEF CreditInv, Balanced
  <2> QED
    BY <1>1, <1>4, <1>5, <1>7, <2>1
<1>9. ~torn' => wallet' + Cardinality(Spent') + Cardinality(Covered') = bought'
  BY <1>1, <1>4, <1>6 DEF CreditInv, Balanced
<1> QED
  BY <1>4, <1>8, <1>9 DEF CreditInv, Balanced

LEMMA CreditStep == CreditInv /\ [Next]_vars => CreditInv'
<1> SUFFICES ASSUME CreditInv, [Next]_vars PROVE IsFiniteSet(Spent') /\ Balanced'
  BY FreshStep, RowStep DEF CreditInv
<1>1. ASSUME NEW n \in 1..MaxBought, Buy(n) PROVE IsFiniteSet(Spent') /\ Balanced'
  <2>1. /\ wallet' = wallet + n /\ bought' = bought + n /\ UNCHANGED <<passed, sent, failed, rec, phase, torn>>
    BY <1>1 DEF Buy, campVars, recVars
  <2>2. Spent' = Spent /\ Covered' = Covered
    BY <2>1 DEF Spent, Covered, Due
  <2>3. n \in Nat /\ wallet \in Nat /\ bought \in Nat /\ Cardinality(Spent) \in Nat /\ Cardinality(Covered) \in Nat
    BY CoveredAre, FS_CardinalityType, BulkAssumption DEF CreditInv, RowInv, TypeInv, TypeOK, BulkAssumption
  <2>4. wallet + Cardinality(Spent) + Cardinality(Covered) <= bought
    BY DEF CreditInv, Balanced
  <2>5. wallet' + Cardinality(Spent') + Cardinality(Covered') <= bought'
    BY <2>1, <2>2, <2>3, <2>4
  <2>6. ~torn => wallet + Cardinality(Spent) + Cardinality(Covered) = bought
    BY DEF CreditInv, Balanced
  <2>7. ~torn' => wallet' + Cardinality(Spent') + Cardinality(Covered') = bought'
    BY <2>1, <2>2, <2>3, <2>6
  <2> QED
    BY <2>2, <2>5, <2>7 DEF CreditInv, Balanced
<1>2. ASSUME NEW c \in Campaign, NEW free \in BOOLEAN,
             CreateReserve(c, free) \/ Pause(c) \/ Resume(c) \/ Cancel(c) \/ RetryDeduct(c) \/ Handler(c)
      PROVE  IsFiniteSet(Spent') /\ Balanced'
  <2>1. CASE Pause(c) \/ Resume(c)
    <3>1. UNCHANGED <<wallet, bought, passed, sent, failed, rec, phase, torn>>
      BY <2>1 DEF Pause, Resume, SetStatus, recVars, credits
    <3> QED
      BY <3>1, BalanceKept DEF Spent, Covered, Due
  <2> QED
    BY <1>2, <2>1, CreateBalances, CancelBalances, RetryBalances DEF Handler
<1>3. CASE \/ \E x \in Row, outcome \in {"sent", "failed"} : Resolve(x, outcome)
           \/ \E p \in Phone : CooldownEnds(p)
           \/ UNCHANGED vars
  <2>1. UNCHANGED <<wallet, bought, passed, sent, failed, rec, phase, torn>>
    BY <1>3 DEF Resolve, CooldownEnds, vars, campVars, recVars, credits
  <2> QED
    BY <2>1, BalanceKept DEF Spent, Covered, Due
<1> QED
  BY <1>1, <1>2, <1>3, TickBalances, CrashBalances DEF Next

\* Credits are never minted, and burnt only when a crash hits a create or a retry between
\* its commits: whatever campaigns, ticks, retries, cancellations and crashes there are.
THEOREM CreditsAreConserved == Spec => []CreditsConserved
<1>1. Init => CreditInv
  <2> SUFFICES ASSUME Init PROVE (\A c \in Campaign : Fresh(c)) /\ IsFiniteSet(Spent) /\ Balanced
    BY RowsInit DEF CreditInv
  <2>1. \A c \in Campaign : Fresh(c)
    BY DEF Init, Fresh, ListOf
  <2>2. \A c \in Campaign : sent[c] = 0 /\ failed[c] = 0
    BY DEF Init
  <2>3. Spent = {}
    <3>1. \A x : x \notin Spent
      BY <2>2, SpentAre
    <3> QED
      BY <3>1
  <2>4. Covered = {}
    BY BulkAssumption DEF Init, Covered, Due, BulkAssumption
  <2>5. wallet = 0 /\ bought = 0
    BY DEF Init
  <2> QED
    BY <2>1, <2>3, <2>4, <2>5, FS_EmptySet DEF Balanced
<1>2. CreditInv => CreditsConserved
  BY FreeIsSettled DEF CreditInv, RowInv, TypeInv, Balanced, CreditsConserved
<1> QED
  BY <1>1, <1>2, CreditStep, PTL DEF Spec

-----------------------------------------------------------------------------
(* Completion.  A tick finalizes from a list it read before it awaited the   *)
(* webhook of another campaign.  What survives the wait: a campaign on the   *)
(* list still has nobody open, or was retried meanwhile, and only a webhook  *)
(* lets anything happen meanwhile.                                           *)

Served(c) == OpenOf(c) = {} \/ (Hook /\ retries[c] > 0)

Listed(c) == \A t \in Tick : c \in todo[t] =>
                /\ phase[c] \notin {"reserved", "inserting"}
                /\ phase[t] \in {"finalize", "hook"} => Served(c)

DoneAt(c) ==
    /\ phase[c] \in {"deducted", "reset"} => retries[c] > 0
    /\ phase[c] = "inserting" => camp[c] = "queued"
    /\ Listed(c)
    /\ ~torn /\ camp[c] = "completed" => phase[c] = "reset" \/ Served(c)

DoneInv == /\ CountInv
           /\ \A t \in Tick : phase[t] = "hook" => Hook
           /\ \A c \in Campaign : DoneAt(c)

LEMMA HookStep ==
    ASSUME DoneInv, [Next]_vars
    PROVE  \A t \in Tick : phase'[t] = "hook" => Hook
<1>1. TypeOK /\ PhaseInv /\ \A t \in Tick : phase[t] = "hook" => Hook
  BY DEF DoneInv, CountInv, RowInv, TypeInv
<1>2. ASSUME NEW p \in Tick \union Campaign, NEW ph, Goto(p, ph), ph = "hook" => Hook
      PROVE  \A t \in Tick : phase'[t] = "hook" => Hook
  BY <1>1, <1>2 DEF Goto, PhaseInv
<1>3. ASSUME NEW c \in Campaign, NEW free \in BOOLEAN,
             CreateReserve(c, free) \/ RetryDeduct(c) \/ Handler(c)
      PROVE  \A t \in Tick : phase'[t] = "hook" => Hook
  BY <1>2, <1>3 DEF CreateReserve, RetryDeduct, Handler, CreateInsertCampaign, CreateInsertRecipient,
                    RetryReset, RetryReopen
<1>4. ASSUME NEW t \in Tick, \/ StartTick(t) \/ HookDone(t) \/ StartFinalize(t) \/ StartEnqueue(t)
                             \/ \E c \in Campaign : FinalizeOne(t, c) \/ EnqueueOne(t, c)
      PROVE  \A s \in Tick : phase'[s] = "hook" => Hook
  BY <1>2, <1>4 DEF StartTick, HookDone, StartFinalize, StartEnqueue, FinalizeOne, EnqueueOne
<1>5. CASE UNCHANGED phase
  BY <1>1, <1>5
<1>6. CASE Crash
  BY <1>6 DEF Crash
<1> QED
  BY <1>3, <1>4, <1>5, <1>6 DEF Next, TickStep, Pause, Resume, SetStatus, Cancel, ReconcileOne, Buy,
                                Resolve, CooldownEnds, vars

\* A step that opens nobody of c, completes nothing, and puts c on no list.
LEMMA DoneKept ==
    ASSUME NEW c \in Campaign, DoneAt(c),
           phase'[c] = phase[c], retries'[c] = retries[c], torn => torn',
           camp'[c] = camp[c] \/ (camp'[c] # "completed" /\ phase[c] # "inserting"),
           \A r \in ListOf(c) : rec'[r] = rec[r] \/ rec'[r] \notin {"pending", "queued"}
                                                 \/ rec[r] \in {"pending", "queued"},
           \A t \in Tick : c \in todo'[t] =>
               /\ c \in todo[t]
               /\ phase'[t] \in {"finalize", "hook"} => phase[t] \in {"finalize", "hook"}
    PROVE  DoneAt(c)'
<1>1. OpenOf(c)' \subseteq OpenOf(c)
  BY DEF OpenOf, In, ListOf
<1>2. Served(c) => Served(c)'
  BY <1>1 DEF Served
<1>3. Listed(c)'
  BY <1>2 DEF DoneAt, Listed
<1> QED
  BY <1>2, <1>3 DEF DoneAt

\* The steps of c's own create and retry.  Only a retry opens recipients of a campaign on
\* a list, and by then the campaign counts as retried.
LEMMA HandlerDone ==
    ASSUME DoneInv, NEW c \in Campaign,
           (\E free \in BOOLEAN : CreateReserve(c, free)) \/ RetryDeduct(c) \/ Handler(c)
    PROVE  DoneAt(c)'
<1>1. TypeOK /\ PhaseInv /\ Known /\ DoneAt(c) /\ c \notin Tick
  BY BulkAssumption DEF DoneInv, CountInv, RowInv, TypeInv, BulkAssumption
<1>2. \A ph : Goto(c, ph) => phase'[c] = ph /\ \A t \in Tick : phase'[t] = phase[t]
  BY <1>1 DEF Goto, PhaseInv
<1>3. retries[c] \in Nat
  BY <1>1 DEF TypeOK
<1>4. ASSUME NEW free \in BOOLEAN, CreateReserve(c, free) PROVE DoneAt(c)'
  <2>1. phase'[c] = "reserved" /\ camp'[c] = "none" /\ \A t \in Tick : c \notin todo'[t]
    BY <1>1, <1>2, <1>4 DEF CreateReserve, tickVars, Known
  <2> QED
    BY <2>1 DEF DoneAt, Listed
<1>5. CASE CreateInsertCampaign(c)
  <2>1. phase[c] = "reserved" /\ phase'[c] = "inserting" /\ UNCHANGED todo
    BY <1>2, <1>5 DEF CreateInsertCampaign, Runs, tickVars
  <2>2. camp'[c] = "queued"
    BY <1>1, <1>5 DEF CreateInsertCampaign, TypeOK
  <2>3. \A t \in Tick : c \notin todo'[t]
    BY <1>1, <2>1 DEF DoneAt, Listed
  <2> QED
    BY <2>1, <2>2, <2>3 DEF DoneAt, Listed
<1>6. CASE CreateInsertRecipient(c)
  <2>1. phase[c] = "inserting" /\ phase'[c] \in {"inserting", "idle"} /\ UNCHANGED <<todo, camp>>
    BY <1>2, <1>6 DEF CreateInsertRecipient, Runs, tickVars, campVars
  <2>2. \A t \in Tick : c \notin todo'[t]
    BY <1>1, <2>1 DEF DoneAt, Listed
  <2>3. camp'[c] = "queued"
    BY <1>1, <2>1 DEF DoneAt
  <2> QED
    BY <2>1, <2>2, <2>3 DEF DoneAt, Listed
<1>7. CASE RetryDeduct(c)
  <2>1. /\ cpu = Free /\ phase'[c] = "deducted" /\ \A t \in Tick : phase'[t] = phase[t]
        /\ UNCHANGED <<todo, camp, rec, torn>>
    BY <1>2, <1>7 DEF RetryDeduct, campVars, recVars
  <2>2. phase[c] = "idle"
    BY <1>1, <2>1, FreeIsSettled
  <2>3. retries'[c] > 0
    <3>1. retries'[c] = retries[c] + 1
      BY <1>1, <1>7 DEF RetryDeduct, TypeOK
    <3> QED
      BY <1>3, <3>1
  <2>4. OpenOf(c)' = OpenOf(c)
    BY <2>1 DEF OpenOf, In, ListOf
  <2>5. Served(c) => Served(c)'
    BY <2>3, <2>4 DEF Served
  <2>6. Listed(c)'
    BY <1>1, <2>1, <2>5 DEF DoneAt, Listed
  <2> QED
    BY <1>1, <2>1, <2>2, <2>3, <2>5, <2>6 DEF DoneAt
<1>8. CASE RetryReset(c)
  <2>1. /\ cpu = c /\ phase[c] = "deducted" /\ phase'[c] = "reset" /\ \A t \in Tick : phase'[t] = phase[t]
        /\ UNCHANGED <<todo, camp, retries, torn>>
    BY <1>2, <1>8 DEF RetryReset, Runs, campVars, tickVars, counters
  <2>2. retries'[c] > 0
    BY <1>1, <2>1 DEF DoneAt
  <2>3. ASSUME NEW t \in Tick, c \in todo'[t], phase'[t] \in {"finalize", "hook"} PROVE Served(c)'
    <3>1. phase[t] = "hook"
      BY <1>1, <2>1, <2>3 DEF PhaseInv
    <3> QED
      BY <2>2, <3>1 DEF DoneInv, Served
  <2> QED
    BY <2>1, <2>2, <2>3 DEF DoneAt, Listed
<1>9. CASE RetryReopen(c)
  <2>1. /\ phase'[c] = "idle" /\ \A t \in Tick : phase'[t] = phase[t]
        /\ UNCHANGED <<todo, rec, retries>>
    BY <1>2, <1>9 DEF RetryReopen, Runs, recVars, counters
  <2>2. camp'[c] = "sending"
    BY <1>1, <1>9 DEF RetryReopen, TypeOK
  <2>3. OpenOf(c)' = OpenOf(c)
    BY <2>1 DEF OpenOf, In, ListOf
  <2>4. Listed(c)'
    BY <1>1, <2>1, <2>3 DEF DoneAt, Listed, Served
  <2> QED
    BY <2>1, <2>2, <2>4 DEF DoneAt
<1> QED
  BY <1>4, <1>5, <1>6, <1>7, <1>8, <1>9 DEF Handler

\* They leave the other campaigns alone.
LEMMA OthersDone ==
    ASSUME DoneInv, NEW c \in Campaign, NEW b \in Campaign, b # c,
           (\E free \in BOOLEAN : CreateReserve(c, free)) \/ RetryDeduct(c) \/ Handler(c)
    PROVE  DoneAt(b)'
<1>1. TypeOK /\ PhaseInv /\ DoneAt(b)
  BY DEF DoneInv, CountInv, RowInv, TypeInv
<1>2. UNCHANGED <<todo, torn>> /\ \E ph : Goto(c, ph)
  BY DEF CreateReserve, RetryDeduct, Handler, CreateInsertCampaign, CreateInsertRecipient,
         RetryReset, RetryReopen, tickVars
<1>3. \A p \in Tick \union Campaign : p # c => phase'[p] = phase[p]
  BY <1>1, <1>2 DEF Goto, PhaseInv
<1>4. camp'[b] = camp[b] /\ retries'[b] = retries[b]
  BY <1>1 DEF TypeOK, CreateReserve, RetryDeduct, Handler, CreateInsertCampaign, CreateInsertRecipient,
         RetryReset, RetryReopen, campVars, counters
<1>5. \A r \in ListOf(b) : rec'[r] = rec[r]
  <2>1. \A r \in ListOf(b) : r \in Recipient /\ \A st : r \notin In(c, st)
    BY DEF In, ListOf
  <2> QED
    BY <1>1, <2>1 DEF CreateReserve, RetryDeduct, Handler, CreateInsertCampaign,
         CreateInsertRecipient, RetryReset, RetryReopen, recVars, TypeOK
<1>6. \A t \in Tick : phase'[t] = phase[t]
  BY <1>3, BulkAssumption DEF BulkAssumption
<1> QED
  BY <1>1, <1>2, <1>3, <1>4, <1>5, <1>6, DoneKept

\* The steps of a tick.
LEMMA TickDone ==
    ASSUME DoneInv, NEW t \in Tick, StartTick(t) \/ TickStep(t) \/ HookDone(t), NEW c \in Campaign
    PROVE  DoneAt(c)'
<1>1. TypeOK /\ PhaseInv /\ DoneAt(c) /\ t \notin Campaign /\ Free \notin Tick
  BY BulkAssumption DEF DoneInv, CountInv, RowInv, TypeInv, BulkAssumption
<1>2. \A ph : Goto(t, ph) => /\ phase'[t] = ph /\ phase'[c] = phase[c]
                             /\ \A s \in Tick : s # t => phase'[s] = phase[s]
  BY <1>1 DEF Goto, PhaseInv
<1>3. CASE StartTick(t) \/ HookDone(t)
  <2>1. /\ UNCHANGED <<camp, rec, todo, retries, torn>>
        /\ Goto(t, "reconcile") \/ (phase[t] = "hook" /\ Goto(t, "finalize"))
    BY <1>3 DEF StartTick, HookDone, campVars, recVars, tickVars, counters
  <2>2. /\ phase'[c] = phase[c]
        /\ \A s \in Tick : phase'[s] \in {"finalize", "hook"} => phase[s] \in {"finalize", "hook"}
    BY <1>2, <2>1
  <2> QED
    BY <1>1, <2>1, <2>2, DoneKept
<1>4. ASSUME NEW r \in Recipient, ReconcileOne(t, r) PROVE DoneAt(c)'
  <2>1. /\ UNCHANGED <<camp, phase, todo, retries, torn>>
        /\ rec[r] = "queued" /\ rec' = [rec EXCEPT ![r] = AfterAttempt(r)]
    BY <1>4 DEF ReconcileOne, Resolved, tickVars, counters
  <2>2. \A q \in ListOf(c) : rec'[q] = rec[q] \/ rec[q] \in {"pending", "queued"}
    BY <1>1, <2>1 DEF TypeOK, ListOf
  <2> QED
    BY <1>1, <2>1, <2>2, DoneKept
<1>5. CASE StartFinalize(t)
  <2>1. /\ UNCHANGED <<camp, rec, retries, torn>> /\ Goto(t, "finalize") /\ cpu = t
        /\ todo' = [todo EXCEPT ![t] = Finalizable]
    BY <1>5 DEF StartFinalize, Runs, campVars, recVars, counters
  <2>2. phase[c] = "idle" /\ phase'[c] = "idle"
    BY <1>1, <1>2, <2>1 DEF PhaseInv
  <2>3. OpenOf(c)' = OpenOf(c)
    BY <2>1 DEF OpenOf, In, ListOf
  <2>4. Listed(c)'
    <3> SUFFICES ASSUME NEW s \in Tick, c \in todo'[s], phase'[s] \in {"finalize", "hook"}
                 PROVE  Served(c)'
      BY <2>2 DEF Listed
    <3>1. CASE s = t
      <4>1. c \in Finalizable
        BY <1>1, <2>1, <3>1 DEF TypeOK
      <4> QED
        BY <2>3, <4>1 DEF Finalizable, Served
    <3>2. CASE s # t
      <4>1. c \in todo[s] /\ phase[s] \in {"finalize", "hook"}
        BY <1>1, <1>2, <2>1, <3>2 DEF TypeOK
      <4> QED
        BY <1>1, <2>1, <2>3, <4>1 DEF DoneAt, Listed, Served
    <3> QED
      BY <3>1, <3>2
  <2> QED
    BY <1>1, <2>1, <2>2, <2>3, <2>4 DEF DoneAt, Served
<1>6. ASSUME NEW b \in Campaign, FinalizeOne(t, b) PROVE DoneAt(c)'
  <2>1. /\ UNCHANGED <<rec, retries, torn>> /\ cpu = t /\ phase[t] = "finalize" /\ b \in todo[t]
        /\ \E ph : Goto(t, ph)
        /\ camp' = [camp EXCEPT ![b] = IF camp[b] = "sending" THEN "completed" ELSE camp[b]]
        /\ todo' = [todo EXCEPT ![t] = todo[t] \ {b}]
    BY <1>6 DEF FinalizeOne, Runs, recVars, counters
  <2>2. phase[c] = "idle" /\ phase'[c] = "idle"
    BY <1>1, <1>2, <2>1 DEF PhaseInv
  <2>3. \A s \in Tick : c \in todo'[s] =>
           c \in todo[s] /\ (phase'[s] \in {"finalize", "hook"} => phase[s] \in {"finalize", "hook"})
    BY <1>1, <1>2, <2>1 DEF TypeOK
  <2>4. CASE b # c
    <3>1. camp'[c] = camp[c]
      BY <1>1, <2>1, <2>4 DEF TypeOK
    <3> QED
      BY <1>1, <2>1, <2>2, <2>3, <3>1, DoneKept
  <2>5. CASE b = c
    <3>1. OpenOf(c)' = OpenOf(c)
      BY <2>1 DEF OpenOf, In, ListOf
    <3>2. Served(c) /\ Served(c)'
      BY <1>1, <2>1, <2>5, <3>1 DEF DoneAt, Listed, Served
    <3> QED
      BY <2>2, <3>2 DEF DoneAt, Listed
  <2> QED
    BY <2>4, <2>5
<1>7. CASE StartEnqueue(t)
  <2> DEFINE active == {b \in Campaign : camp[b] \in {"queued", "sending"}}
  <2>1. /\ UNCHANGED <<camp, rec, retries, torn>> /\ cpu = t
        /\ Goto(t, "idle") \/ Goto(t, "enqueue")
        /\ UNCHANGED todo \/ todo' = [todo EXCEPT ![t] = active]
    BY <1>7 DEF StartEnqueue, Runs, campVars, recVars, counters
  <2> HIDE DEF active
  <2>2. phase[c] = "idle" /\ phase'[c] = "idle"
    BY <1>1, <1>2, <2>1 DEF PhaseInv
  <2>3. OpenOf(c)' = OpenOf(c)
    BY <2>1 DEF OpenOf, In, ListOf
  <2>4. \A s \in Tick : phase'[s] \in {"finalize", "hook"} =>
           phase[s] \in {"finalize", "hook"} /\ todo'[s] = todo[s]
    BY <1>1, <1>2, <2>1 DEF TypeOK
  <2>5. Served(c)' <=> Served(c)
    BY <2>1, <2>3 DEF Served
  <2>6. Listed(c)'
    BY <1>1, <2>2, <2>4, <2>5 DEF DoneAt, Listed
  <2> QED
    BY <1>1, <2>1, <2>2, <2>5, <2>6 DEF DoneAt
<1>8. ASSUME NEW b \in Campaign, EnqueueOne(t, b) PROVE DoneAt(c)'
  <2> DEFINE batch == FirstPending(b, Min({budget[t].share, budget[t].left}))
  <2>1. /\ UNCHANGED <<retries, torn>> /\ cpu = t
        /\ Goto(t, "idle") \/ Goto(t, "enqueue")
        /\ camp' = [camp EXCEPT ![b] = "sending"]
        /\ todo' = [todo EXCEPT ![t] = {}] \/ todo' = [todo EXCEPT ![t] = todo[t] \ {b}]
        /\ rec' = [r \in Recipient |-> IF r \in batch THEN "queued" ELSE rec[r]]
    BY <1>8 DEF EnqueueOne, Runs, counters
  <2>2. phase[c] = "idle" /\ phase'[c] = "idle"
    BY <1>1, <1>2, <2>1 DEF PhaseInv
  <2>3. \A r \in batch : rec[r] = "pending"
    BY DEF FirstPending, In
  <2> HIDE DEF batch
  <2>4. \A r \in ListOf(c) : rec'[r] = rec[r] \/ rec[r] \in {"pending", "queued"}
    BY <2>1, <2>3 DEF ListOf
  <2>5. \A s \in Tick : c \in todo'[s] =>
           c \in todo[s] /\ (phase'[s] \in {"finalize", "hook"} => phase[s] \in {"finalize", "hook"})
    BY <1>1, <1>2, <2>1 DEF TypeOK
  <2>6. camp'[c] = camp[c] \/ camp'[c] = "sending"
    BY <1>1, <2>1 DEF TypeOK
  <2> QED
    BY <1>1, <2>1, <2>2, <2>4, <2>5, <2>6, DoneKept
<1> QED
  BY <1>3, <1>4, <1>5, <1>6, <1>7, <1>8 DEF TickStep

LEMMA DoneStep == DoneInv /\ [Next]_vars => DoneInv'
<1> SUFFICES ASSUME DoneInv, [Next]_vars, NEW c \in Campaign PROVE DoneAt(c)'
  BY HookStep, CountStep DEF DoneInv
<1>1. TypeOK /\ PhaseInv /\ DoneAt(c)
  BY DEF DoneInv, CountInv, RowInv, TypeInv
<1>2. ASSUME NEW b \in Campaign, NEW free \in BOOLEAN,
             CreateReserve(b, free) \/ RetryDeduct(b) \/ Handler(b)
      PROVE  DoneAt(c)'
  BY <1>2, HandlerDone, OthersDone
<1>3. ASSUME NEW b \in Campaign, Pause(b) \/ Resume(b) \/ Cancel(b) PROVE DoneAt(c)'
  <2>1. cpu = Free /\ UNCHANGED <<phase, todo, retries, torn>>
    BY <1>3 DEF Pause, Resume, SetStatus, Cancel, tickVars, counters
  <2>2. phase[c] = "idle"
    BY <1>1, <2>1, FreeIsSettled
  <2>3. camp'[c] = camp[c] \/ camp'[c] # "completed"
    BY <1>1, <1>3 DEF Pause, Resume, SetStatus, Cancel, TypeOK
  <2>4. \A r \in ListOf(c) : rec'[r] = rec[r] \/ rec'[r] = "cancelled"
    BY <1>3 DEF Pause, Resume, SetStatus, Cancel, recVars, ListOf
  <2> QED
    BY <1>1, <2>1, <2>2, <2>3, <2>4, DoneKept
<1>4. ASSUME NEW t \in Tick, StartTick(t) \/ TickStep(t) \/ HookDone(t) PROVE DoneAt(c)'
  BY <1>4, TickDone
<1>5. CASE Crash
  <2>1. /\ UNCHANGED <<camp, rec, retries>> /\ phase'[c] = "idle"
        /\ \A t \in Tick : c \notin todo'[t]
        /\ ~torn' => ~torn /\ phase[c] = "idle"
    BY <1>1, <1>5 DEF Crash, campVars, recVars
  <2>2. Served(c)' <=> Served(c)
    BY <2>1 DEF Served, OpenOf, In, ListOf
  <2> QED
    BY <1>1, <2>1, <2>2 DEF DoneAt, Listed
<1>6. CASE \/ \E n \in 1..MaxBought : Buy(n)
           \/ \E x \in Row, outcome \in {"sent", "failed"} : Resolve(x, outcome)
           \/ \E p \in Phone : CooldownEnds(p)
           \/ UNCHANGED vars
  <2>1. UNCHANGED <<camp, rec, phase, todo, retries, torn>>
    BY <1>6 DEF Buy, Resolve, CooldownEnds, vars, campVars, recVars, tickVars, counters
  <2> QED
    BY <1>1, <2>1, DoneKept
<1> QED
  BY <1>2, <1>3, <1>4, <1>5, <1>6 DEF Next

\* Unless a create or a retry was torn, a completed campaign has nobody left to serve; the
\* one exception is a campaign retried while a tick that had it on its list awaited the
\* webhook of another one.
THEOREM CompletedIsServed == Spec => []CompletedIsDone
<1>1. Init => DoneInv
  <2> SUFFICES ASSUME Init PROVE DoneInv
    OBVIOUS
  <2>1. CountInv
    <3>1. Known /\ \A c \in Campaign : Counts(c)
      BY DEF Init, Known, Counts, ListOf
    <3> QED
      BY <3>1, RowsInit DEF CountInv
  <2>2. \A p \in Tick \union Campaign : phase[p] = "idle"
    BY DEF Init
  <2>3. \A c \in Campaign : DoneAt(c)
    BY <2>2 DEF Init, DoneAt, Listed
  <2> QED
    BY <2>1, <2>2, <2>3 DEF DoneInv
<1>2. DoneInv => CompletedIsDone
  <2> SUFFICES ASSUME DoneInv, cpu = Free, ~torn, NEW c \in Campaign, camp[c] = "completed"
               PROVE  OpenOf(c) = {} \/ (Hook /\ retries[c] > 0)
    BY DEF CompletedIsDone
  <2>1. PhaseInv /\ DoneAt(c)
    BY DEF DoneInv, CountInv, RowInv, TypeInv
  <2>2. phase[c] = "idle"
    BY <2>1, FreeIsSettled
  <2> QED
    BY <2>1, <2>2 DEF DoneAt, Served
<1> QED
  BY <1>1, <1>2, DoneStep, PTL DEF Spec
=============================================================================
