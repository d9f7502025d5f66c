--------------------------- MODULE AlertingProofs ---------------------------
(***************************************************************************)
(* Proofs about the alerting side of the server for every set of threads,  *)
(* devices and apps, and every threshold, number of attempts and damping.  *)
(***************************************************************************)
EXTENDS Alerting, SequenceTheorems, TLAPS

\* No property of these needs the receipts and windows: what moves neither the sinks nor
\* the dispatches keeps all that is said of them.

-----------------------------------------------------------------------------
(* The sinks. *)

\* The health of one sink, in memory and in job_state.
Marked(k) ==
    /\ degraded[k] <=> fails[k] = Threshold
    /\ saved[k].degraded <=> saved[k].fails = Threshold

SinksInv == SinksTypeOK /\ \A k \in Sink : Marked(k)

LEMMA RouteTyped == \A kind : Route(kind) \in Seq(Sink)
<1> TAKE kind
<1> DEFINE first == IF kind # "canary" /\ "telegram" \in Configured THEN <<"telegram">> ELSE <<>>
           second == IF "webhook" \in Configured THEN <<"webhook">> ELSE <<>>
<1>1. first \in Seq(Sink) /\ second \in Seq(Sink)
  <2>1. <<"telegram">> \in Seq(Sink) /\ <<"webhook">> \in Seq(Sink)
    BY DEF Sink
  <2>2. <<>> \in Seq(Sink)
    OBVIOUS
  <2> QED
    BY <2>1, <2>2
<1>2. Route(kind) = first \o second
  BY DEF Route
<1> HIDE DEF first, second
<1> QED
  BY <1>1, <1>2, ConcatProperties

\* The canary's route goes to the webhook alone.
LEMMA CanaryRoute == \A i \in DOMAIN Route("canary") : Route("canary")[i] # "telegram"
BY DEF Route

\* Every outcome, reported by whichever thread, moves the mark with the count.
LEMMA OutcomeMarks ==
    ASSUME SinksInv, NEW k \in Sink, NEW ok \in BOOLEAN, NEW db \in BOOLEAN, RecordOutcome(k, ok, db)
    PROVE  /\ fails' \in [Sink -> 0..Threshold] /\ degraded' \in [Sink -> BOOLEAN] /\ saved' \in [Sink -> Health]
           /\ \A j \in Sink : Marked(j)'
<1>1. /\ fails \in [Sink -> 0..Threshold] /\ degraded \in [Sink -> BOOLEAN] /\ saved \in [Sink -> Health]
      /\ Threshold \in Nat \ {0}
  BY SinkAssumption DEF SinksInv, SinksTypeOK
<1>2. /\ fails' = [fails EXCEPT ![k] = FailsAfter(k, ok)]
      /\ degraded' = [degraded EXCEPT ![k] = DegradedAfter(k, ok)]
      /\ saved' = IF Turns(k, ok) /\ db
                  THEN [j \in Sink |-> [fails |-> fails'[j], degraded |-> degraded'[j]]]
                  ELSE saved
  BY DEF RecordOutcome
<1>3. FailsAfter(k, ok) \in 0..Threshold /\ DegradedAfter(k, ok) \in BOOLEAN
  BY <1>1 DEF FailsAfter, DegradedAfter
<1>4. fails' \in [Sink -> 0..Threshold] /\ degraded' \in [Sink -> BOOLEAN]
  BY <1>1, <1>2, <1>3
<1>5. ASSUME NEW j \in Sink  PROVE degraded'[j] <=> fails'[j] = Threshold
  <2>0. degraded[j] <=> fails[j] = Threshold
    BY DEF SinksInv, Marked
  <2>1. CASE j # k
    BY <1>1, <1>2, <2>0, <2>1
  <2>2. CASE j = k
    <3>1. fails'[k] = FailsAfter(k, ok) /\ degraded'[k] = DegradedAfter(k, ok)
      BY <1>1, <1>2
    <3>2. fails[k] \in 0..Threshold
      BY <1>1
    <3>3. CASE ok
      <4>1. FailsAfter(k, ok) = 0 /\ ~DegradedAfter(k, ok)
        BY <3>3 DEF FailsAfter, DegradedAfter
      <4> QED
        BY <1>1, <2>2, <3>1, <4>1
    <3>4. CASE ~ok
      <4>1. FailsAfter(k, ok) = Threshold <=> fails[k] = Threshold \/ fails[k] + 1 = Threshold
        BY <1>1, <3>2, <3>4 DEF FailsAfter
      <4>2. DegradedAfter(k, ok) <=> degraded[k] \/ fails[k] + 1 = Threshold
        BY <3>4 DEF DegradedAfter
      <4> QED
        BY <2>0, <2>2, <3>1, <4>1, <4>2
    <3> QED
      BY <3>3, <3>4
  <2> QED
    BY <2>1, <2>2
<1>6. saved' \in [Sink -> Health]
  BY <1>1, <1>2, <1>4 DEF Health
<1>7. ASSUME NEW j \in Sink  PROVE saved'[j].degraded <=> saved'[j].fails = Threshold
  <2>1. CASE saved' = saved
    BY <2>1 DEF SinksInv, Marked
  <2>2. CASE saved' = [i \in Sink |-> [fails |-> fails'[i], degraded |-> degraded'[i]]]
    <3>1. saved'[j].fails = fails'[j] /\ saved'[j].degraded = degraded'[j]
      BY <2>2
    <3> QED
      BY <3>1, <1>5
  <2> QED
    BY <1>2, <2>1, <2>2
<1> QED
  BY <1>4, <1>5, <1>6, <1>7 DEF Marked

LEMMA SendKeeps ==
    ASSUME SinksInv, NEW t \in Thread, NEW kind, Send(t, kind)
    PROVE  SinksInv'
<1>1. call' \in [Thread -> Seq(Sink)]
  BY RouteTyped DEF Send, SinksInv, SinksTypeOK
<1> QED
  BY <1>1 DEF Send, SinksInv, SinksTypeOK, Marked

LEMMA AnsweredKeeps ==
    ASSUME SinksInv, NEW t \in Thread, NEW ok \in BOOLEAN, NEW db \in BOOLEAN, Answered(t, ok, db)
    PROVE  SinksInv'
<1>1. call[t] \in Seq(Sink) /\ call[t] # <<>>
  BY DEF Answered, SinksInv, SinksTypeOK
<1>2. Head(call[t]) \in Sink /\ Tail(call[t]) \in Seq(Sink)
  BY <1>1
<1>3. call' \in [Thread -> Seq(Sink)]
  BY <1>2 DEF Answered, SinksInv, SinksTypeOK
<1>4. RecordOutcome(Head(call[t]), ok, db) /\ up' = up
  BY DEF Answered
<1>5. /\ fails' \in [Sink -> 0..Threshold] /\ degraded' \in [Sink -> BOOLEAN] /\ saved' \in [Sink -> Health]
      /\ \A j \in Sink : Marked(j)'
  BY <1>2, <1>4, OutcomeMarks
<1> QED
  BY <1>3, <1>4, <1>5 DEF SinksInv, SinksTypeOK

\* A step that touches no sink keeps the invariant.
LEMMA SinksStay ==
    ASSUME SinksInv, UNCHANGED sinkVars
    PROVE  SinksInv'
BY DEF SinksInv, SinksTypeOK, Marked, sinkVars

LEMMA SinksStep ==
    ASSUME SinksInv, [Next]_vars
    PROVE  SinksInv'
<1>1. CASE UNCHANGED vars
  BY <1>1, SinksStay DEF vars
<1>2. CASE Restart
  <2>1. /\ call' = [t \in Thread |-> <<>>] /\ fails' = [k \in Sink |-> saved[k].fails]
        /\ degraded' = [k \in Sink |-> saved[k].degraded] /\ up' = up /\ saved' = saved
    BY <1>2 DEF Restart, SinksRestart
  <2>2. \A k \in Sink : saved[k].fails \in 0..Threshold /\ saved[k].degraded \in BOOLEAN
    BY DEF SinksInv, SinksTypeOK, Health
  <2>3. SinksTypeOK'
    BY <2>1, <2>2 DEF SinksInv, SinksTypeOK
  <2>4. ASSUME NEW k \in Sink  PROVE Marked(k)'
    <3>1. saved[k].degraded <=> saved[k].fails = Threshold
      BY DEF SinksInv, Marked
    <3> QED
      BY <2>1, <3>1 DEF Marked
  <2> QED
    BY <2>3, <2>4 DEF SinksInv
<1>3. CASE WatchdogStep
  <2>1. ASSUME NEW t \in Ticker, WatchdogTick(t)  PROVE SinksInv'
    <3>1. t \in Thread
      BY WatchdogAssumption
    <3>2. UNCHANGED sinkVars \/ Send(t, "stale")
      BY <2>1 DEF WatchdogTick, AllWell, NothingNew, Announce
    <3> QED
      BY <3>1, <3>2, SinksStay, SendKeeps
  <2>2. ASSUME NEW t \in Ticker, Announced(t)  PROVE SinksInv'
    <3>1. t \in Thread
      BY WatchdogAssumption
    <3>2. \E ok \in BOOLEAN : Answered(t, ok, TRUE)
      BY <2>2 DEF Announced
    <3> QED
      BY <3>1, <3>2, AnsweredKeeps
  <2>3. ASSUME CanaryTick  PROVE SinksInv'
    <3>1. <<"telegram">> \in Seq(Sink) /\ call' = [call EXCEPT ![Canary] = <<"telegram">>]
      BY <2>3 DEF CanaryTick, Sink
    <3>2. call' \in [Thread -> Seq(Sink)]
      BY <3>1 DEF SinksInv, SinksTypeOK
    <3> QED
      BY <2>3, <3>2 DEF CanaryTick, SinksInv, SinksTypeOK, Marked
  <2>4. ASSUME CanaryProbed  PROVE SinksInv'
    <3>1. PICK ok \in BOOLEAN :
             /\ Feed(ok)
             /\ call' = [call EXCEPT ![Canary] = IF ~ok /\ misses' = Threshold THEN Route("canary") ELSE <<>>]
      BY <2>4 DEF CanaryProbed
    <3>2. call' \in [Thread -> Seq(Sink)]
      <4>1. call \in [Thread -> Seq(Sink)]
        BY DEF SinksInv, SinksTypeOK
      <4>2. <<>> \in Seq(Sink) /\ Route("canary") \in Seq(Sink)
        BY RouteTyped
      <4>3. (IF ~ok /\ misses' = Threshold THEN Route("canary") ELSE <<>>) \in Seq(Sink)
        BY <4>2
      <4> QED
        BY <3>1, <4>1, <4>3
    <3>3. "telegram" \in Sink /\ RecordOutcome("telegram", ok, TRUE) /\ up' = up
      BY <2>4, <3>1 DEF CanaryProbed, Feed, Sink
    <3>4. /\ fails' \in [Sink -> 0..Threshold] /\ degraded' \in [Sink -> BOOLEAN] /\ saved' \in [Sink -> Health]
          /\ \A j \in Sink : Marked(j)'
      BY <3>3, OutcomeMarks
    <3> QED
      BY <3>2, <3>3, <3>4 DEF SinksInv, SinksTypeOK
  <2>5. ASSUME CanaryEscalated  PROVE SinksInv'
    BY <2>5, AnsweredKeeps, WatchdogAssumption DEF CanaryEscalated
  <2>6. ASSUME NEW k \in Sink, SinkFlips(k)  PROVE SinksInv'
    <3>1. up' \in [Sink -> BOOLEAN]
      BY <2>6 DEF SinkFlips, Flip, SinksInv, SinksTypeOK
    <3> QED
      BY <2>6, <3>1 DEF SinkFlips, Flip, SinksInv, SinksTypeOK, Marked
  <2>7. ASSUME \/ \E d \in Device : Enroll(d) \/ Heartbeat(d) \/ Age(d) \/ Revoke(d) \/ Unquarantine(d)
               \/ Elapse \/ ReceiptAges
        PROVE  SinksInv'
    <3>1. UNCHANGED sinkVars
      BY <2>7 DEF Enroll, Heartbeat, Age, Revoke, Unquarantine, Elapse, ReceiptAges
    <3> QED
      BY <3>1, SinksStay
  <2> QED
    BY <1>3, <2>1, <2>2, <2>3, <2>4, <2>5, <2>6, <2>7 DEF WatchdogStep
<1>4. CASE WebhooksStep
  <2>1. ASSUME NEW w \in Slot, Exhausted(w)  PROVE SinksInv'
    <3>1. w \in Thread
      BY WebhooksAssumption
    <3>2. UNCHANGED sinkVars \/ Send(w, "exhausted")
      BY <2>1 DEF Exhausted
    <3> QED
      BY <3>1, <3>2, SinksStay, SendKeeps
  <2>2. ASSUME NEW w \in Slot, AlertOver(w)  PROVE SinksInv'
    <3>1. w \in Thread
      BY WebhooksAssumption
    <3>2. \E ok \in BOOLEAN : Answered(w, ok, FALSE)
      BY <2>2 DEF AlertOver
    <3> QED
      BY <3>1, <3>2, AnsweredKeeps
  <2>3. ASSUME \/ \E w \in Slot : \/ \E a \in App : Dispatch(w, a)
                                  \/ Delivered(w) \/ Failed(w) \/ Retry(w) \/ CutOff(w)
               \/ \E a \in App : WindowPasses(a) \/ ReceiverFlips(a)
        PROVE  SinksInv'
    <3>1. UNCHANGED sinkVars
      BY <2>3 DEF Dispatch, Delivered, Failed, Retry, CutOff, WindowPasses, ReceiverFlips
    <3> QED
      BY <3>1, SinksStay
  <2> QED
    BY <1>4, <2>1, <2>2, <2>3 DEF WebhooksStep
<1> QED
  BY <1>1, <1>2, <1>3, <1>4 DEF Next

-----------------------------------------------------------------------------
(* The canary's own alerts. *)

CanaryInv == SinksInv /\ CanaryAvoidsTelegram

\* An alert of another thread leaves the canary's alone.
LEMMA OthersCall ==
    ASSUME SinksTypeOK, NEW t \in Thread, t # Canary,
           UNCHANGED call \/ (\E kind : Send(t, kind)) \/ (\E ok, db \in BOOLEAN : Answered(t, ok, db))
    PROVE  call'[Canary] = call[Canary]
BY WatchdogAssumption DEF SinksTypeOK, Send, Answered

\* No call of the canary's lists Telegram when Telegram is what failed.
LEMMA CanaryStep ==
    ASSUME CanaryInv, [Next]_vars
    PROVE  CanaryInv'
<1>0. SinksInv /\ SinksInv' /\ SinksTypeOK /\ Canary \in Thread /\ Ticker \subseteq Thread /\ Slot \subseteq Thread
  BY SinksStep, WatchdogAssumption, WebhooksAssumption DEF CanaryInv, SinksInv
<1> SUFFICES CanaryAvoidsTelegram'
  BY <1>0 DEF CanaryInv
<1>1. ASSUME call'[Canary] = call[Canary], probing' = probing  PROVE CanaryAvoidsTelegram'
  BY <1>1 DEF CanaryInv, CanaryAvoidsTelegram
<1>2. CASE UNCHANGED vars
  BY <1>1, <1>2 DEF vars, sinkVars, dogVars, canaryVars
<1>3. CASE Restart
  <2>1. call'[Canary] = <<>>
    BY <1>0, <1>3 DEF Restart, SinksRestart
  <2> QED
    BY <2>1 DEF CanaryAvoidsTelegram
<1>4. CASE WatchdogStep
  <2>1. ASSUME NEW t \in Ticker, WatchdogTick(t) \/ Announced(t)  PROVE CanaryAvoidsTelegram'
    <3>1. t # Canary /\ t \in Thread
      BY WatchdogAssumption
    <3>2. probing' = probing
      BY <2>1 DEF WatchdogTick, AllWell, NothingNew, Announce, Announced, Begin, canaryVars
    <3>3. UNCHANGED call \/ (\E kind : Send(t, kind)) \/ (\E ok, db \in BOOLEAN : Answered(t, ok, db))
      BY <2>1 DEF WatchdogTick, AllWell, NothingNew, Announce, Announced, sinkVars
    <3> QED
      BY <1>0, <1>1, <3>1, <3>2, <3>3, OthersCall
  <2>2. ASSUME CanaryTick  PROVE CanaryAvoidsTelegram'
    BY <2>2 DEF CanaryTick, CanaryAvoidsTelegram
  <2>3. ASSUME CanaryProbed  PROVE CanaryAvoidsTelegram'
    <3>1. call'[Canary] \in {Route("canary"), <<>>}
      BY <1>0, <2>3 DEF CanaryProbed, SinksTypeOK
    <3> QED
      BY <3>1, CanaryRoute DEF CanaryAvoidsTelegram
  <2>4. ASSUME CanaryEscalated  PROVE CanaryAvoidsTelegram'
    <3>1. ~probing /\ call[Canary] # <<>> /\ call[Canary] \in Seq(Sink)
      BY <1>0, <2>4 DEF CanaryEscalated, Answered, SinksTypeOK
    <3>2. call'[Canary] \in {<<>>, Tail(call[Canary])}
      BY <1>0, <2>4 DEF CanaryEscalated, Answered, SinksTypeOK
    <3>3. \A i \in DOMAIN call[Canary] : call[Canary][i] # "telegram"
      BY <3>1 DEF CanaryInv, CanaryAvoidsTelegram
    <3>4. \A i \in DOMAIN Tail(call[Canary]) : Tail(call[Canary])[i] # "telegram"
      <4> DEFINE s == call[Canary]
      <4> HIDE DEF s
      <4>1. s \in Seq(Sink) /\ s # <<>> /\ \A i \in DOMAIN s : s[i] # "telegram"
        BY <3>1, <3>3 DEF s
      <4>2. Len(s) \in Nat \ {0} /\ DOMAIN s = 1..Len(s)
        BY <4>1, EmptySeq, LenProperties
      <4>3. Tail(s) \in Seq(Sink) /\ Len(Tail(s)) = Len(s) - 1 /\ \A i \in 1..Len(Tail(s)) : Tail(s)[i] = s[i + 1]
        BY <4>1, HeadTailProperties
      <4>4. DOMAIN Tail(s) = 1..Len(Tail(s))
        BY <4>3, LenProperties
      <4>5. \A i \in 1..Len(Tail(s)) : i + 1 \in 1..Len(s)
        BY <4>2, <4>3
      <4> QED
        BY <4>1, <4>2, <4>3, <4>4, <4>5 DEF s
    <3>5. \A i \in DOMAIN <<>> : FALSE
      OBVIOUS
    <3>6. \A i \in DOMAIN call'[Canary] : call'[Canary][i] # "telegram"
      BY <3>2, <3>4, <3>5
    <3> QED
      BY <3>6 DEF CanaryAvoidsTelegram
  <2>5. ASSUME \/ \E d \in Device : Enroll(d) \/ Heartbeat(d) \/ Age(d) \/ Revoke(d) \/ Unquarantine(d)
               \/ Elapse \/ ReceiptAges \/ \E k \in Sink : SinkFlips(k)
        PROVE  CanaryAvoidsTelegram'
    <3>1. call' = call /\ probing' = probing
      BY <2>5 DEF Enroll, Heartbeat, Age, Revoke, Unquarantine, Elapse, ReceiptAges, SinkFlips, Flip, sinkVars,
                  dogVars, canaryVars
    <3> QED
      BY <3>1, <1>1
  <2> QED
    BY <1>4, <2>1, <2>2, <2>3, <2>4, <2>5 DEF WatchdogStep
<1>5. CASE WebhooksStep /\ UNCHANGED dogVars
  <2>1. probing' = probing
    BY <1>5 DEF dogVars, canaryVars
  <2>2. ASSUME NEW w \in Slot, Exhausted(w) \/ AlertOver(w)  PROVE CanaryAvoidsTelegram'
    <3>1. w # Canary /\ w \in Thread
      BY AlertingAssumption, WebhooksAssumption
    <3>2. UNCHANGED call \/ (\E kind : Send(w, kind)) \/ (\E ok, db \in BOOLEAN : Answered(w, ok, db))
      BY <2>2 DEF Exhausted, AlertOver, sinkVars
    <3> QED
      BY <1>0, <1>1, <2>1, <3>1, <3>2, OthersCall
  <2>3. ASSUME \/ \E w \in Slot : \/ \E a \in App : Dispatch(w, a)
                                  \/ Delivered(w) \/ Failed(w) \/ Retry(w) \/ CutOff(w)
               \/ \E a \in App : WindowPasses(a) \/ ReceiverFlips(a)
        PROVE  CanaryAvoidsTelegram'
    <3>1. UNCHANGED call
      BY <2>3 DEF Dispatch, Delivered, Failed, Retry, CutOff, WindowPasses, ReceiverFlips, sinkVars
    <3> QED
      BY <3>1, <2>1, <1>1
  <2> QED
    BY <1>5, <2>2, <2>3 DEF WebhooksStep
<1> QED
  BY <1>2, <1>3, <1>4, <1>5 DEF Next

LEMMA CanaryStarts == Init => CanaryInv
<1> SUFFICES ASSUME Init  PROVE CanaryInv
  OBVIOUS
<1>1. Threshold \in Nat \ {0} /\ Canary \in Thread
  BY SinkAssumption, WatchdogAssumption
<1>2. SinksTypeOK
  <2>1. 0 \in 0..Threshold /\ Healthy \in Health /\ <<>> \in Seq(Sink)
    BY <1>1 DEF Healthy, Health
  <2> QED
    BY <2>1 DEF Init, SinksInit, SinksTypeOK
<1>3. \A k \in Sink : Marked(k)
  BY <1>1 DEF Init, SinksInit, Healthy, Marked
<1>4. call[Canary] = <<>>
  BY <1>1 DEF Init, SinksInit
<1> QED
  BY <1>2, <1>3, <1>4 DEF CanaryInv, SinksInv, CanaryAvoidsTelegram

\* A sink is marked exactly while its last Threshold outcomes were failures, whichever
\* threads reported them, across restarts too; and the canary never complains of Telegram
\* to Telegram (recordSinkOutcome, dispatchAlert and the canary of jobs.ts).
THEOREM SinksStayTrue == Spec => []SinksAreTrue
<1>1. CanaryInv /\ [Next]_vars => CanaryInv'
  BY CanaryStep
<1>2. CanaryInv => SinksAreTrue
  BY DEF CanaryInv, SinksInv, Marked, SinksAreTrue, DegradedIffFails
<1> QED
  BY <1>1, <1>2, CanaryStarts, PTL DEF Spec

-----------------------------------------------------------------------------
(* The audit rows. *)

Status == {"pending", "delivered", "failed"}

\* What the rows of one slot tell.
Tells(w) ==
    /\ \A i \in DOMAIN rows[w] : rows[w][i] # "failed" => i = Len(rows[w])
    /\ Ended(w) => \/ Last(rows[w]) = "delivered"
                   \/ Len(rows[w]) = Attempts /\ Last(rows[w]) = "failed"
    /\ at[w] \in {"posting", "hung"} => Gone(w)
    /\ Gone(w) => at[w] \in {"posting", "hung", "killed"}

\* Between two attempts the last has failed, and one is left.
Waits(w) == at[w] = "sleeping" => rows[w] # <<>> /\ Last(rows[w]) = "failed" /\ Len(rows[w]) < Attempts

HookInv == WebhooksTypeOK /\ \A w \in Slot : Tells(w) /\ Waits(w)

\* The last row takes its outcome.
Closed(s, e) == Append(Front(s), e)

\* Closing the last element of a sequence changes nothing before it.
LEMMA LastSet ==
    ASSUME NEW s \in Seq(Status), s # <<>>, NEW e \in Status, NEW t, t = Closed(s, e)
    PROVE  /\ t \in Seq(Status) /\ t # <<>> /\ Len(t) = Len(s) /\ Last(t) = e
           /\ \A i \in DOMAIN t : i # Len(t) => i \in DOMAIN s /\ i # Len(s) /\ t[i] = s[i]
<1>1. Len(s) \in Nat \ {0} /\ DOMAIN s = 1..Len(s)
  BY EmptySeq, LenProperties
<1>2. /\ Front(s) \in Seq(Status) /\ Len(Front(s)) = Len(s) - 1
      /\ \A i \in 1..(Len(s) - 1) : Front(s)[i] = s[i]
  BY <1>1 DEF Front
<1>3. /\ t \in Seq(Status) /\ Len(t) = Len(s) /\ t[Len(s)] = e
      /\ \A i \in 1..(Len(s) - 1) : t[i] = s[i]
  <2> DEFINE f == Front(s)
  <2> HIDE DEF f
  <2>1. f \in Seq(Status) /\ Len(f) = Len(s) - 1 /\ t = Append(f, e)
    BY <1>2 DEF f, Closed
  <2>2. /\ t \in Seq(Status) /\ Len(t) = Len(f) + 1 /\ t[Len(f) + 1] = e
        /\ \A i \in 1..Len(f) : t[i] = f[i]
    BY <2>1, AppendProperties
  <2>3. \A i \in 1..(Len(s) - 1) : f[i] = s[i]
    BY <1>2 DEF f
  <2> QED
    BY <1>1, <2>1, <2>2, <2>3
<1>4. DOMAIN t = 1..Len(s) /\ t # <<>>
  BY <1>1, <1>3, LenProperties, EmptySeq
<1>5. \A i \in 1..Len(s) : i # Len(s) => i \in 1..(Len(s) - 1)
  <2>1. \A n \in Nat \ {0} : \A i \in 1..n : i # n => i \in 1..(n - 1)
    OBVIOUS
  <2> QED
    BY <1>1, <2>1
<1>6. Last(t) = e
  BY <1>3 DEF Last
<1>7. \A i \in DOMAIN t : i # Len(t) => i \in DOMAIN s /\ i # Len(s) /\ t[i] = s[i]
  <2> SUFFICES ASSUME NEW i \in DOMAIN t, i # Len(t)
               PROVE  i \in DOMAIN s /\ i # Len(s) /\ t[i] = s[i]
    OBVIOUS
  <2>1. i \in 1..Len(s) /\ i # Len(s)
    BY <1>3, <1>4
  <2> QED
    BY <1>1, <1>3, <1>5, <2>1
<1> QED
  BY <1>3, <1>4, <1>6, <1>7

\* A slot that does nothing keeps what it tells.
LEMMA TellsOn ==
    ASSUME NEW w, Tells(w) /\ Waits(w), rows'[w] = rows[w], at'[w] = at[w]
    PROVE  Tells(w)' /\ Waits(w)'
BY DEF Tells, Waits, Ended, Gone

\* An attempt ends: with a success, or with a failure that leaves another attempt or none.
LEMMA AttemptEnds ==
    ASSUME HookInv, NEW w \in Slot, at[w] = "posting", NEW status \in {"delivered", "failed"}, Ends(w, status),
           NEW place, Goes(w, place), place \in {"over", "sleeping", "alerting"},
           status = "delivered" => place = "over",
           status = "failed" => IF place = "sleeping" THEN Len(rows[w]) < Attempts ELSE Len(rows[w]) = Attempts
    PROVE  /\ at' \in [Slot -> {"over", "posting", "hung", "sleeping", "alerting", "killed"}]
           /\ rows' \in [Slot -> Seq(Status)] /\ \A v \in Slot : Len(rows'[v]) <= Attempts
           /\ \A v \in Slot : Tells(v)' /\ Waits(v)'
<1>1. /\ rows \in [Slot -> Seq(Status)] /\ \A v \in Slot : Len(rows[v]) <= Attempts
      /\ at \in [Slot -> {"over", "posting", "hung", "sleeping", "alerting", "killed"}]
      /\ Tells(w) /\ \A v \in Slot : Tells(v) /\ Waits(v)
  BY DEF HookInv, WebhooksTypeOK, Status
<1>2. rows[w] # <<>> /\ Last(rows[w]) = "pending"
  BY <1>1 DEF Tells, Gone
<1>3. /\ at'[w] = place /\ \A v \in Slot \ {w} : at'[v] = at[v]
      /\ at' \in [Slot -> {"over", "posting", "hung", "sleeping", "alerting", "killed"}]
  BY <1>1 DEF Goes
<1>4. rows'[w] = Append(Front(rows[w]), status) /\ \A v \in Slot \ {w} : rows'[v] = rows[v]
  BY <1>1 DEF Ends
<1>5. status \in Status /\ rows[w] \in Seq(Status)
  BY <1>1 DEF Status
<1>s. PICK s, t : s = rows[w] /\ t = rows'[w]
  OBVIOUS
<1>6. /\ rows'[w] \in Seq(Status) /\ rows'[w] # <<>> /\ Len(rows'[w]) = Len(rows[w]) /\ Last(rows'[w]) = status
      /\ \A i \in DOMAIN rows'[w] :
            i # Len(rows'[w]) => i \in DOMAIN rows[w] /\ i # Len(rows[w]) /\ rows'[w][i] = rows[w][i]
  <2>1. /\ t \in Seq(Status) /\ t # <<>> /\ Len(t) = Len(s) /\ Last(t) = status
        /\ \A i \in DOMAIN t : i # Len(t) => i \in DOMAIN s /\ i # Len(s) /\ t[i] = s[i]
    <3>1. s \in Seq(Status) /\ s # <<>> /\ status \in Status
      BY <1>2, <1>5, <1>s
    <3>2. t = Closed(s, status)
      BY <1>4, <1>s DEF Closed
    <3> QED
      BY <3>1, <3>2, LastSet
  <2> QED
    BY <1>s, <2>1
<1>7. rows' \in [Slot -> Seq(Status)] /\ \A v \in Slot : Len(rows'[v]) <= Attempts
  <2>1. rows' = [rows EXCEPT ![w] = rows'[w]]
    BY <1>1, <1>4 DEF Ends
  <2> QED
    BY <1>1, <1>4, <1>6, <2>1
<1>8. Tells(w)' /\ Waits(w)'
  <2>1. \A i \in DOMAIN rows'[w] : rows'[w][i] # "failed" => i = Len(rows'[w])
    BY <1>1, <1>6 DEF Tells
  <2>2. status # "pending"
    OBVIOUS
  <2> QED
    BY <1>3, <1>6, <2>1, <2>2 DEF Tells, Waits, Ended, Gone
<1>9. \A v \in Slot \ {w} : Tells(v)' /\ Waits(v)'
  BY <1>1, <1>3, <1>4, TellsOn
<1> QED
  BY <1>3, <1>7, <1>8, <1>9

\* The audit of a dispatch stays as it must be.
LEMMA HookStep ==
    ASSUME HookInv, [Next]_vars
    PROVE  HookInv'
<1>0. /\ rows \in [Slot -> Seq(Status)] /\ \A v \in Slot : Len(rows[v]) <= Attempts
      /\ at \in [Slot -> {"over", "posting", "hung", "sleeping", "alerting", "killed"}]
      /\ alive \in [App -> BOOLEAN] /\ owner \in [Slot -> App]
      /\ streak \in [App -> 0..Exhaustions] /\ stamp \in [App -> 0..Damping]
      /\ \A v \in Slot : Tells(v) /\ Waits(v)
      /\ Attempts \in Nat \ {0} /\ Exhaustions \in Nat \ {0} /\ Damping \in Nat \ {0}
  BY WebhooksAssumption DEF HookInv, WebhooksTypeOK, Status
<1> DEFINE Rows == /\ rows' \in [Slot -> Seq(Status)] /\ \A v \in Slot : Len(rows'[v]) <= Attempts
                   /\ at' \in [Slot -> {"over", "posting", "hung", "sleeping", "alerting", "killed"}]
                   /\ \A v \in Slot : Tells(v)' /\ Waits(v)'
           Rest == /\ alive' \in [App -> BOOLEAN] /\ owner' \in [Slot -> App]
                   /\ streak' \in [App -> 0..Exhaustions] /\ stamp' \in [App -> 0..Damping]
<1>1. ASSUME Rows, Rest  PROVE HookInv'
  BY <1>1 DEF HookInv, WebhooksTypeOK, Status
<1>2. ASSUME UNCHANGED <<at, rows>>  PROVE Rows
  BY <1>0, <1>2, TellsOn
<1>3. CASE UNCHANGED hookVars
  BY <1>0, <1>1, <1>2, <1>3 DEF hookVars
<1>4. CASE Restart
  <2>1. /\ at' = [w \in Slot |-> IF at[w] = "over" THEN "over" ELSE "killed"] /\ rows' = rows
        /\ streak' = [a \in App |-> 0] /\ stamp' = [a \in App |-> Damping] /\ alive' = alive /\ owner' = owner
    BY <1>4 DEF Restart, WebhooksRestart
  <2>2. Rest
    <3>1. 0 \in 0..Exhaustions /\ Damping \in 0..Damping
      BY <1>0
    <3> QED
      BY <1>0, <2>1, <3>1
  <2>3. ASSUME NEW w \in Slot  PROVE Tells(w)' /\ Waits(w)'
    BY <1>0, <2>1 DEF Tells, Waits, Ended, Gone
  <2>4. Rows
    BY <1>0, <2>1, <2>3
  <2> QED
    BY <1>1, <2>2, <2>4
<1>5. ASSUME NEW w \in Slot, NEW a \in App, Dispatch(w, a)  PROVE HookInv'
  <2>1. /\ at'[w] = "posting" /\ rows'[w] = <<"pending">>
        /\ \A v \in Slot \ {w} : at'[v] = at[v] /\ rows'[v] = rows[v]
        /\ alive' = alive /\ owner' = [owner EXCEPT ![w] = a] /\ streak' = streak /\ stamp' = stamp
    BY <1>0, <1>5 DEF Dispatch, Goes
  <2>2. <<"pending">> \in Seq(Status) /\ Len(<<"pending">>) = 1 /\ 1 <= Attempts
    BY <1>0 DEF Status
  <2>3. Tells(w)' /\ Waits(w)'
    <3>1. DOMAIN <<"pending">> = {1} /\ <<"pending">>[1] = "pending" /\ <<"pending">> # <<>>
      OBVIOUS
    <3> QED
      BY <2>1, <2>2, <3>1 DEF Tells, Waits, Ended, Gone, Last
  <2>4. \A v \in Slot \ {w} : Tells(v)' /\ Waits(v)'
    BY <1>0, <2>1, TellsOn
  <2>5. rows' \in [Slot -> Seq(Status)] /\ at' \in [Slot -> {"over", "posting", "hung", "sleeping", "alerting", "killed"}]
    BY <1>0, <1>5, <2>2 DEF Dispatch, Goes
  <2>6. \A v \in Slot : Len(rows'[v]) <= Attempts
    BY <1>0, <2>1, <2>2
  <2>7. Rest
    BY <1>0, <2>1
  <2> QED
    BY <1>1, <2>3, <2>4, <2>5, <2>6, <2>7
<1>6. ASSUME NEW w \in Slot, Delivered(w)  PROVE HookInv'
  <2>1. Rows
    BY <1>6, AttemptEnds DEF Delivered
  <2>2. Rest
    <3>1. 0 \in 0..Exhaustions /\ Damping \in 0..Damping
      BY <1>0
    <3> QED
      BY <1>0, <1>6, <3>1 DEF Delivered
  <2> QED
    BY <1>1, <2>1, <2>2
<1>7. ASSUME NEW w \in Slot, Failed(w)  PROVE HookInv'
  <2>1. Rows
    BY <1>7, AttemptEnds DEF Failed
  <2>2. Rest
    BY <1>0, <1>7 DEF Failed
  <2> QED
    BY <1>1, <2>1, <2>2
<1>8. ASSUME NEW w \in Slot, Exhausted(w)  PROVE HookInv'
  <2>1. /\ at[w] = "posting" /\ Len(rows[w]) = Attempts /\ Ends(w, "failed")
        /\ \E place \in {"over", "alerting"} : Goes(w, place)
    BY <1>8 DEF Exhausted
  <2>2. Rows
    <3>1. PICK place \in {"over", "alerting"} : Goes(w, place)
      BY <2>1
    <3> QED
      BY <2>1, <3>1, AttemptEnds
  <2>3. Rest
    <3>1. \A a \in App : (IF streak[a] < Exhaustions THEN streak[a] + 1 ELSE streak[a]) \in 0..Exhaustions
      BY <1>0
    <3>2. streak' \in [App -> 0..Exhaustions]
      BY <1>0, <1>8, <3>1 DEF Exhausted
    <3>3. 0 \in 0..Damping
      BY <1>0
    <3>4. stamp' \in [App -> 0..Damping]
      BY <1>0, <1>8, <3>3 DEF Exhausted
    <3> QED
      BY <1>0, <1>8, <3>2, <3>4 DEF Exhausted
  <2> QED
    BY <1>1, <2>2, <2>3
<1>9. ASSUME NEW w \in Slot, Retry(w)  PROVE HookInv'
  <2>1. /\ rows[w] # <<>> /\ Last(rows[w]) = "failed" /\ Len(rows[w]) < Attempts /\ rows[w] \in Seq(Status)
        /\ \A i \in DOMAIN rows[w] : rows[w][i] # "failed" => i = Len(rows[w])
    BY <1>0, <1>9 DEF Retry, Waits, Tells
  <2>2. /\ at'[w] = "posting" /\ rows'[w] = Append(rows[w], "pending")
        /\ \A v \in Slot \ {w} : at'[v] = at[v] /\ rows'[v] = rows[v]
        /\ alive' = alive /\ owner' = owner /\ streak' = streak /\ stamp' = stamp
    BY <1>0, <1>9 DEF Retry, Goes
  <2>3. /\ rows'[w] \in Seq(Status) /\ Len(rows'[w]) = Len(rows[w]) + 1 /\ rows'[w][Len(rows[w]) + 1] = "pending"
        /\ \A i \in 1..Len(rows[w]) : rows'[w][i] = rows[w][i]
    BY <2>1, <2>2 DEF Status
  <2>4. Len(rows[w]) \in Nat /\ DOMAIN rows[w] = 1..Len(rows[w]) /\ DOMAIN rows'[w] = 1..(Len(rows[w]) + 1)
    BY <2>1, <2>3
  <2>5. Tells(w)' /\ Waits(w)'
    <3>1. \A i \in 1..Len(rows[w]) : rows[w][i] = "failed"
      <4>1. Len(rows[w]) >= 1 => rows[w][Len(rows[w])] = "failed"
        BY <2>1 DEF Last
      <4> QED
        BY <2>1, <2>4, <4>1
    <3>2. \A i \in DOMAIN rows'[w] : rows'[w][i] # "failed" => i = Len(rows'[w])
      BY <2>3, <2>4, <3>1
    <3>3. Last(rows'[w]) = "pending" /\ rows'[w] # <<>>
      BY <2>3, <2>4 DEF Last
    <3> QED
      BY <2>2, <3>2, <3>3 DEF Tells, Waits, Ended, Gone
  <2>6. \A v \in Slot \ {w} : Tells(v)' /\ Waits(v)'
    BY <1>0, <2>2, TellsOn
  <2>7. rows' \in [Slot -> Seq(Status)] /\ at' \in [Slot -> {"over", "posting", "hung", "sleeping", "alerting", "killed"}]
    <3>1. rows' = [rows EXCEPT ![w] = rows'[w]]
      BY <1>0, <1>9, <2>2 DEF Retry
    <3> QED
      BY <1>0, <1>9, <2>3, <3>1 DEF Retry, Goes
  <2>8. \A v \in Slot : Len(rows'[v]) <= Attempts
    <3>1. Len(rows[w]) + 1 <= Attempts
      BY <1>0, <2>1, <2>4
    <3> QED
      BY <1>0, <2>2, <2>3, <3>1
  <2> QED
    BY <1>0, <1>1, <2>2, <2>5, <2>6, <2>7, <2>8
<1>10. ASSUME NEW w \in Slot, AlertOver(w)  PROVE HookInv'
  <2>1. /\ at[w] = "alerting" /\ at'[w] \in {"over", "alerting"} /\ \A v \in Slot \ {w} : at'[v] = at[v]
        /\ at' \in [Slot -> {"over", "posting", "hung", "sleeping", "alerting", "killed"}]
        /\ rows' = rows /\ alive' = alive /\ owner' = owner /\ streak' = streak /\ stamp' = stamp
    BY <1>0, <1>10 DEF AlertOver, Goes
  <2>2. Tells(w)' /\ Waits(w)'
    BY <1>0, <2>1 DEF Tells, Waits, Ended, Gone
  <2>3. \A v \in Slot \ {w} : Tells(v)' /\ Waits(v)'
    BY <1>0, <2>1, TellsOn
  <2> QED
    BY <1>0, <1>1, <2>1, <2>2, <2>3
<1>11. ASSUME NEW w \in Slot, CutOff(w)  PROVE HookInv'
  <2>1. /\ at[w] = "posting" /\ at'[w] = "hung" /\ \A v \in Slot \ {w} : at'[v] = at[v]
        /\ at' \in [Slot -> {"over", "posting", "hung", "sleeping", "alerting", "killed"}]
        /\ rows' = rows /\ alive' = alive /\ owner' = owner /\ streak' = streak /\ stamp' = stamp
    BY <1>0, <1>11 DEF CutOff, Goes
  <2>2. Tells(w)' /\ Waits(w)'
    BY <1>0, <2>1 DEF Tells, Waits, Ended, Gone
  <2>3. \A v \in Slot \ {w} : Tells(v)' /\ Waits(v)'
    BY <1>0, <2>1, TellsOn
  <2> QED
    BY <1>0, <1>1, <2>1, <2>2, <2>3
<1>12. ASSUME NEW a \in App, WindowPasses(a) \/ ReceiverFlips(a)  PROVE HookInv'
  <2>1. stamp' \in [App -> 0..Damping]
    BY <1>0, <1>12 DEF WindowPasses, ReceiverFlips
  <2>2. UNCHANGED <<at, rows>> /\ Rest
    BY <1>0, <1>12, <2>1 DEF WindowPasses, ReceiverFlips
  <2> QED
    BY <1>1, <1>2, <2>2
<1> QED
  BY <1>3, <1>4, <1>5, <1>6, <1>7, <1>8, <1>9, <1>10, <1>11, <1>12 DEF Next, WebhooksStep, vars

\* A webhook dispatch's rows tell what became of it, and a row is pending only while its
\* attempt is, or for good if that was killed or never answered (deliverSigned and
\* dispatchWebhook of webhooks.ts), for any slots, apps and number of attempts.
THEOREM AuditStaysTrue == Spec => []AuditTellsAll
<1>1. Init => HookInv
  <2> SUFFICES ASSUME Init  PROVE HookInv
    OBVIOUS
  <2>1. 0 \in 0..Exhaustions /\ Damping \in 0..Damping /\ 0 <= Attempts
    BY WebhooksAssumption
  <2>2. WebhooksTypeOK
    BY <2>1 DEF Init, WebhooksInit, WebhooksTypeOK
  <2>3. \A w \in Slot : Tells(w) /\ Waits(w)
    BY DEF Init, WebhooksInit, Tells, Waits, Ended, Gone
  <2> QED
    BY <2>2, <2>3 DEF HookInv
<1>2. HookInv /\ [Next]_vars => HookInv'
  BY HookStep
<1>3. HookInv => AuditTellsAll
  BY DEF HookInv, Tells, AuditTellsAll
<1> QED
  BY <1>1, <1>2, <1>3, PTL DEF Spec
=============================================================================
