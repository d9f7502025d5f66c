------------------------- MODULE PaymentReaderProofs -------------------------
(***************************************************************************)
(* Proofs about PaymentReader, for any number of SMS, workers and kills:   *)
(* the types, and that no TrxID waits twice although the queue has no lock.*)
(* The reason: nobody writes but what he loaded, less an item or plus one  *)
(* that the loaded list had no TrxID for; so not only the stored list but  *)
(* every copy in a thread's hands is free of repeats (CopiesDeduped).      *)
(***************************************************************************)
EXTENDS PaymentReader, TLAPS

Deduped(list) == \A s, q \in list : TrxOf[s] = TrxOf[q] /\ TrxOf[s] # NoTrx => s = q

\* Every copy of the list is free of repeats.
CopiesDeduped ==
    /\ Deduped(store)
    /\ Deduped(main.copy)
    /\ \A w \in Worker : Deduped(work[w].copy)

\* What keeps a list free of duplicates.
LEMMA DedupedRemove ==
    ASSUME NEW list, NEW s, Deduped(list)
    PROVE  Deduped(list \ {s})
BY DEF Deduped

LEMMA DedupedAppend ==
    ASSUME NEW list, NEW s, Deduped(list), ~IsDuplicate(s, list)
    PROVE  Deduped(list \cup {s})
BY DEF Deduped, IsDuplicate

LEMMA DedupedEmpty == Deduped({})
BY DEF Deduped

-----------------------------------------------------------------------------
Busy == main.pc = "loaded" => main.item \in Sms

LEMMA IdleTypes == IdleMain \in MainState /\ IdleWorker \in WorkerState
BY DEF IdleMain, IdleWorker, MainState, WorkerState, Outcome

\* The receiver and the workers hold what their step says (PaymentSmsReceiver.kt,
\* UploadWorker.kt).
THEOREM TypeCorrect == Spec => []TypeOK
<1> DEFINE Inv == TypeOK /\ Busy
<1>1. Init => Inv
  <2> SUFFICES ASSUME Init PROVE Inv
    OBVIOUS
  <2>1. main \in MainState /\ work \in [Worker -> WorkerState]
    BY IdleTypes DEF Init
  <2>2. kills \in 0..MaxKills
    BY ReaderAssumption DEF Init
  <2>3. main.pc # "loaded"
    BY DEF Init, IdleMain
  <2> QED
    BY <2>1, <2>2, <2>3 DEF Init, TypeOK, Busy
<1>2. Inv /\ [Next]_vars => Inv'
  <2> SUFFICES ASSUME TypeOK, Busy, [Next]_vars PROVE TypeOK' /\ Busy'
    OBVIOUS
  <2>1. CASE UNCHANGED vars
    BY <2>1 DEF vars, TypeOK, Busy
  <2>2. ASSUME NEW s \in Sms, Receive(s) PROVE TypeOK' /\ Busy'
    <3>1. main' \in MainState /\ main'.item = s
      BY <2>2 DEF Receive, TypeOK, MainState
    <3> QED
      BY <2>2, <3>1 DEF Receive, TypeOK, Busy
  <2>3. CASE Append
    <3>1. main' \in MainState /\ main'.pc = "saved"
      BY <2>3 DEF Append, TypeOK, MainState
    <3>2. store' \subseteq Sms /\ queued' \subseteq Sms
      BY <2>3 DEF Append, TypeOK, Busy, MainState
    <3> QED
      BY <2>3, <3>1, <3>2 DEF Append, TypeOK, Busy
  <2>4. CASE ReceiverSchedules
    BY <2>4, IdleTypes DEF ReceiverSchedules, Schedule, TypeOK, Busy, IdleMain
  <2>5. CASE SaveConfig
    BY <2>5 DEF SaveConfig, Schedule, TypeOK, Busy
  <2>6. CASE Kill
    <3>1. work' \in [Worker -> WorkerState]
      BY <2>6, IdleTypes DEF Kill
    <3>2. kills' \in 0..MaxKills
      BY <2>6, ReaderAssumption DEF Kill, TypeOK
    <3> QED
      BY <2>6, <3>1, <3>2, IdleTypes DEF Kill, TypeOK, Busy, IdleMain
  <2>7. ASSUME NEW w \in Worker, Start(w) PROVE TypeOK' /\ Busy'
    <3>1. work' \in [Worker -> WorkerState]
      <4>1. ASSUME NEW due \in SUBSET store
            PROVE  [IdleWorker EXCEPT !.pc = "send", !.todo = due] \in WorkerState
        BY IdleTypes DEF WorkerState, TypeOK
      <4> QED
        BY <2>7, <4>1 DEF Start, TypeOK
    <3> QED
      BY <2>7, <3>1 DEF Start, TypeOK, Busy
  <2>8. ASSUME NEW w \in Worker, Load(w) PROVE TypeOK' /\ Busy'
    <3>1. work' \in [Worker -> WorkerState]
      BY <2>8 DEF Load, TypeOK, WorkerState
    <3> QED
      BY <2>8, <3>1 DEF Load, TypeOK, Busy
  <2>9. ASSUME NEW w \in Worker, Save(w) PROVE TypeOK' /\ Busy'
    <3> DEFINE after == [work[w] EXCEPT !.pc = "send", !.todo = @ \ {work[w].item}, !.copy = {},
                                        !.item = NoSms, !.outcome = "failed",
                                        !.retry = @ \/ work[w].outcome = "failed"]
    <3>1. work[w] \in WorkerState
      BY DEF TypeOK
    <3>2. after \in WorkerState
      BY <3>1 DEF WorkerState, Outcome
    <3>3. work' = [work EXCEPT ![w] = after]
      BY <2>9 DEF Save
    <3>4. work' \in [Worker -> WorkerState]
      BY <3>2, <3>3 DEF TypeOK
    <3>5. store' \subseteq Sms
      BY <2>9, <3>1 DEF Save, TypeOK, WorkerState
    <3> QED
      BY <2>9, <3>4, <3>5 DEF Save, TypeOK, Busy
  <2>10. ASSUME NEW w \in Worker, Count(w) PROVE TypeOK' /\ Busy'
    <3>1. \A again \in BOOLEAN : [work[w] EXCEPT !.pc = "counted", !.retry = again] \in WorkerState
      BY DEF TypeOK, WorkerState
    <3>2. StillWaiting(w) \in BOOLEAN
      BY DEF StillWaiting, TypeOK, WorkerState
    <3>3. work' = [work EXCEPT ![w] = [work[w] EXCEPT !.pc = "counted", !.retry = StillWaiting(w)]]
      BY <2>10 DEF Count
    <3>4. work' \in [Worker -> WorkerState]
      BY <3>1, <3>2, <3>3 DEF TypeOK
    <3> QED
      BY <2>10, <3>4 DEF Count, TypeOK, Busy
  <2>11. ASSUME NEW w \in Worker, Finish(w) PROVE TypeOK' /\ Busy'
    <3>1. work' \in [Worker -> WorkerState] /\ work[w].retry \in BOOLEAN
      BY <2>11, IdleTypes DEF Finish, TypeOK, WorkerState
    <3> QED
      BY <2>11, <3>1 DEF Finish, TypeOK, Busy
  <2>12. ASSUME NEW w \in Worker, NEW s \in Sms, NEW outcome \in Outcome, Send(w, s, outcome)
         PROVE  TypeOK' /\ Busy'
    <3>0. [work[w] EXCEPT !.pc = "answered", !.item = s, !.outcome = outcome] \in WorkerState
      BY DEF TypeOK, WorkerState
    <3>1. work' \in [Worker -> WorkerState]
      BY <2>12, <3>0 DEF Send, TypeOK
    <3>2. landed' \subseteq Sms /\ rejected' \subseteq Sms
      BY <2>12 DEF Send, TypeOK, Outcome
    <3> QED
      BY <2>12, <3>1, <3>2 DEF Send, TypeOK, Busy
  <2> QED
    BY <2>1, <2>2, <2>3, <2>4, <2>5, <2>6, <2>7, <2>8, <2>9, <2>10, <2>11, <2>12 DEF Next
<1> QED
  BY <1>1, <1>2, PTL DEF Spec

-----------------------------------------------------------------------------
\* A TrxID never waits twice (UploadQueue.enqueue), whoever else writes the list.
THEOREM QueuedOnce == Spec => []TrxIdQueuedOnce
<1>1. Init => CopiesDeduped
  BY DedupedEmpty DEF Init, CopiesDeduped, IdleMain, IdleWorker
<1>2. TypeOK /\ CopiesDeduped /\ [Next]_vars => CopiesDeduped'
  <2> SUFFICES ASSUME TypeOK, CopiesDeduped, [Next]_vars PROVE CopiesDeduped'
    OBVIOUS
  <2>0. Deduped(store) /\ Deduped(main.copy) /\ \A w \in Worker : Deduped(work[w].copy)
    BY DEF CopiesDeduped
  <2>1. CASE UNCHANGED vars
    BY <2>0, <2>1 DEF vars, CopiesDeduped, Deduped
  <2>2. ASSUME NEW s \in Sms, Receive(s) PROVE CopiesDeduped'
    BY <2>0, <2>2 DEF Receive, CopiesDeduped, Deduped
  <2>3. CASE Append
    <3>1. Deduped(store')
      BY <2>0, <2>3, DedupedAppend DEF Append
    <3>2. Deduped(main'.copy)
      BY <2>3, DedupedEmpty DEF Append, TypeOK
    <3> QED
      BY <2>0, <2>3, <3>1, <3>2 DEF Append, CopiesDeduped, Deduped
  <2>4. CASE ReceiverSchedules
    BY <2>0, <2>4 DEF ReceiverSchedules, IdleMain, CopiesDeduped, Deduped
  <2>5. CASE SaveConfig
    BY <2>0, <2>5 DEF SaveConfig, CopiesDeduped, Deduped
  <2>6. CASE Kill
    BY <2>0, <2>6 DEF Kill, IdleMain, IdleWorker, CopiesDeduped, Deduped
  <2>7. ASSUME NEW w \in Worker, Start(w) PROVE CopiesDeduped'
    <3>1. \A v \in Worker : work'[v].copy \in {work[v].copy, {}}
      BY <2>7 DEF Start, IdleWorker, TypeOK
    <3> QED
      BY <2>0, <2>7, <3>1, DedupedEmpty DEF Start, CopiesDeduped, Deduped
  <2>8. ASSUME NEW w \in Worker, Load(w) PROVE CopiesDeduped'
    BY <2>0, <2>8 DEF Load, TypeOK, CopiesDeduped, Deduped
  <2>9. ASSUME NEW w \in Worker, Save(w) PROVE CopiesDeduped'
    <3>1. Deduped(store')
      BY <2>0, <2>9, DedupedRemove DEF Save
    <3>2. \A v \in Worker : Deduped(work'[v].copy)
      BY <2>0, <2>9, DedupedEmpty DEF Save, TypeOK
    <3> QED
      BY <2>0, <2>9, <3>1, <3>2 DEF Save, CopiesDeduped, Deduped
  <2>10. ASSUME NEW w \in Worker, Count(w) PROVE CopiesDeduped'
    BY <2>0, <2>10 DEF Count, TypeOK, CopiesDeduped, Deduped
  <2>11. ASSUME NEW w \in Worker, Finish(w) PROVE CopiesDeduped'
    BY <2>0, <2>11 DEF Finish, IdleWorker, TypeOK, CopiesDeduped, Deduped
  <2>12. ASSUME NEW w \in Worker, NEW s \in Sms, NEW outcome \in Outcome, Send(w, s, outcome)
         PROVE  CopiesDeduped'
    BY <2>0, <2>12 DEF Send, TypeOK, CopiesDeduped, Deduped
  <2> QED
    BY <2>1, <2>2, <2>3, <2>4, <2>5, <2>6, <2>7, <2>8, <2>9, <2>10, <2>11, <2>12 DEF Next
<1>3. CopiesDeduped => TrxIdQueuedOnce
  BY DEF CopiesDeduped, Deduped, TrxIdQueuedOnce
<1> QED
  BY <1>1, <1>2, <1>3, TypeCorrect, PTL DEF Spec

-----------------------------------------------------------------------------
(* Somebody comes for what waits.  As long as no worker was started beside   *)
(* another, the only busy worker is the one WorkManager listens to, or a     *)
(* replacement waits (Attended); and a worker that has counted and will not  *)
(* ask to be run again has found the list empty (CountIsRight), unless the   *)
(* receiver has added to it since and is about to schedule.                  *)

Busied(w) == work[w].pc # "idle"

OneAtATime == \A v, w \in Worker : Busied(v) /\ Busied(w) => v = w

Attended == \A w \in Worker : Busied(w) => current = w \/ scheduled

CountIsRight ==
    \A w \in Worker : work[w].pc = "counted" /\ ~work[w].retry
                         => store \subseteq Settled \/ main.pc = "saved" \/ scheduled

DrainInv ==
    /\ ~configured => \A w \in Worker : ~Busied(w)
    /\ scheduled => current = NoWorker
    /\ alone => OneAtATime /\ Attended /\ CountIsRight
    /\ DrainGoesOn

\* What a step that takes nothing back keeps, if it starts no worker.
LEMMA DrainKeeps ==
    ASSUME DrainInv, alone' => alone, configured' = configured, Settled \subseteq Settled',
           \A w \in Worker : Busied(w)' => Busied(w),
           \A w \in Worker : work'[w].pc = "counted" /\ ~work'[w].retry
                                => work[w].pc = "counted" /\ ~work[w].retry,
           scheduled => scheduled',
           \A w \in Worker : Busied(w)' /\ current = w => current' = w \/ scheduled',
           alone' => \/ store' = store /\ (main.pc = "saved" => main'.pc = "saved" \/ scheduled')
                     \/ main'.pc = "saved" \/ scheduled',
           current # NoWorker => current' # NoWorker \/ scheduled',
           scheduled' => scheduled \/ current' = NoWorker, current' \in {current, NoWorker}
    PROVE  DrainInv'
<1>1. (~configured => \A w \in Worker : ~Busied(w))'
  BY DEF DrainInv
<1>2. alone' => OneAtATime' /\ Attended'
  BY DEF DrainInv, OneAtATime, Attended
<1>3. alone' => CountIsRight'
  BY DEF DrainInv, CountIsRight
<1>4. DrainGoesOn'
  BY DEF DrainInv, DrainGoesOn
<1>5. scheduled' => current' = NoWorker
  BY DEF DrainInv
<1> QED
  BY <1>1, <1>2, <1>3, <1>4, <1>5 DEF DrainInv

\* The drain's invariant, action by action.
LEMMA DrainStep == TypeOK /\ DrainInv /\ [Next]_vars => DrainInv'
<1> SUFFICES ASSUME TypeOK, DrainInv, [Next]_vars PROVE DrainInv'
  OBVIOUS
<1>1. CASE UNCHANGED vars
  BY <1>1 DEF vars, DrainInv, OneAtATime, Attended, CountIsRight, DrainGoesOn, Busied, Settled
<1>2. ASSUME NEW s \in Sms, Receive(s) PROVE DrainInv'
  <2>1. main.pc # "saved"
    BY <1>2 DEF Receive
  <2> QED
    BY <1>2, <2>1, DrainKeeps DEF Receive, Busied, Settled
<1>3. CASE Append
  <2>1. main'.pc = "saved"
    BY <1>3 DEF Append, TypeOK, MainState
  <2> QED
    BY <1>3, <2>1, DrainKeeps DEF Append, Busied, Settled
<1>4. CASE ReceiverSchedules
  BY <1>4, DrainKeeps DEF ReceiverSchedules, Schedule, Busied, Settled
<1>5. CASE SaveConfig
  <2>1. \A w \in Worker : ~Busied(w) /\ ~Busied(w)'
    BY <1>5 DEF SaveConfig, DrainInv, Busied
  <2>2. scheduled' = TRUE /\ current' = NoWorker
    BY <1>5 DEF SaveConfig, Schedule
  <2> QED
    BY <2>1, <2>2 DEF DrainInv, OneAtATime, Attended, CountIsRight, DrainGoesOn
<1>6. CASE Kill
  <2>1. \A w \in Worker : work'[w].pc = "idle"
    BY <1>6 DEF Kill, IdleWorker
  <2>2. /\ alone' => alone /\ main.pc # "saved"
        /\ UNCHANGED <<configured, store, landed, rejected>>
        /\ scheduled' = (scheduled \/ current # NoWorker) /\ current' = NoWorker
    BY <1>6 DEF Kill
  <2> QED
    BY <2>1, <2>2, DrainKeeps DEF Busied, Settled
<1>7. ASSUME NEW w \in Worker, Start(w) PROVE DrainInv'
  <2>1. CASE ~configured
    <3>1. \A v \in Worker : ~Busied(v)'
      BY <1>7, <2>1 DEF Start, DrainInv, Busied
    <3>2. ~configured' /\ ~scheduled'
      BY <1>7, <2>1 DEF Start
    <3> QED
      BY <3>1, <3>2 DEF DrainInv, OneAtATime, Attended, CountIsRight, DrainGoesOn, Busied
  <2>2. CASE configured
    <3>1. configured' /\ current' = w /\ ~scheduled' /\ (alone' => \A v \in Worker : ~Busied(v))
      BY <1>7, <2>2 DEF Start, Busied
    <3>2. PICK due \in SUBSET store :
             work' = [work EXCEPT ![w] = [IdleWorker EXCEPT !.pc = "send", !.todo = due]]
      BY <1>7, <2>2 DEF Start
    <3>3. work'[w].pc = "send" /\ \A v \in Worker : v # w => work'[v] = work[v]
      BY <3>2 DEF TypeOK, IdleWorker
    <3>4. alone' => OneAtATime' /\ Attended'
      BY <3>1, <3>3 DEF OneAtATime, Attended, Busied
    <3>5. alone' => CountIsRight'
      BY <3>1, <3>3 DEF CountIsRight, Busied
    <3>6. w # NoWorker
      BY ReaderAssumption DEF ReaderAssumption
    <3> QED
      BY <3>1, <3>4, <3>5, <3>6 DEF DrainInv, DrainGoesOn
  <2> QED
    BY <2>1, <2>2
<1>8. ASSUME NEW w \in Worker, NEW s \in Sms, NEW outcome \in Outcome, Send(w, s, outcome)
      PROVE  DrainInv'
  <2>1. work'[w].pc = "answered" /\ \A v \in Worker : v # w => work'[v] = work[v]
    BY <1>8 DEF Send, TypeOK, WorkerState
  <2>2. landed \subseteq landed' /\ rejected \subseteq rejected' /\ work[w].pc = "send"
    BY <1>8 DEF Send, Outcome
  <2>3. UNCHANGED <<store, main, scheduled, current, configured, alone>>
    BY <1>8 DEF Send
  <2> QED
    BY <2>1, <2>2, <2>3, DrainKeeps DEF Busied, Settled
<1>9. ASSUME NEW w \in Worker, Load(w) PROVE DrainInv'
  <2>1. work[w].pc = "answered" /\ work'[w].pc = "loaded" /\ \A v \in Worker : v # w => work'[v] = work[v]
    BY <1>9 DEF Load, TypeOK, WorkerState
  <2>2. UNCHANGED <<store, main, scheduled, current, configured, alone, landed, rejected>>
    BY <1>9 DEF Load
  <2> QED
    BY <2>1, <2>2, DrainKeeps DEF Busied, Settled
\* Whoever writes the list is the only worker, and somebody will look at it after him.
<1>10. ASSUME NEW w \in Worker, Save(w) PROVE DrainInv'
  <2>1. work[w].pc = "loaded" /\ work'[w].pc = "send" /\ \A v \in Worker : v # w => work'[v] = work[v]
    BY <1>10 DEF Save, TypeOK, WorkerState
  <2>2. UNCHANGED <<main, scheduled, current, configured, alone, landed, rejected>>
    BY <1>10 DEF Save
  <2>3. (~configured => \A v \in Worker : ~Busied(v))'
    BY <2>1, <2>2 DEF DrainInv, Busied
  <2>4. alone => OneAtATime' /\ Attended'
    BY <2>1, <2>2 DEF DrainInv, OneAtATime, Attended, Busied
  <2>5. alone => CountIsRight'
    BY <2>1, <2>2 DEF DrainInv, OneAtATime, CountIsRight, Busied
  <2>6. DrainGoesOn'
    <3>1. alone => current = w \/ scheduled
      BY <2>1 DEF DrainInv, Attended, Busied
    <3>2. w # NoWorker
      BY ReaderAssumption DEF ReaderAssumption
    <3> QED
      BY <2>2, <3>1, <3>2 DEF DrainGoesOn
  <2> QED
    BY <2>2, <2>3, <2>4, <2>5, <2>6 DEF DrainInv
<1>11. ASSUME NEW w \in Worker, Count(w) PROVE DrainInv'
  <2>1. /\ work[w].pc = "send" /\ work'[w].pc = "counted" /\ work'[w].retry = StillWaiting(w)
        /\ \A v \in Worker : v # w => work'[v] = work[v]
    BY <1>11 DEF Count, TypeOK, WorkerState
  <2>2. UNCHANGED <<store, main, scheduled, current, configured, alone, landed, rejected>>
    BY <1>11 DEF Count
  <2>3. (~configured => \A v \in Worker : ~Busied(v))'
    BY <2>1, <2>2 DEF DrainInv, Busied
  <2>4. alone => OneAtATime' /\ Attended'
    BY <2>1, <2>2 DEF DrainInv, OneAtATime, Attended, Busied
  <2>5. ~work'[w].retry => store = {}
    BY <2>1 DEF StillWaiting
  <2>6. alone => CountIsRight'
    BY <2>1, <2>2, <2>5 DEF DrainInv, CountIsRight, Settled
  <2>7. DrainGoesOn'
    BY <2>2 DEF DrainInv, DrainGoesOn, Settled
  <2> QED
    BY <2>2, <2>3, <2>4, <2>6, <2>7 DEF DrainInv
<1>12. ASSUME NEW w \in Worker, Finish(w) PROVE DrainInv'
  <2>1. work[w].pc = "counted" /\ work'[w].pc = "idle" /\ \A v \in Worker : v # w => work'[v] = work[v]
    BY <1>12 DEF Finish, TypeOK, IdleWorker
  <2>2. UNCHANGED <<store, main, configured, alone, landed, rejected>>
    BY <1>12 DEF Finish
  <2>3. CASE current # w
    <3>1. UNCHANGED <<scheduled, current>>
      BY <1>12, <2>3 DEF Finish
    <3> QED
      BY <2>1, <2>2, <3>1, DrainKeeps DEF Busied, Settled
  <2>4. CASE current = w
    <3>1. scheduled' = work[w].retry /\ current' = NoWorker
      BY <1>12, <2>4 DEF Finish
    <3>2. (~configured => \A v \in Worker : ~Busied(v))'
      BY <2>1, <2>2 DEF DrainInv, Busied
    <3>3. alone => \A v \in Worker : ~Busied(v)'
      BY <2>1 DEF DrainInv, OneAtATime, Busied
    <3>4. alone => OneAtATime' /\ Attended' /\ CountIsRight'
      BY <3>3 DEF OneAtATime, Attended, CountIsRight, Busied
    <3>5. DrainGoesOn'
      <4>1. ~scheduled
        BY <2>4, ReaderAssumption DEF DrainInv, ReaderAssumption
      <4>2. work[w].retry => scheduled'
        BY <3>1
      <4>3. alone /\ ~work[w].retry => store \subseteq Settled \/ main.pc = "saved"
        BY <2>1, <4>1 DEF DrainInv, CountIsRight
      <4> QED
        BY <2>2, <4>2, <4>3 DEF DrainGoesOn, Settled
    <3> QED
      BY <2>2, <3>1, <3>2, <3>4, <3>5 DEF DrainInv
  <2> QED
    BY <2>3, <2>4
<1> QED
  BY <1>1, <1>2, <1>3, <1>4, <1>5, <1>6, <1>7, <1>8, <1>9, <1>10, <1>11, <1>12 DEF Next

\* "Re-schedules itself while ANY item remains" (UploadWorker.kt): for any number of SMS,
\* workers and kills, an item the server has not settled is waited for by a running worker
\* or a work request, as long as workers run one at a time.
THEOREM DrainContinues == Spec => []DrainGoesOn
<1>1. Init => DrainInv
  BY DEF Init, DrainInv, OneAtATime, Attended, CountIsRight, DrainGoesOn, Busied, Settled, IdleWorker
<1>2. DrainInv => DrainGoesOn
  BY DEF DrainInv
<1> QED
  BY <1>1, <1>2, DrainStep, TypeCorrect, PTL DEF Spec
=============================================================================
