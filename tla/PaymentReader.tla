---------------------------- MODULE PaymentReader ----------------------------
(***************************************************************************)
(* The upload queue of the payment reader app (payment-reader): the        *)
(* broadcast receiver appends a payment SMS to a persisted list, workers   *)
(* upload the items that are due and take them off again.                  *)
(*                                                                         *)
(* UploadQueue reads the whole list, changes it and writes it back without *)
(* a lock, so the read and the write are steps of their own.  The receiver *)
(* runs on the main thread, a worker on a WorkManager thread.  Scheduling  *)
(* uses ExistingWorkPolicy.REPLACE: the replaced worker's result no longer *)
(* counts, but doWork never looks whether it was stopped and runs on       *)
(* beside its successor.                                                   *)
(*                                                                         *)
(* Backoff decides only when an item is due: dueItems returns any part of  *)
(* the list.                                                               *)
(***************************************************************************)
EXTENDS Naturals

CONSTANTS
    Sms,        \* payment SMS, each queued under an id of its own
    TrxOf,      \* TrxOf[s]: its TrxID, NoTrx when the reader cannot parse it
    NoTrx,
    Hinted,     \* SMS the reader reads a TrxID and an amount above zero from
    GeminiKey,  \* the server has a key for the model
    Worker,     \* UploadWorker instances that may run at the same time
    NoWorker,   \* no unique work is running
    NoSms,
    MaxKills    \* bound: how often the process is killed

ASSUME ReaderAssumption ==
    /\ NoSms \notin Sms /\ NoWorker \notin Worker
    /\ Hinted \subseteq {s \in Sms : TrxOf[s] # NoTrx} /\ GeminiKey \in BOOLEAN
    /\ MaxKills \in Nat

VARIABLES
    store,      \* the persisted list
    main,       \* the receiver: its step, its copy of the list, its item
    work,       \* each worker: step, copy, items still to upload, item, outcome,
                \* and whether it will ask to be run again
    scheduled,  \* a unique work request waits to run
    current,    \* the worker whose result WorkManager will look at
    configured, \* URL and secret are set
    kills,
    arrived,    \* history: SMS the receiver has taken
    queued,     \* history: SMS whose enqueue wrote the list
    landed,     \* history: SMS the server has recorded
    rejected,   \* history: SMS the server refused or discarded for good
    alone       \* history: no worker was started beside another, and no kill
                \* has hit the receiver between its save and its scheduling

vars == <<store, main, work, scheduled, current, configured, kills,
          arrived, queued, landed, rejected, alone>>

Outcome == {"accepted", "discarded", "rejected", "failed"}

IdleMain   == [pc |-> "idle", copy |-> {}, item |-> NoSms]
IdleWorker == [pc |-> "idle", copy |-> {}, todo |-> {}, item |-> NoSms,
               outcome |-> "failed", retry |-> FALSE]

MainState == [pc : {"idle", "loaded", "saved"}, copy : SUBSET Sms, item : Sms \cup {NoSms}]
WorkerState == [pc : {"idle", "send", "answered", "loaded", "counted"},
                copy : SUBSET Sms, todo : SUBSET Sms, item : Sms \cup {NoSms},
                outcome : Outcome, retry : BOOLEAN]

TypeOK ==
    /\ store \subseteq Sms
    /\ arrived \subseteq Sms /\ queued \subseteq Sms
    /\ landed \subseteq Sms /\ rejected \subseteq Sms
    /\ main \in MainState /\ work \in [Worker -> WorkerState]
    /\ scheduled \in BOOLEAN /\ configured \in BOOLEAN
    /\ current \in Worker \cup {NoWorker}
    /\ kills \in 0..MaxKills
    /\ alone \in BOOLEAN

Init ==
    /\ store = {}
    /\ main = IdleMain
    /\ work = [w \in Worker |-> IdleWorker]
    /\ scheduled = FALSE /\ configured = FALSE
    /\ current = NoWorker
    /\ kills = 0
    /\ arrived = {} /\ queued = {} /\ landed = {} /\ rejected = {}
    /\ alone = TRUE

\* UploadWorker.schedule: what runs is replaced.
Schedule == scheduled' = TRUE /\ current' = NoWorker

-----------------------------------------------------------------------------
(* The server: POST /v5/payments/ingest and its reading of the raw SMS      *)

\* What the model may say; a field it leaves out or invents is not "good".
Field == {"none", "malformed", "good"}
Raw == [payment : BOOLEAN, legitimate : BOOLEAN, trxId : Field, amount : Field]

\* A reading says of the TrxID and the amount only whether they are there.
Reading == [payment : BOOLEAN, legitimate : BOOLEAN, trxId : BOOLEAN, amount : BOOLEAN]

normalizeExtraction(raw) ==
    [raw EXCEPT !.trxId = (raw.trxId = "good"), !.amount = (raw.amount = "good")]

extractPayment == {normalizeExtraction(raw) : raw \in Raw}

\* Without a key: one signal is enough to call it a payment.
regexFallbackExtract ==
    {r \in Reading : r.payment = (r.trxId \/ r.amount) /\ r.legitimate = r.payment}

parsePaymentWithAi == IF GeminiKey THEN extractPayment ELSE regexFallbackExtract

\* Discarded: not_payment, not_legitimate or extraction_incomplete.
Verdict(r) == IF r.payment /\ r.legitimate /\ r.trxId /\ r.amount THEN "accepted" ELSE "discarded"

\* The hints make the reading unnecessary; without them a blank body is a 400.
Ingest(s) == IF s \in Hinted THEN {"accepted"}
             ELSE {Verdict(r) : r \in parsePaymentWithAi} \cup {"rejected"}

\* ... or no answer arrives, the secret is wrong, or the model failed (503).
Answers(s) == Ingest(s) \cup {"failed"}

-----------------------------------------------------------------------------
(* PaymentSmsReceiver, on the main thread                                   *)

\* onReceive, and enqueue's load.
Receive(s) ==
    /\ main.pc = "idle" /\ s \notin arrived
    /\ arrived' = arrived \cup {s}
    /\ main' = [pc |-> "loaded", copy |-> store, item |-> s]
    /\ UNCHANGED <<store, work, scheduled, current, configured, kills, queued, landed, rejected, alone>>

\* Mutant: no dedupe.
IsDuplicateNever(s, list) == FALSE

\* An item with a TrxID joins only if that TrxID is not waiting already.
IsDuplicate(s, list) == TrxOf[s] # NoTrx /\ \E q \in list : TrxOf[q] = TrxOf[s]

\* enqueue's save, or its early return.
Append ==
    LET dup == IsDuplicate(main.item, main.copy)
    IN  /\ main.pc = "loaded"
        /\ store' = IF dup THEN store ELSE main.copy \cup {main.item}
        /\ queued' = IF dup THEN queued ELSE queued \cup {main.item}
        /\ main' = [main EXCEPT !.pc = "saved", !.copy = {}]
        /\ UNCHANGED <<work, scheduled, current, configured, kills, arrived, landed, rejected, alone>>

ReceiverSchedules ==
    /\ main.pc = "saved"
    /\ main' = IdleMain
    /\ Schedule
    /\ UNCHANGED <<store, work, configured, kills, arrived, queued, landed, rejected, alone>>

\* MainActivity saves the settings and kicks the uploader.
SaveConfig ==
    /\ ~configured
    /\ configured' = TRUE
    /\ Schedule
    /\ UNCHANGED <<store, main, work, kills, arrived, queued, landed, rejected, alone>>

-----------------------------------------------------------------------------
(* UploadWorker.doWork                                                      *)

\* WorkManager starts the request; without settings the work is done at once.
Start(w) ==
    /\ scheduled /\ work[w].pc = "idle"
    /\ scheduled' = FALSE
    /\ IF configured
       THEN /\ current' = w
            /\ \E due \in SUBSET store :
                  work' = [work EXCEPT ![w] = [IdleWorker EXCEPT !.pc = "send", !.todo = due]]
            /\ alone' = (alone /\ \A v \in Worker : work[v].pc = "idle")
       ELSE UNCHANGED <<current, work, alone>>
    /\ UNCHANGED <<store, main, configured, kills, arrived, queued, landed, rejected>>

\* One upload.  A failure may be a lost answer: the server has the payment.
Send(w, s, outcome) ==
    /\ work[w].pc = "send" /\ s \in work[w].todo
    /\ outcome \in Answers(s)
    /\ work' = [work EXCEPT ![w].pc = "answered", ![w].item = s, ![w].outcome = outcome]
    /\ landed' \in CASE outcome = "accepted" -> {landed \cup {s}}
                     [] outcome \in {"discarded", "rejected"} -> {landed}
                     [] outcome = "failed" ->
                            {landed} \cup {landed \cup {s} : v \in Ingest(s) \cap {"accepted"}}
    /\ rejected' = IF outcome \in {"discarded", "rejected"} THEN rejected \cup {s} ELSE rejected
    /\ UNCHANGED <<store, main, scheduled, current, configured, kills, arrived, queued, alone>>

\* remove's or markFailed's load.
Load(w) ==
    /\ work[w].pc = "answered"
    /\ work' = [work EXCEPT ![w].pc = "loaded", ![w].copy = store]
    /\ UNCHANGED <<store, main, scheduled, current, configured, kills, arrived, queued,
                   landed, rejected, alone>>

\* ... and its save: markFailed writes the list back with a new attempt count,
\* unless the item is gone.
Save(w) ==
    LET s == work[w].item
    IN  /\ work[w].pc = "loaded"
        /\ store' = IF work[w].outcome # "failed" THEN work[w].copy \ {s}
                    ELSE IF s \in work[w].copy THEN work[w].copy ELSE store
        /\ work' = [work EXCEPT ![w].pc = "send", ![w].todo = @ \ {s}, ![w].copy = {},
                                ![w].item = NoSms, ![w].outcome = "failed",
                                ![w].retry = @ \/ work[w].outcome = "failed"]
        /\ UNCHANGED <<main, scheduled, current, configured, kills, arrived, queued,
                       landed, rejected, alone>>

\* Mutant: only a failure of this run asks for another one.
StillWaitingFailed(w) == work[w].retry

\* transientFailure || queue.pendingCount() > 0.
StillWaiting(w) == work[w].retry \/ store # {}

Count(w) ==
    /\ work[w].pc = "send" /\ work[w].todo = {}
    /\ work' = [work EXCEPT ![w].pc = "counted", ![w].retry = StillWaiting(w)]
    /\ UNCHANGED <<store, main, scheduled, current, configured, kills, arrived, queued,
                   landed, rejected, alone>>

\* The result is retry or success; nobody asks a replaced worker.
Finish(w) ==
    /\ work[w].pc = "counted"
    /\ work' = [work EXCEPT ![w] = IdleWorker]
    /\ IF current = w
       THEN scheduled' = work[w].retry /\ current' = NoWorker
       ELSE UNCHANGED <<scheduled, current>>
    /\ UNCHANGED <<store, main, configured, kills, arrived, queued, landed, rejected, alone>>

\* The process dies; the list and the work request are on disk.
Kill ==
    /\ kills < MaxKills
    /\ kills' = kills + 1
    /\ main' = IdleMain
    /\ work' = [w \in Worker |-> IdleWorker]
    /\ scheduled' = (scheduled \/ current # NoWorker)
    /\ current' = NoWorker
    /\ alone' = (alone /\ main.pc # "saved")
    /\ UNCHANGED <<store, configured, arrived, queued, landed, rejected>>

Next ==
    \/ \E s \in Sms : Receive(s)
    \/ Append \/ ReceiverSchedules \/ SaveConfig \/ Kill
    \/ \E w \in Worker : \/ Start(w) \/ Load(w) \/ Save(w) \/ Count(w) \/ Finish(w)
                         \/ \E s \in Sms, outcome \in Outcome : Send(w, s, outcome)

Spec == Init /\ [][Next]_vars

-----------------------------------------------------------------------------
(* Properties                                                               *)

Settled == landed \cup rejected

\* Whatever the unlocked writers do to each other, a TrxID is never queued twice.
TrxIdQueuedOnce ==
    \A s, q \in store : TrxOf[s] = TrxOf[q] /\ TrxOf[s] # NoTrx => s = q

\* "Re-schedules itself while ANY item remains" (UploadWorker.kt:22-23): an item
\* the server has not settled never waits with nobody coming for it.  It holds
\* while workers run one at a time: a replaced worker that runs on can write an
\* item back after the last worker found the list empty.
DrainGoesOn ==
    alone => \/ store \subseteq Settled \/ ~configured
             \/ scheduled \/ current # NoWorker \/ main.pc = "saved"

\* "An offline money phone keeps every payment until it lands"
\* (PendingUpload.kt:5-6).
PaymentKept == queued \subseteq store \cup Settled
=============================================================================
