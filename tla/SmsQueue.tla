------------------------------ MODULE SmsQueue ------------------------------
(***************************************************************************)
(* The outbound queue of the relay server: the table pending_sms and the   *)
(* device routes that work on it (server/src/routes/device.ts).  Producers *)
(* insert rows; a gateway phone fetches a batch, which claims the rows for *)
(* it, and later reports an outcome for each.  A claim nobody confirms     *)
(* within RequeueSec goes back into the queue at the next fetch.           *)
(*                                                                         *)
(* The server is one Node process over a synchronous SQLite handle, so a   *)
(* handler without an await is one step.  The network between the server   *)
(* and a phone loses, delays and repeats: a fetch may claim rows whose     *)
(* response never arrives, and a report may come from a phone that lost    *)
(* its claim long ago.                                                     *)
(*                                                                         *)
(* Time is kept as ages that saturate one unit above RequeueSec, the only  *)
(* threshold the code compares them with.                                  *)
(***************************************************************************)
EXTENDS Naturals, FiniteSets

CONSTANTS Msg,          \* row ids of pending_sms; an id is never used twice
          Device,       \* enrolled phones
          App,          \* client apps
          Fleet,        \* the binding of a phone of the operator's fleet
          NoDevice,     \* claimed_by IS NULL
          RequeueSec,   \* OUTSTANDING_REQUEUE_SEC
          BatchLimit    \* OUTSTANDING_BATCH_LIMIT

ASSUME QueueAssumption ==
    /\ IsFiniteSet(Msg)
    /\ Fleet \notin App
    /\ NoDevice \notin Device
    /\ RequeueSec \in Nat
    /\ BatchLimit \in Nat \ {0}

VARIABLES
    status,       \* pending_sms.status; "none": no such row yet, "deleted": withdrawn
    owner,        \* pending_sms.app_id
    freePass,     \* pending_sms.unlimited_pass
    arrival,      \* rank of created_at; rows of the same second keep insertion order
    claimAge,     \* now - claimed_at (0 when claimed_at IS NULL)
    claimedBy,    \* pending_sms.claimed_by
    device,       \* devices: not enrolled, live, or revoked_at set
    bound,        \* devices.app_id
    dispatched,   \* rows whose outcome was passed to dispatchOtpStatusWebhooks
    offers,       \* history: <<m, d>> when a fetch of d handed out m
    offerAge      \* history: age of the last offer of m

rowVars    == <<status, owner, freePass, arrival, claimAge, claimedBy>>
deviceVars == <<device, bound>>
histVars   == <<offers, offerAge>>
vars       == <<rowVars, deviceVars, dispatched, histVars>>

Outcome  == {"sent", "failed"}
Expired  == RequeueSec + 1
AgeRange == 0..Expired

Older(age) == IF age < Expired THEN age + 1 ELSE age

Open(m)    == status[m] \in {"pending", "claimed"}
Live(d)    == device[d] = "live"
Offered(m) == \E d \in Device : <<m, d>> \in offers

TypeOK ==
    /\ status \in [Msg -> {"none", "pending", "claimed", "deleted"} \cup Outcome]
    /\ owner \in [Msg -> App]
    /\ freePass \in [Msg -> BOOLEAN]
    /\ arrival \in [Msg -> Nat]
    /\ claimAge \in [Msg -> AgeRange]
    /\ claimedBy \in [Msg -> Device \cup {NoDevice}]
    /\ device \in [Device -> {"none", "live", "revoked"}]
    /\ bound \in [Device -> App \cup {Fleet}]
    /\ dispatched \in SUBSET Msg
    /\ offers \in SUBSET (Msg \X Device)
    /\ offerAge \in [Msg -> AgeRange]

\* owner and freePass of a row that does not exist are arbitrary; they are the
\* columns the row will be inserted with.
Init ==
    /\ status = [m \in Msg |-> "none"]
    /\ owner \in [Msg -> App]
    /\ freePass \in [Msg -> BOOLEAN]
    /\ arrival = [m \in Msg |-> 0]
    /\ claimAge = [m \in Msg |-> 0]
    /\ claimedBy = [m \in Msg |-> NoDevice]
    /\ device = [d \in Device |-> "none"]
    /\ bound \in [Device -> App \cup {Fleet}]
    /\ dispatched = {}
    /\ offers = {}
    /\ offerAge = [m \in Msg |-> 0]

-----------------------------------------------------------------------------
(* Producers                                                               *)

\* INSERT INTO pending_sms, by /v5/otp/send and by the bulk tick.
Insert(m) ==
    /\ status[m] = "none"
    /\ status' = [status EXCEPT ![m] = "pending"]
    /\ arrival' = [arrival EXCEPT ![m] = Cardinality({n \in Msg : status[n] # "none"})]
    /\ UNCHANGED <<owner, freePass, claimAge, claimedBy, deviceVars, dispatched, histVars>>

\* Cancelling a campaign deletes the rows that have no outcome yet.
Withdraw(M) ==
    /\ status' = [m \in Msg |-> IF m \in M /\ Open(m) THEN "deleted" ELSE status[m]]
    /\ UNCHANGED <<owner, freePass, arrival, claimAge, claimedBy, deviceVars,
                   dispatched, histVars>>

-----------------------------------------------------------------------------
(* Phones                                                                  *)

\* Enrolment; the binding follows from the secret the phone presents.
Enroll(d) ==
    /\ device[d] = "none"
    /\ device' = [device EXCEPT ![d] = "live"]
    /\ UNCHANGED <<rowVars, bound, dispatched, histVars>>

\* The app deletes its phone, or the operator revokes it.
Revoke(d) ==
    /\ Live(d)
    /\ device' = [device EXCEPT ![d] = "revoked"]
    /\ UNCHANGED <<rowVars, bound, dispatched, histVars>>

\* Mutants: the window ends a unit early; the wrong status is tested.
StaleEarly == {m \in Msg : status[m] = "claimed" /\ claimAge[m] >= RequeueSec}
StaleNever == {m \in Msg : status[m] = "pending" /\ claimAge[m] > RequeueSec}

Stale == {m \in Msg : status[m] = "claimed" /\ claimAge[m] > RequeueSec}

HasLivePhone(a) == \E d \in Device : Live(d) /\ bound[d] = a

\* The claim-isolation clause of the fetch.
MayClaim(d, m) ==
    IF bound[d] = Fleet
    THEN ~HasLivePhone(owner[m]) /\ ~freePass[m]
    ELSE owner[m] = bound[d]

\* ORDER BY created_at ASC LIMIT BatchLimit.
OldestFirst(batch, rows) ==
    /\ Cardinality(batch) <= BatchLimit
    /\ \A m \in rows \ batch :
          /\ Cardinality(batch) = BatchLimit
          /\ \A n \in batch : arrival[n] < arrival[m]

\* GET /v5/device/outstanding: requeue what expired, then claim a batch.
FetchBatch(d, batch) ==
    LET pending  == {m \in Msg : status[m] = "pending"} \cup Stale
        rows     == {m \in pending : MayClaim(d, m)}
    IN  /\ Live(d)
        /\ batch \subseteq rows
        /\ OldestFirst(batch, rows)
        /\ status' = [m \in Msg |-> IF m \in batch THEN "claimed"
                                    ELSE IF m \in Stale THEN "pending" ELSE status[m]]
        /\ claimAge' = [m \in Msg |-> IF m \in batch \cup Stale THEN 0 ELSE claimAge[m]]
        /\ claimedBy' = [m \in Msg |-> IF m \in batch THEN d
                                       ELSE IF m \in Stale THEN NoDevice ELSE claimedBy[m]]
        /\ offers' = offers \cup (batch \X {d})
        /\ offerAge' = [m \in Msg |-> IF m \in batch THEN 0 ELSE offerAge[m]]
        /\ UNCHANGED <<owner, freePass, arrival, deviceVars, dispatched>>

Fetch(d) == \E batch \in SUBSET Msg : FetchBatch(d, batch)

\* Mutant: the update without AND status IN ('pending','claimed').
ResultsAnyStatus(d, outcome, wellFormed) ==
    /\ Live(d)
    /\ status' = [m \in Msg |-> IF m \in DOMAIN outcome THEN outcome[m] ELSE status[m]]
    /\ dispatched' = IF wellFormed THEN dispatched \cup DOMAIN outcome ELSE dispatched
    /\ UNCHANGED <<owner, freePass, arrival, claimAge, claimedBy, deviceVars, histVars>>

\* POST /v5/device/results: every item is a commit of its own and counts only
\* for an open row, whoever holds the claim.  An item that is no result ends
\* the loop with a 400 before the webhooks are dispatched; what was committed
\* before it stays.
Results(d, outcome, wellFormed) ==
    LET accepted == {m \in DOMAIN outcome : Open(m)}
    IN  /\ Live(d)
        /\ status' = [m \in Msg |-> IF m \in accepted THEN outcome[m] ELSE status[m]]
        /\ dispatched' = IF wellFormed THEN dispatched \cup accepted ELSE dispatched
        /\ UNCHANGED <<owner, freePass, arrival, claimAge, claimedBy, deviceVars, histVars>>

\* A phone reports only rows it was handed (an id is an unguessable UUID).
Report(d) ==
    \E M \in SUBSET {m \in Msg : <<m, d>> \in offers} :
        \E outcome \in [M -> Outcome], wellFormed \in BOOLEAN :
            M # {} /\ Results(d, outcome, wellFormed)

Tick ==
    /\ claimAge' = [m \in Msg |-> IF status[m] = "claimed" THEN Older(claimAge[m])
                                  ELSE claimAge[m]]
    /\ offerAge' = [m \in Msg |-> IF Open(m) /\ Offered(m) THEN Older(offerAge[m])
                                  ELSE offerAge[m]]
    /\ UNCHANGED <<status, owner, freePass, arrival, claimedBy, deviceVars,
                   dispatched, offers>>

Next ==
    \/ \E m \in Msg : Insert(m)
    \/ \E M \in SUBSET Msg : Withdraw(M)
    \/ \E d \in Device : Enroll(d) \/ Revoke(d) \/ Fetch(d) \/ Report(d)
    \/ Tick

Spec == Init /\ [][Next]_vars

-----------------------------------------------------------------------------
(* What the queue promises                                                 *)

\* The bookkeeping behind a claim: it belongs to a phone that was handed the
\* row, it is as old as the last hand-out, and a row that is back in the queue
\* after a hand-out has waited out the whole window.
ClaimsAreOffers ==
    \A m \in Msg :
        /\ status[m] = "none" => ~Offered(m)
        /\ status[m] = "claimed" => /\ <<m, claimedBy[m]>> \in offers
                                    /\ claimAge[m] = offerAge[m]
        /\ status[m] = "pending" /\ Offered(m) => offerAge[m] > RequeueSec

\* Route separation: a phone bound to an app was only ever handed that app's
\* messages, and a message released under an unlimited plan never went to the
\* operator's fleet, through every enrolment, revocation and requeue.
RouteSeparation ==
    \A m \in Msg, d \in Device : <<m, d>> \in offers =>
        IF bound[d] = Fleet THEN ~freePass[m] ELSE owner[m] = bound[d]

\* A second phone gets a message only after the first has had it for longer
\* than RequeueSec: a late claim is re-offered, a fresh one never.
SecondPhoneWaits ==
    [][\A m \in Msg, d \in Device :
          <<m, d>> \notin offers /\ <<m, d>> \in offers' /\ Offered(m)
              => offerAge[m] > RequeueSec]_vars

\* The queue implements the life cycle its producers rely on.
LifeState == [m \in Msg |-> IF Open(m) THEN "open" ELSE status[m]]

Life == INSTANCE Lifecycle WITH state <- LifeState

ImplementsLifecycle == Life!LifeSpec

-----------------------------------------------------------------------------
(* Progress.  A live phone fetches for ever (its heartbeat loop), time      *)
(* passes, and a phone that is handed a message again and again reports it  *)
(* some time.                                                               *)

ReportClaim(d, m) ==
    /\ status[m] = "claimed" /\ claimedBy[m] = d
    /\ \E outcome \in [{m} -> Outcome] : Results(d, outcome, TRUE)

Fairness ==
    /\ WF_vars(Tick)
    /\ \A d \in Device : WF_vars(Fetch(d))
    /\ \A d \in Device, m \in Msg : SF_vars(ReportClaim(d, m))

FairSpec == Spec /\ Fairness

\* "No message can be silently dropped" (OutstandingFetcher.kt:25): a message
\* gets an outcome or is withdrawn, as long as some live phone may claim it.
EventuallyResolved ==
    \A m \in Msg :
        Open(m) ~> \/ ~Open(m)
                   \/ ~\E d \in Device : Live(d) /\ MayClaim(d, m)
=============================================================================
