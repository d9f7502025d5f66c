------------------------------ MODULE Payments ------------------------------
(***************************************************************************)
(* How money becomes credits.  A customer requests a package, which makes  *)
(* a pending credit transaction, and names the TrxID of the transfer       *)
(* (server/src/routes/billing.ts).  Independently the payment SMS of that  *)
(* transfer is ingested, by a gateway phone or by the payment reader.  The *)
(* operator then awards the credits on one of three paths: the billing     *)
(* queue, the one-click approval of a payment, or an explicit attachment   *)
(* (server/src/routes/admin-payments.ts); all three end in                 *)
(* awardPendingTransaction (server/src/services/credits.ts).               *)
(*                                                                         *)
(* No handler awaits between its first read and its commit, so each is one *)
(* step; the order of the steps is anybody's.                              *)
(***************************************************************************)
EXTENDS Naturals, FiniteSets, FiniteSetsExt

CONSTANTS
    Txn,          \* ids of credit_transactions
    TrxId,        \* TrxIDs the payment services print
    NoTrx,        \* trx_id IS NULL
    Sms,          \* payment SMS as they are uploaded
    TrxOf,        \* TrxOf[s]: the TrxID extracted from s
    Bdt,          \* transactions of packages priced in BDT
    Bucket,       \* columns of user_credits and app_credits that count credits
    Buckets,      \* Buckets[t]: those t is good for (wallet or app; otp, bulk or both)
    Quota, Validity,  \* the package's snapshot, credits and days
    Rule,         \* values of the two payment_match_* keys of admin_config
    Fits,         \* Fits[r]: <<t, s>> whose amount and time agree under r
    MaxDays       \* bound of the clock

ASSUME PaymentsAssumption ==
    /\ IsFiniteSet(Txn)
    /\ NoTrx \notin TrxId
    /\ TrxOf \in [Sms -> TrxId]
    /\ Bdt \subseteq Txn
    /\ Buckets \in [Txn -> SUBSET Bucket]
    /\ Quota \in [Txn -> Nat \ {0}] /\ Validity \in [Txn -> Nat \ {0}]
    /\ Fits \in [Rule -> SUBSET (Txn \X Sms)]
    /\ MaxDays \in Nat

VARIABLES
    status,    \* credit_transactions.status ("none": no row)
    trx,       \* credit_transactions.trx_id
    review,    \* payment_sms.review_state ("none": no row, "new": NULL)
    credits,   \* otp_sms_remaining, bulk_sms_remaining as awarded
    expires,   \* otp_expires_at, bulk_expires_at (0 is NULL)
    rule,      \* the match parameters in force
    now        \* days

vars == <<status, trx, review, credits, expires, rule, now>>

TypeOK ==
    /\ status \in [Txn -> {"none", "pending", "approved", "rejected"}]
    /\ trx \in [Txn -> TrxId \cup {NoTrx}]
    /\ review \in [Sms -> {"none", "new", "approved", "rejected"}]
    /\ credits \in [Bucket -> Nat]
    /\ expires \in [Bucket -> Nat]
    /\ rule \in Rule
    /\ now \in Nat

Init ==
    /\ status = [t \in Txn |-> "none"]
    /\ trx = [t \in Txn |-> NoTrx]
    /\ review = [s \in Sms |-> "none"]
    /\ credits = [b \in Bucket |-> 0]
    /\ expires = [b \in Bucket |-> 0]
    /\ rule \in Rule
    /\ now = 0

Holders(x) == {t \in Txn : trx[t] = x}

-----------------------------------------------------------------------------
(* The customer                                                             *)

\* POST /v5/billing/credits/request.
Request(t) ==
    /\ status[t] = "none"
    /\ status' = [status EXCEPT ![t] = "pending"]
    /\ UNCHANGED <<trx, review, credits, expires, rule, now>>

\* POST /v5/billing/credits/submit-trx: once, on a pending transaction, and
\* only a TrxID no other transaction holds (partial UNIQUE index).
SubmitTrx(t, x) ==
    /\ status[t] = "pending"
    /\ trx[t] = NoTrx
    /\ Holders(x) = {}
    /\ trx' = [trx EXCEPT ![t] = x]
    /\ UNCHANGED <<status, review, credits, expires, rule, now>>

-----------------------------------------------------------------------------
(* Phones                                                                   *)

\* POST /v5/payments/ingest and POST /v5/device/payment-sms: INSERT OR IGNORE on
\* UNIQUE txn_id, so a repeated upload, and a second SMS with the same TrxID,
\* changes nothing.
Ingest(s) ==
    /\ \A q \in Sms : TrxOf[q] = TrxOf[s] => review[q] = "none"
    /\ review' = [review EXCEPT ![s] = "new"]
    /\ UNCHANGED <<status, trx, credits, expires, rule, now>>

-----------------------------------------------------------------------------
(* The operator                                                             *)

\* MAX(COALESCE(current, 0), new).
LaterOf(current, new) == IF new > current THEN new ELSE current

\* Mutant: the claim without AND status = 'pending'.
AwardUnclaimed(t) ==
    /\ status' = [status EXCEPT ![t] = "approved"]
    /\ credits' = [b \in Bucket |-> IF b \in Buckets[t] THEN credits[b] + Quota[t] ELSE credits[b]]
    /\ expires' = [b \in Bucket |-> IF b \in Buckets[t] THEN LaterOf(expires[b], now + Validity[t])
                                    ELSE expires[b]]

\* awardPendingTransaction: claims the pending row, adds the quota, extends the
\* expiry.
Award(t) ==
    /\ status[t] = "pending"
    /\ status' = [status EXCEPT ![t] = "approved"]
    /\ credits' = [b \in Bucket |-> IF b \in Buckets[t] THEN credits[b] + Quota[t] ELSE credits[b]]
    /\ expires' = [b \in Bucket |-> IF b \in Buckets[t] THEN LaterOf(expires[b], now + Validity[t])
                                    ELSE expires[b]]

\* POST /v5/admin/billing/approve: no payment SMS is needed.
BillingApprove(t) ==
    /\ Award(t)
    /\ UNCHANGED <<trx, review, rule, now>>

\* A rejected transaction keeps its TrxID.
BillingReject(t) ==
    /\ status[t] = "pending"
    /\ status' = [status EXCEPT ![t] = "rejected"]
    /\ UNCHANGED <<trx, review, credits, expires, rule, now>>

\* attachAndAward, one transaction.
AttachAndAward(s, t) ==
    /\ Holders(TrxOf[s]) \subseteq {t}
    /\ trx[t] \in {NoTrx, TrxOf[s]}
    /\ <<t, s>> \in Fits[rule]
    /\ Award(t)
    /\ trx' = [trx EXCEPT ![t] = TrxOf[s]]
    /\ review' = [review EXCEPT ![s] = "approved"]
    /\ UNCHANGED <<rule, now>>

\* isCandidate.
Candidates(s) ==
    {t \in Txn : status[t] = "pending" /\ t \in Bdt /\ trx[t] = NoTrx /\ <<t, s>> \in Fits[rule]}

\* POST /v5/admin/payments/:id/approve: for the transaction that names the
\* TrxID, else for the only candidate.
PaymentApprove(s) ==
    LET target == IF Holders(TrxOf[s]) # {} THEN Holders(TrxOf[s]) ELSE Candidates(s)
    IN  /\ review[s] \in {"new", "approved"}
        /\ \E t \in target : target = {t} /\ AttachAndAward(s, t)

\* POST /v5/admin/payments/:id/attach: for the transaction the operator picks.
PaymentAttach(s, t) ==
    /\ review[s] \in {"new", "approved"}
    /\ AttachAndAward(s, t)

\* Mutant: a rejection does not look for an award.
PaymentRejectAny(s) ==
    /\ review[s] # "none"
    /\ trx' = [t \in Txn |-> IF t \in Holders(TrxOf[s]) THEN NoTrx ELSE trx[t]]
    /\ review' = [review EXCEPT ![s] = "rejected"]
    /\ UNCHANGED <<status, credits, expires, rule, now>>

\* POST /v5/admin/payments/:id/reject: refused after an award; a pending holder
\* loses the TrxID, so that the customer can name another one.
PaymentReject(s) ==
    /\ review[s] # "none"
    /\ \A t \in Holders(TrxOf[s]) : status[t] # "approved"
    /\ trx' = [t \in Txn |-> IF t \in Holders(TrxOf[s]) /\ status[t] = "pending"
                             THEN NoTrx ELSE trx[t]]
    /\ review' = [review EXCEPT ![s] = "rejected"]
    /\ UNCHANGED <<status, credits, expires, rule, now>>

\* PUT of a payment_match_* key; read again at every request.
Configure(r) ==
    /\ rule' = r
    /\ UNCHANGED <<status, trx, review, credits, expires, now>>

Day ==
    /\ now < MaxDays
    /\ now' = now + 1
    /\ UNCHANGED <<status, trx, review, credits, expires, rule>>

Next ==
    \/ \E t \in Txn : Request(t) \/ BillingApprove(t) \/ BillingReject(t)
    \/ \E t \in Txn, x \in TrxId : SubmitTrx(t, x)
    \/ \E s \in Sms : Ingest(s) \/ PaymentApprove(s) \/ PaymentReject(s)
    \/ \E s \in Sms, t \in Txn : PaymentAttach(s, t)
    \/ \E r \in Rule : Configure(r)
    \/ Day

Spec == Init /\ [][Next]_vars

-----------------------------------------------------------------------------
(* Properties                                                               *)

\* No double award: a bucket holds the quota of every approved transaction
\* exactly once, whichever of the three paths approved it, and however approvals,
\* rejections and submissions of one TrxID interleave.
CreditsAreAwards ==
    \A b \in Bucket :
        credits[b] = MapThenSumSet(LAMBDA t : Quota[t],
                                   {t \in Txn : status[t] = "approved" /\ b \in Buckets[t]})

\* A transfer pays once: no two transactions ever hold the same TrxID.
TrxIdHeldOnce == \A t, u \in Txn : trx[t] = trx[u] /\ trx[t] # NoTrx => t = u

\* An approved payment is the evidence of exactly one approved transaction.
PaymentFundsOne ==
    \A s \in Sms : review[s] = "approved" =>
        \E t \in Txn : status[t] = "approved" /\ Holders(TrxOf[s]) = {t}

\* "An approved transaction can never be undone from here"
\* (admin-payments.ts:481): an award keeps its evidence for ever, and so does an
\* approved payment its verdict.
AwardIsFinal ==
    [][/\ \A t \in Txn : status[t] = "approved" =>
              status'[t] = "approved" /\ (trx[t] # NoTrx => trx'[t] = trx[t])
       /\ \A s \in Sms : review[s] = "approved" => review'[s] = "approved"]_vars

\* Buying more never shortens what was paid for.
ExpiryNeverShrinks == [][\A b \in Bucket : expires'[b] >= expires[b]]_vars

\* An award is one transfer's, and the credits are the awards'.
AwardsArePaid == TrxIdHeldOnce /\ PaymentFundsOne /\ CreditsAreAwards

\* What was bought stays: an award keeps its evidence, a wallet its days.
AwardsStand == AwardIsFinal /\ ExpiryNeverShrinks
=============================================================================
