---------------------------- MODULE ScreensProofs ----------------------------
(***************************************************************************)
(* Proofs about the buyer's payments and the screens of the two clients,   *)
(* each with an inductive invariant of its own, for any number of          *)
(* transactions, lists, rows, tabs, users and requests:                    *)
(*                                                                         *)
(*   Payments   a transfer pays for one transaction, once and for ever;    *)
(*   Listing    pages neither repeat nor drop a row;                       *)
(*   Composer   a list is sent as often as it was reviewed, as reviewed;   *)
(*   Console    a panel shows the change it was told of, or an error;      *)
(*   Browser    a screen has the credentials it needs, and nothing of a    *)
(*              user is left behind.                                       *)
(***************************************************************************)
EXTENDS Payments, Listing, Composer, Console, Browser, FiniteSetTheorems, TLAPS

\* What the three approval paths have in common when they touch a transaction.
LEMMA AwardType ==
    ASSUME TypeOK, NEW t \in Txn, Award(t)
    PROVE  /\ status' \in [Txn -> {"none", "pending", "approved", "rejected"}]
           /\ credits' \in [Bucket -> Nat]
           /\ expires' \in [Bucket -> Nat]
<1> USE DEF TypeOK, Award
<1>1. Quota[t] \in Nat /\ Validity[t] \in Nat
  BY PaymentsAssumption
<1>2. status' \in [Txn -> {"none", "pending", "approved", "rejected"}]
  OBVIOUS
<1>3. credits' \in [Bucket -> Nat]
  BY <1>1
<1>4. expires' \in [Bucket -> Nat]
  BY <1>1 DEF LaterOf
<1> QED
  BY <1>2, <1>3, <1>4

\* An attachment is an award that also writes the TrxID and the verdict.
LEMMA AttachType ==
    ASSUME TypeOK, NEW s \in Sms, NEW t \in Txn, AttachAndAward(s, t)
    PROVE  TypeOK'
<1>1. Award(t)
  BY DEF AttachAndAward
<1>2. TrxOf[s] \in TrxId
  BY PaymentsAssumption
<1>3. trx' \in [Txn -> TrxId \cup {NoTrx}]
  BY <1>2 DEF TypeOK, AttachAndAward
<1>4. review' \in [Sms -> {"none", "new", "approved", "rejected"}]
  BY DEF TypeOK, AttachAndAward
<1>5. rule' \in Rule /\ now' \in Nat
  BY DEF TypeOK, AttachAndAward
<1> QED
  BY <1>1, <1>3, <1>4, <1>5, AwardType DEF TypeOK

\* A one-click approval is an attachment to the transaction it finds.
LEMMA ApproveIsAttach ==
    ASSUME NEW s \in Sms, PaymentApprove(s)
    PROVE  \E t \in Txn : AttachAndAward(s, t)
BY DEF PaymentApprove, Holders, Candidates

\* Next, with the one-click approval replaced by the attachment it stands for:
\* the case split of every proof below.
LEMMA Steps ==
    ASSUME Next
    PROVE  \/ \E t \in Txn : Request(t)
           \/ \E t \in Txn : BillingApprove(t)
           \/ \E t \in Txn : BillingReject(t)
           \/ \E t \in Txn, x \in TrxId : SubmitTrx(t, x)
           \/ \E s \in Sms : Ingest(s)
           \/ \E s \in Sms : PaymentReject(s)
           \/ \E s \in Sms, t \in Txn : AttachAndAward(s, t)
           \/ \E r \in Rule : Configure(r)
           \/ Day
BY ApproveIsAttach DEF Next, PaymentAttach

-----------------------------------------------------------------------------
\* Every column keeps its type (routes/billing.ts, routes/admin-payments.ts).
THEOREM TypeCorrect == Spec => []TypeOK
<1>1. Init => TypeOK
  BY DEF Init, TypeOK
<1>2. TypeOK /\ [Next]_vars => TypeOK'
  <2> SUFFICES ASSUME TypeOK, [Next]_vars PROVE TypeOK'
    OBVIOUS
  <2>1. CASE UNCHANGED vars
    BY <2>1 DEF vars, TypeOK
  <2>2. CASE \E t \in Txn : Request(t)
    BY <2>2 DEF Request, TypeOK
  <2>3. ASSUME NEW t \in Txn, BillingApprove(t) PROVE TypeOK'
    <3>1. Award(t)
      BY <2>3 DEF BillingApprove
    <3>2. UNCHANGED <<trx, review, rule, now>>
      BY <2>3 DEF BillingApprove
    <3> QED
      BY <3>1, <3>2, AwardType DEF TypeOK
  <2>4. CASE \E t \in Txn : BillingReject(t)
    BY <2>4 DEF BillingReject, TypeOK
  <2>5. CASE \E t \in Txn, x \in TrxId : SubmitTrx(t, x)
    BY <2>5 DEF SubmitTrx, TypeOK
  <2>6. CASE \E s \in Sms : Ingest(s)
    BY <2>6 DEF Ingest, TypeOK
  <2>7. CASE \E s \in Sms : PaymentReject(s)
    BY <2>7 DEF PaymentReject, TypeOK
  <2>8. CASE \E s \in Sms, t \in Txn : AttachAndAward(s, t)
    BY <2>8, AttachType
  <2>9. CASE \E r \in Rule : Configure(r)
    BY <2>9 DEF Configure, TypeOK
  <2>10. CASE Day
    BY <2>10 DEF Day, TypeOK
  <2>11. CASE Next
    BY <2>2, <2>3, <2>4, <2>5, <2>6, <2>7, <2>8, <2>9, <2>10, <2>11, Steps
  <2> QED
    BY <2>1, <2>11
<1> QED
  BY <1>1, <1>2, PTL DEF Spec

-----------------------------------------------------------------------------
\* A TrxID is written only where nobody holds it.
LEMMA HeldOnceStep ==
    ASSUME TypeOK, TrxIdHeldOnce, [Next]_vars
    PROVE  TrxIdHeldOnce'
<1>1. CASE trx' = trx
  BY <1>1 DEF TrxIdHeldOnce
<1>2. ASSUME NEW t \in Txn, NEW x \in TrxId, SubmitTrx(t, x) PROVE TrxIdHeldOnce'
  <2>1. \A u \in Txn : trx[u] # x
    BY <1>2 DEF SubmitTrx, Holders
  <2>2. \A u \in Txn : trx'[u] = IF u = t THEN x ELSE trx[u]
    BY <1>2 DEF SubmitTrx, TypeOK
  <2> QED
    BY <2>1, <2>2 DEF TrxIdHeldOnce
<1>3. ASSUME NEW s \in Sms, PaymentReject(s) PROVE TrxIdHeldOnce'
  <2>1. \A u \in Txn : trx'[u] \in {trx[u], NoTrx}
    BY <1>3 DEF PaymentReject
  <2> QED
    BY <2>1 DEF TrxIdHeldOnce
<1>4. ASSUME NEW s \in Sms, NEW t \in Txn, AttachAndAward(s, t) PROVE TrxIdHeldOnce'
  <2>1. \A u \in Txn : trx[u] = TrxOf[s] => u = t
    BY <1>4 DEF AttachAndAward, Holders
  <2>2. \A u \in Txn : trx'[u] = IF u = t THEN TrxOf[s] ELSE trx[u]
    BY <1>4 DEF AttachAndAward, TypeOK
  <2> QED
    BY <2>1, <2>2 DEF TrxIdHeldOnce
<1>5. CASE UNCHANGED vars
  BY <1>5, <1>1 DEF vars
<1>6. CASE Next
  <2>1. \/ trx' = trx
        \/ \E t \in Txn, x \in TrxId : SubmitTrx(t, x)
        \/ \E s \in Sms : PaymentReject(s)
        \/ \E s \in Sms, t \in Txn : AttachAndAward(s, t)
    BY <1>6, Steps DEF Request, BillingApprove, BillingReject, Ingest, Configure, Day
  <2> QED
    BY <2>1, <1>1, <1>2, <1>3, <1>4
<1> QED
  BY <1>5, <1>6

\* One TrxID, one transaction (the partial UNIQUE index of migration 017 and
\* the checks of attachAndAward).
THEOREM HeldOnce == Spec => []TrxIdHeldOnce
<1>1. Init => TrxIdHeldOnce
  BY DEF Init, TrxIdHeldOnce
<1>2. TypeOK /\ TrxIdHeldOnce /\ [Next]_vars => TrxIdHeldOnce'
  BY HeldOnceStep
<1> QED
  BY <1>1, <1>2, TypeCorrect, PTL DEF Spec

-----------------------------------------------------------------------------
\* Once t is approved and holds the TrxID of s, no step takes either away.
LEMMA EvidenceStays ==
    ASSUME TypeOK, [Next]_vars, NEW t \in Txn, status[t] = "approved"
    PROVE  status'[t] = "approved" /\ (trx[t] # NoTrx => trx'[t] = trx[t])
<1>1. CASE UNCHANGED vars
  BY <1>1 DEF vars
<1>2. CASE \E u \in Txn : Request(u) \/ BillingReject(u)
  BY <1>2 DEF Request, BillingReject, TypeOK
<1>3. CASE \E u \in Txn : BillingApprove(u)
  BY <1>3 DEF BillingApprove, Award, TypeOK
<1>4. CASE \E u \in Txn, x \in TrxId : SubmitTrx(u, x)
  BY <1>4 DEF SubmitTrx, TypeOK
<1>5. CASE \E s \in Sms : PaymentReject(s)
  BY <1>5 DEF PaymentReject, TypeOK
<1>6. CASE \E s \in Sms, u \in Txn : AttachAndAward(s, u)
  BY <1>6 DEF AttachAndAward, Award, TypeOK
<1>7. CASE (\E s \in Sms : Ingest(s)) \/ (\E r \in Rule : Configure(r)) \/ Day
  BY <1>7 DEF Ingest, Configure, Day
<1>8. CASE Next
  BY <1>8, Steps, <1>2, <1>3, <1>4, <1>5, <1>6, <1>7
<1> QED
  BY <1>1, <1>8

\* While the TrxID of s is held by an approved transaction, no other
\* transaction can come to hold it.
LEMMA NoSecondHolder ==
    ASSUME TypeOK, [Next]_vars, NEW s \in Sms, NEW t \in Txn,
           status[t] = "approved", Holders(TrxOf[s]) = {t}
    PROVE  Holders(TrxOf[s])' = {t}
<1>1. trx[t] = TrxOf[s] /\ TrxOf[s] # NoTrx
  BY PaymentsAssumption DEF Holders
<1>2. trx'[t] = TrxOf[s]
  BY <1>1, EvidenceStays
<1>3. SUFFICES ASSUME NEW u \in Txn, u # t PROVE trx'[u] # TrxOf[s]
  BY <1>2 DEF Holders
<1>4. trx[u] # TrxOf[s]
  BY <1>3 DEF Holders
<1>5. CASE UNCHANGED vars
  BY <1>4, <1>5 DEF vars
<1>6. CASE \E v \in Txn, x \in TrxId : SubmitTrx(v, x)
  <2>1. PICK v \in Txn, x \in TrxId : SubmitTrx(v, x)
    BY <1>6
  <2>2. x # TrxOf[s]
    BY <2>1, <1>1 DEF SubmitTrx, Holders
  <2> QED
    BY <2>1, <2>2, <1>4 DEF SubmitTrx, TypeOK
<1>7. CASE \E q \in Sms : PaymentReject(q)
  BY <1>7, <1>4, <1>1 DEF PaymentReject, TypeOK
<1>8. CASE \E q \in Sms, v \in Txn : AttachAndAward(q, v)
  <2>1. PICK q \in Sms, v \in Txn : AttachAndAward(q, v)
    BY <1>8
  <2>2. v # t
    BY <2>1 DEF AttachAndAward, Award
  <2>3. TrxOf[q] # TrxOf[s]
    BY <2>1, <2>2, <1>1 DEF AttachAndAward, Holders
  <2> QED
    BY <2>1, <2>3, <1>4 DEF AttachAndAward, TypeOK
<1>9. CASE trx' = trx
  BY <1>9, <1>4
<1>10. CASE Next
  <2>1. \/ trx' = trx
        \/ \E v \in Txn, x \in TrxId : SubmitTrx(v, x)
        \/ \E q \in Sms : PaymentReject(q)
        \/ \E q \in Sms, v \in Txn : AttachAndAward(q, v)
    BY <1>10, Steps DEF Request, BillingApprove, BillingReject, Ingest, Configure, Day
  <2> QED
    BY <2>1, <1>6, <1>7, <1>8, <1>9
<1> QED
  BY <1>5, <1>10

\* A payment becomes approved only by an attachment.
LEMMA NewVerdict ==
    ASSUME TypeOK, [Next]_vars, NEW s \in Sms, review'[s] = "approved", review[s] # "approved"
    PROVE  \E t \in Txn : AttachAndAward(s, t)
<1>1. review' # review
  OBVIOUS
<1>2. Next
  BY <1>1 DEF vars
<1>3. ~\E q \in Sms : Ingest(q)
  BY DEF Ingest, TypeOK
<1>4. ~\E q \in Sms : PaymentReject(q)
  BY DEF PaymentReject, TypeOK
<1>5. \E q \in Sms, t \in Txn : AttachAndAward(q, t)
  BY <1>1, <1>2, <1>3, <1>4, Steps
     DEF Request, BillingApprove, BillingReject, SubmitTrx, Configure, Day
<1>6. PICK q \in Sms, t \in Txn : AttachAndAward(q, t)
  BY <1>5
<1>7. q = s
  BY <1>6 DEF AttachAndAward, TypeOK
<1> QED
  BY <1>6, <1>7

\* No step gives the TrxID of an approved payment a second holder, or none.
LEMMA FundsOneStep ==
    ASSUME TypeOK, PaymentFundsOne, [Next]_vars
    PROVE  PaymentFundsOne'
<1> SUFFICES ASSUME NEW s \in Sms, review'[s] = "approved"
             PROVE  \E t \in Txn : status'[t] = "approved" /\ Holders(TrxOf[s])' = {t}
  BY DEF PaymentFundsOne, Holders
<1>1. CASE review[s] = "approved"
  <2>1. PICK t \in Txn : status[t] = "approved" /\ Holders(TrxOf[s]) = {t}
    BY <1>1 DEF PaymentFundsOne
  <2>2. status'[t] = "approved"
    BY <2>1, EvidenceStays
  <2>3. Holders(TrxOf[s])' = {t}
    BY <2>1, NoSecondHolder
  <2> QED
    BY <2>2, <2>3
<1>2. CASE review[s] # "approved"
  <2>1. PICK t \in Txn : AttachAndAward(s, t)
    BY <1>2, NewVerdict
  <2>2. status'[t] = "approved"
    BY <2>1 DEF AttachAndAward, Award, TypeOK
  <2>3. Holders(TrxOf[s])' = {t}
    BY <2>1 DEF AttachAndAward, Holders, TypeOK
  <2> QED
    BY <2>2, <2>3
<1> QED
  BY <1>1, <1>2

\* The evidence behind an approved payment row: exactly one approved
\* transaction holds its TrxID (attachAndAward, reject).
THEOREM FundsOne == Spec => []PaymentFundsOne
<1>1. Init => PaymentFundsOne
  BY DEF Init, PaymentFundsOne
<1>2. TypeOK /\ PaymentFundsOne /\ [Next]_vars => PaymentFundsOne'
  BY FundsOneStep
<1> QED
  BY <1>1, <1>2, TypeCorrect, PTL DEF Spec

-----------------------------------------------------------------------------
\* A verdict stays: a second approval finds the holder approved, a rejection
\* is refused, an upload of the same TrxID is ignored.
LEMMA VerdictStays ==
    ASSUME TypeOK, PaymentFundsOne, [Next]_vars, NEW s \in Sms, review[s] = "approved"
    PROVE  review'[s] = "approved"
<1>1. PICK t \in Txn : status[t] = "approved" /\ Holders(TrxOf[s]) = {t}
  BY DEF PaymentFundsOne
<1>2. CASE review' = review
  BY <1>2
<1>3. CASE \E q \in Sms : Ingest(q)
  BY <1>3 DEF Ingest, TypeOK
<1>4. CASE \E q \in Sms : PaymentReject(q)
  <2>1. PICK q \in Sms : PaymentReject(q)
    BY <1>4
  <2>2. q # s
    BY <2>1, <1>1 DEF PaymentReject
  <2> QED
    BY <2>1, <2>2 DEF PaymentReject, TypeOK
<1>5. CASE \E q \in Sms, u \in Txn : AttachAndAward(q, u)
  BY <1>5 DEF AttachAndAward, TypeOK
<1>6. CASE UNCHANGED vars
  BY <1>6, <1>2 DEF vars
<1>7. CASE Next
  <2>1. \/ review' = review
        \/ \E q \in Sms : Ingest(q)
        \/ \E q \in Sms : PaymentReject(q)
        \/ \E q \in Sms, u \in Txn : AttachAndAward(q, u)
    BY <1>7, Steps DEF Request, BillingApprove, BillingReject, SubmitTrx, Configure, Day
  <2> QED
    BY <2>1, <1>2, <1>3, <1>4, <1>5
<1> QED
  BY <1>6, <1>7

\* An award and its evidence are for ever, on every path.
THEOREM AwardsAreFinal == Spec => AwardIsFinal
<1>1. TypeOK /\ PaymentFundsOne /\ [Next]_vars =>
          [/\ \A t \in Txn : status[t] = "approved" =>
                  status'[t] = "approved" /\ (trx[t] # NoTrx => trx'[t] = trx[t])
           /\ \A s \in Sms : review[s] = "approved" => review'[s] = "approved"]_vars
  BY EvidenceStays, VerdictStays
<1> QED
  BY <1>1, TypeCorrect, FundsOne, PTL DEF Spec, AwardIsFinal

\* Every award takes the later of the wallet's expiry and its own (credits.ts:80-96).
LEMMA ExpiryGrows ==
    ASSUME TypeOK, [Next]_vars, NEW b \in Bucket
    PROVE  expires'[b] >= expires[b]
<1>1. expires[b] \in Nat
  BY DEF TypeOK
<1>2. CASE expires' = expires
  BY <1>1, <1>2
<1>3. ASSUME NEW t \in Txn, Award(t) PROVE expires'[b] >= expires[b]
  <2>1. now + Validity[t] \in Nat
    BY PaymentsAssumption DEF TypeOK
  <2> QED
    BY <1>1, <1>3, <2>1 DEF Award, LaterOf, TypeOK
<1>4. \/ expires' = expires
      \/ \E t \in Txn : Award(t)
  BY Steps DEF Request, BillingApprove, BillingReject, SubmitTrx, Ingest, PaymentReject,
       AttachAndAward, Configure, Day, vars
<1> QED
  BY <1>2, <1>3, <1>4

\* Buying more never shortens what was paid for, and no award loses its evidence.
THEOREM AwardsStay == Spec => AwardsStand
<1>1. TypeOK /\ [Next]_vars => [\A b \in Bucket : expires'[b] >= expires[b]]_vars
  BY ExpiryGrows
<1> QED
  BY <1>1, TypeCorrect, AwardsAreFinal, PTL DEF Spec, AwardsStand, ExpiryNeverShrinks

-----------------------------------------------------------------------------
(* Sums over a finite set, as MapThenSumSet takes them. *)

\* The element that a sum takes first, and a function that holds the sums of the subsets of S.
First(s) == CHOOSE x \in s : TRUE
AddsUp(g, f, s) == g[s] = IF s = {} THEN 0 ELSE f[First(s)] + g[s \ {First(s)}]
Sums(f, S) ==
    CHOOSE g : g = [s \in SUBSET S |-> IF s = {} THEN 0 ELSE f[First(s)] + g[s \ {First(s)}]]
Total(f, S) == MapThenSumSet(LAMBDA x : f[x], S)

\* The recursion that the community module defines.
LEMMA TotalIs == \A f, S : Total(f, S) = Sums(f, S)[S]
BY DEF Total, MapThenSumSet, MapThenFoldSet, Sums, First

\* A set that is not empty has the element.
LEMMA FirstIsIn == \A s : s # {} => First(s) \in s
BY DEF First

\* Of numbers there is a least, and of the subsets of a finite set one with no smaller in it.
LEMMA LeastNumber ==
    ASSUME NEW B, B \subseteq Nat, B # {}
    PROVE  \E m \in B : \A k \in B : m <= k
<1>1. PICK m \in B : \A k \in B : ~(<<k, m>> \in OpToRel(<, Nat))
  BY NatLessThanWellFounded, WFMin
<1>2. ASSUME NEW k \in B PROVE m <= k
  <2>1. ~(k < m)
    BY <1>1 DEF OpToRel
  <2> QED
    BY <2>1
<1> QED
  BY <1>2

\* Of some subsets of a finite set one contains no other.
LEMMA LeastSubset ==
    ASSUME NEW S, IsFiniteSet(S), NEW B, B \subseteq SUBSET S, B # {}
    PROVE  \E s \in B : \A r \in SUBSET s : r # s => r \notin B
<1> DEFINE sizes == {Cardinality(s) : s \in B}
<1>1. \A s \in B : IsFiniteSet(s) /\ Cardinality(s) \in Nat
  BY FS_Subset, FS_CardinalityType
<1>2. sizes \subseteq Nat /\ sizes # {}
  BY <1>1
<1>3. PICK m \in sizes : \A k \in sizes : m <= k
  BY <1>2, LeastNumber
<1>4. PICK s \in B : m = Cardinality(s)
  BY <1>3
<1>5. ASSUME NEW r \in SUBSET s, r \in B PROVE r = s
  <2>1. Cardinality(s) <= Cardinality(r)
    BY <1>3, <1>4, <1>5
  <2>2. Cardinality(r) <= Cardinality(s) /\ (Cardinality(s) = Cardinality(r) => s = r)
    BY <1>1, <1>4, FS_Subset
  <2>3. Cardinality(s) \in Nat /\ Cardinality(r) \in Nat
    BY <1>1, <1>5
  <2> QED
    BY <2>1, <2>2, <2>3
<1> QED
  BY <1>5

\* The sums of the subsets with up to k elements, and so of all of them, are there.
LEMMA SumsUpTo ==
    ASSUME NEW S, IsFiniteSet(S), NEW f, \A x \in S : f[x] \in Nat, NEW k \in Nat
    PROVE  \E g \in [SUBSET S -> Nat] :
               \A s \in SUBSET S : Cardinality(s) <= k => AddsUp(g, f, s)
<1> DEFINE Good(n) == \E g \in [SUBSET S -> Nat] :
                          \A s \in SUBSET S : Cardinality(s) <= n => AddsUp(g, f, s)
           bad == {n \in Nat : ~Good(n)}
<1>1. \A s \in SUBSET S : IsFiniteSet(s) /\ Cardinality(s) \in Nat
  BY FS_Subset, FS_CardinalityType
<1>2. ASSUME bad # {} PROVE FALSE
  <2>1. PICK m \in bad : \A n \in bad : m <= n
    <3>1. bad \subseteq Nat
      OBVIOUS
    <3> HIDE DEF bad
    <3> QED
      BY <1>2, <3>1, LeastNumber
  <2>2. CASE m = 0
    <3> DEFINE g == [s \in SUBSET S |-> 0]
    <3>1. \A s \in SUBSET S : Cardinality(s) <= 0 => s = {}
      BY <1>1, FS_EmptySet
    <3>2. g \in [SUBSET S -> Nat] /\ \A s \in SUBSET S : Cardinality(s) <= 0 => AddsUp(g, f, s)
      BY <3>1 DEF AddsUp
    <3> QED
      BY <2>1, <2>2, <3>2
  <2>3. CASE m # 0
    <3>1. m - 1 \in Nat /\ m - 1 \notin bad
      <4>1. m \in Nat
        OBVIOUS
      <4> HIDE DEF bad
      <4>2. \A n \in bad : m <= n
        BY <2>1
      <4> QED
        BY <2>3, <4>1, <4>2
    <3>2. PICK g \in [SUBSET S -> Nat] : \A s \in SUBSET S : Cardinality(s) <= m - 1 => AddsUp(g, f, s)
      BY <3>1
    <3> DEFINE h == [s \in SUBSET S |-> IF Cardinality(s) = m THEN f[First(s)] + g[s \ {First(s)}]
                                        ELSE g[s]]
    <3>3. \A s \in SUBSET S : s # {} =>
            /\ First(s) \in S /\ s \ {First(s)} \in SUBSET S
            /\ Cardinality(s \ {First(s)}) = Cardinality(s) - 1
      BY <1>1, FirstIsIn, FS_RemoveElement
    <3>4. \A s \in SUBSET S : Cardinality(s) = m => s # {}
      BY <2>3, FS_EmptySet
    <3>5. h \in [SUBSET S -> Nat]
      <4> SUFFICES ASSUME NEW s \in SUBSET S PROVE h[s] \in Nat
        OBVIOUS
      <4>1. CASE Cardinality(s) = m
        <5>1. f[First(s)] \in Nat /\ g[s \ {First(s)}] \in Nat
          BY <3>3, <3>4, <4>1
        <5> QED
          BY <4>1, <5>1
      <4> QED
        BY <4>1
    <3>6. ASSUME NEW s \in SUBSET S, Cardinality(s) <= m PROVE AddsUp(h, f, s)
      <4>1. CASE s = {}
        <5>1. Cardinality(s) = 0
          BY <4>1, FS_EmptySet
        <5>2. AddsUp(g, f, s) /\ h[s] = g[s]
          BY <2>3, <3>1, <3>2, <5>1
        <5> QED
          BY <4>1, <5>2 DEF AddsUp
      <4>2. CASE s # {}
        <5> DEFINE r == s \ {First(s)}
        <5>1. r \in SUBSET S /\ Cardinality(r) = Cardinality(s) - 1 /\ Cardinality(s) \in Nat
          BY <1>1, <3>3, <4>2
        <5>2. Cardinality(r) # m
          BY <2>1, <3>6, <5>1
        <5>3. h[r] = g[r]
          BY <5>1, <5>2
        <5>4. h[s] = f[First(s)] + g[r]
          <6>1. CASE Cardinality(s) = m
            BY <6>1
          <6>2. CASE Cardinality(s) # m
            <7>1. Cardinality(s) <= m - 1
              BY <2>1, <3>6, <5>1, <6>2
            <7> QED
              BY <3>2, <4>2, <6>2, <7>1 DEF AddsUp
          <6> QED
            BY <6>1, <6>2
        <5> QED
          BY <4>2, <5>3, <5>4 DEF AddsUp
      <4> QED
        BY <4>1, <4>2
    <3> HIDE DEF h
    <3> QED
      BY <2>1, <3>5, <3>6
  <2> QED
    BY <2>2, <2>3
<1> QED
  BY <1>2

\* A function of subsets that adds up exists, and it is the sum.
LEMMA SumsAre ==
    ASSUME NEW S, IsFiniteSet(S), NEW f, \A x \in S : f[x] \in Nat
    PROVE  /\ Sums(f, S) \in [SUBSET S -> Nat]
           /\ \A s \in SUBSET S : AddsUp(Sums(f, S), f, s)
<1>1. Cardinality(S) \in Nat /\ \A s \in SUBSET S : Cardinality(s) <= Cardinality(S)
  BY FS_Subset, FS_CardinalityType
<1>2. PICK g \in [SUBSET S -> Nat] : \A s \in SUBSET S : AddsUp(g, f, s)
  BY <1>1, SumsUpTo
<1> DEFINE G(h) == [s \in SUBSET S |-> IF s = {} THEN 0 ELSE f[First(s)] + h[s \ {First(s)}]]
<1>3. g = G(g)
  BY <1>2 DEF AddsUp
<1>4. Sums(f, S) = G(Sums(f, S))
  BY <1>3 DEF Sums
<1>5. \A s \in SUBSET S : AddsUp(Sums(f, S), f, s)
  BY <1>4 DEF AddsUp
<1>6. ASSUME NEW s \in SUBSET S PROVE Sums(f, S)[s] = g[s]
  <2> DEFINE bad == {r \in SUBSET S : Sums(f, S)[r] # g[r]}
  <2>1. ASSUME bad # {} PROVE FALSE
    <3>1. PICK r \in bad : \A q \in SUBSET r : q # r => q \notin bad
      <4>1. bad \subseteq SUBSET S
        OBVIOUS
      <4> HIDE DEF bad
      <4> QED
        BY <2>1, <4>1, LeastSubset
    <3>2. CASE r = {}
      BY <1>2, <1>5, <3>1, <3>2 DEF AddsUp
    <3>3. CASE r # {}
      <4>1. First(r) \in r /\ r \ {First(r)} # r /\ r \ {First(r)} \in SUBSET r
        BY <3>3, FirstIsIn
      <4>2. Sums(f, S)[r \ {First(r)}] = g[r \ {First(r)}]
        BY <3>1, <4>1
      <4> QED
        BY <1>2, <1>5, <3>1, <3>3, <4>2 DEF AddsUp
    <3> QED
      BY <3>2, <3>3
  <2> QED
    BY <2>1
<1>7. Sums(f, S) \in [SUBSET S -> Nat]
  <2>1. \A s \in SUBSET S : Sums(f, S)[s] \in Nat
    BY <1>6
  <2> QED
    BY <1>4, <2>1
<1> QED
  BY <1>5, <1>7

\* Any other element may be taken first.
LEMMA AnyIsFirst ==
    ASSUME NEW S, IsFiniteSet(S), NEW f, \A x \in S : f[x] \in Nat,
           NEW g \in [SUBSET S -> Nat], \A s \in SUBSET S : AddsUp(g, f, s),
           NEW s \in SUBSET S, NEW t \in s
    PROVE  g[s] = f[t] + g[s \ {t}]
<1> DEFINE bad == {r \in SUBSET S : \E x \in r : g[r] # f[x] + g[r \ {x}]}
<1>1. ASSUME bad # {} PROVE FALSE
  <2>1. PICK r \in bad : \A q \in SUBSET r : q # r => q \notin bad
    <3>1. bad \subseteq SUBSET S
      OBVIOUS
    <3> HIDE DEF bad
    <3> QED
      BY <1>1, <3>1, LeastSubset
  <2>2. PICK x \in r : g[r] # f[x] + g[r \ {x}]
    BY <2>1
  <2> DEFINE y == First(r)
  <2>3. r \in SUBSET S /\ r # {} /\ y \in r
    BY <2>2, FirstIsIn
  <2> HIDE DEF y
  <2>4. g[r] = f[y] + g[r \ {y}]
    BY <2>3 DEF AddsUp, y
  <2>5. x # y
    BY <2>2, <2>4
  <2>6. \A q \in SUBSET r : q # r => \A z \in q : g[q] = f[z] + g[q \ {z}]
    BY <2>1, <2>3
  <2>7. g[r \ {y}] = f[x] + g[(r \ {y}) \ {x}]
    BY <2>3, <2>5, <2>6
  <2>8. g[r \ {x}] = f[y] + g[(r \ {x}) \ {y}]
    BY <2>2, <2>3, <2>5, <2>6
  <2>9. (r \ {x}) \ {y} = (r \ {y}) \ {x} /\ (r \ {x}) \ {y} \in SUBSET S
    BY <2>3
  <2>10. f[x] \in Nat /\ f[y] \in Nat /\ g[(r \ {x}) \ {y}] \in Nat
    BY <2>3, <2>9
  <2> DEFINE c == g[(r \ {x}) \ {y}]
  <2>11. g[r \ {y}] = f[x] + c /\ g[r \ {x}] = f[y] + c
    BY <2>7, <2>8, <2>9
  <2>12. c \in Nat
    BY <2>10
  <2> HIDE DEF c, bad
  <2>13. f[y] + (f[x] + c) = f[x] + (f[y] + c)
    BY <2>10, <2>12
  <2> QED
    BY <2>2, <2>4, <2>11, <2>13
<1> QED
  BY <1>1

\* The sums of a subset are those of the set.
LEMMA SumsAgree ==
    ASSUME NEW S, IsFiniteSet(S), NEW f, \A x \in S : f[x] \in Nat, NEW T \in SUBSET S
    PROVE  Sums(f, T)[T] = Sums(f, S)[T]
<1>1. IsFiniteSet(T) /\ \A x \in T : f[x] \in Nat
  BY FS_Subset
<1>2. \A s \in SUBSET T : AddsUp(Sums(f, T), f, s) /\ AddsUp(Sums(f, S), f, s)
  BY <1>1, SumsAre
<1> DEFINE bad == {s \in SUBSET T : Sums(f, T)[s] # Sums(f, S)[s]}
<1>3. ASSUME bad # {} PROVE FALSE
  <2>1. PICK r \in bad : \A q \in SUBSET r : q # r => q \notin bad
    <3>1. bad \subseteq SUBSET T
      OBVIOUS
    <3> HIDE DEF bad
    <3> QED
      BY <1>1, <1>3, <3>1, LeastSubset
  <2>2. CASE r = {}
    BY <1>2, <2>1, <2>2 DEF AddsUp
  <2>3. CASE r # {}
    <3>1. First(r) \in r /\ r \ {First(r)} # r /\ r \ {First(r)} \in SUBSET r
      BY <2>3, FirstIsIn
    <3>2. Sums(f, T)[r \ {First(r)}] = Sums(f, S)[r \ {First(r)}]
      BY <2>1, <3>1
    <3> QED
      BY <1>2, <2>1, <2>3, <3>2 DEF AddsUp
  <2> QED
    BY <2>2, <2>3
<1> QED
  BY <1>3

\* Nothing sums to 0; one more adds its own.
LEMMA TotalOfNone == \A f : Total(f, {}) = 0
<1> SUFFICES ASSUME NEW f PROVE Total(f, {}) = 0
  OBVIOUS
<1>1. IsFiniteSet({})
  BY FS_EmptySet
<1>2. AddsUp(Sums(f, {}), f, {})
  BY <1>1, SumsAre
<1> QED
  BY <1>2, TotalIs DEF AddsUp

\* One more element adds its own to the sum.
LEMMA TotalOfOneMore ==
    ASSUME NEW S, IsFiniteSet(S), NEW t, t \notin S, NEW f, \A x \in S \union {t} : f[x] \in Nat
    PROVE  Total(f, S \union {t}) = f[t] + Total(f, S)
<1> DEFINE U == S \union {t}
<1>1. IsFiniteSet(U)
  BY FS_AddElement
<1>2. /\ Sums(f, U) \in [SUBSET U -> Nat]
      /\ \A s \in SUBSET U : AddsUp(Sums(f, U), f, s)
  BY <1>1, SumsAre
<1>3. U \in SUBSET U /\ t \in U /\ U \ {t} = S /\ S \in SUBSET U /\ \A x \in U : f[x] \in Nat
  OBVIOUS
<1> HIDE DEF U
<1>4. Sums(f, U)[U] = f[t] + Sums(f, U)[U \ {t}]
  <2>1. ASSUME NEW g \in [SUBSET U -> Nat], \A s \in SUBSET U : AddsUp(g, f, s)
        PROVE  g[U] = f[t] + g[U \ {t}]
    <3>1. \A s \in SUBSET U : AddsUp(g, f, s)
      BY <2>1
    <3>2. U \in SUBSET U /\ t \in U
      BY <1>3
    <3>3. \A x \in U : f[x] \in Nat
      BY <1>3
    <3> QED
      BY <1>1, <3>1, <3>2, <3>3, AnyIsFirst
  <2> QED
    BY <1>2, <2>1
<1>5. Sums(f, S)[S] = Sums(f, U)[S]
  BY <1>1, <1>3, SumsAgree
<1> QED
  BY <1>3, <1>4, <1>5, TotalIs DEF U

\* The transactions whose credits a bucket has.
Awarded(b) == {t \in Txn : status[t] = "approved" /\ b \in Buckets[t]}

\* The property, in the words of the lemmas.
LEMMA AwardsAre == CreditsAreAwards <=> \A b \in Bucket : credits[b] = Total(Quota, Awarded(b))
BY DEF CreditsAreAwards, Total, Awarded

\* Credits are only awarded, and each award adds its own.
LEMMA CreditsStep ==
    ASSUME TypeOK, CreditsAreAwards, [Next]_vars
    PROVE  CreditsAreAwards'
<1> DEFINE Adding == \A b \in Bucket : credits[b] = Total(Quota, Awarded(b))
<1>0. (CreditsAreAwards <=> Adding)'
  BY AwardsAre, PTL
<1>1. \A b \in Bucket : credits[b] = Total(Quota, Awarded(b))
  BY AwardsAre
<1>2. ASSUME NEW t \in Txn, Award(t) PROVE CreditsAreAwards'
  <2> SUFFICES ASSUME NEW b \in Bucket PROVE credits'[b] = Total(Quota, Awarded(b)')
    BY <1>0
  <2>1. status[t] = "pending" /\ status' = [status EXCEPT ![t] = "approved"]
        /\ credits'[b] = IF b \in Buckets[t] THEN credits[b] + Quota[t] ELSE credits[b]
    BY <1>2 DEF Award
  <2>2. CASE b \in Buckets[t]
    <3>1. Awarded(b)' = Awarded(b) \union {t} /\ t \notin Awarded(b)
      BY <2>1, <2>2 DEF Awarded, TypeOK
    <3>2. IsFiniteSet(Awarded(b)) /\ Awarded(b) \subseteq Txn
      BY PaymentsAssumption, FS_Subset DEF Awarded
    <3>3. Quota[t] \in Nat /\ \A x \in Awarded(b) \union {t} : Quota[x] \in Nat
      BY <3>2, PaymentsAssumption
    <3>4. Total(Quota, Awarded(b) \union {t}) = Quota[t] + Total(Quota, Awarded(b))
      BY <3>1, <3>2, <3>3, TotalOfOneMore
    <3>5. credits[b] \in Nat /\ credits'[b] = credits[b] + Quota[t]
      BY <2>1, <2>2 DEF TypeOK
    <3> QED
      BY <1>1, <3>1, <3>3, <3>4, <3>5
  <2>3. CASE b \notin Buckets[t]
    <3>1. Awarded(b)' = Awarded(b)
      BY <2>1, <2>3 DEF Awarded, TypeOK
    <3> QED
      BY <1>1, <2>1, <2>3, <3>1
  <2> QED
    BY <2>2, <2>3
<1>3. ASSUME credits' = credits, \A t \in Txn : status'[t] = "approved" <=> status[t] = "approved"
      PROVE  CreditsAreAwards'
  <2>1. \A b \in Bucket : Awarded(b)' = Awarded(b)
    BY <1>3 DEF Awarded
  <2> QED
    BY <1>0, <1>1, <1>3, <2>1
<1>4. CASE UNCHANGED vars
  BY <1>3, <1>4 DEF vars
<1>5. ASSUME NEW t \in Txn, Request(t) \/ BillingReject(t) PROVE CreditsAreAwards'
  BY <1>3, <1>5 DEF Request, BillingReject, TypeOK
<1>6. ASSUME NEW t \in Txn, BillingApprove(t) PROVE CreditsAreAwards'
  BY <1>2, <1>6 DEF BillingApprove
<1>7. ASSUME NEW s \in Sms, NEW t \in Txn, AttachAndAward(s, t) PROVE CreditsAreAwards'
  BY <1>2, <1>7 DEF AttachAndAward
<1>8. ASSUME \/ \E t \in Txn, x \in TrxId : SubmitTrx(t, x)
             \/ \E s \in Sms : Ingest(s) \/ PaymentReject(s)
             \/ \E r \in Rule : Configure(r)
             \/ Day
      PROVE  CreditsAreAwards'
  <2>1. credits' = credits /\ status' = status
    BY <1>8 DEF SubmitTrx, Ingest, PaymentReject, Configure, Day
  <2> QED
    BY <1>3, <2>1
<1> QED
  BY <1>4, <1>5, <1>6, <1>7, <1>8, Steps

\* The credits of a wallet or an app are the quotas of its approved transactions, each once,
\* on whichever path they were approved (awardPendingTransaction, services/credits.ts).
THEOREM CreditsAdd == Spec => []CreditsAreAwards
<1>1. Init => CreditsAreAwards
  <2> SUFFICES ASSUME Init PROVE CreditsAreAwards
    OBVIOUS
  <2>1. \A b \in Bucket : Awarded(b) = {} /\ credits[b] = 0
    BY DEF Init, Awarded
  <2> QED
    BY <2>1, TotalOfNone, AwardsAre
<1>2. TypeOK /\ CreditsAreAwards /\ [Next]_vars => CreditsAreAwards'
  BY CreditsStep
<1> QED
  BY <1>1, <1>2, TypeCorrect, PTL DEF Spec

\* An award is paid by one transfer, once, and the credits are the awards'.
THEOREM AwardsPaid == Spec => []AwardsArePaid
<1>1. TrxIdHeldOnce /\ PaymentFundsOne /\ CreditsAreAwards => AwardsArePaid
  BY DEF AwardsArePaid
<1> QED
  BY <1>1, HeldOnce, FundsOne, CreditsAdd, PTL

-----------------------------------------------------------------------------
(* COMPOSER: the screens that make a bulk campaign.                         *)

\* The requests of the screen that is there, and among them a submission.
Here(q) == ask[q] # Blank /\ ask[q].stays
Submits(q) == Here(q) /\ ask[q].kind \in {"create", "again"}

\* A request: a submission has a checksum, and so does an answered preview, of its own list.
AskTyped(a) ==
    a # Blank =>
        /\ a \in BulkRequest
        /\ a.kind = "create" => a.sum \in Reading
        /\ a.kind # "create" /\ a.reply = "ok" => a.sum \in Reading /\ a.sum[1] = a.list

\* The variables keep their types.
ComposerTyped ==
    /\ open \in Screen
    /\ {source, pasted, csv} \subseteq List \union {Blank}
    /\ preview \in Reading \union {Blank} /\ parser \in 0..MaxParser
    /\ {previewing, submitting, created, crossed} \subseteq BOOLEAN
    /\ asks \in 0..MaxAsks
    /\ ask \in [Ask -> BulkRequest \union {Blank}] /\ \A q \in Ask : AskTyped(ask[q])
    /\ sent \in [Reading -> Nat] /\ seen \in [Reading -> Nat] /\ lost \in [Reading -> Nat]

\* Requests of the screen that is there wait for each other, but for the web's
\* previews while the user turns to another list.
Waiting ==
    /\ \A q \in Ask : Submits(q) => submitting
    /\ \A q, r \in Ask : Submits(q) /\ Submits(r) => q = r
    /\ Is("web") => \A q \in Ask : Here(q) => ~ask[q].creates
    /\ ~Is("web") \/ ~crossed =>
          /\ \A q, r \in Ask : Here(q) /\ Here(r) => q = r
          /\ \A q \in Ask : Here(q) => submitting \/ previewing

\* The submissions of a reading that the server has not seen.
Pending(s) ==
    {q \in Ask : ask[q] # Blank /\ ask[q].kind = "create" /\ ask[q].reply = Blank /\ ask[q].sum = s}

\* The preview on the screen is one that a submission under way will take with it.
Covers(q, s) ==
    Here(q) /\ ask[q].kind = "create" /\ ask[q].sum = s /\ ask[q].reply \in {Blank, "ok"}

\* Whether the preview on the screen may still be submitted.
Spare(s) == IF preview = s /\ ~\E q \in Ask : Covers(q, s) THEN 1 ELSE 0

\* A preview on the screen, and a submission under way, may each be sent once more.
Budgeted == \A s \in Reading : sent[s] + Cardinality(Pending(s)) + Spare(s) <= seen[s] + lost[s]

\* The web's preview, and the list to submit, are of the source.
OfSource ==
    Is("web") /\ ~crossed =>
        /\ csv # Blank => csv = source
        /\ preview # Blank => preview[1] = source
        /\ \A q \in Ask : Here(q) => ask[q].list = source

\* The inductive invariant.
ComposerInv == ComposerTyped /\ Waiting /\ Budgeted /\ OfSource

\* What is not there is none of the values that may be.
LEMMA NotBlank ==
    /\ Blank \notin List /\ Blank \notin Reading /\ Blank \notin BulkRequest
    /\ Blank \notin {"ok", "mismatch", "error"}
BY ComposerAssumption DEF ComposerAssumption

\* Submissions under way can be counted.
LEMMA PendingFinite == \A s : IsFiniteSet(Pending(s)) /\ Cardinality(Pending(s)) \in Nat
<1>1. ASSUME NEW s PROVE IsFiniteSet(Pending(s))
  <2>1. Pending(s) \subseteq Ask
    BY DEF Pending
  <2> QED
    BY <2>1, FS_Subset, ComposerAssumption DEF ComposerAssumption
<1> QED
  BY <1>1, FS_CardinalityType

\* A request that changes from a to b, and nothing else that is counted.
Weight(a, s) == IF a # Blank /\ a.kind = "create" /\ a.reply = Blank /\ a.sum = s THEN 1 ELSE 0

\* A request that becomes another counts by what it was and by what it is.
LEMMA PendingChanges ==
    ASSUME ComposerTyped, NEW q \in Ask, NEW b, ask' = [ask EXCEPT ![q] = b], NEW s
    PROVE  /\ Cardinality(Pending(s)') + Weight(ask[q], s) = Cardinality(Pending(s)) + Weight(b, s)
           /\ Cardinality(Pending(s)') \in Nat /\ Cardinality(Pending(s)) \in Nat
<1>1. ask \in [Ask -> BulkRequest \union {Blank}]
  BY DEF ComposerTyped
<1>2. \A r \in Ask : ask'[r] = IF r = q THEN b ELSE ask[r]
  BY <1>1
<1>3. \A r \in Ask : r \in Pending(s) <=> Weight(ask[r], s) = 1
  BY DEF Pending, Weight
<1>4. \A r \in Ask : r \in Pending(s)' <=> Weight(ask'[r], s) = 1
  BY DEF Pending, Weight
<1>5. Pending(s) \subseteq Ask /\ Pending(s)' \subseteq Ask
  BY DEF Pending
<1>6. IsFiniteSet(Pending(s)) /\ IsFiniteSet(Pending(s)') /\ IsFiniteSet(Pending(s) \ {q})
  BY <1>5, FS_Subset, ComposerAssumption DEF ComposerAssumption
<1>7. Cardinality(Pending(s)) \in Nat /\ Cardinality(Pending(s)') \in Nat
  BY <1>6, FS_CardinalityType
<1>8. Weight(ask[q], s) \in {0, 1} /\ Weight(b, s) \in {0, 1}
  BY DEF Weight
<1>9. CASE Weight(ask[q], s) = Weight(b, s)
  <2>1. Pending(s)' = Pending(s)
    BY <1>2, <1>3, <1>4, <1>5, <1>9
  <2> QED
    BY <2>1, <1>7, <1>8, <1>9
<1>10. CASE Weight(ask[q], s) = 1 /\ Weight(b, s) = 0
  <2>1. Pending(s)' = Pending(s) \ {q} /\ q \in Pending(s)
    BY <1>2, <1>3, <1>4, <1>5, <1>10
  <2>2. Cardinality(Pending(s) \ {q}) = Cardinality(Pending(s)) - 1
    BY <2>1, <1>6, FS_RemoveElement
  <2> QED
    BY <2>1, <2>2, <1>7, <1>10
<1>11. CASE Weight(ask[q], s) = 0 /\ Weight(b, s) = 1
  <2>1. Pending(s)' = Pending(s) \union {q} /\ q \notin Pending(s)
    BY <1>2, <1>3, <1>4, <1>5, <1>11
  <2>2. Cardinality(Pending(s) \union {q}) = Cardinality(Pending(s)) + 1
    BY <2>1, <1>6, FS_AddElement
  <2> QED
    BY <2>1, <2>2, <1>7, <1>11
<1> QED
  BY <1>8, <1>9, <1>10, <1>11

\* What one request does to the count.
LEMMA BudgetStep ==
    ASSUME ComposerTyped, Budgeted, NEW q \in Ask, NEW b, ask' = [ask EXCEPT ![q] = b],
           sent' \in [Reading -> Nat], seen' \in [Reading -> Nat], lost' \in [Reading -> Nat],
           \A s \in Reading : sent'[s] + Weight(b, s) + Spare(s)' + seen[s] + lost[s]
                                 <= seen'[s] + lost'[s] + sent[s] + Weight(ask[q], s) + Spare(s)
    PROVE  Budgeted'
<1> SUFFICES ASSUME NEW s \in Reading
             PROVE  sent'[s] + Cardinality(Pending(s)') + Spare(s)' <= seen'[s] + lost'[s]
  BY DEF Budgeted
<1>1. Cardinality(Pending(s)') + Weight(ask[q], s) = Cardinality(Pending(s)) + Weight(b, s)
  BY PendingChanges
<1>2. sent[s] + Cardinality(Pending(s)) + Spare(s) <= seen[s] + lost[s]
  BY DEF Budgeted
<1>3. /\ Cardinality(Pending(s)') \in Nat /\ Cardinality(Pending(s)) \in Nat
      /\ Spare(s) \in Nat /\ Spare(s)' \in Nat /\ Weight(ask[q], s) \in Nat /\ Weight(b, s) \in Nat
  BY PendingChanges DEF Spare, Weight
<1>4. /\ sent'[s] \in Nat /\ seen'[s] \in Nat /\ lost'[s] \in Nat
      /\ sent[s] \in Nat /\ seen[s] \in Nat /\ lost[s] \in Nat
  BY DEF ComposerTyped
<1>5. sent'[s] + Weight(b, s) + Spare(s)' + seen[s] + lost[s]
         <= seen'[s] + lost'[s] + sent[s] + Weight(ask[q], s) + Spare(s)
  OBVIOUS
<1> QED
  BY <1>1, <1>2, <1>3, <1>4, <1>5

\* The common case: nothing is counted, and the preview goes or stays.
LEMMA BudgetQuiet ==
    ASSUME ComposerTyped, Budgeted, NEW q \in Ask, NEW b, ask' = [ask EXCEPT ![q] = b],
           UNCHANGED counts, preview' = Blank,
           b = Blank \/ b.kind # "create" \/ b.reply # Blank
    PROVE  Budgeted'
<1>1. /\ sent' = sent /\ seen' = seen /\ lost' = lost
      /\ sent \in [Reading -> Nat] /\ seen \in [Reading -> Nat] /\ lost \in [Reading -> Nat]
  BY DEF counts, ComposerTyped
<1>2. \A s \in Reading : Weight(b, s) = 0 /\ Spare(s)' = 0
  BY NotBlank DEF Weight, Spare
<1>3. \A s \in Reading : Weight(ask[q], s) \in Nat /\ Spare(s) \in Nat
  BY DEF Weight, Spare
<1>4. \A s \in Reading : sent'[s] + Weight(b, s) + Spare(s)' + seen[s] + lost[s]
                            <= seen'[s] + lost'[s] + sent[s] + Weight(ask[q], s) + Spare(s)
  BY <1>1, <1>2, <1>3
<1> QED
  BY <1>1, <1>4, BudgetStep

-----------------------------------------------------------------------------
(* The user's steps *)

\* The web previews another list.
LEMMA PreviewsStep ==
    ASSUME ComposerInv, NEW q \in Ask, NEW list \in List, Is("web"), Previews(q, list, FALSE)
    PROVE  ComposerInv'
<1> USE DEF ComposerInv
<1> DEFINE b == [kind |-> "preview", list |-> list, sum |-> Blank, creates |-> FALSE,
                 stays |-> TRUE, reply |-> Blank]
<1>1. b \in BulkRequest /\ AskTyped(b)
  BY NotBlank DEF BulkRequest, AskTyped
<1>2. ask' = [ask EXCEPT ![q] = b] /\ ask[q] = Blank /\ asks' = asks + 1 /\ asks < MaxAsks
  BY DEF Previews, Asks
<1>3. ask \in [Ask -> BulkRequest \union {Blank}] /\ \A r \in Ask : ask'[r] = IF r = q THEN b ELSE ask[r]
  BY <1>2 DEF ComposerTyped
<1>4. /\ source' = list /\ csv' = Blank /\ preview' = Blank /\ created' = FALSE /\ previewing' = TRUE
      /\ crossed' = (crossed \/ Underway)
      /\ UNCHANGED <<open, pasted, submitting, parser, counts>>
  BY DEF Previews
<1>5. b.kind = "preview" /\ ~b.creates /\ b.list = list /\ b # Blank
  BY <1>1, NotBlank
<1> HIDE DEF b
<1>6. ComposerTyped'
  <2>1. ask' \in [Ask -> BulkRequest \union {Blank}]
    BY <1>1, <1>2, <1>3
  <2>2. \A r \in Ask : AskTyped(ask'[r])
    BY <1>1, <1>3 DEF ComposerTyped
  <2>3. asks' \in 0..MaxAsks
    BY <1>2, ComposerAssumption DEF ComposerTyped, ComposerAssumption
  <2> QED
    BY <1>4, <2>1, <2>2, <2>3 DEF ComposerTyped, counts
<1>7. Waiting'
  <2>1. \A r \in Ask : Submits(r)' <=> Submits(r) /\ r # q
    BY <1>2, <1>3, <1>5, NotBlank DEF Submits, Here
  <2>2. ~crossed' => \A r \in Ask : Here(r)' => r = q
    BY <1>3, <1>4 DEF Here, Underway, ComposerTyped
  <2>3. \A r \in Ask : Here(r)' => r = q \/ Here(r)
    BY <1>3 DEF Here
  <2>4. Is("web")'
    BY <1>4 DEF Is
  <2> QED
    BY <1>3, <1>4, <1>5, <2>1, <2>2, <2>3, <2>4 DEF Waiting
<1>8. Budgeted'
  BY <1>2, <1>4, <1>5, BudgetQuiet
<1>9. OfSource'
  BY <1>3, <1>4, <1>5 DEF OfSource, Here, Underway, ComposerTyped
<1> QED
  BY <1>6, <1>7, <1>8, <1>9

\* No request changes, and the preview goes or stays.
LEMMA BudgetKept ==
    ASSUME ComposerTyped, Budgeted, ask' = ask, UNCHANGED counts, preview' = Blank \/ preview' = preview
    PROVE  Budgeted'
<1> SUFFICES ASSUME NEW s \in Reading
             PROVE  sent'[s] + Cardinality(Pending(s)') + Spare(s)' <= seen'[s] + lost'[s]
  BY DEF Budgeted
<1>1. Pending(s)' = Pending(s) /\ \A q \in Ask : Covers(q, s)' <=> Covers(q, s)
  BY DEF Pending, Covers, Here
<1>2. Spare(s)' <= Spare(s) /\ Spare(s) \in Nat /\ Spare(s)' \in Nat
  BY <1>1, NotBlank DEF Spare
<1>3. /\ sent' = sent /\ seen' = seen /\ lost' = lost
      /\ sent[s] \in Nat /\ seen[s] \in Nat /\ lost[s] \in Nat /\ Cardinality(Pending(s)) \in Nat
  BY PendingFinite DEF counts, ComposerTyped
<1>4. sent[s] + Cardinality(Pending(s)) + Spare(s) <= seen[s] + lost[s]
  BY DEF Budgeted
<1> QED
  BY <1>1, <1>2, <1>3, <1>4

\* Another list is pasted or typed, or one with flaws is refused; or the server is deployed.
LEMMA SourceStep ==
    ASSUME ComposerInv,
           ask' = ask, asks' = asks, UNCHANGED <<open, previewing, submitting, counts>>,
           parser' \in 0..MaxParser,
           pasted' \in List \union {Blank}, created' \in BOOLEAN,
           \/ /\ source' \in List /\ preview' = Blank /\ (csv' = Blank \/ ~Is("web")) /\ csv' \in {Blank, csv}
              /\ crossed' = (crossed \/ Underway)
           \/ /\ UNCHANGED <<source, csv, crossed>> /\ preview' \in {preview, Blank}
    PROVE  ComposerInv'
<1> USE DEF ComposerInv
<1>1. ComposerTyped'
  BY DEF ComposerTyped, counts
<1>2. /\ \A q \in Ask : (Here(q)' <=> Here(q)) /\ (Submits(q)' <=> Submits(q))
      /\ Is("web")' <=> Is("web")
  BY DEF Here, Submits, Is
<1>3. ~crossed' => ~crossed
  BY DEF ComposerTyped
<1>4. Waiting'
  BY <1>2, <1>3 DEF Waiting
<1>5. Budgeted'
  BY BudgetKept
<1>6. OfSource'
  <2>1. CASE crossed' = (crossed \/ Underway) /\ source' \in List /\ preview' = Blank /\ (csv' = Blank \/ ~Is("web"))
    BY <1>2, <2>1 DEF OfSource, Underway, Here, ComposerTyped
  <2>2. CASE UNCHANGED <<source, csv, crossed>> /\ preview' \in {preview, Blank}
    BY <1>2, <2>2 DEF OfSource
  <2> QED
    BY <2>1, <2>2
<1> QED
  BY <1>1, <1>4, <1>5, <1>6

\* The preview on the screen is submitted.
LEMMA SubmitStep ==
    ASSUME ComposerInv, NEW q \in Ask, NEW list \in List, preview # Blank, ~previewing, ~submitting,
           Asks(q, "create", list, preview, FALSE), submitting' = TRUE,
           Is("web") => list = csv,
           UNCHANGED <<open, source, pasted, csv, preview, previewing, created, parser, counts, crossed>>
    PROVE  ComposerInv'
<1> USE DEF ComposerInv
<1> DEFINE b == [kind |-> "create", list |-> list, sum |-> preview, creates |-> FALSE,
                 stays |-> TRUE, reply |-> Blank]
<1>1. b \in BulkRequest /\ AskTyped(b)
  BY NotBlank DEF BulkRequest, AskTyped, ComposerTyped
<1>2. ask' = [ask EXCEPT ![q] = b] /\ ask[q] = Blank /\ asks' = asks + 1 /\ asks < MaxAsks
  BY DEF Asks
<1>3. ask \in [Ask -> BulkRequest \union {Blank}] /\ \A r \in Ask : ask'[r] = IF r = q THEN b ELSE ask[r]
  BY <1>2 DEF ComposerTyped
<1>4. /\ b.kind = "create" /\ ~b.creates /\ b.list = list /\ b.sum = preview /\ b.stays /\ b.reply = Blank
      /\ b # Blank
  BY <1>1, NotBlank
<1> HIDE DEF b
<1>5. ComposerTyped'
  <2>1. ask' \in [Ask -> BulkRequest \union {Blank}]
    BY <1>1, <1>2, <1>3
  <2>2. \A r \in Ask : AskTyped(ask'[r])
    BY <1>1, <1>3 DEF ComposerTyped
  <2>3. asks' \in 0..MaxAsks
    BY <1>2, ComposerAssumption DEF ComposerTyped, ComposerAssumption
  <2> QED
    BY <2>1, <2>2, <2>3 DEF ComposerTyped, counts
<1>6. Waiting'
  <2>1. \A r \in Ask : ~Submits(r)
    BY DEF Waiting
  <2>2. ~Is("web") \/ ~crossed => \A r \in Ask : ~Here(r)
    BY DEF Waiting, ComposerTyped
  <2>3. \A r \in Ask : (Here(r)' => r = q \/ Here(r)) /\ (Submits(r)' => r = q \/ Submits(r))
    BY <1>3 DEF Here, Submits
  <2>4. Is("web")' <=> Is("web")
    BY DEF Is
  <2> QED
    BY <1>3, <1>4, <2>1, <2>2, <2>3, <2>4 DEF Waiting, Here
<1>7. Budgeted'
  <2>1. \A r \in Ask, s \in Reading : ~Covers(r, s)
    BY DEF Waiting, Covers, Submits
  <2>2. \A s \in Reading : Spare(s) = IF preview = s THEN 1 ELSE 0
    BY <2>1 DEF Spare
  <2>3. \A s \in Reading : preview = s => Covers(q, s)'
    BY <1>3, <1>4 DEF Covers, Here
  <2>4. \A s \in Reading : Spare(s)' = 0
    BY <2>3 DEF Spare
  <2>5. \A s \in Reading : Weight(b, s) = IF preview = s THEN 1 ELSE 0
    BY <1>4 DEF Weight
  <2>6. \A s \in Reading : Weight(ask[q], s) = 0
    BY <1>2 DEF Weight
  <2>7. /\ sent' = sent /\ seen' = seen /\ lost' = lost
        /\ sent \in [Reading -> Nat] /\ seen \in [Reading -> Nat] /\ lost \in [Reading -> Nat]
    BY DEF counts, ComposerTyped
  <2>8. \A s \in Reading : sent'[s] + Weight(b, s) + Spare(s)' + seen[s] + lost[s]
                              <= seen'[s] + lost'[s] + sent[s] + Weight(ask[q], s) + Spare(s)
    BY <2>2, <2>4, <2>5, <2>6, <2>7
  <2> QED
    BY <1>2, <2>7, <2>8, BudgetStep
<1>8. OfSource'
  <2>1. Is("web") /\ ~crossed => list = source
    BY NotBlank DEF OfSource
  <2> QED
    BY <1>3, <1>4, <2>1 DEF OfSource, Here, Is
<1> QED
  BY <1>5, <1>6, <1>7, <1>8

\* The dashboard previews the list.
LEMMA RunStep ==
    ASSUME ComposerInv, NEW q \in Ask, NEW creates \in BOOLEAN, source # Blank, ~previewing, ~submitting,
           Is("dashboard"), Asks(q, "preview", source, Blank, creates), previewing' = TRUE,
           UNCHANGED <<open, source, pasted, csv, preview, submitting, created, parser, counts, crossed>>
    PROVE  ComposerInv'
<1> USE DEF ComposerInv
<1> DEFINE b == [kind |-> "preview", list |-> source, sum |-> Blank, creates |-> creates,
                 stays |-> TRUE, reply |-> Blank]
<1>1. b \in BulkRequest /\ AskTyped(b)
  BY NotBlank DEF BulkRequest, AskTyped, ComposerTyped
<1>2. ask' = [ask EXCEPT ![q] = b] /\ ask[q] = Blank /\ asks' = asks + 1 /\ asks < MaxAsks
  BY DEF Asks
<1>3. ask \in [Ask -> BulkRequest \union {Blank}] /\ \A r \in Ask : ask'[r] = IF r = q THEN b ELSE ask[r]
  BY <1>2 DEF ComposerTyped
<1>4. b.kind = "preview" /\ b # Blank
  BY <1>1, NotBlank
<1> HIDE DEF b
<1>5. ComposerTyped'
  <2>1. ask' \in [Ask -> BulkRequest \union {Blank}]
    BY <1>1, <1>2, <1>3
  <2>2. \A r \in Ask : AskTyped(ask'[r])
    BY <1>1, <1>3 DEF ComposerTyped
  <2>3. asks' \in 0..MaxAsks
    BY <1>2, ComposerAssumption DEF ComposerTyped, ComposerAssumption
  <2> QED
    BY <2>1, <2>2, <2>3 DEF ComposerTyped, counts
<1>6. ~Is("web") /\ ~Is("web")'
  BY DEF Is
<1>7. Waiting'
  <2>1. \A r \in Ask : ~Here(r)
    BY <1>6 DEF Waiting, ComposerTyped
  <2>2. \A r \in Ask : (Here(r)' => r = q \/ Here(r)) /\ (Submits(r)' => Submits(r))
    BY <1>3, <1>4 DEF Here, Submits
  <2> QED
    BY <1>6, <2>1, <2>2 DEF Waiting, Submits
<1>8. Budgeted'
  <2>1. \A s \in Reading : \A r \in Ask : Covers(r, s)' <=> Covers(r, s)
    BY <1>2, <1>3, <1>4 DEF Covers, Here
  <2>2. \A s \in Reading : Spare(s)' = Spare(s) /\ Spare(s) \in Nat
    BY <2>1 DEF Spare
  <2>3. \A s \in Reading : Weight(b, s) = 0 /\ Weight(ask[q], s) = 0
    BY <1>2, <1>4 DEF Weight
  <2>4. /\ sent' = sent /\ seen' = seen /\ lost' = lost
        /\ sent \in [Reading -> Nat] /\ seen \in [Reading -> Nat] /\ lost \in [Reading -> Nat]
    BY DEF counts, ComposerTyped
  <2>5. \A s \in Reading : sent'[s] + Weight(b, s) + Spare(s)' + seen[s] + lost[s]
                              <= seen'[s] + lost'[s] + sent[s] + Weight(ask[q], s) + Spare(s)
    BY <2>2, <2>3, <2>4
  <2> QED
    BY <1>2, <2>4, <2>5, BudgetStep
<1>9. OfSource'
  BY <1>6 DEF OfSource
<1> QED
  BY <1>5, <1>7, <1>8, <1>9

-----------------------------------------------------------------------------
(* The server's steps *)

\* A request whose answer comes, or is lost: it stays what it is.
LEMMA RepliedStep ==
    ASSUME ComposerInv, NEW q \in Ask, NEW b \in BulkRequest, AskTyped(b), ask[q] # Blank,
           ask' = [ask EXCEPT ![q] = b], UNCHANGED <<open, form, asks, parser, crossed>>,
           b.kind = ask[q].kind, b.list = ask[q].list, b.creates = ask[q].creates, b.stays = ask[q].stays,
           sent' \in [Reading -> Nat], seen' \in [Reading -> Nat], lost' \in [Reading -> Nat]
    PROVE  /\ ComposerTyped' /\ Waiting' /\ OfSource'
           /\ \A r \in Ask, s \in Reading : r # q => (Covers(r, s)' <=> Covers(r, s))
           /\ ask'[q] = b /\ preview' = preview
<1> USE DEF ComposerInv
<1>1. ask \in [Ask -> BulkRequest \union {Blank}] /\ \A r \in Ask : ask'[r] = IF r = q THEN b ELSE ask[r]
  BY DEF ComposerTyped
<1>2. \A r \in Ask : (Here(r)' <=> Here(r)) /\ (Submits(r)' <=> Submits(r))
  BY <1>1, NotBlank DEF Here, Submits
<1>3. ComposerTyped'
  <2>1. ask' \in [Ask -> BulkRequest \union {Blank}]
    BY <1>1
  <2>2. \A r \in Ask : AskTyped(ask'[r])
    BY <1>1 DEF ComposerTyped
  <2> QED
    BY <2>1, <2>2 DEF ComposerTyped, form
<1>4. Is("web")' <=> Is("web")
  BY DEF Is
<1>5. Waiting'
  BY <1>1, <1>2, <1>4 DEF Waiting, form
<1>6. OfSource'
  BY <1>1, <1>2, <1>4 DEF OfSource, form
<1>7. \A r \in Ask, s \in Reading : r # q => (Covers(r, s)' <=> Covers(r, s))
  BY <1>1 DEF Covers, Here
<1> QED
  BY <1>1, <1>3, <1>5, <1>6, <1>7 DEF form

\* The server answers a preview or a submission.
LEMMA AnswersStep ==
    ASSUME ComposerInv, NEW q \in Ask, NEW reply \in {"ok", "mismatch", "error"},
           AnswersPreview(q, reply) \/ AnswersCreate(q, reply)
    PROVE  ComposerInv'
<1> USE DEF ComposerInv
<1>1. ask[q] # Blank /\ ask[q].reply = Blank /\ ask[q] \in BulkRequest /\ AskTyped(ask[q])
  BY DEF AnswersPreview, AnswersCreate, Arrived, ComposerTyped
<1>2. CASE AnswersPreview(q, reply)
  <2> DEFINE b == [ask[q] EXCEPT !.reply = reply, !.sum = Checksum(ask[q].list)]
  <2>1. Checksum(ask[q].list) \in Reading /\ Checksum(ask[q].list)[1] = ask[q].list
    BY <1>1 DEF Checksum, Reading, BulkRequest, ComposerTyped
  <2>2. /\ b \in BulkRequest /\ b.kind = ask[q].kind /\ b.list = ask[q].list
        /\ b.creates = ask[q].creates /\ b.stays = ask[q].stays
        /\ b.sum = Checksum(ask[q].list) /\ b.reply = reply
    BY <1>1, <2>1 DEF BulkRequest
  <2>3. /\ ask' = [ask EXCEPT ![q] = b] /\ ask[q].kind # "create"
        /\ UNCHANGED <<open, form, asks, parser, counts, crossed>>
    BY <1>2 DEF AnswersPreview
  <2> HIDE DEF b
  <2>4. AskTyped(b)
    BY <2>1, <2>2, <2>3 DEF AskTyped
  <2>5. /\ sent' = sent /\ seen' = seen /\ lost' = lost
        /\ sent \in [Reading -> Nat] /\ seen \in [Reading -> Nat] /\ lost \in [Reading -> Nat]
    BY <2>3 DEF counts, ComposerTyped
  <2>6. /\ ComposerTyped' /\ Waiting' /\ OfSource'
        /\ \A r \in Ask, s \in Reading : r # q => (Covers(r, s)' <=> Covers(r, s))
        /\ ask'[q] = b /\ preview' = preview
    BY <1>1, <2>2, <2>3, <2>4, <2>5, RepliedStep
  <2>7. \A r \in Ask, s \in Reading : Covers(r, s)' <=> Covers(r, s)
    BY <2>2, <2>3, <2>6 DEF Covers
  <2>8. \A s \in Reading : Spare(s)' = Spare(s) /\ Spare(s) \in Nat
    BY <2>6, <2>7 DEF Spare
  <2>9. \A s \in Reading : Weight(b, s) = 0 /\ Weight(ask[q], s) = 0
    BY <2>2, <2>3 DEF Weight
  <2>10. \A s \in Reading : sent'[s] + Weight(b, s) + Spare(s)' + seen[s] + lost[s]
                               <= seen'[s] + lost'[s] + sent[s] + Weight(ask[q], s) + Spare(s)
    BY <2>5, <2>8, <2>9
  <2>11. Budgeted'
    BY <2>3, <2>5, <2>10, BudgetStep
  <2> QED
    BY <2>6, <2>11
<1>3. CASE AnswersCreate(q, reply)
  <2> DEFINE b == [ask[q] EXCEPT !.reply = reply]
             t == ask[q].sum
  <2>1. /\ b \in BulkRequest /\ b.kind = ask[q].kind /\ b.list = ask[q].list
        /\ b.creates = ask[q].creates /\ b.stays = ask[q].stays
        /\ b.sum = t /\ b.reply = reply
    BY <1>1 DEF BulkRequest
  <2>2. /\ ask' = [ask EXCEPT ![q] = b] /\ ask[q].kind = "create"
        /\ UNCHANGED <<open, form, asks, parser, seen, lost, crossed>>
        /\ reply = "ok" => t = Checksum(ask[q].list)
        /\ sent' = (IF reply = "ok" THEN [sent EXCEPT ![Checksum(ask[q].list)] = @ + 1] ELSE sent)
    BY <1>1, <1>3 DEF AnswersCreate, Accepts
  <2> HIDE DEF b
  <2>3. t \in Reading /\ AskTyped(b)
    BY <1>1, <2>1, <2>2 DEF AskTyped
  <2>4. sent \in [Reading -> Nat] /\ seen \in [Reading -> Nat] /\ lost \in [Reading -> Nat]
    BY DEF ComposerTyped
  <2>5. sent' \in [Reading -> Nat]
    BY <2>2, <2>3, <2>4
  <2>6. /\ ComposerTyped' /\ Waiting' /\ OfSource'
        /\ \A r \in Ask, s \in Reading : r # q => (Covers(r, s)' <=> Covers(r, s))
        /\ ask'[q] = b /\ preview' = preview
    BY <1>1, <2>1, <2>2, <2>3, <2>4, <2>5, RepliedStep
  <2>7. \A s \in Reading : Spare(s)' \in {0, 1} /\ Spare(s) \in {0, 1}
    BY DEF Spare
  <2>8. \A s \in Reading : Weight(b, s) = 0 /\ Weight(ask[q], s) = IF s = t THEN 1 ELSE 0
    BY <1>1, <2>1, <2>2, NotBlank DEF Weight
  <2>9. ASSUME NEW s \in Reading, s # t \/ reply = "ok" PROVE Spare(s)' = Spare(s)
    <3>1. \A r \in Ask : Covers(r, s)' <=> Covers(r, s)
      <4>1. Here(q)' <=> Here(q)
        BY <1>1, <2>1, <2>6, NotBlank DEF Here
      <4>2. Covers(q, s)' <=> Covers(q, s)
        BY <1>1, <2>1, <2>6, <2>9, <4>1 DEF Covers
      <4> QED
        BY <2>6, <4>2
    <3> QED
      BY <2>6, <3>1 DEF Spare
  <2>10. ASSUME NEW s \in Reading
         PROVE  sent'[s] + Weight(b, s) + Spare(s)' + seen[s] + lost[s]
                   <= seen'[s] + lost'[s] + sent[s] + Weight(ask[q], s) + Spare(s)
    <3>1. seen' = seen /\ lost' = lost /\ sent[s] \in Nat /\ seen[s] \in Nat /\ lost[s] \in Nat
      BY <2>2, <2>4
    <3>2. CASE s = t /\ reply = "ok"
      <4>1. sent'[s] = sent[s] + 1
        BY <2>2, <2>3, <2>4, <3>2
      <4> QED
        BY <2>7, <2>8, <2>9, <3>1, <3>2, <4>1
    <3>3. CASE s = t /\ reply # "ok"
      <4>1. sent'[s] = sent[s]
        BY <2>2, <3>3
      <4> QED
        BY <2>7, <2>8, <3>1, <3>3, <4>1
    <3>4. CASE s # t
      <4>1. sent'[s] = sent[s]
        BY <2>2, <2>3, <2>4, <3>4
      <4> QED
        BY <2>7, <2>8, <2>9, <3>1, <3>4, <4>1
    <3> QED
      BY <3>2, <3>3, <3>4
  <2>11. Budgeted'
    BY <2>2, <2>4, <2>5, <2>10, BudgetStep
  <2> QED
    BY <2>6, <2>11
<1> QED
  BY <1>2, <1>3

\* The connection breaks.
LEMMA BreaksStep ==
    ASSUME ComposerInv, NEW q \in Ask, Breaks(q)
    PROVE  ComposerInv'
<1> USE DEF ComposerInv
<1> DEFINE b == [ask[q] EXCEPT !.reply = "error"]
           t == ask[q].sum
           counted == ask[q].kind = "create" /\ ask[q].reply = "ok"
<1>1. ask[q] # Blank /\ ask[q].stays /\ ask[q] \in BulkRequest /\ AskTyped(ask[q])
  BY DEF Breaks, ComposerTyped
<1>2. /\ b \in BulkRequest /\ b.kind = ask[q].kind /\ b.list = ask[q].list
      /\ b.creates = ask[q].creates /\ b.stays = ask[q].stays /\ b.sum = t /\ b.reply = "error"
  BY <1>1 DEF BulkRequest
<1>3. /\ ask' = [ask EXCEPT ![q] = b]
      /\ UNCHANGED <<open, form, asks, parser, sent, seen, crossed>>
      /\ lost' = IF counted THEN [lost EXCEPT ![t] = @ + 1] ELSE lost
  BY DEF Breaks
<1> HIDE DEF b
<1>4. (ask[q].kind = "create" => t \in Reading) /\ AskTyped(b)
  BY <1>1, <1>2 DEF AskTyped
<1>5. sent \in [Reading -> Nat] /\ seen \in [Reading -> Nat] /\ lost \in [Reading -> Nat]
  BY DEF ComposerTyped
<1>6. lost' \in [Reading -> Nat]
  BY <1>3, <1>4, <1>5
<1>7. /\ ComposerTyped' /\ Waiting' /\ OfSource'
      /\ \A r \in Ask, s \in Reading : r # q => (Covers(r, s)' <=> Covers(r, s))
      /\ ask'[q] = b /\ preview' = preview
  BY <1>1, <1>2, <1>3, <1>4, <1>5, <1>6, RepliedStep
<1>8. \A s \in Reading : Spare(s)' \in {0, 1} /\ Spare(s) \in {0, 1}
  BY DEF Spare
<1>9. \A s \in Reading :
         /\ Weight(b, s) = 0
         /\ Weight(ask[q], s) = IF ask[q].kind = "create" /\ ask[q].reply = Blank /\ s = t THEN 1 ELSE 0
  BY <1>1, <1>2, NotBlank DEF Weight
<1>10. ASSUME NEW s \in Reading, ~Covers(q, s) PROVE Spare(s)' = Spare(s)
  <2>1. ~Covers(q, s)'
    BY <1>2, <1>7, NotBlank DEF Covers
  <2>2. \A r \in Ask : Covers(r, s)' <=> Covers(r, s)
    BY <1>7, <1>10, <2>1
  <2> QED
    BY <1>7, <2>2 DEF Spare
<1>11. ASSUME NEW s \in Reading
       PROVE  sent'[s] + Weight(b, s) + Spare(s)' + seen[s] + lost[s]
                 <= seen'[s] + lost'[s] + sent[s] + Weight(ask[q], s) + Spare(s)
  <2>1. sent' = sent /\ seen' = seen /\ sent[s] \in Nat /\ seen[s] \in Nat /\ lost[s] \in Nat
    BY <1>3, <1>5
  <2>2. CASE Covers(q, s) /\ ask[q].reply = "ok"
    <3>1. lost'[s] = lost[s] + 1
      BY <1>3, <1>4, <1>5, <2>2 DEF Covers
    <3> QED
      BY <1>8, <1>9, <2>1, <2>2, <3>1, NotBlank
  <2>3. CASE Covers(q, s) /\ ask[q].reply = Blank
    <3>1. lost'[s] = lost[s] /\ Weight(ask[q], s) = 1
      BY <1>3, <1>9, <2>3, NotBlank DEF Covers
    <3> QED
      BY <1>8, <1>9, <2>1, <3>1
  <2>4. CASE ~Covers(q, s)
    <3>1. lost'[s] = lost[s]
      <4>1. counted => s # t
        BY <1>1, <2>4 DEF Covers, Here
      <4> QED
        BY <1>3, <1>4, <1>5, <4>1
    <3>2. Spare(s)' = Spare(s) /\ Weight(ask[q], s) \in Nat /\ Weight(b, s) = 0
      BY <1>9, <1>10, <2>4
    <3> QED
      BY <1>8, <2>1, <3>1, <3>2
  <2> QED
    BY <2>2, <2>3, <2>4 DEF Covers
<1>12. Budgeted'
  <2>1. sent' \in [Reading -> Nat] /\ seen' \in [Reading -> Nat]
    BY <1>3, <1>5
  <2> QED
    BY <1>3, <1>6, <1>11, <2>1, BudgetStep
<1> QED
  BY <1>7, <1>12

-----------------------------------------------------------------------------
(* An answer comes to the screen *)

\* A request that covers no preview goes, or asks something else.
LEMMA BudgetLoose ==
    ASSUME ComposerTyped, Budgeted, NEW q \in Ask, NEW b, ask' = [ask EXCEPT ![q] = b],
           UNCHANGED counts, preview' = Blank \/ preview' = preview,
           b = Blank \/ b.kind # "create" \/ b.reply # Blank,
           ask[q] # Blank, ask[q].kind # "create" \/ ask[q].reply \notin {Blank, "ok"} \/ ~ask[q].stays
    PROVE  Budgeted'
<1>1. /\ sent' = sent /\ seen' = seen /\ lost' = lost
      /\ sent \in [Reading -> Nat] /\ seen \in [Reading -> Nat] /\ lost \in [Reading -> Nat]
  BY DEF counts, ComposerTyped
<1>2. \A r \in Ask, s \in Reading : Covers(r, s) => Covers(r, s)'
  BY DEF Covers, Here, ComposerTyped
<1>3. \A s \in Reading : Spare(s)' <= Spare(s) /\ Spare(s)' \in Nat /\ Spare(s) \in Nat
  BY <1>2, NotBlank DEF Spare
<1>4. \A s \in Reading : Weight(b, s) = 0 /\ Weight(ask[q], s) \in Nat
  BY DEF Weight
<1>5. \A s \in Reading : sent'[s] + Weight(b, s) + Spare(s)' + seen[s] + lost[s]
                            <= seen'[s] + lost'[s] + sent[s] + Weight(ask[q], s) + Spare(s)
  BY <1>1, <1>3, <1>4
<1> QED
  BY <1>1, <1>5, BudgetStep

\* A preview comes to the screen.
LEMMA BudgetSeen ==
    ASSUME ComposerTyped, Budgeted, NEW q \in Ask, NEW b, ask' = [ask EXCEPT ![q] = b],
           NEW t \in Reading, preview' = t, sent' = sent, lost' = lost, seen' = [seen EXCEPT ![t] = @ + 1],
           b = Blank \/ b.kind # "create" \/ (b # Blank /\ b.stays /\ b.sum = t /\ b.reply = Blank)
    PROVE  Budgeted'
<1>1. sent \in [Reading -> Nat] /\ seen \in [Reading -> Nat] /\ lost \in [Reading -> Nat]
  BY DEF ComposerTyped
<1>2. seen' \in [Reading -> Nat] /\ \A s \in Reading : seen'[s] = IF s = t THEN seen[s] + 1 ELSE seen[s]
  BY <1>1
<1>3. ask'[q] = b
  BY DEF ComposerTyped
<1>4. ASSUME NEW s \in Reading
      PROVE  Weight(b, s) + Spare(s)' <= IF s = t THEN 1 ELSE 0
  <2>1. CASE Weight(b, s) = 0
    BY <2>1 DEF Spare
  <2>2. CASE Weight(b, s) # 0
    <3>1. Weight(b, s) = 1 /\ s = t /\ Covers(q, s)'
      BY <1>3, <2>2 DEF Weight, Covers, Here
    <3> QED
      BY <3>1 DEF Spare
  <2> QED
    BY <2>1, <2>2
<1>5. \A s \in Reading : /\ Weight(b, s) \in Nat /\ Weight(ask[q], s) \in Nat
                         /\ Spare(s) \in Nat /\ Spare(s)' \in Nat
  BY DEF Weight, Spare
<1>6. ASSUME NEW s \in Reading
      PROVE  sent'[s] + Weight(b, s) + Spare(s)' + seen[s] + lost[s]
                <= seen'[s] + lost'[s] + sent[s] + Weight(ask[q], s) + Spare(s)
  <2>1. sent[s] \in Nat /\ seen[s] \in Nat /\ lost[s] \in Nat
    BY <1>1
  <2> QED
    BY <1>2, <1>4, <1>5, <2>1
<1> QED
  BY <1>1, <1>2, <1>6, BudgetStep

\* An answer is done with.
LEMMA GoneStep ==
    ASSUME ComposerInv, NEW q \in Ask, Here(q), Handled(q), UNCHANGED <<open, parser, crossed>>,
           {source, pasted, csv}' \subseteq List \union {Blank}, preview' \in Reading \union {Blank},
           {previewing, submitting, created}' \subseteq BOOLEAN,
           sent' \in [Reading -> Nat], seen' \in [Reading -> Nat], lost' \in [Reading -> Nat],
           submitting => submitting' \/ Submits(q),
           Is("web") /\ ~crossed => /\ csv' # Blank => csv' = source'
                                    /\ preview' # Blank => preview'[1] = source'
    PROVE  ComposerTyped' /\ Waiting' /\ OfSource'
<1> USE DEF ComposerInv
<1>1. /\ ask' = [ask EXCEPT ![q] = Blank] /\ asks' = asks
      /\ ask \in [Ask -> BulkRequest \union {Blank}]
      /\ \A r \in Ask : ask'[r] = IF r = q THEN Blank ELSE ask[r]
  BY DEF Handled, ComposerTyped
<1>2. \A r \in Ask : (Here(r)' <=> Here(r) /\ r # q) /\ (Submits(r)' <=> Submits(r) /\ r # q)
  BY <1>1 DEF Here, Submits
<1>3. ComposerTyped'
  <2>1. \A r \in Ask : AskTyped(ask'[r])
    BY <1>1 DEF ComposerTyped, AskTyped
  <2> QED
    BY <1>1, <2>1 DEF ComposerTyped
<1>4. Is("web")' <=> Is("web")
  BY DEF Is
<1>5. ~Is("web") \/ ~crossed => \A r \in Ask : ~Here(r)'
  BY <1>2 DEF Waiting
<1>6. Waiting'
  <2>1. \A r \in Ask : Submits(r)' => submitting'
    BY <1>2 DEF Waiting
  <2>2. Is("web") => \A r \in Ask : Here(r)' => ~ask'[r].creates
    BY <1>1, <1>2 DEF Waiting
  <2> QED
    BY <1>2, <1>4, <1>5, <2>1, <2>2 DEF Waiting
<1>7. OfSource'
  BY <1>4, <1>5 DEF OfSource
<1> QED
  BY <1>3, <1>6, <1>7

\* What is known of an answer.
LEMMA AnswerKnown ==
    ASSUME ComposerInv, NEW q \in Ask, NEW kind, NEW reply, Answer(q, kind, reply)
    PROVE  /\ ask[q] # Blank /\ ask[q].stays /\ Here(q) /\ ask[q] \in BulkRequest /\ AskTyped(ask[q])
           /\ ask[q].kind = kind /\ ask[q].reply = reply /\ (kind \in {"create", "again"} => Submits(q))
           /\ Is("web") /\ ~crossed => ask[q].list = source
           /\ sent \in [Reading -> Nat] /\ seen \in [Reading -> Nat] /\ lost \in [Reading -> Nat]
           /\ {source, pasted, csv} \subseteq List \union {Blank} /\ preview \in Reading \union {Blank}
           /\ {previewing, submitting, created} \subseteq BOOLEAN
BY DEF ComposerInv, ComposerTyped, Answer, Here, Submits, OfSource

\* An answer after which the screen waits for nothing more.
LEMMA DoneStep ==
    ASSUME ComposerInv, NEW q \in Ask, Created(q) \/ NotPreviewed(q) \/ NotSubmitted(q)
    PROVE  ComposerInv'
<1> USE DEF ComposerInv
<1>1. UNCHANGED <<open, pasted, parser, counts, crossed>> /\ Handled(q)
  BY DEF Created, NotPreviewed, NotSubmitted
<1>2. /\ sent' = sent /\ seen' = seen /\ lost' = lost /\ ask' = [ask EXCEPT ![q] = Blank]
  BY <1>1 DEF counts, Handled
<1>3. CASE Created(q)
  <2>1. Answer(q, "create", "ok")
    BY <1>3 DEF Created
  <2>2. /\ source' = Blank /\ preview' = Blank /\ csv' = Blank /\ submitting' = FALSE
        /\ created' = (Is("web") \/ created) /\ previewing' = previewing
    BY <1>3 DEF Created
  <2>3. ComposerTyped' /\ Waiting' /\ OfSource'
    BY <1>1, <1>2, <2>1, <2>2, AnswerKnown, GoneStep
  <2>4. Budgeted'
    BY <1>1, <1>2, <2>2, BudgetQuiet
  <2> QED
    BY <2>3, <2>4
<1>4. CASE NotPreviewed(q)
  <2>1. Answer(q, "preview", "error")
    BY <1>4 DEF NotPreviewed
  <2>2. /\ UNCHANGED <<source, csv, submitting, created>> /\ previewing' = FALSE
        /\ (preview' = Blank \/ preview' = preview)
    BY <1>4 DEF NotPreviewed
  <2>3. ComposerTyped' /\ Waiting' /\ OfSource'
    <3>1. Is("web") /\ ~crossed => /\ csv' # Blank => csv' = source'
                                   /\ preview' # Blank => preview'[1] = source'
      BY <2>2 DEF OfSource
    <3> QED
      BY <1>1, <1>2, <2>1, <2>2, <3>1, AnswerKnown, GoneStep
  <2>4. Budgeted'
    <3>1. ask[q] # Blank /\ ask[q].kind # "create"
      BY <2>1, AnswerKnown
    <3> QED
      BY <1>1, <1>2, <2>2, <3>1, BudgetLoose
  <2> QED
    BY <2>3, <2>4
<1>5. CASE NotSubmitted(q)
  <2>1. PICK kind \in {"create", "again"} : Answer(q, kind, "error")
    BY <1>5 DEF NotSubmitted
  <2>2. UNCHANGED <<source, csv, preview, previewing, created>> /\ submitting' = FALSE
    BY <1>5 DEF NotSubmitted
  <2>3. ComposerTyped' /\ Waiting' /\ OfSource'
    <3>1. Is("web") /\ ~crossed => /\ csv' # Blank => csv' = source'
                                   /\ preview' # Blank => preview'[1] = source'
      BY <2>2 DEF OfSource
    <3> QED
      BY <1>1, <1>2, <2>1, <2>2, <3>1, AnswerKnown, GoneStep
  <2>4. Budgeted'
    <3>1. ask[q] # Blank /\ ask[q].reply \notin {Blank, "ok"}
      BY <2>1, AnswerKnown, NotBlank
    <3> QED
      BY <1>1, <1>2, <2>2, <3>1, BudgetLoose
  <2> QED
    BY <2>3, <2>4
<1> QED
  BY <1>3, <1>4, <1>5

\* An answer is followed by another request of its own.
LEMMA FollowStep ==
    ASSUME ComposerInv, NEW q \in Ask, Here(q), NEW b \in BulkRequest, AskTyped(b),
           ask' = [ask EXCEPT ![q] = b], asks < MaxAsks, asks' = asks + 1,
           b.kind \in {"create", "again"}, b.list = ask[q].list, ~b.creates,
           ~Is("web") \/ Submits(q), submitting' = TRUE, previewing' \in BOOLEAN,
           UNCHANGED <<open, source, pasted, csv, created, parser, crossed>>,
           preview' \in Reading \union {Blank}, Is("web") => preview' = preview,
           sent' \in [Reading -> Nat], seen' \in [Reading -> Nat], lost' \in [Reading -> Nat]
    PROVE  ComposerTyped' /\ Waiting' /\ OfSource'
<1> USE DEF ComposerInv
<1>1. ask \in [Ask -> BulkRequest \union {Blank}] /\ \A r \in Ask : ask'[r] = IF r = q THEN b ELSE ask[r]
  BY DEF ComposerTyped
<1>2. b # Blank /\ (Is("web")' <=> Is("web"))
  BY NotBlank DEF Is
<1>3. ComposerTyped'
  <2>1. ask' \in [Ask -> BulkRequest \union {Blank}]
    BY <1>1
  <2>2. \A r \in Ask : AskTyped(ask'[r])
    BY <1>1 DEF ComposerTyped
  <2>3. asks' \in 0..MaxAsks
    BY ComposerAssumption DEF ComposerTyped, ComposerAssumption
  <2> QED
    BY <2>1, <2>2, <2>3 DEF ComposerTyped
<1>4. \A r \in Ask : (Here(r)' => Here(r)) /\ (Submits(r)' => r = q \/ Submits(r))
  BY <1>1 DEF Here, Submits
<1>5. \A r, t \in Ask : Submits(r)' /\ Submits(t)' => r = t
  <2>1. CASE ~Is("web")
    BY <1>4, <2>1 DEF Waiting, Submits
  <2>2. CASE Submits(q)
    BY <1>4, <2>2 DEF Waiting
  <2> QED
    BY <2>1, <2>2
<1>6. Waiting'
  BY <1>1, <1>2, <1>4, <1>5 DEF Waiting
<1>7. OfSource'
  BY <1>1, <1>2, <1>4 DEF OfSource
<1> QED
  BY <1>3, <1>6, <1>7

\* A preview comes, and on the dashboard a submission may follow it.
LEMMA PreviewedStep ==
    ASSUME ComposerInv, NEW q \in Ask, Previewed(q)
    PROVE  ComposerInv'
<1> USE DEF ComposerInv
<1> DEFINE t == ask[q].sum
<1>1. Answer(q, "preview", "ok")
  BY DEF Previewed
<1>2. /\ preview' = t /\ previewing' = FALSE /\ sent' = sent /\ lost' = lost
      /\ csv' = (IF Is("web") THEN ask[q].list ELSE csv) /\ seen' = [seen EXCEPT ![t] = @ + 1]
      /\ UNCHANGED <<open, source, pasted, created, parser, crossed>>
  BY DEF Previewed
<1>3. t \in Reading /\ t[1] = ask[q].list /\ ask[q].list \in List
  BY <1>1, AnswerKnown DEF AskTyped, BulkRequest
<1>4. seen' \in [Reading -> Nat] /\ csv' \in List \union {Blank}
  BY <1>1, <1>2, <1>3, AnswerKnown
<1>5. CASE Handled(q) /\ UNCHANGED submitting
  <2>1. ask' = [ask EXCEPT ![q] = Blank]
    BY <1>5 DEF Handled
  <2>2. Budgeted'
    BY <1>2, <1>3, <2>1, BudgetSeen
  <2>3. Is("web") /\ ~crossed => csv' = source' /\ preview'[1] = source'
    BY <1>1, <1>2, <1>3, AnswerKnown
  <2>4. {source, pasted, csv}' \subseteq List \union {Blank} /\ {previewing, submitting, created}' \subseteq BOOLEAN
    BY <1>1, <1>2, <1>4, <1>5, AnswerKnown
  <2>5. sent' \in [Reading -> Nat] /\ lost' \in [Reading -> Nat] /\ Here(q)
    BY <1>1, <1>2, AnswerKnown
  <2>6. ComposerTyped' /\ Waiting' /\ OfSource'
    BY <1>2, <1>3, <1>4, <1>5, <2>3, <2>4, <2>5, GoneStep
  <2> QED
    BY <2>2, <2>6
<1>6. CASE /\ ask[q].creates /\ asks < MaxAsks /\ asks' = asks + 1 /\ submitting' = TRUE
           /\ ask' = [ask EXCEPT ![q] = [@ EXCEPT !.kind = "create", !.creates = FALSE, !.reply = Blank]]
  <2> DEFINE b == [ask[q] EXCEPT !.kind = "create", !.creates = FALSE, !.reply = Blank]
  <2>1. /\ b \in BulkRequest /\ b.kind = "create" /\ ~b.creates /\ b.reply = Blank /\ b.sum = t
        /\ b.list = ask[q].list /\ b.stays
    BY <1>1, AnswerKnown DEF BulkRequest
  <2>2. ask' = [ask EXCEPT ![q] = b]
    BY <1>6
  <2> HIDE DEF b
  <2>3. AskTyped(b) /\ b # Blank
    BY <1>3, <2>1, NotBlank DEF AskTyped
  <2>4. Budgeted'
    BY <1>2, <1>3, <2>1, <2>2, <2>3, BudgetSeen
  <2>5. ~Is("web") /\ Here(q)
    BY <1>1, <1>6, AnswerKnown DEF Waiting
  <2>6. csv' = csv /\ sent' \in [Reading -> Nat] /\ lost' \in [Reading -> Nat]
    BY <1>1, <1>2, <2>5, AnswerKnown
  <2>7. ComposerTyped' /\ Waiting' /\ OfSource'
    BY <1>2, <1>3, <1>4, <1>6, <2>1, <2>2, <2>3, <2>5, <2>6, FollowStep
  <2> QED
    BY <2>4, <2>7
<1> QED
  BY <1>5, <1>6 DEF Previewed

\* The preview after a mismatch comes.
LEMMA PreviewedAgainStep ==
    ASSUME ComposerInv, NEW q \in Ask, PreviewedAgain(q)
    PROVE  ComposerInv'
<1> USE DEF ComposerInv
<1> DEFINE t == ask[q].sum
<1>1. Answer(q, "again", "ok")
  BY DEF PreviewedAgain
<1>2. /\ preview' = t /\ submitting' = FALSE /\ sent' = sent /\ lost' = lost
      /\ seen' = [seen EXCEPT ![t] = @ + 1] /\ Handled(q)
      /\ UNCHANGED <<open, source, pasted, csv, previewing, created, parser, crossed>>
  BY DEF PreviewedAgain
<1>3. t \in Reading /\ t[1] = ask[q].list
  BY <1>1, AnswerKnown DEF AskTyped
<1>4. seen' \in [Reading -> Nat] /\ sent' \in [Reading -> Nat] /\ lost' \in [Reading -> Nat]
  BY <1>1, <1>2, <1>3, AnswerKnown
<1>5. Budgeted'
  BY <1>2, <1>3, BudgetSeen DEF Handled
<1>6. Is("web") /\ ~crossed => (csv' # Blank => csv' = source') /\ preview'[1] = source'
  BY <1>1, <1>2, <1>3, AnswerKnown DEF OfSource
<1>7. /\ {source, pasted, csv}' \subseteq List \union {Blank}
      /\ {previewing, submitting, created}' \subseteq BOOLEAN
      /\ Here(q) /\ Submits(q)
  BY <1>1, <1>2, AnswerKnown
<1>8. ComposerTyped' /\ Waiting' /\ OfSource'
  BY <1>2, <1>3, <1>4, <1>6, <1>7, GoneStep
<1> QED
  BY <1>5, <1>8

\* The server has read the list otherwise: web asks for a preview, the dashboard drops its own.
LEMMA MismatchedStep ==
    ASSUME ComposerInv, NEW q \in Ask, Mismatched(q)
    PROVE  ComposerInv'
<1> USE DEF ComposerInv
<1>1. Answer(q, "create", "mismatch")
  BY DEF Mismatched
<1>2. /\ UNCHANGED <<open, source, pasted, csv, previewing, created, parser, crossed>>
      /\ UNCHANGED counts /\ sent' = sent /\ seen' = seen /\ lost' = lost
  BY DEF Mismatched, counts
<1>3. /\ ask[q] # Blank /\ ask[q].reply \notin {Blank, "ok"} /\ Here(q) /\ Submits(q)
      /\ sent' \in [Reading -> Nat] /\ seen' \in [Reading -> Nat] /\ lost' \in [Reading -> Nat]
      /\ {source, pasted, csv}' \subseteq List \union {Blank} /\ created' \in BOOLEAN
      /\ previewing' \in BOOLEAN /\ preview \in Reading \union {Blank}
  BY <1>1, <1>2, AnswerKnown, NotBlank
<1>4. CASE /\ Is("web") /\ asks < MaxAsks /\ asks' = asks + 1
           /\ ask' = [ask EXCEPT ![q] = [@ EXCEPT !.kind = "again", !.reply = Blank]]
           /\ UNCHANGED <<preview, submitting>>
  <2> DEFINE b == [ask[q] EXCEPT !.kind = "again", !.reply = Blank]
  <2>1. /\ b \in BulkRequest /\ b.kind = "again" /\ b.reply = Blank
        /\ b.list = ask[q].list /\ b.creates = ask[q].creates
    BY <1>1, AnswerKnown DEF BulkRequest
  <2>2. ask' = [ask EXCEPT ![q] = b]
    BY <1>4
  <2> HIDE DEF b
  <2>3. AskTyped(b) /\ ~b.creates
    BY <1>3, <1>4, <2>1, NotBlank DEF AskTyped, Waiting
  <2>4. submitting' = TRUE
    BY <1>3, <1>4 DEF Waiting, ComposerTyped
  <2>5. Budgeted'
    BY <1>2, <1>3, <1>4, <2>1, <2>2, BudgetLoose
  <2>6. ComposerTyped' /\ Waiting' /\ OfSource'
    BY <1>2, <1>3, <1>4, <2>1, <2>2, <2>3, <2>4, FollowStep
  <2> QED
    BY <2>5, <2>6
<1>5. CASE Is("dashboard") /\ Handled(q) /\ preview' = Blank /\ submitting' = FALSE
  <2>1. Budgeted'
    BY <1>2, <1>5, BudgetQuiet DEF Handled
  <2>2. ~Is("web") /\ submitting' \in BOOLEAN
    BY <1>5 DEF Is
  <2>3. ComposerTyped' /\ Waiting' /\ OfSource'
    BY <1>2, <1>3, <1>5, <2>2, GoneStep
  <2> QED
    BY <2>1, <2>3
<1> QED
  BY <1>4, <1>5 DEF Mismatched

-----------------------------------------------------------------------------
(* The screen is left *)

\* Another screen is opened: nothing is left to submit, and late answers change nothing.
LEMMA LeavesStep ==
    ASSUME ComposerInv, NEW s \in Screen, Leaves(s)
    PROVE  ComposerInv'
<1> USE DEF ComposerInv
<1>1. ask \in [Ask -> BulkRequest \union {Blank}] /\ \A q \in Ask : AskTyped(ask[q])
  BY DEF ComposerTyped
<1>2. ask' = [q \in Ask |-> IF ask[q] = Blank THEN Blank ELSE [ask[q] EXCEPT !.stays = FALSE]]
  BY DEF Leaves
<1>3. ASSUME NEW q \in Ask
      PROVE  /\ ask'[q] \in BulkRequest \union {Blank} /\ AskTyped(ask'[q]) /\ ~Here(q)'
             /\ (ask'[q] = Blank <=> ask[q] = Blank)
             /\ ask[q] # Blank => /\ ask'[q].kind = ask[q].kind /\ ask'[q].sum = ask[q].sum
                                  /\ ask'[q].reply = ask[q].reply
  <2>1. CASE ask[q] = Blank
    BY <1>2, <2>1 DEF AskTyped, Here
  <2>2. CASE ask[q] # Blank
    <3> DEFINE b == [ask[q] EXCEPT !.stays = FALSE]
    <3>1. ask'[q] = b /\ ask[q] \in BulkRequest
      BY <1>1, <1>2, <2>2
    <3>2. /\ b \in BulkRequest /\ ~b.stays /\ b.kind = ask[q].kind /\ b.sum = ask[q].sum
          /\ b.reply = ask[q].reply /\ b.list = ask[q].list
      BY <3>1 DEF BulkRequest
    <3> HIDE DEF b
    <3>3. AskTyped(b) /\ b # Blank
      BY <1>1, <2>2, <3>2, NotBlank DEF AskTyped
    <3> QED
      BY <2>2, <3>1, <3>2, <3>3 DEF Here
  <2> QED
    BY <2>1, <2>2
<1>4. /\ open' = s /\ source' = Blank /\ pasted' = Blank /\ csv' = Blank /\ preview' = Blank
      /\ previewing' = FALSE /\ submitting' = FALSE /\ created' = FALSE /\ crossed' = FALSE
      /\ asks' = asks /\ parser' = parser /\ sent' = sent /\ seen' = seen /\ lost' = lost
  BY DEF Leaves, counts
<1>5. ComposerTyped'
  <2>1. ask' \in [Ask -> BulkRequest \union {Blank}]
    BY <1>2, <1>3
  <2> QED
    BY <1>3, <1>4, <2>1 DEF ComposerTyped
<1>6. Waiting'
  BY <1>3 DEF Waiting, Submits
<1>7. Budgeted'
  <2>1. \A r \in Reading : Pending(r)' = Pending(r)
    BY <1>3 DEF Pending
  <2>2. \A r \in Reading : Spare(r)' = 0 /\ Spare(r) \in Nat
    BY <1>4, NotBlank DEF Spare
  <2>3. \A r \in Reading : sent[r] \in Nat /\ seen[r] \in Nat /\ lost[r] \in Nat
    BY DEF ComposerTyped
  <2>4. ASSUME NEW r \in Reading
        PROVE  sent'[r] + Cardinality(Pending(r)') + Spare(r)' <= seen'[r] + lost'[r]
    <3>1. sent[r] + Cardinality(Pending(r)) + Spare(r) <= seen[r] + lost[r]
      BY DEF Budgeted
    <3>2. Cardinality(Pending(r)') = Cardinality(Pending(r)) /\ Cardinality(Pending(r)) \in Nat
      BY <2>1, PendingFinite
    <3> QED
      BY <1>4, <2>2, <2>3, <3>1, <3>2
  <2> QED
    BY <2>4 DEF Budgeted
<1>8. OfSource'
  BY <1>3, <1>4 DEF OfSource
<1> QED
  BY <1>5, <1>6, <1>7, <1>8

\* A late answer goes.
LEMMA AnswerDroppedStep ==
    ASSUME ComposerInv, NEW q \in Ask, AnswerDropped(q)
    PROVE  ComposerInv'
<1> USE DEF ComposerInv
<1>1. /\ ask[q] # Blank /\ ~ask[q].stays /\ ask' = [ask EXCEPT ![q] = Blank] /\ asks' = asks
      /\ UNCHANGED <<open, form, parser, counts, crossed>> /\ preview' = preview
      /\ ask \in [Ask -> BulkRequest \union {Blank}]
  BY DEF AnswerDropped, Handled, form, ComposerTyped
<1>2. \A r \in Ask : ask'[r] = IF r = q THEN Blank ELSE ask[r]
  BY <1>1
<1>3. ComposerTyped'
  <2>1. \A r \in Ask : AskTyped(ask'[r])
    BY <1>2 DEF ComposerTyped, AskTyped
  <2> QED
    BY <1>1, <2>1 DEF ComposerTyped, form, counts
<1>4. /\ \A r \in Ask : (Here(r)' <=> Here(r)) /\ (Submits(r)' <=> Submits(r))
      /\ Is("web")' <=> Is("web")
  BY <1>1, <1>2 DEF Here, Submits, Is
<1>5. Waiting'
  BY <1>1, <1>2, <1>4 DEF Waiting, form, Here
<1>6. Budgeted'
  BY <1>1, BudgetLoose
<1>7. OfSource'
  BY <1>1, <1>2, <1>4 DEF OfSource, form, Here
<1> QED
  BY <1>3, <1>5, <1>6, <1>7

-----------------------------------------------------------------------------
\* An empty form satisfies the invariant.
LEMMA ComposerStarts == ComposerInit => ComposerInv
<1> SUFFICES ASSUME ComposerInit PROVE ComposerInv
  OBVIOUS
<1>1. \A q \in Ask : ask[q] = Blank
  BY DEF ComposerInit, Unasked
<1>2. ComposerTyped
  <2>1. sent \in [Reading -> Nat] /\ seen \in [Reading -> Nat] /\ lost \in [Reading -> Nat]
    BY DEF ComposerInit
  <2>2. asks \in 0..MaxAsks /\ parser \in 0..MaxParser
    BY ComposerAssumption DEF ComposerInit, ComposerAssumption
  <2>3. ask \in [Ask -> BulkRequest \union {Blank}]
    BY DEF ComposerInit, Unasked
  <2>4. \A q \in Ask : AskTyped(ask[q])
    BY <1>1 DEF AskTyped
  <2>5. /\ open \in Screen /\ {source, pasted, csv} \subseteq List \union {Blank}
        /\ preview \in Reading \union {Blank}
        /\ {previewing, submitting, created, crossed} \subseteq BOOLEAN
    BY DEF ComposerInit
  <2> QED
    BY <2>1, <2>2, <2>3, <2>4, <2>5 DEF ComposerTyped
<1>3. Waiting
  BY <1>1 DEF Waiting, Submits, Here
<1>4. Budgeted
  <2>1. ASSUME NEW s \in Reading PROVE Cardinality(Pending(s)) = 0 /\ Spare(s) = 0
    <3>1. Pending(s) = {}
      BY <1>1 DEF Pending
    <3> QED
      BY <3>1, FS_EmptySet, NotBlank DEF Spare, ComposerInit
  <2> QED
    BY <2>1 DEF Budgeted, ComposerInit
<1>5. OfSource
  BY <1>1 DEF OfSource, ComposerInit, Here
<1> QED
  BY <1>2, <1>3, <1>4, <1>5 DEF ComposerInv

\* Every step keeps the invariant.
LEMMA ComposerStep == ComposerInv /\ [ComposerNext]_composerVars => ComposerInv'
<1> SUFFICES ASSUME ComposerInv, [ComposerNext]_composerVars PROVE ComposerInv'
  OBVIOUS
<1> USE DEF ComposerInv
<1>1. /\ pasted \in List \union {Blank} /\ source \in List \union {Blank} /\ csv \in List \union {Blank}
      /\ created \in BOOLEAN /\ crossed \in BOOLEAN /\ parser \in 0..MaxParser /\ preview \in Reading \union {Blank}
  BY DEF ComposerTyped
<1>2. ASSUME NEW l \in List, Paste(l) \/ Type(l) PROVE ComposerInv'
  <2>1. /\ ask' = ask /\ asks' = asks /\ UNCHANGED <<open, previewing, submitting, counts>>
        /\ parser' = parser /\ pasted' \in List \union {Blank} /\ created' = created
        /\ source' \in List /\ preview' = Blank /\ csv' \in {Blank, csv}
        /\ crossed' = (crossed \/ Underway)
    BY <1>1, <1>2 DEF Paste, Type
  <2>2. csv' = Blank \/ ~Is("web")
    BY <1>2 DEF Paste, Type, Is
  <2>3. parser' \in 0..MaxParser /\ created' \in BOOLEAN
    BY <1>1, <2>1
  <2> QED
    BY <2>1, <2>2, <2>3, SourceStep
<1>3. ASSUME NEW l \in List, NEW q \in Ask, ChooseFile(q, l) PROVE ComposerInv'
  BY <1>3, PreviewsStep DEF ChooseFile
<1>4. ASSUME NEW q \in Ask, PreviewPasted(q) PROVE ComposerInv'
  BY <1>1, <1>4, PreviewsStep DEF PreviewPasted
<1>5. ASSUME NEW q \in Ask, Submit(q) PROVE ComposerInv'
  BY <1>1, <1>5, SubmitStep DEF Submit, CanSubmit
<1>6. ASSUME NEW q \in Ask, RunPreview(q) \/ SubmitTyped(q) PROVE ComposerInv'
  <2>1. ASSUME NEW creates \in BOOLEAN, PreviewStep(q, creates), source # Blank,
               ~previewing, ~submitting, Is("dashboard"),
               UNCHANGED <<open, source, pasted, csv, created, parser, counts, crossed>>
        PROVE  ComposerInv'
    <3>1. CASE Flaws(source)
      BY <1>1, <2>1, <3>1, SourceStep DEF Flaws
    <3>2. CASE /\ previewing' = TRUE /\ Asks(q, "preview", source, Blank, creates)
               /\ UNCHANGED <<preview, submitting>>
      BY <2>1, <3>2, RunStep
    <3> QED
      BY <2>1, <3>1, <3>2 DEF PreviewStep
  <2>2. CASE RunPreview(q)
    <3>1. PICK creates \in BOOLEAN : PreviewStep(q, creates)
      BY <2>2 DEF RunPreview
    <3> QED
      BY <2>1, <2>2, <3>1 DEF RunPreview
  <2>3. CASE SubmitTyped(q) /\ Fresh
    <3>1. ~Is("web") /\ source \in List /\ preview # Blank
      BY <1>1, <2>3 DEF SubmitTyped, Is, Fresh
    <3>2. /\ submitting' = TRUE /\ Asks(q, "create", source, preview, FALSE)
          /\ UNCHANGED <<open, source, pasted, csv, preview, previewing, created, parser, counts, crossed>>
          /\ ~previewing /\ ~submitting
      BY <2>3 DEF SubmitTyped
    <3> QED
      BY <3>1, <3>2, SubmitStep
  <2>4. CASE SubmitTyped(q) /\ ~Fresh
    <3>1. PICK creates \in BOOLEAN : PreviewStep(q, creates)
      BY <2>4 DEF SubmitTyped
    <3> QED
      BY <2>1, <2>4, <3>1 DEF SubmitTyped
  <2> QED
    BY <1>6, <2>2, <2>3, <2>4
<1>7. ASSUME ParserChanges PROVE ComposerInv'
  <2>1. parser' \in 0..MaxParser
    BY <1>1, <1>7, ComposerAssumption DEF ParserChanges, ComposerAssumption
  <2> QED
    BY <1>1, <1>7, <2>1, SourceStep DEF ParserChanges, form
<1>8. ASSUME NEW s \in Screen, Leaves(s) PROVE ComposerInv'
  BY <1>8, LeavesStep
<1>9. ASSUME NEW q \in Ask, NEW reply \in {"ok", "mismatch", "error"},
             AnswersPreview(q, reply) \/ AnswersCreate(q, reply)
      PROVE  ComposerInv'
  BY <1>9, AnswersStep
<1>10. ASSUME NEW q \in Ask,
              \/ Previewed(q) \/ NotPreviewed(q) \/ Created(q) \/ Mismatched(q)
              \/ PreviewedAgain(q) \/ NotSubmitted(q) \/ Breaks(q) \/ AnswerDropped(q)
       PROVE  ComposerInv'
  BY <1>10, PreviewedStep, DoneStep, MismatchedStep, PreviewedAgainStep, BreaksStep, AnswerDroppedStep
<1>11. CASE UNCHANGED composerVars
  BY <1>1, <1>11, SourceStep DEF composerVars, form
<1>12. CASE ComposerNext
  BY <1>2, <1>3, <1>4, <1>5, <1>6, <1>7, <1>8, <1>9, <1>10, <1>12 DEF ComposerNext
<1> QED
  BY <1>11, <1>12

\* The invariant of the two screens (Bulk.tsx, CampaignsScreen.tsx): every preview on the
\* screen, and every submission under way, is one that may still be sent.
THEOREM ComposerHolds == ComposerSpec => []ComposerInv
BY ComposerStarts, ComposerStep, PTL DEF ComposerSpec

\* A list spends credits no more often than its preview came to the screen, and what web
\* offers to submit is the list chosen last (Bulk.tsx:520, routes/bulk.ts:269).
THEOREM SendsWhatWasReviewed == ComposerSpec => []ReviewedIsSent
<1>1. ComposerInv => ReviewedIsSent
  <2> SUFFICES ASSUME ComposerInv PROVE ReviewedIsSent
    OBVIOUS
  <2>1. OneSendPerPreview
    <3> SUFFICES ASSUME NEW s \in Reading PROVE sent[s] <= seen[s] + lost[s]
      BY DEF OneSendPerPreview
    <3>1. sent[s] + Cardinality(Pending(s)) + Spare(s) <= seen[s] + lost[s]
      BY DEF ComposerInv, Budgeted
    <3>2. /\ sent[s] \in Nat /\ seen[s] \in Nat /\ lost[s] \in Nat
          /\ Cardinality(Pending(s)) \in Nat /\ Spare(s) \in Nat
      BY PendingFinite DEF ComposerInv, ComposerTyped, Spare
    <3> QED
      BY <3>1, <3>2
  <2>2. FreshPerSource
    BY DEF ComposerInv, OfSource, FreshPerSource, CanSubmit
  <2> QED
    BY <2>1, <2>2 DEF ReviewedIsSent
<1> QED
  BY <1>1, ComposerHolds, PTL

-----------------------------------------------------------------------------
(* CONSOLE: the panels of the operator and of the customer.                 *)

\* A request is a record of these fields.
IsWhole(q) == DOMAIN q = {"n", "by", "row", "want", "old", "answer", "rows"}

\* What is answered, and every load, is some tab's; a change has a number.
IsAsked(q) ==
    /\ IsWhole(q)
    /\ q.n \in Nat /\ q.by \in Tab \union {Nil} /\ q.old \in BOOLEAN
    /\ (Looks(q) \/ q.answer # "none") => q.by \in Tab
    /\ ~Looks(q) => q.n > 0

\* The variables keep their types, as far as the argument needs them.
PanelTyped ==
    /\ panel \in Panels /\ pressed \in Nat
    /\ sees = [t \in Tab |-> sees[t]]
    /\ busy \in [Tab -> BOOLEAN] /\ error \in [Tab -> BOOLEAN]
    /\ due \in [Tab -> BOOLEAN] /\ slip \in [Tab -> BOOLEAN]
    /\ \A q \in req : IsAsked(q)

\* A tab that shows old rows, and neither shows an error nor has an excuse, has a load
\* under way that was sent after the last change it was told of.
Fetches(q, t) == Looks(q) /\ q.by = t /\ ~q.old
Catching == \A t \in Tab : due[t] /\ ~slip[t] /\ ~error[t] => \E q \in req : Fetches(q, t)

\* The orderly panels: no load is older than a change that a tab was told of.
NoneLate == Orderly =>
    /\ \A t \in Tab : ~slip[t]
    /\ \A q \in req : ~(Looks(q) /\ q.old) /\ q.want.what # "view"

\* approvals: a tab has one request at most, which keeps its buttons waiting; before the
\* first load there is none to press.
OneAtATime == At("approvals") =>
    /\ \A q \in req, r \in req : q.by = r.by /\ q.by \in Tab => q = r
    /\ \A q \in req : q.by \in Tab /\ (~Looks(q) \/ q.n > 0) => busy[q.by]
    /\ \A q \in req : Looks(q) /\ q.n = 0 => sees[q.by] = Nil

\* settings: what is saved has been loaded, and settings are loaded once.
LoadsOnce == At("settings") =>
    /\ \A t \in Tab : ~due[t]
    /\ \A q \in req : Looks(q) => sees[q.by] = Nil /\ \A r \in req : r.by = q.by => r = q

\* switch: the rows are those of the last answer.
NeverLoads == At("switch") => (\A t \in Tab : ~due[t]) /\ \A q \in req : ~Looks(q)

\* The inductive invariant.
ConsoleInv == PanelTyped /\ Catching /\ NoneLate /\ OneAtATime /\ LoadsOnce /\ NeverLoads

\* Nil is nobody's tab.
LEMMA NobodyIsNil == Nil \notin Tab
BY ConsoleAssumption DEF ConsoleAssumption

\* A load is no change.
LEMMA LooksAtRows == \A q : Looks(q) => q.want.what = "look"
BY DEF Looks, Look, Do

\* The requests that buttons make.
LEMMA SentIs ==
    ASSUME NEW t \in Tab, NEW n \in Nat, NEW x, NEW w, w # Look => n > 0
    PROVE  /\ IsAsked(Sent(t, n, x, w)) /\ Sent(t, n, x, w).by = t /\ Sent(t, n, x, w).want = w
           /\ ~Sent(t, n, x, w).old /\ Sent(t, n, x, w).n = n /\ Sent(t, n, x, w).answer = "none"
BY DEF IsAsked, IsWhole, Sent, Looks

\* More is asked.
LEMMA CatchesOn ==
    ASSUME ConsoleInv, NEW t \in Tab, req \subseteq req', due' = due,
           \/ Clears(t)
           \/ error' = error /\ slip' = slip
           \/ error' = [error EXCEPT ![t] = TRUE] /\ slip' = slip
    PROVE  /\ Catching'
           /\ error' \in [Tab -> BOOLEAN] /\ slip' \in [Tab -> BOOLEAN]
<1> USE DEF ConsoleInv, PanelTyped
<1>1. error' \in [Tab -> BOOLEAN] /\ slip' \in [Tab -> BOOLEAN]
  BY DEF Clears
<1>2. ASSUME NEW u \in Tab, due'[u], ~slip'[u], ~error'[u]
      PROVE  \E q \in req' : Fetches(q, u)
  <2>1. due[u] /\ ~slip[u] /\ ~error[u]
    BY <1>2 DEF Clears
  <2> QED
    BY <2>1 DEF Catching
<1> QED
  BY <1>1, <1>2 DEF Catching

\* A button of a panel that is not orderly.
LEMMA PressedStep ==
    ASSUME ConsoleInv, ~Orderly, NEW t \in Tab, req \subseteq req',
           UNCHANGED <<panel, sees, due>>, pressed' \in Nat, busy' \in [Tab -> BOOLEAN],
           \A r \in req' : r \in req \/ IsAsked(r),
           \/ Clears(t)
           \/ error' = error /\ slip' = slip
           \/ error' = [error EXCEPT ![t] = TRUE] /\ slip' = slip
    PROVE  ConsoleInv'
<1> USE DEF ConsoleInv
<1>1. Catching' /\ error' \in [Tab -> BOOLEAN] /\ slip' \in [Tab -> BOOLEAN]
  BY CatchesOn
<1>2. PanelTyped'
  BY <1>1 DEF PanelTyped
<1>3. NoneLate' /\ OneAtATime' /\ LoadsOnce' /\ NeverLoads'
  BY DEF NoneLate, OneAtATime, LoadsOnce, NeverLoads, Orderly, At
<1> QED
  BY <1>1, <1>2, <1>3

\* A request is served or lost: another takes its place, or a change nobody waits for goes.
LEMMA ReplacedStep ==
    ASSUME ConsoleInv, NEW q \in req, NEW r, IsAsked(r),
           r.by = q.by, r.n = q.n, r.want = q.want, r.old = q.old,
           Replace(q, r), UNCHANGED <<panel, sees, busy, error, pressed, due, slip>>
    PROVE  ConsoleInv'
<1> USE DEF ConsoleInv
<1>1. /\ \A p \in req' : p = r \/ (p \in req /\ p # q)
      /\ \A p \in req : p = q \/ p \in req'
      /\ r \in req'
  BY DEF Replace
<1>2. Looks(r) <=> Looks(q)
  BY DEF Looks
<1>3. PanelTyped'
  BY <1>1 DEF PanelTyped
<1>4. Catching'
  <2>1. ASSUME NEW t \in Tab, NEW p \in req, Fetches(p, t) PROVE \E o \in req' : Fetches(o, t)
    BY <1>1, <1>2, <2>1 DEF Fetches
  <2> QED
    BY <2>1 DEF Catching
<1>5. NoneLate'
  BY <1>1, <1>2 DEF NoneLate, Orderly
<1>6. OneAtATime'
  BY <1>1, <1>2 DEF OneAtATime, At
<1>7. LoadsOnce'
  BY <1>1, <1>2 DEF LoadsOnce, At
<1>8. NeverLoads'
  BY <1>1, <1>2 DEF NeverLoads, At
<1> QED
  BY <1>3, <1>4, <1>5, <1>6, <1>7, <1>8

\* A change that nobody waits for goes.
LEMMA GivenUpStep ==
    ASSUME ConsoleInv, NEW q \in req, ~Looks(q), req' = req \ {q},
           UNCHANGED <<panel, sees, busy, error, pressed, due, slip>>
    PROVE  ConsoleInv'
<1> USE DEF ConsoleInv
<1>1. PanelTyped'
  BY DEF PanelTyped
<1>2. Catching'
  BY DEF Catching, Fetches
<1>3. NoneLate' /\ OneAtATime' /\ LoadsOnce' /\ NeverLoads'
  BY DEF NoneLate, OneAtATime, LoadsOnce, NeverLoads, Orderly, At
<1> QED
  BY <1>1, <1>2, <1>3

\* The server serves a request.
LEMMA ServedStep ==
    ASSUME ConsoleInv, NEW q \in req, Serve(q)
    PROVE  ConsoleInv'
<1> USE DEF ConsoleInv
<1>1. IsAsked(q) /\ UNCHANGED <<panel, sees, busy, error, pressed, due, slip>>
  BY DEF PanelTyped, Serve, tabVars
<1>2. CASE Listed(q)
  <2> DEFINE r == [q EXCEPT !.answer = "ok", !.rows = Answers]
  <2>1. Looks(q) /\ Replace(q, r)
    BY <1>2 DEF Listed
  <2>2. r.by = q.by /\ r.n = q.n /\ r.want = q.want /\ r.old = q.old /\ r.answer = "ok" /\ IsWhole(r)
    <3>1. IsWhole(q)
      BY <1>1 DEF IsAsked
    <3> QED
      BY <3>1 DEF IsWhole
  <2> HIDE DEF r
  <2>3. IsAsked(r)
    BY <1>1, <2>1, <2>2 DEF IsAsked, Looks
  <2> QED
    BY <1>1, <2>1, <2>2, <2>3, ReplacedStep
<1>3. CASE Change(q) /\ q.by = Nil
  <2>1. ~Looks(q) /\ req' = req \ {q}
    BY <1>3 DEF Change
  <2> QED
    BY <1>1, <2>1, GivenUpStep
<1>4. CASE Change(q) /\ q.by # Nil
  <2>1. PICK a, s : Replace(q, [q EXCEPT !.answer = a, !.rows = s])
    BY <1>4 DEF Change
  <2> DEFINE r == [q EXCEPT !.answer = a, !.rows = s]
  <2>2. r.by = q.by /\ r.n = q.n /\ r.want = q.want /\ r.old = q.old /\ IsWhole(r)
    <3>1. IsWhole(q)
      BY <1>1 DEF IsAsked
    <3> QED
      BY <3>1 DEF IsWhole
  <2>3. Replace(q, r)
    BY <2>1
  <2> HIDE DEF r
  <2>4. IsAsked(r)
    BY <1>1, <1>4, <2>2 DEF IsAsked, Looks
  <2> QED
    BY <1>1, <2>2, <2>3, <2>4, ReplacedStep
<1> QED
  BY <1>2, <1>3, <1>4 DEF Serve

\* A request, or its answer, is lost.
LEMMA LoseStep ==
    ASSUME ConsoleInv, NEW q \in req, Lose(q)
    PROVE  ConsoleInv'
<1> USE DEF ConsoleInv
<1>1. IsAsked(q) /\ UNCHANGED <<panel, sees, busy, error, pressed, due, slip>>
  BY DEF PanelTyped, Lose, tabVars
<1>2. CASE q.by = Nil
  <2>1. ~Looks(q) /\ req' = req \ {q}
    BY <1>1, <1>2, NobodyIsNil DEF Lose, IsAsked
  <2> QED
    BY <1>1, <2>1, GivenUpStep
<1>3. CASE q.by # Nil
  <2> DEFINE r == [q EXCEPT !.answer = "failed", !.rows = Nil]
  <2>1. Replace(q, r)
    BY <1>3 DEF Lose
  <2>2. r.by = q.by /\ r.n = q.n /\ r.want = q.want /\ r.old = q.old /\ IsWhole(r)
    <3>1. IsWhole(q)
      BY <1>1 DEF IsAsked
    <3> QED
      BY <3>1 DEF IsWhole
  <2> HIDE DEF r
  <2>3. IsAsked(r)
    BY <1>1, <1>3, <2>2 DEF IsAsked, Looks
  <2> QED
    BY <1>1, <2>1, <2>2, <2>3, ReplacedStep
<1> QED
  BY <1>2, <1>3

-----------------------------------------------------------------------------
\* The loads of one tab grow old, and nothing else changes.
LEMMA AgedIs ==
    ASSUME NEW t \in Tab, NEW rs, \A r \in rs : IsAsked(r)
    PROVE  /\ \A p \in Aged(t, rs) : IsAsked(p)
           /\ \A r \in rs : r.by # t => r \in Aged(t, rs)
           /\ (\A r \in rs : ~(Looks(r) /\ r.by = t)) => Aged(t, rs) = rs
<1>1. ASSUME NEW r \in rs PROVE IsAsked([r EXCEPT !.old = TRUE])
  <2> DEFINE p == [r EXCEPT !.old = TRUE]
  <2>1. IsAsked(r) /\ IsWhole(r)
    BY DEF IsAsked
  <2>2. /\ p.by = r.by /\ p.n = r.n /\ p.want = r.want /\ p.old = TRUE /\ p.answer = r.answer
        /\ IsWhole(p)
    BY <2>1 DEF IsWhole
  <2> HIDE DEF p
  <2>3. IsAsked(p)
    BY <2>1, <2>2 DEF IsAsked, Looks
  <2> QED
    BY <2>3 DEF p
<1>2. \A p \in Aged(t, rs) : \E r \in rs :
        p = IF Looks(r) /\ r.by = t THEN [r EXCEPT !.old = TRUE] ELSE r
  BY DEF Aged
<1>3. \A p \in Aged(t, rs) : IsAsked(p)
  BY <1>1, <1>2
<1>4. \A r \in rs : r.by # t => r \in Aged(t, rs)
  BY DEF Aged
<1>5. ASSUME \A r \in rs : ~(Looks(r) /\ r.by = t) PROVE Aged(t, rs) = rs
  <2>1. \A r \in rs : r \in Aged(t, rs)
    BY <1>5 DEF Aged
  <2>2. \A p \in Aged(t, rs) : p \in rs
    BY <1>2, <1>5
  <2> QED
    BY <2>1, <2>2
<1> QED
  BY <1>3, <1>4, <1>5

\* What comes to one tab is nothing to the others.
LEMMA OthersCatchOn ==
    ASSUME ConsoleInv, NEW t \in Tab,
           \A u \in Tab : u # t => due'[u] = due[u] /\ slip'[u] = slip[u] /\ error'[u] = error[u],
           \A p \in req : Looks(p) /\ p.by # t => p \in req',
           due'[t] /\ ~slip'[t] /\ ~error'[t] => \E p \in req' : Fetches(p, t)
    PROVE  Catching'
<1> SUFFICES ASSUME NEW u \in Tab, due'[u], ~slip'[u], ~error'[u]
             PROVE  \E p \in req' : Fetches(p, u)
  BY DEF Catching
<1>1. CASE u # t
  <2>1. PICK p \in req : Fetches(p, u)
    BY <1>1 DEF ConsoleInv, Catching
  <2> QED
    BY <1>1, <2>1 DEF Fetches
<1> QED
  BY <1>1

\* A change was made: the load that follows is under way.
LEMMA ToldStep ==
    ASSUME ConsoleInv, NEW q \in req, Told(q)
    PROVE  ConsoleInv'
<1> USE DEF ConsoleInv
<1> DEFINE t == q.by
           new == Load(t, q.n)
<1>1. IsAsked(q) /\ q.answer = "ok" /\ ~Looks(q)
  BY DEF Told, PanelTyped
<1>2. t \in Tab /\ q.n \in Nat /\ q.n > 0
  BY <1>1 DEF IsAsked
<1>3. IsAsked(new) /\ Looks(new) /\ new.by = t /\ ~new.old /\ new.n = q.n /\ new.want.what = "look"
  BY <1>2, SentIs, LooksAtRows DEF Load, Looks
<1>4. req' = Aged(t, req \ {q}) \union {new} /\ panel' = panel /\ pressed' = pressed /\ sees' = sees
  BY DEF Told, Reload
<1>5. /\ busy' = [busy EXCEPT ![t] = @ /\ (Awaits \/ Idle(q.want))]
      /\ error' = [error EXCEPT ![t] = @ /\ ~Heals(q.want)]
      /\ due' = [due EXCEPT ![t] = TRUE] /\ slip' = [slip EXCEPT ![t] = FALSE]
      /\ panel \notin {"settings", "mail", "switch"}
  BY DEF Told
<1> HIDE DEF t, new
<1>6. \A r \in req \ {q} : IsAsked(r)
  BY DEF PanelTyped
<1>7. \A p \in Aged(t, req \ {q}) : IsAsked(p)
  BY <1>2, <1>6, AgedIs
<1>8. PanelTyped'
  <2>1. /\ busy' \in [Tab -> BOOLEAN] /\ error' \in [Tab -> BOOLEAN]
        /\ due' \in [Tab -> BOOLEAN] /\ slip' \in [Tab -> BOOLEAN]
    BY <1>2, <1>5 DEF PanelTyped
  <2>2. \A p \in req' : IsAsked(p)
    BY <1>3, <1>4, <1>7
  <2> QED
    BY <1>4, <2>1, <2>2 DEF PanelTyped
<1>9. Catching'
  <2>1. \A p \in req \ {q} : p.by # t => p \in Aged(t, req \ {q})
    BY <1>2, <1>6, AgedIs
  <2>2. \A p \in req : Looks(p) /\ p.by # t => p \in req'
    BY <1>1, <1>4, <2>1
  <2>3. new \in req' /\ Fetches(new, t)
    BY <1>3, <1>4 DEF Fetches
  <2>4. \A u \in Tab : u # t => due'[u] = due[u] /\ slip'[u] = slip[u] /\ error'[u] = error[u]
    BY <1>5 DEF PanelTyped
  <2> QED
    BY <1>2, <2>2, <2>3, <2>4, OthersCatchOn
<1>10. CASE At("approvals")
  <2>1. \A r \in req \ {q} : r.by # t
    BY <1>2, <1>10 DEF OneAtATime, t
  <2>2. req' = (req \ {q}) \union {new}
    BY <1>2, <1>4, <1>6, <2>1, AgedIs
  <2>3. \A u \in Tab : slip'[u] = slip[u] \/ ~slip'[u]
    BY <1>2, <1>5 DEF PanelTyped
  <2>4. NoneLate'
    BY <1>3, <1>4, <1>10, <2>2, <2>3 DEF NoneLate, Orderly, At
  <2>5. busy'[t] /\ \A u \in Tab : u # t => busy'[u] = busy[u]
    BY <1>1, <1>2, <1>5, <1>10 DEF OneAtATime, Awaits, At, PanelTyped, t
  <2>6. OneAtATime'
    <3>1. \A p \in req', r \in req' : p.by = r.by /\ p.by \in Tab => p = r
      BY <1>3, <1>10, <2>1, <2>2 DEF OneAtATime
    <3>2. \A p \in req' : p.by \in Tab /\ (~Looks(p) \/ p.n > 0) => busy'[p.by]
      BY <1>3, <1>10, <2>1, <2>2, <2>5 DEF OneAtATime
    <3>3. \A p \in req' : Looks(p) /\ p.n = 0 => sees'[p.by] = Nil
      BY <1>2, <1>3, <1>4, <1>10, <2>2 DEF OneAtATime
    <3> QED
      BY <3>1, <3>2, <3>3 DEF OneAtATime
  <2> QED
    BY <1>4, <1>8, <1>9, <1>10, <2>4, <2>6 DEF LoadsOnce, NeverLoads, At
<1>11. CASE ~At("approvals")
  BY <1>4, <1>5, <1>8, <1>9, <1>11 DEF NoneLate, Orderly, At, OneAtATime, LoadsOnce, NeverLoads
<1> QED
  BY <1>10, <1>11

\* A group's numbers are shown.
LEMMA ViewedStep ==
    ASSUME ConsoleInv, NEW q \in req, Viewed(q)
    PROVE  ConsoleInv'
<1> USE DEF ConsoleInv
<1>1. /\ IsAsked(q) /\ q.by \in Tab /\ q.want.what = "view" /\ req' = req \ {q} /\ Clears(q.by)
      /\ UNCHANGED <<panel, sees, busy, pressed, due>>
  BY DEF Viewed, PanelTyped, IsAsked
<1>2. ~Orderly /\ ~Looks(q)
  BY <1>1, LooksAtRows DEF NoneLate
<1>3. PanelTyped'
  BY <1>1 DEF PanelTyped, Clears
<1>4. Catching'
  <2>1. ASSUME due'[q.by], ~slip'[q.by], ~error'[q.by]
        PROVE  \E p \in req' : Fetches(p, q.by)
    <3>1. due[q.by] /\ ~slip[q.by] /\ ~error[q.by]
      BY <1>1, <2>1 DEF Clears, PanelTyped
    <3> QED
      BY <1>1, <1>2, <3>1 DEF Catching, Fetches
  <2>2. \A u \in Tab : u # q.by => due'[u] = due[u] /\ slip'[u] = slip[u] /\ error'[u] = error[u]
    BY <1>1 DEF Clears, PanelTyped
  <2>3. \A p \in req : Looks(p) /\ p.by # q.by => p \in req'
    BY <1>1
  <2> QED
    BY <1>1, <2>1, <2>2, <2>3, OthersCatchOn
<1>5. NoneLate' /\ OneAtATime' /\ LoadsOnce' /\ NeverLoads'
  BY <1>1, <1>2 DEF NoneLate, OneAtATime, LoadsOnce, NeverLoads, Orderly, At
<1> QED
  BY <1>3, <1>4, <1>5

\* What was saved is shown.
LEMMA SavedStep ==
    ASSUME ConsoleInv, NEW t \in Tab, Saved(t)
    PROVE  ConsoleInv'
<1> USE DEF ConsoleInv
<1>1. PICK s \in Saves(t) : s \in req /\ s.by = t /\ ~Looks(s)
  BY DEF Saved, Saves
<1>2. /\ panel \in {"settings", "mail", "switch"} /\ req' = Aged(t, req \ Saves(t))
      /\ panel' = panel /\ pressed' = pressed
      /\ busy' = [busy EXCEPT ![t] = FALSE] /\ error' = [error EXCEPT ![t] = @ /\ ~At("switch")]
      /\ due' = [due EXCEPT ![t] = FALSE] /\ slip' = [slip EXCEPT ![t] = FALSE]
  BY DEF Saved
<1>3. PICK view : sees' = [sees EXCEPT ![t] = view]
  BY DEF Saved
<1>4. \A r \in req \ Saves(t) : IsAsked(r)
  BY DEF PanelTyped
<1>5. PanelTyped'
  <2>1. \A p \in req' : IsAsked(p)
    BY <1>2, <1>4, AgedIs
  <2>2. sees' = [u \in Tab |-> sees'[u]]
    BY <1>3 DEF PanelTyped
  <2>3. /\ busy' \in [Tab -> BOOLEAN] /\ error' \in [Tab -> BOOLEAN]
        /\ due' \in [Tab -> BOOLEAN] /\ slip' \in [Tab -> BOOLEAN]
    BY <1>2 DEF PanelTyped
  <2> QED
    BY <1>2, <2>1, <2>2, <2>3 DEF PanelTyped
<1>6. \A u \in Tab : u # t => due'[u] = due[u] /\ slip'[u] = slip[u] /\ error'[u] = error[u]
                              /\ sees'[u] = sees[u]
  BY <1>2, <1>3 DEF PanelTyped
<1>7. ~due'[t] /\ ~slip'[t]
  BY <1>2 DEF PanelTyped
<1>8. Catching'
  <2>1. \A p \in req \ Saves(t) : p.by # t => p \in req'
    BY <1>2, <1>4, AgedIs
  <2>2. \A p \in req : Looks(p) /\ p.by # t => p \in req'
    BY <2>1 DEF Saves
  <2> QED
    BY <1>6, <1>7, <2>2, OthersCatchOn
<1>9. CASE At("settings") \/ At("switch")
  <2>1. \A r \in req : ~(Looks(r) /\ r.by = t)
    BY <1>1, <1>9 DEF LoadsOnce, NeverLoads
  <2>2. req' = req \ Saves(t)
    BY <1>2, <1>4, <2>1, AgedIs
  <2>3. NoneLate'
    BY <1>2, <1>6, <1>7, <1>9, <2>2 DEF NoneLate, Orderly, At
  <2>4. LoadsOnce' /\ NeverLoads'
    <3>1. \A p \in req' : Looks(p) => p \in req /\ p.by # t /\ p.by \in Tab
      BY <2>1, <2>2 DEF PanelTyped, IsAsked
    <3> QED
      BY <1>2, <1>6, <1>7, <2>2, <3>1 DEF LoadsOnce, NeverLoads, At
  <2> QED
    BY <1>2, <1>5, <1>8, <1>9, <2>3, <2>4 DEF OneAtATime, At
<1>10. CASE ~(At("settings") \/ At("switch"))
  BY <1>2, <1>5, <1>8, <1>10 DEF NoneLate, Orderly, At, OneAtATime, LoadsOnce, NeverLoads
<1> QED
  BY <1>9, <1>10

\* A change was refused or lost: that is an error.
LEMMA FailedStep ==
    ASSUME ConsoleInv, NEW q \in req, Failed(q)
    PROVE  ConsoleInv'
<1> USE DEF ConsoleInv
<1> DEFINE alone == IF At("settings") THEN Saves(q.by) ELSE {q}
<1>1. /\ IsAsked(q) /\ q.answer = "failed" /\ ~Looks(q) /\ q.by \in Tab
      /\ req' = (req \ alone) \union {[r EXCEPT !.by = Nil] : r \in {r \in alone : r.answer = "none"}}
      /\ error' = [error EXCEPT ![q.by] = TRUE]
      /\ busy' = [busy EXCEPT ![q.by] = @ /\ Idle(q.want)]
      /\ UNCHANGED <<panel, sees, pressed, due, slip>>
  BY DEF Failed, PanelTyped, IsAsked
<1>2. q \in alone /\ \A r \in alone : r \in req /\ r.by = q.by /\ ~Looks(r)
  BY <1>1 DEF Saves
<1> HIDE DEF alone
<1>3. ASSUME NEW r \in alone, r.answer = "none"
      PROVE  LET p == [r EXCEPT !.by = Nil]
             IN  IsAsked(p) /\ p.by = Nil /\ ~Looks(p) /\ p.want = r.want
  <2> DEFINE p == [r EXCEPT !.by = Nil]
  <2>1. IsAsked(r) /\ IsWhole(r) /\ ~Looks(r)
    BY <1>2 DEF PanelTyped, IsAsked
  <2>2. /\ p.by = Nil /\ p.n = r.n /\ p.want = r.want /\ p.old = r.old /\ p.answer = "none"
        /\ IsWhole(p)
    BY <1>3, <2>1 DEF IsWhole
  <2> HIDE DEF p
  <2>3. IsAsked(p) /\ ~Looks(p)
    BY <2>1, <2>2 DEF IsAsked, Looks
  <2> QED
    BY <2>2, <2>3 DEF p
<1>4. \A p \in req' :
          \/ p \in req /\ p \notin alone
          \/ IsAsked(p) /\ p.by = Nil /\ ~Looks(p) /\ \E r \in req : p.want = r.want
  BY <1>1, <1>2, <1>3
<1>5. \A p \in req : Looks(p) => p \in req'
  BY <1>1, <1>2
<1>6. PanelTyped'
  BY <1>1, <1>4 DEF PanelTyped
<1>7. error'[q.by] /\ \A u \in Tab : u # q.by => error'[u] = error[u] /\ busy'[u] = busy[u]
  BY <1>1 DEF PanelTyped
<1>8. Catching'
  BY <1>1, <1>5, <1>7, OthersCatchOn
<1>9. NoneLate'
  BY <1>1, <1>4 DEF NoneLate, Orderly, At
<1>10. OneAtATime'
  <2> SUFFICES ASSUME At("approvals") PROVE OneAtATime'
    BY <1>1 DEF OneAtATime, At
  <2>1. \A p \in req' : p.by \in Tab => p \in req /\ p.by # q.by
    BY <1>1, <1>2, <1>4, NobodyIsNil DEF OneAtATime
  <2>2. \A p \in req', r \in req' : p.by = r.by /\ p.by \in Tab => p = r
    BY <2>1 DEF OneAtATime
  <2>3. \A p \in req' : p.by \in Tab /\ (~Looks(p) \/ p.n > 0) => busy'[p.by]
    BY <1>7, <2>1 DEF OneAtATime
  <2>4. \A p \in req' : Looks(p) /\ p.n = 0 => sees'[p.by] = Nil
    BY <1>1, <1>4 DEF OneAtATime
  <2> QED
    BY <2>2, <2>3, <2>4 DEF OneAtATime
<1>11. LoadsOnce'
  <2> SUFFICES ASSUME At("settings") PROVE LoadsOnce'
    BY <1>1 DEF LoadsOnce, At
  <2>1. \A p \in req' : Looks(p) => p \in req /\ p.by \in Tab
    BY <1>4 DEF PanelTyped, IsAsked
  <2>2. \A p \in req' : p.by \in Tab => p \in req
    BY <1>4, NobodyIsNil
  <2> QED
    BY <1>1, <2>1, <2>2 DEF LoadsOnce
<1>12. NeverLoads'
  BY <1>1, <1>4 DEF NeverLoads, At
<1> QED
  BY <1>6, <1>8, <1>9, <1>10, <1>11, <1>12

\* A load that came, or did not.
LEMMA EndedStep ==
    ASSUME ConsoleInv, NEW q \in req, Looks(q), q.by \in Tab, req' = req \ {q},
           UNCHANGED <<panel, pressed>>, busy' = [busy EXCEPT ![q.by] = @ /\ ~(Awaits /\ q.n > 0)],
           NEW view, sees' = [sees EXCEPT ![q.by] = view],
           error' \in [Tab -> BOOLEAN], due' \in [Tab -> BOOLEAN], slip' \in [Tab -> BOOLEAN],
           \A u \in Tab : u # q.by => due'[u] = due[u] /\ slip'[u] = slip[u] /\ error'[u] = error[u],
           due'[q.by] /\ ~slip'[q.by] => error'[q.by],
           \/ due'[q.by] = due[q.by] /\ slip'[q.by] = slip[q.by]
           \/ due'[q.by] = q.old /\ slip'[q.by] = q.old
    PROVE  ConsoleInv'
<1> USE DEF ConsoleInv
<1>1. \A u \in Tab : u # q.by => busy'[u] = busy[u] /\ sees'[u] = sees[u]
  BY DEF PanelTyped
<1>2. PanelTyped'
  <2>1. sees' = [u \in Tab |-> sees'[u]] /\ busy' \in [Tab -> BOOLEAN]
    BY DEF PanelTyped
  <2> QED
    BY <2>1 DEF PanelTyped
<1>3. Catching'
  BY OthersCatchOn
<1>4. NoneLate'
  BY DEF NoneLate, Orderly, At, PanelTyped
<1>5. OneAtATime'
  <2> SUFFICES ASSUME At("approvals") PROVE OneAtATime'
    BY DEF OneAtATime, At
  <2>1. \A p \in req' : p \in req /\ (p.by \in Tab => p.by # q.by) /\ (Looks(p) => p.by \in Tab)
    BY DEF OneAtATime, PanelTyped, IsAsked
  <2> QED
    BY <1>1, <2>1 DEF OneAtATime
<1>6. LoadsOnce'
  <2> SUFFICES ASSUME At("settings") PROVE LoadsOnce'
    BY DEF LoadsOnce, At
  <2>1. \A u \in Tab : ~due'[u]
    <3>1. ~q.old /\ \A u \in Tab : ~due[u]
      BY DEF LoadsOnce, NoneLate, Orderly, At
    <3>2. ~due'[q.by]
      BY <3>1
    <3>3. \A u \in Tab : u # q.by => ~due'[u]
      BY <3>1
    <3> QED
      BY <3>2, <3>3
  <2>2. \A p \in req' : p \in req /\ p.by # q.by /\ (Looks(p) => p.by \in Tab)
    BY DEF LoadsOnce, PanelTyped, IsAsked
  <2> QED
    BY <1>1, <2>1, <2>2 DEF LoadsOnce
<1>7. NeverLoads'
  BY DEF NeverLoads, At
<1> QED
  BY <1>2, <1>3, <1>4, <1>5, <1>6, <1>7

\* The rows come, or do not.
LEMMA LoadedStep ==
    ASSUME ConsoleInv, NEW q \in req, Loaded(q) \/ LoadFailed(q)
    PROVE  ConsoleInv'
<1> USE DEF ConsoleInv
<1>1. IsAsked(q) /\ Looks(q) /\ q.by \in Tab /\ q.old \in BOOLEAN
  BY DEF Loaded, LoadFailed, PanelTyped, IsAsked
<1>2. /\ req' = req \ {q} /\ UNCHANGED <<panel, pressed>>
      /\ busy' = [busy EXCEPT ![q.by] = @ /\ ~(Awaits /\ q.n > 0)]
  BY DEF Loaded, LoadFailed, Ends
<1>3. CASE Loaded(q)
  <2>1. /\ error' = [error EXCEPT ![q.by] = @ /\ ~Relieves] /\ sees' = [sees EXCEPT ![q.by] = q.rows]
        /\ due' = [due EXCEPT ![q.by] = q.old] /\ slip' = [slip EXCEPT ![q.by] = q.old]
    BY <1>3 DEF Loaded
  <2>2. error' \in [Tab -> BOOLEAN] /\ due' \in [Tab -> BOOLEAN] /\ slip' \in [Tab -> BOOLEAN]
    BY <1>1, <2>1 DEF PanelTyped
  <2>3. \A u \in Tab : u # q.by => due'[u] = due[u] /\ slip'[u] = slip[u] /\ error'[u] = error[u]
    BY <2>1 DEF PanelTyped
  <2>4. due'[q.by] = q.old /\ slip'[q.by] = q.old
    BY <1>1, <2>1 DEF PanelTyped
  <2> QED
    BY <1>1, <1>2, <2>1, <2>2, <2>3, <2>4, EndedStep
<1>4. CASE LoadFailed(q)
  <2>1. error' = [error EXCEPT ![q.by] = TRUE] /\ UNCHANGED <<sees, due, slip>>
    BY <1>4 DEF LoadFailed
  <2>2. error' \in [Tab -> BOOLEAN] /\ due' \in [Tab -> BOOLEAN] /\ slip' \in [Tab -> BOOLEAN]
    BY <1>1, <2>1 DEF PanelTyped
  <2>3. /\ \A u \in Tab : u # q.by => error'[u] = error[u]
        /\ error'[q.by]
    BY <1>1, <2>1 DEF PanelTyped
  <2>4. sees' = [sees EXCEPT ![q.by] = sees[q.by]]
    BY <1>1, <2>1 DEF PanelTyped
  <2> QED
    BY <1>1, <1>2, <2>1, <2>2, <2>3, <2>4, EndedStep
<1> QED
  BY <1>3, <1>4

-----------------------------------------------------------------------------
\* What a row's button asks.
LEMMA SendsIs ==
    ASSUME NEW t \in Tab, NEW calls, pressed \in Nat, SendsOne(t, calls), "look" \notin calls
    PROVE  /\ req \subseteq req' /\ pressed' \in Nat
           /\ \A r \in req' : r \in req \/ IsAsked(r)
<1>1. PICK x \in Item : \E w \in Offers(Seen(t, x)) :
        w.what \in calls /\ req' = req \union {Sent(t, pressed + 1, x, w)}
  BY DEF SendsOne
<1>2. PICK w \in Offers(Seen(t, x)) :
        w.what \in calls /\ req' = req \union {Sent(t, pressed + 1, x, w)}
  BY <1>1
<1>3. w # Look
  BY <1>2, LooksAtRows DEF Look, Do
<1>4. IsAsked(Sent(t, pressed + 1, x, w))
  BY <1>3, SentIs
<1>5. req \subseteq req' /\ \A r \in req' : r \in req \/ IsAsked(r)
  BY <1>2, <1>4
<1>6. pressed' \in Nat
  BY DEF SendsOne
<1> QED
  BY <1>5, <1>6

\* The buttons of the panels that are not orderly.
LEMMA DisorderlyStep ==
    ASSUME ConsoleInv, NEW t \in Tab,
           \/ QueueAct(t) \/ QueueCancel(t) \/ AppsAct(t) \/ PaymentsAct(t) \/ PackagesAct(t)
           \/ UsersAct(t) \/ UsersCancel(t) \/ NoReason(t) \/ DevicesAct(t)
           \/ MailSave(t) \/ RegistryAct(t) \/ Refresh(t)
           \/ GroupsAct(t) \/ TemplatesAct(t) \/ View(t) \/ PlanAsk(t) \/ PlanDelete(t)
           \/ CompanyCreate(t) \/ CompanyAct(t)
    PROVE  ConsoleInv'
<1> USE DEF ConsoleInv
<1>0. pressed \in Nat /\ pressed + 1 \in Nat /\ pressed + 1 > 0 /\ busy \in [Tab -> BOOLEAN]
  BY DEF PanelTyped
<1>1. ~Orderly /\ UNCHANGED <<panel, sees, due>>
  BY DEF QueueAct, QueueCancel, AppsAct, PaymentsAct, PackagesAct, UsersAct, UsersCancel, NoReason,
         DevicesAct, MailSave, RegistryAct, Refresh, GroupsAct, TemplatesAct, View, PlanAsk,
         PlanDelete, CompanyCreate, CompanyAct, Orderly, At
<1>2. /\ busy' \in [Tab -> BOOLEAN]
      /\ \/ Clears(t)
         \/ error' = error /\ slip' = slip
         \/ error' = [error EXCEPT ![t] = TRUE] /\ slip' = slip
  BY <1>0 DEF QueueAct, QueueCancel, AppsAct, PaymentsAct, PackagesAct, UsersAct, UsersCancel, NoReason,
         DevicesAct, MailSave, RegistryAct, Refresh, GroupsAct, TemplatesAct, View, PlanAsk,
         PlanDelete, CompanyCreate, CompanyAct, Waits
<1>3. req \subseteq req' /\ pressed' \in Nat /\ \A r \in req' : r \in req \/ IsAsked(r)
  <2>1. CASE Sends(t)
    <3>1. "look" \notin Calls
      BY DEF PanelTyped, Panels, Calls, QueueCalls, AppsCalls, PaymentCalls, PackageCalls, UserCalls,
             DeviceCalls, SettingsCalls, MailCalls, ApprovalCalls, RegistryCalls, SwitchCalls,
             GroupCalls, TemplateCalls, PlanCalls, CompanyCalls
    <3> QED
      BY <1>0, <2>1, <3>1, SendsIs DEF Sends
  <2>2. CASE \E calls \in {{"found"}, {"rename", "disable"}} : SendsOne(t, calls)
    BY <1>0, <2>2, SendsIs
  <2>3. CASE UNCHANGED <<req, pressed>>
    BY <1>0, <2>3
  <2>4. CASE Refresh(t)
    <3>1. IsAsked(Load(t, pressed + 1))
      BY <1>0, SentIs DEF Load
    <3> QED
      BY <1>0, <2>4, <3>1 DEF Refresh
  <2>5. CASE \E x \in Item : \E w : /\ w.what # "look" /\ pressed' = pressed + 1
                                    /\ req' = req \union {Sent(t, pressed + 1, x, w)}
    BY <1>0, <2>5, SentIs
  <2>6. ASSUME View(t) \/ PlanDelete(t)
        PROVE  \E x \in Item : \E w : /\ w.what # "look" /\ pressed' = pressed + 1
                                      /\ req' = req \union {Sent(t, pressed + 1, x, w)}
    <3>1. CASE View(t)
      BY <3>1 DEF View, Do
    <3>2. CASE PlanDelete(t)
      <4>1. \A x \in Item : \A w \in Offers(Seen(t, x)) : w.what = "drop"
        BY <3>2 DEF PlanDelete, At, Offers, DeviceListView, Do
      <4> QED
        BY <3>2, <4>1 DEF PlanDelete
    <3> QED
      BY <2>6, <3>1, <3>2
  <2> QED
    BY <2>1, <2>2, <2>3, <2>4, <2>5, <2>6
       DEF QueueAct, QueueCancel, AppsAct, PaymentsAct, PackagesAct, UsersAct, UsersCancel, NoReason,
           DevicesAct, MailSave, RegistryAct, GroupsAct, TemplatesAct, PlanAsk, CompanyCreate,
           CompanyAct
<1> QED
  BY <1>1, <1>2, <1>3, PressedStep

\* The dashboard's approvals: nothing else of the tab is under way.
LEMMA ApprovalsStep ==
    ASSUME ConsoleInv, NEW t \in Tab, ApprovalsAct(t)
    PROVE  ConsoleInv'
<1> USE DEF ConsoleInv
<1>1. PICK x \in Item : \E w \in Offers(Seen(t, x)) : req' = req \union {Sent(t, pressed + 1, x, w)}
  BY DEF ApprovalsAct, Sends, SendsOne
<1>2. PICK w \in Offers(Seen(t, x)) : req' = req \union {Sent(t, pressed + 1, x, w)}
  BY <1>1
<1> DEFINE r == Sent(t, pressed + 1, x, w)
<1>3. /\ At("approvals") /\ ~busy[t] /\ busy' = [busy EXCEPT ![t] = TRUE] /\ pressed' = pressed + 1
      /\ UNCHANGED <<panel, sees, error, due, slip>> /\ pressed \in Nat
  BY DEF ApprovalsAct, Waits, Sends, SendsOne, PanelTyped
<1>4. Seen(t, x).state = "pending" /\ w \in {Do("approve", 0), Do("reject", 0)}
  BY <1>3 DEF Offers, BillingQueueView, At
<1>5. sees[t] # Nil
  BY <1>4 DEF Seen, As
<1>6. w.what # "look" /\ w.what # "view" /\ w # Look
  BY <1>4 DEF Do, Look
<1>7. /\ IsAsked(r) /\ r.by = t /\ r.n = pressed + 1 /\ ~Looks(r) /\ ~r.old /\ r.want.what # "view"
  <2>1. pressed + 1 \in Nat /\ (w # Look => pressed + 1 > 0)
    BY <1>3
  <2> HIDE DEF r
  <2>2. /\ IsAsked(r) /\ r.by = t /\ r.want = w
        /\ ~r.old /\ r.n = pressed + 1
    BY <2>1, SentIs DEF r
  <2> QED
    BY <1>6, <2>2 DEF Looks
<1> HIDE DEF r
<1>8. \A p \in req : p.by # t
  <2> SUFFICES ASSUME NEW p \in req, p.by = t PROVE FALSE
    OBVIOUS
  <2>1. p.n \in Nat
    BY DEF PanelTyped, IsAsked
  <2>2. Looks(p) /\ p.n = 0
    BY <1>3, <2>1 DEF OneAtATime
  <2> QED
    BY <1>3, <1>5, <2>2 DEF OneAtATime
<1>9. req' = req \union {r}
  BY <1>2 DEF r
<1>10. PanelTyped'
  BY <1>3, <1>7, <1>9 DEF PanelTyped
<1>11. Catching'
  BY <1>3, <1>9 DEF Catching, Fetches
<1>12. NoneLate'
  BY <1>3, <1>7, <1>9 DEF NoneLate, Orderly, At
<1>13. OneAtATime'
  <2>1. busy'[t] /\ \A u \in Tab : u # t => busy'[u] = busy[u]
    BY <1>3 DEF PanelTyped
  <2>2. \A p \in req', o \in req' : p.by = o.by /\ p.by \in Tab => p = o
    BY <1>3, <1>7, <1>8, <1>9 DEF OneAtATime
  <2>3. \A p \in req' : p.by \in Tab /\ (~Looks(p) \/ p.n > 0) => busy'[p.by]
    BY <1>3, <1>7, <1>8, <1>9, <2>1 DEF OneAtATime
  <2>4. \A p \in req' : Looks(p) /\ p.n = 0 => sees'[p.by] = Nil
    BY <1>3, <1>7, <1>9 DEF OneAtATime
  <2> QED
    BY <2>2, <2>3, <2>4 DEF OneAtATime
<1> QED
  BY <1>3, <1>10, <1>11, <1>12, <1>13 DEF LoadsOnce, NeverLoads, At

\* Settings are put, or the switch is.
LEMMA PutStep ==
    ASSUME ConsoleInv, NEW t \in Tab, SettingsSave(t) \/ SwitchFlip(t)
    PROVE  ConsoleInv'
<1> USE DEF ConsoleInv
<1>1. /\ panel \in {"settings", "switch"} /\ pressed' = pressed + 1 /\ pressed \in Nat
      /\ (At("settings") => sees[t] # Nil)
      /\ busy' = [busy EXCEPT ![t] = TRUE] /\ UNCHANGED <<panel, sees, due>>
      /\ (Clears(t) \/ (error' = error /\ slip' = slip))
  BY DEF SettingsSave, SwitchFlip, Waits, Sends, SendsOne, PanelTyped, At
<1>2. \A r \in req' : r \in req \/ \E x \in Item, n \in Value : r = Sent(t, pressed + 1, x, Do("put", n))
  <2>1. CASE SettingsSave(t)
    <3>1. PICK f \in [Item -> Value] :
            req' = req \union {Sent(t, pressed + 1, x, Do("put", f[x])) : x \in Item}
      BY <2>1 DEF SettingsSave
    <3> QED
      BY <3>1
  <2>2. CASE SwitchFlip(t)
    <3>1. \A x \in Item : Offers(Seen(t, x)) = {Do("put", n) : n \in Value}
      BY <2>2 DEF SwitchFlip, At, Offers, KillSwitch
    <3>2. PICK x \in Item : \E w \in Offers(Seen(t, x)) : req' = req \union {Sent(t, pressed + 1, x, w)}
      BY <2>2 DEF SwitchFlip, Sends, SendsOne
    <3> QED
      BY <3>1, <3>2
  <2> QED
    BY <2>1, <2>2
<1>3. ASSUME NEW x, NEW n
      PROVE  LET r == Sent(t, pressed + 1, x, Do("put", n))
             IN  IsAsked(r) /\ r.by = t /\ ~Looks(r) /\ r.want.what # "view"
  <2>1. Do("put", n) # Look /\ Do("put", n).what = "put"
    BY DEF Do, Look
  <2> QED
    BY <1>1, <2>1, SentIs DEF Looks
<1>4. \A r \in req' : r \in req \/ (IsAsked(r) /\ r.by = t /\ ~Looks(r) /\ r.want.what # "view")
  BY <1>2, <1>3
<1>5. req \subseteq req'
  BY DEF SettingsSave, SwitchFlip, Sends, SendsOne
<1>6. Catching' /\ error' \in [Tab -> BOOLEAN] /\ slip' \in [Tab -> BOOLEAN]
  BY <1>1, <1>5, CatchesOn
<1>7. PanelTyped'
  <2>1. \A r \in req' : IsAsked(r)
    BY <1>4 DEF PanelTyped
  <2>2. pressed' \in Nat /\ busy' \in [Tab -> BOOLEAN]
    BY <1>1 DEF PanelTyped
  <2> QED
    BY <1>1, <1>6, <2>1, <2>2 DEF PanelTyped
<1>8. \A u \in Tab : ~due[u] /\ ~slip[u]
  BY <1>1 DEF LoadsOnce, NeverLoads, NoneLate, Orderly, At
<1>9. \A u \in Tab : ~slip'[u]
  BY <1>1, <1>8 DEF Clears, PanelTyped
<1>10. NoneLate'
  BY <1>1, <1>4, <1>9 DEF NoneLate, Orderly, At, Looks
<1>11. LoadsOnce'
  <2> SUFFICES ASSUME At("settings") PROVE LoadsOnce'
    BY <1>1 DEF LoadsOnce, At
  <2>1. \A p \in req' : Looks(p) => p \in req /\ p.by # t
    BY <1>1, <1>4 DEF LoadsOnce
  <2> QED
    BY <1>1, <1>4, <2>1 DEF LoadsOnce
<1>12. NeverLoads'
  BY <1>1, <1>4 DEF NeverLoads, At
<1> QED
  BY <1>1, <1>6, <1>7, <1>10, <1>11, <1>12 DEF OneAtATime, At

\* A panel that is opened satisfies the invariant.
LEMMA ConsoleStarts == ConsoleInit => ConsoleInv
<1> SUFFICES ASSUME ConsoleInit PROVE ConsoleInv
  OBVIOUS
<1>1. ASSUME NEW t \in Tab
      PROVE  /\ IsAsked(Load(t, 0)) /\ Looks(Load(t, 0)) /\ ~Load(t, 0).old
             /\ Load(t, 0).by = t /\ Load(t, 0).want.what = "look"
  BY SentIs, LooksAtRows DEF Load, Looks
<1>2. \A q \in req : \E t \in Tab : q = Load(t, 0)
  BY DEF ConsoleInit
<1>3. PanelTyped
  <2>1. panel \in Panels
    BY ConsoleAssumption DEF ConsoleInit, ConsoleAssumption
  <2> QED
    BY <1>1, <1>2, <2>1 DEF ConsoleInit, PanelTyped
<1>4. \A t \in Tab : ~due[t] /\ ~slip[t] /\ sees[t] = Nil
  BY DEF ConsoleInit
<1>5. Catching /\ NoneLate /\ LoadsOnce
  BY <1>1, <1>2, <1>4 DEF Catching, NoneLate, LoadsOnce
<1>6. OneAtATime
  <2>1. \A q \in req, r \in req : q.by = r.by => q = r
    BY <1>1, <1>2
  <2>2. \A q \in req : Looks(q) /\ q.n = 0 /\ sees[q.by] = Nil
    BY <1>1, <1>2, <1>4 DEF Load, Sent
  <2> QED
    BY <2>1, <2>2 DEF OneAtATime
<1>7. NeverLoads
  BY <1>4 DEF NeverLoads, At, ConsoleInit
<1> QED
  BY <1>3, <1>5, <1>6, <1>7 DEF ConsoleInv

\* Every step keeps the invariant.
LEMMA ConsoleStep == ConsoleInv /\ [ConsoleNext]_consoleVars => ConsoleInv'
<1> SUFFICES ASSUME ConsoleInv, [ConsoleNext]_consoleVars PROVE ConsoleInv'
  OBVIOUS
<1>1. ASSUME UNCHANGED <<panel, sees, busy, error, req, due, slip>>, pressed' \in Nat
      PROVE  ConsoleInv'
  <2>1. PanelTyped'
    BY <1>1 DEF ConsoleInv, PanelTyped
  <2>2. Catching' /\ NoneLate'
    BY <1>1 DEF ConsoleInv, Catching, NoneLate, Orderly
  <2>3. OneAtATime' /\ LoadsOnce' /\ NeverLoads'
    BY <1>1 DEF ConsoleInv, OneAtATime, LoadsOnce, NeverLoads, At
  <2> QED
    BY <2>1, <2>2, <2>3 DEF ConsoleInv
<1>2. ASSUME NEW t \in Tab, Presses(t) PROVE ConsoleInv'
  BY <1>2, DisorderlyStep, ApprovalsStep, PutStep DEF Presses
<1>3. ASSUME NEW t \in Tab, Saved(t) PROVE ConsoleInv'
  BY <1>3, SavedStep
<1>4. ASSUME NEW q \in req,
             \/ Serve(q) \/ Lose(q) \/ Told(q) \/ Viewed(q) \/ Failed(q)
             \/ Loaded(q) \/ LoadFailed(q)
      PROVE  ConsoleInv'
  BY <1>4, ServedStep, LoseStep, ToldStep, ViewedStep, FailedStep, LoadedStep
<1>5. ASSUME NEW x \in Item, Bought(x) \/ Delete(x) \/ RevokeDevice(x) PROVE ConsoleInv'
  <2>1. UNCHANGED <<panel, sees, busy, error, req, due, slip>>
    BY <1>5 DEF Bought, Delete, RevokeDevice, tabVars
  <2>2. pressed' \in Nat
    BY <1>5 DEF Bought, Delete, RevokeDevice, ConsoleInv, PanelTyped
  <2> QED
    BY <1>1, <2>1, <2>2
<1>6. CASE UNCHANGED consoleVars
  BY <1>1, <1>6 DEF consoleVars, tabVars, ConsoleInv, PanelTyped
<1>7. CASE ConsoleNext
  BY <1>2, <1>3, <1>4, <1>5, <1>7 DEF ConsoleNext
<1> QED
  BY <1>6, <1>7

\* The invariant of the panels: whoever shows rows from before a change either has a load
\* under way that is newer, or an error, or has lost the sign of it.
THEOREM ConsoleHolds == ConsoleSpec => []ConsoleInv
BY ConsoleStarts, ConsoleStep, PTL DEF ConsoleSpec

\* A tab that waits for nothing and shows no error shows rows as new as the last change it
\* was told of; on the panels whose loads never overlap, without exception
\* (Operator.tsx:418, 454, 901, 1041, OperatorScreen.tsx:204).
THEOREM CatchesUp == ConsoleSpec => []ScreenCatchesUp
<1>1. ConsoleInv => ScreenCatchesUp
  BY DEF ConsoleInv, Catching, NoneLate, PanelTyped, ScreenCatchesUp, AtRest, Fetches
<1> QED
  BY <1>1, ConsoleHolds, PTL

-----------------------------------------------------------------------------
(* BROWSER: the page, what it keeps and what it waits for.                  *)

\* The requests of a page.
Requests == [n : 0..MaxForms, what : What, as : Visit \union {Nobody},
             arg : Visit \union App \union Secret \union {Absent},
             home : BOOLEAN, old : BOOLEAN, answer : {"none", "ok", "no", "lost"}]

\* What a request carries.
Carried(q) ==
    /\ q.what \in {"link", "connect", "create"} => q.arg \in App
    /\ q.what = "unlock" => q.arg \in Secret
    /\ q.what \in {"me", "wallet", "verify"} => Web

\* The types, and what requests carry.
TabTyped == BrowserTypeOK /\ \A q \in underway : Carried(q)

\* An unlock that the operator's screen waits for.
Unlocking(q) == q.what = "unlock" /\ q.home

\* A load of the balance that the page waits for.
Loading(q) == q.what = "wallet" /\ q.home

\* The page has the credentials it needs, and so will the operator's when he has unlocked it.
KeysInv ==
    /\ ScreensHaveKeys
    /\ \A q, r \in underway : Unlocking(q) /\ Unlocking(r) => q = r
    /\ ~Web => \A q \in underway :
                  Unlocking(q) => Showing = "operator" /\ ~unlocked /\ (secret # Absent \/ wiped)

\* No balance of another user is under way to the page, and none is on it.
LeftInv ==
    /\ ~Web => wallet = Nobody
    /\ user \in Visit /\ ~mixed => \A q \in underway : Loading(q) => q.as = user
    /\ NothingIsLeft

\* The inductive invariant.
BrowserInv == TabTyped /\ KeysInv /\ LeftInv

\* What is absent is no app and no secret, and nobody is no visit.
LEMMA Elsewhere == Absent \notin App /\ Absent \notin Secret /\ Nobody \notin Visit /\ Unknown \notin Visit
BY BrowserAssumption DEF BrowserAssumption, Nobody, Unknown, Visit

\* A request for nothing in particular is typed.
LEMMA PlainTyped ==
    ASSUME NEW what \in {"me", "wallet", "logout"}, NEW as \in Visit \union {Nobody}
    PROVE  /\ Plain(what, as) \in Requests
           /\ Plain(what, as).what = what /\ Plain(what, as).as = as
           /\ Plain(what, as).home <=> what = "wallet"
<1>1. 0 \in 0..MaxForms
  BY BrowserAssumption DEF BrowserAssumption
<1> QED
  BY <1>1 DEF Plain, Carries, Requests, What

-----------------------------------------------------------------------------
(* A page that is drawn anew. *)

\* A request that the page no longer waits for.
Faded(q) == [q EXCEPT !.home = FALSE]

\* A request the page no longer waits for is otherwise the same.
LEMMA FadedIs ==
    ASSUME NEW q \in Requests
    PROVE  /\ Faded(q) \in Requests /\ ~Faded(q).home
           /\ Faded(q).what = q.what /\ Faded(q).as = q.as /\ Faded(q).arg = q.arg
BY DEF Faded, Requests

\* What drawing makes of the page and of the requests that it waits for.
Drawing(s, u, c, into, new, requests) ==
    LET stays == ScreenOf(s, u, c) = Showing
    IN  /\ Showing' = ScreenOf(s, u, c)
        /\ user' = u /\ connected' = c
        /\ unlocked' = (IF stays THEN into ELSE Showing' = "operator" /\ secret' # Absent)
        /\ wiped' = (wiped /\ stays)
        /\ \A q \in underway' :
              \/ q \in requests /\ (stays \/ q.what = "wallet")
              \/ ~stays /\ ~q.home
        /\ \A q \in requests : q.what = "wallet" => q \in underway'

\* What drawing a page sets, and what it asks for.
LEMMA Drawn ==
    ASSUME TabTyped, NEW s, s \in Section, NEW u \in Visit \union {Nobody, Unknown}, NEW c \in BOOLEAN,
           NEW into \in BOOLEAN, NEW new \in App \union {Absent},
           NEW requests \in SUBSET Requests, \A q \in requests : Carried(q),
           site' = site, Draw(s, u, c, into, new, requests)
    PROVE  /\ Drawing(s, u, c, into, new, requests)
           /\ section' \in Section' /\ user' \in Visit \union {Nobody, Unknown}
           /\ fresh' \in App \union {Absent} /\ {connected, unlocked, wiped}' \subseteq BOOLEAN
           /\ underway' \subseteq Requests /\ \A q \in underway' : Carried(q)'
<1> DEFINE stays == ScreenOf(s, u, c) = Showing
<1>1. /\ section' = s /\ user' = u /\ connected' = c
      /\ fresh' = (IF stays THEN new ELSE Absent)
      /\ unlocked' = (IF stays THEN into ELSE ScreenOf(s, u, c) = "operator" /\ secret' # Absent)
      /\ wiped' = (wiped /\ stays)
      /\ underway' = {IF stays \/ q.what = "wallet" THEN q ELSE Faded(q) : q \in requests}
  BY DEF Draw, Faded
<1>2. Web' = Web /\ Section' = Section
  BY DEF Web, Section
<1>3. Showing' = ScreenOf(s, u, c)
  BY <1>1, <1>2 DEF Showing, ScreenOf, WebScreen, DashboardScreen
<1> HIDE DEF stays
<1>4. ASSUME NEW q \in underway'
      PROVE  /\ q \in Requests /\ Carried(q)'
             /\ \/ q \in requests /\ (stays \/ q.what = "wallet")
                \/ ~stays /\ ~q.home
  <2>1. PICK p \in requests : q = IF stays \/ p.what = "wallet" THEN p ELSE Faded(p)
    BY <1>1, <1>4
  <2>2. Carried(p)' /\ p \in Requests
    BY <1>2 DEF Carried
  <2> QED
    BY <1>2, <2>1, <2>2, FadedIs DEF Carried
<1>5. \A q \in requests : q.what = "wallet" => q \in underway'
  BY <1>1
<1>6. Drawing(s, u, c, into, new, requests)
  BY <1>1, <1>3, <1>4, <1>5 DEF Drawing, stays
<1>7. wiped \in BOOLEAN
  BY DEF TabTyped, BrowserTypeOK
<1> QED
  BY <1>1, <1>2, <1>3, <1>4, <1>6, <1>7

\* Drawing keeps the credentials and the page in step, if what is drawn does.
LEMMA DrawnKeys ==
    ASSUME NEW s, NEW u, NEW c \in BOOLEAN, NEW into \in BOOLEAN, NEW new, NEW requests,
           KeysInv, site' = site, Drawing(s, u, c, into, new, requests),
           c => keys' # Absent, Web => (keys' # Absent => c),
           \A q, r \in requests : Unlocking(q) /\ Unlocking(r) => q = r,
           ScreenOf(s, u, c) = Showing => (into => secret' # Absent \/ wiped),
           ~Web /\ ScreenOf(s, u, c) = Showing =>
              \A q \in requests :
                 Unlocking(q) => Showing = "operator" /\ ~into /\ (secret' # Absent \/ wiped)
    PROVE  KeysInv'
<1>1. Web' = Web
  BY DEF Web
<1>2. \A q \in underway' : Unlocking(q) => q \in requests /\ ScreenOf(s, u, c) = Showing
  BY DEF Drawing, Unlocking
<1>3. ScreensHaveKeys'
  BY <1>1 DEF Drawing, ScreensHaveKeys
<1>4. \A q, r \in underway' : Unlocking(q) /\ Unlocking(r) => q = r
  BY <1>2
<1>5. ~Web => \A q \in underway' :
                 Unlocking(q) => Showing' = "operator" /\ ~unlocked' /\ (secret' # Absent \/ wiped')
  BY <1>2 DEF Drawing, KeysInv
<1> QED
  BY <1>1, <1>3, <1>4, <1>5 DEF KeysInv, Unlocking

\* And it keeps the balance, if the user stays or goes.
LEMMA DrawnBalance ==
    ASSUME NEW s, NEW u, NEW c, NEW into, NEW new, NEW requests, \A q \in requests : Carried(q),
           LeftInv, site' = site, Drawing(s, u, c, into, new, requests),
           left' /\ keys' # Absent => late',
           wallet' = wallet \/ wallet' = Nobody, mixed' = mixed,
           Web /\ u \in Visit => /\ u = user
                                 /\ \A q \in requests : Loading(q) => q \in underway
                                 /\ \A q \in underway : Loading(q) => q \in requests
    PROVE  LeftInv'
<1>1. Web' = Web
  BY DEF Web
<1>2. ASSUME u \in Visit, ~mixed, NEW q \in underway', Loading(q)
      PROVE  q.as = u
  <2>1. q \in requests /\ Web
    BY <1>2 DEF Drawing, Loading, Carried
  <2> QED
    BY <1>2, <2>1 DEF LeftInv
<1>3. ASSUME u \in Visit, ~mixed, wallet' # Nobody
      PROVE  wallet' = u \/ \E q \in underway' : q.what = "wallet" /\ q.home
  <2>1. Web /\ wallet' = wallet
    BY <1>3 DEF LeftInv
  <2>2. wallet = user \/ \E q \in underway : q.what = "wallet" /\ q.home
    BY <1>3, <2>1 DEF LeftInv, NothingIsLeft
  <2> QED
    BY <1>3, <2>1, <2>2 DEF Drawing, Loading
<1>4. NothingIsLeft'
  BY <1>3 DEF Drawing, NothingIsLeft
<1>5. ~Web' => wallet' = Nobody
  BY <1>1 DEF LeftInv
<1> QED
  BY <1>2, <1>4, <1>5 DEF Drawing, LeftInv, Visit, Loading

\* What a step leaves of the stores, the server and the history is typed.
StoresTyped ==
    /\ site \in Site /\ jar \in Visit \union {Nobody} /\ keys \in App \union {Absent}
    /\ secret \in Secret \union {Absent} /\ wallet \in Visit \union {Nobody}
    /\ {left, late, mixed} \subseteq BOOLEAN
    /\ valid \subseteq Visit /\ works \subseteq App /\ opens \in Secret /\ forms \in 0..MaxForms

\* A page that is drawn is typed.
LEMMA Turned ==
    ASSUME TabTyped, StoresTyped', site' = site,
           NEW s \in Section, NEW u \in Visit \union {Nobody, Unknown}, NEW c \in BOOLEAN,
           NEW into \in BOOLEAN, NEW new \in App \union {Absent},
           NEW requests \in SUBSET Requests, \A q \in requests : Carried(q),
           Draw(s, u, c, into, new, requests)
    PROVE  TabTyped' /\ Drawing(s, u, c, into, new, requests)
<1>1. /\ Drawing(s, u, c, into, new, requests)
      /\ section' \in Section' /\ user' \in Visit \union {Nobody, Unknown}
      /\ fresh' \in App \union {Absent} /\ {connected, unlocked, wiped}' \subseteq BOOLEAN
      /\ underway' \subseteq Requests /\ \A q \in underway' : Carried(q)'
  BY Drawn
<1>2. (\A q \in underway : Carried(q))'
  BY <1>1 DEF Carried
<1> QED
  BY <1>1, <1>2 DEF TabTyped, BrowserTypeOK, StoresTyped, Requests, Visit

-----------------------------------------------------------------------------
(* A page that stays as it is. *)

\* A page that stays as it is stays typed.
LEMMA KeptWhole ==
    ASSUME TabTyped, StoresTyped', site' = site, UNCHANGED pageVars, wiped' \in BOOLEAN,
           underway' \subseteq Requests, \A q \in underway' : Carried(q)
    PROVE  TabTyped'
<1>1. Section' = Section /\ Web' = Web
  BY DEF Section, Web
<1>2. (\A q \in underway : Carried(q))'
  BY <1>1 DEF Carried
<1> QED
  BY <1>1, <1>2 DEF TabTyped, BrowserTypeOK, StoresTyped, Requests, Visit, pageVars

\* And it keeps the credentials that it needs, if they stay.
LEMMA KeptKeys ==
    ASSUME KeysInv, UNCHANGED <<site, keys, secret, pageVars, wiped>>,
           \A q \in underway' : Unlocking(q) => \E r \in underway : Unlocking(r),
           \A q, r \in underway' : Unlocking(q) /\ Unlocking(r) => q = r
    PROVE  KeysInv'
<1>1. Web' = Web /\ Showing' = Showing
  BY DEF Web, Showing, ScreenOf, WebScreen, DashboardScreen, pageVars
<1>2. ScreensHaveKeys'
  BY <1>1 DEF KeysInv, ScreensHaveKeys, pageVars
<1>3. ~Web => \A q \in underway' :
                 Unlocking(q) => Showing' = "operator" /\ ~unlocked' /\ (secret' # Absent \/ wiped')
  BY <1>1 DEF KeysInv, pageVars
<1> QED
  BY <1>1, <1>2, <1>3 DEF KeysInv, Unlocking

\* And it shows nobody else's balance, if none comes.
LEMMA KeptBalance ==
    ASSUME LeftInv, UNCHANGED <<site, wallet, keys, left, late, mixed>>, user' = user,
           \A q \in underway' : Loading(q) => \E r \in underway : Loading(r) /\ r.as = q.as,
           \A q \in underway : Loading(q) => \E r \in underway' : Loading(r)
    PROVE  LeftInv'
<1>1. Web' = Web
  BY DEF Web
<1>2. NothingIsLeft'
  BY DEF LeftInv, NothingIsLeft, Loading
<1> QED
  BY <1>1, <1>2 DEF LeftInv, Loading, Visit

\* Such a step, when at most requests come and go that nothing on the page waits for.
LEMMA Still ==
    ASSUME BrowserInv, StoresTyped', UNCHANGED <<site, keys, secret, pageVars, noteVars, wallet>>,
           \A r \in underway : r.what = "wallet" => r \in underway',
           \A r \in underway' : \/ r \in underway
                                \/ r \in Requests /\ Carried(r) /\ ~Unlocking(r) /\ ~Loading(r)
    PROVE  BrowserInv'
<1> USE DEF BrowserInv
<1>1. TabTyped'
  BY KeptWhole DEF TabTyped, BrowserTypeOK, Requests, noteVars
<1>2. KeysInv'
  <2>1. \A r \in underway' : Unlocking(r) => r \in underway
    OBVIOUS
  <2>2. \A p, r \in underway' : Unlocking(p) /\ Unlocking(r) => p = r
    BY <2>1 DEF KeysInv
  <2> QED
    BY <2>1, <2>2, KeptKeys DEF noteVars
<1>3. LeftInv'
  BY KeptBalance DEF Loading, noteVars, pageVars
<1> QED
  BY <1>1, <1>2, <1>3

\* Or when a request is answered.
LEMMA Answered ==
    ASSUME BrowserInv, StoresTyped', UNCHANGED <<site, keys, secret, pageVars, noteVars, wallet>>,
           NEW q \in underway, NEW a \in {"ok", "no", "lost"},
           underway' = (underway \ {q}) \union {[q EXCEPT !.answer = a]}
    PROVE  BrowserInv'
<1> DEFINE new == [q EXCEPT !.answer = a]
<1> USE DEF BrowserInv
<1>1. /\ new \in Requests
      /\ new.what = q.what /\ new.as = q.as /\ new.arg = q.arg /\ new.home = q.home
  <2>1. q \in Requests
    BY DEF TabTyped, BrowserTypeOK, Requests
  <2> QED
    BY <2>1 DEF Requests
<1>2. Carried(new) /\ (Unlocking(new) <=> Unlocking(q)) /\ (Loading(new) <=> Loading(q))
  BY <1>1 DEF Carried, TabTyped, Unlocking, Loading
<1>3. underway' = (underway \ {q}) \union {new}
  OBVIOUS
<1> HIDE DEF new
<1>4. TabTyped'
  BY <1>1, <1>2, <1>3, KeptWhole DEF TabTyped, BrowserTypeOK, Requests, noteVars
<1>5. KeysInv'
  <2>1. \A p, r \in underway' : Unlocking(p) /\ Unlocking(r) => p = r
    BY <1>2, <1>3 DEF KeysInv
  <2>2. \A r \in underway' : Unlocking(r) => \E p \in underway : Unlocking(p)
    BY <1>2, <1>3
  <2> QED
    BY <2>1, <2>2, KeptKeys DEF noteVars
<1>6. LeftInv'
  BY <1>1, <1>2, <1>3, KeptBalance DEF noteVars, pageVars
<1> QED
  BY <1>4, <1>5, <1>6

-----------------------------------------------------------------------------
(* The steps *)

\* A browser that opens a page satisfies the invariant.
LEMMA StartsRight == BrowserInit => BrowserInv
<1> SUFFICES ASSUME BrowserInit PROVE BrowserInv
  OBVIOUS
<1>1. jar \in Visit \union {Nobody} /\ 0 \in Visit
  BY BrowserAssumption DEF BrowserInit, BrowserAssumption, Visit
<1>2. underway \subseteq Requests /\ \A q \in underway : Carried(q) /\ q.what = "me"
  BY <1>1, PlainTyped DEF BrowserInit, Carried
<1>3. TabTyped
  <2>1. opens \in Secret
    BY BrowserAssumption DEF BrowserInit, BrowserAssumption
  <2>2. section \in Section
    BY DEF BrowserInit, Section
  <2>3. forms \in 0..MaxForms
    BY BrowserAssumption DEF BrowserInit, BrowserAssumption
  <2>4. user \in Visit \union {Nobody, Unknown} /\ wallet \in Visit \union {Nobody}
    BY <1>1 DEF BrowserInit
  <2>5. /\ {connected, unlocked, left, late, mixed, wiped} \subseteq BOOLEAN
        /\ site \in Site /\ keys \in App \union {Absent} /\ secret \in Secret \union {Absent}
        /\ fresh \in App \union {Absent} /\ valid \subseteq Visit /\ works \subseteq App
    BY <1>1 DEF BrowserInit
  <2> QED
    BY <1>1, <1>2, <2>1, <2>2, <2>3, <2>4, <2>5 DEF TabTyped, BrowserTypeOK, Requests
<1>4. KeysInv
  BY <1>2 DEF BrowserInit, KeysInv, ScreensHaveKeys, Unlocking
<1>5. LeftInv
  BY <1>2 DEF BrowserInit, LeftInv, NothingIsLeft, Loading
<1> QED
  BY <1>3, <1>4, <1>5 DEF BrowserInv

\* A request is served, or lost.
LEMMA ServeStep ==
    ASSUME BrowserInv, NEW q \in underway, ServeIt(q) \/ Drop(q)
    PROVE  BrowserInv'
<1>1. q \in Requests /\ StoresTyped
  BY DEF BrowserInv, TabTyped, BrowserTypeOK, StoresTyped, Requests
<1>2. CASE ServeIt(q)
  <2>1. PICK a \in Replies(q) :
           /\ underway' = (underway \ {q}) \union {[q EXCEPT !.answer = a]}
           /\ valid' = (IF a = "ok" THEN Sessions(q) ELSE valid)
           /\ works' = (IF a = "ok" /\ q.what = "create" THEN works \union {q.arg} ELSE works)
    BY <1>2 DEF ServeIt
  <2>2. a \in {"ok", "no", "lost"}
    BY DEF Replies
  <2>3. Sessions(q) \subseteq Visit
    <3>1. valid \subseteq Visit /\ q.n \in Visit
      BY <1>1 DEF StoresTyped, Requests, Visit
    <3> QED
      BY <3>1 DEF Sessions
  <2>4. q.what = "create" => q.arg \in App
    BY DEF BrowserInv, TabTyped, Carried
  <2>5. StoresTyped'
    BY <1>1, <1>2, <2>1, <2>3, <2>4 DEF StoresTyped, ServeIt, storeVars, noteVars, Visit
  <2> QED
    BY <1>2, <2>1, <2>2, <2>5, Answered DEF ServeIt, storeVars
<1>3. CASE Drop(q)
  <2>1. StoresTyped'
    BY <1>1, <1>3 DEF StoresTyped, Drop, storeVars, serverVars, noteVars, Visit
  <2> QED
    BY <1>3, <2>1, Answered DEF Drop, storeVars
<1> QED
  BY <1>2, <1>3

\* Something happens on the server.
LEMMA ServerStep ==
    ASSUME BrowserInv,
           \/ \E v \in Visit : Expire(v)
           \/ \E a \in App : Withdraw(a)
           \/ \E x \in Secret : Rotate(x)
    PROVE  BrowserInv'
<1>1. StoresTyped
  BY DEF BrowserInv, TabTyped, BrowserTypeOK, StoresTyped
<1>2. StoresTyped'
  BY <1>1 DEF StoresTyped, Expire, Withdraw, Rotate, storeVars, noteVars, Visit
<1>3. underway' = underway
  BY DEF Expire, Withdraw, Rotate
<1>4. UNCHANGED <<site, keys, secret, pageVars, noteVars, wallet>>
  BY DEF Expire, Withdraw, Rotate, storeVars
<1>5. /\ \A r \in underway : r.what = "wallet" => r \in underway'
      /\ \A r \in underway' : \/ r \in underway
                              \/ r \in Requests /\ Carried(r) /\ ~Unlocking(r) /\ ~Loading(r)
  BY <1>3
<1> QED
  BY <1>2, <1>4, <1>5, Still

\* A form is sent, but for the operator's.
LEMMA FormStep ==
    ASSUME BrowserInv, NEW what \in What \ {"me", "wallet", "unlock"},
           NEW arg \in Visit \union App \union {Absent},
           what \in {"link", "connect", "create"} => arg \in App, what = "verify" => Web,
           Form(what, arg),
           UNCHANGED <<site, storeVars, pageVars, wallet, serverVars, noteVars>>
    PROVE  BrowserInv'
<1> DEFINE new == Carries(forms + 1, what, jar, arg, TRUE)
<1>1. StoresTyped
  BY DEF BrowserInv, TabTyped, BrowserTypeOK, StoresTyped
<1>2. forms + 1 \in 0..MaxForms
  BY <1>1, BrowserAssumption DEF StoresTyped, Form, BrowserAssumption
<1>3. StoresTyped'
  BY <1>1, <1>2 DEF StoresTyped, Form, storeVars, serverVars, noteVars, Visit
<1>4. new \in Requests /\ new.what = what /\ new.arg = arg
  BY <1>1, <1>2 DEF StoresTyped, Carries, Requests
<1>5. Carried(new) /\ ~Unlocking(new) /\ ~Loading(new)
  BY <1>4 DEF Carried, Unlocking, Loading
<1>6. underway' = underway \union {new}
  BY DEF Form
<1>7. UNCHANGED <<site, keys, secret, pageVars, noteVars, wallet>>
  BY DEF storeVars
<1> HIDE DEF new, pageVars, noteVars
<1> QED
  BY <1>3, <1>4, <1>5, <1>6, <1>7, Still

\* A form is sent, the operator's too.
LEMMA FormsStep ==
    ASSUME BrowserInv,
           \/ LogIn \/ Verify
           \/ \E a \in App : Create(a) \/ Link(a) \/ Connect(a)
           \/ \E v \in Visit : Reset(v)
    PROVE  BrowserInv'
<1>1. CASE LogIn
  BY <1>1, FormStep DEF LogIn, What
<1>2. CASE Verify
  BY <1>2, FormStep DEF Verify, What
<1>3. ASSUME NEW a \in App, Create(a) PROVE BrowserInv'
  BY <1>3, FormStep DEF Create, What
<1>4. ASSUME NEW a \in App, Link(a) PROVE BrowserInv'
  BY <1>4, FormStep DEF Link, What
<1>5. ASSUME NEW a \in App, Connect(a) PROVE BrowserInv'
  BY <1>5, FormStep DEF Connect, What
<1>6. ASSUME NEW v \in Visit, Reset(v) PROVE BrowserInv'
  BY <1>6, FormStep DEF Reset, What
<1> QED
  BY <1>1, <1>2, <1>3, <1>4, <1>5, <1>6

\* A screen asks the server something.
LEMMA AskStep ==
    ASSUME BrowserInv, Use \/ Operate
    PROVE  BrowserInv'
<1>1. StoresTyped /\ 0 \in 0..MaxForms
  BY BrowserAssumption DEF BrowserInv, TabTyped, BrowserTypeOK, StoresTyped, BrowserAssumption
<1>2. StoresTyped'
  BY <1>1 DEF StoresTyped, Use, Operate, storeVars, serverVars, noteVars, Visit
<1>3. PICK new \in Requests :
         /\ new.what \in {"use", "operate"} /\ ~new.home
         /\ underway' = underway \union {new}
  <2>1. CASE Use
    BY <1>1, <2>1, Elsewhere DEF Use, StoresTyped, What, Carries, Requests
  <2>2. CASE Operate
    BY <1>1, <2>2, Elsewhere DEF Operate, StoresTyped, What, Carries, Requests
  <2> QED
    BY <2>1, <2>2
<1>4. Carried(new) /\ ~Unlocking(new) /\ ~Loading(new)
  BY <1>3 DEF Carried, Unlocking, Loading
<1>5. UNCHANGED <<site, keys, secret, pageVars, noteVars, wallet>>
  BY DEF Use, Operate, storeVars
<1> HIDE DEF pageVars, noteVars
<1> QED
  BY <1>2, <1>3, <1>4, <1>5, Still

\* The operator's secret is entered.
LEMMA UnlockStep ==
    ASSUME BrowserInv, NEW x \in Secret, Unlock(x)
    PROVE  BrowserInv'
<1> DEFINE new == Carries(forms + 1, "unlock", jar, x, TRUE)
<1> USE DEF BrowserInv
<1>1. StoresTyped
  BY DEF TabTyped, BrowserTypeOK, StoresTyped
<1>2. forms + 1 \in 0..MaxForms
  BY <1>1, BrowserAssumption DEF StoresTyped, Unlock, Form, BrowserAssumption
<1>3. StoresTyped'
  BY <1>1, <1>2 DEF StoresTyped, Unlock, Form, OperatorSecret, serverVars, noteVars, Visit
<1>4. new \in Requests /\ new.what = "unlock" /\ new.arg = x
  BY <1>1, <1>2 DEF StoresTyped, Carries, Requests, What
<1>5. Carried(new) /\ ~Loading(new)
  BY <1>4 DEF Carried, Loading
<1>6. underway' = underway \union {new} /\ \A q \in underway : ~Unlocking(q)
  BY DEF Unlock, Form, Unlocking
<1>7. UNCHANGED <<site, jar, keys, pageVars, wallet, noteVars>>
  BY DEF Unlock
<1> HIDE DEF new
<1>8. TabTyped'
  BY <1>3, <1>4, <1>5, <1>6, <1>7, KeptWhole DEF TabTyped, BrowserTypeOK, Requests, noteVars
<1>9. KeysInv'
  <2>1. Web' = Web /\ Showing' = "operator" /\ ~unlocked'
    BY <1>7 DEF Unlock, Web, Showing, ScreenOf, WebScreen, DashboardScreen, pageVars
  <2>2. \A q \in underway' : Unlocking(q) => q = new
    BY <1>6
  <2>3. ~Web => secret' # Absent
    BY Elsewhere DEF Unlock, OperatorSecret
  <2>4. ScreensHaveKeys'
    BY <1>7, <2>1 DEF KeysInv, ScreensHaveKeys, pageVars
  <2>5. \A p, r \in underway' : Unlocking(p) /\ Unlocking(r) => p = r
    BY <2>2
  <2> QED
    BY <2>1, <2>3, <2>4, <2>5 DEF KeysInv, Unlocking
<1>10. LeftInv'
  BY <1>5, <1>6, <1>7, KeptBalance DEF noteVars, pageVars
<1> QED
  BY <1>8, <1>9, <1>10

\* The page is loaded again.
LEMMA LoadStep ==
    ASSUME BrowserInv, LoadPage
    PROVE  BrowserInv'
<1> USE DEF BrowserInv
<1>1. StoresTyped /\ Web' = Web
  BY DEF TabTyped, BrowserTypeOK, StoresTyped, LoadPage, Web
<1>2. StoresTyped'
  BY <1>1 DEF StoresTyped, LoadPage, storeVars, serverVars, Visit
<1>3. underway' \subseteq Requests /\ \A q \in underway' : Carried(q)' /\ q.what = "me"
  BY <1>1, PlainTyped DEF LoadPage, Carried, StoresTyped
<1>4. TabTyped'
  <2>1. section' \in Section'
    BY <1>1 DEF LoadPage, Section, TabTyped, BrowserTypeOK
  <2>2. user' \in Visit \union {Nobody, Unknown}
    BY <1>1 DEF LoadPage, StoresTyped
  <2>3. {connected, unlocked, wiped}' \subseteq BOOLEAN /\ fresh' \in App \union {Absent}
    BY <1>1 DEF LoadPage
  <2>4. (\A q \in underway : Carried(q))'
    BY <1>3 DEF Carried
  <2> QED
    BY <1>2, <1>3, <2>1, <2>2, <2>3, <2>4 DEF TabTyped, BrowserTypeOK, StoresTyped, Requests, Visit
<1>5. KeysInv'
  BY <1>1, <1>3 DEF LoadPage, KeysInv, ScreensHaveKeys, Unlocking, storeVars
<1>6. LeftInv'
  BY <1>1, <1>3 DEF LoadPage, LeftInv, NothingIsLeft, Loading, storeVars, Visit
<1> QED
  BY <1>4, <1>5, <1>6

\* A page drawn anew by the user, or as the shell moves the address on.
LEMMA Redrawn ==
    ASSUME BrowserInv, StoresTyped', site' = site,
           NEW s \in Section, NEW u \in Visit \union {Nobody, Unknown}, NEW c \in BOOLEAN,
           NEW into \in BOOLEAN, NEW new \in App \union {Absent},
           NEW requests \in SUBSET Requests, \A q \in requests : Carried(q),
           Draw(s, u, c, into, new, requests),
           c => keys' # Absent, Web => (keys' # Absent => c),
           \A q, r \in requests : Unlocking(q) /\ Unlocking(r) => q = r,
           ScreenOf(s, u, c) = Showing => (into => secret' # Absent \/ wiped),
           ~Web /\ ScreenOf(s, u, c) = Showing =>
              \A q \in requests :
                 Unlocking(q) => Showing = "operator" /\ ~into /\ (secret' # Absent \/ wiped),
           left' /\ keys' # Absent => late',
           wallet' = wallet \/ wallet' = Nobody, mixed' = mixed,
           Web /\ u \in Visit => /\ u = user
                                 /\ \A q \in requests : Loading(q) => q \in underway
                                 /\ \A q \in underway : Loading(q) => q \in requests
    PROVE  BrowserInv'
<1>1. TabTyped' /\ Drawing(s, u, c, into, new, requests)
  BY Turned DEF BrowserInv
<1>2. KeysInv'
  BY <1>1, DrawnKeys DEF BrowserInv
<1>3. LeftInv'
  BY <1>1, DrawnBalance DEF BrowserInv
<1> QED
  BY <1>1, <1>2, <1>3 DEF BrowserInv

\* What is known of the page and of what it waits for, in the words of Redrawn.
LEMMA BeforeTurn ==
    ASSUME BrowserInv
    PROVE  /\ StoresTyped /\ underway \in SUBSET Requests /\ section \in Section
           /\ user \in Visit \union {Nobody, Unknown} /\ fresh \in App \union {Absent}
           /\ connected \in BOOLEAN /\ unlocked \in BOOLEAN /\ wiped \in BOOLEAN
           /\ \A q \in underway : Carried(q)
           /\ connected => keys # Absent
           /\ Web => (keys # Absent => connected)
           /\ unlocked => secret # Absent \/ wiped
           /\ ~Web => \A q \in underway :
                         Unlocking(q) => Showing = "operator" /\ ~unlocked /\ (secret # Absent \/ wiped)
           /\ \A q, r \in underway : Unlocking(q) /\ Unlocking(r) => q = r
           /\ left /\ keys # Absent => late
<1>1. /\ StoresTyped /\ underway \in SUBSET Requests /\ section \in Section
      /\ user \in Visit \union {Nobody, Unknown} /\ fresh \in App \union {Absent}
      /\ connected \in BOOLEAN /\ unlocked \in BOOLEAN /\ wiped \in BOOLEAN
      /\ \A q \in underway : Carried(q)
  BY DEF BrowserInv, TabTyped, BrowserTypeOK, StoresTyped, Requests
<1>2. left /\ keys # Absent => late
  BY DEF BrowserInv, LeftInv, NothingIsLeft
<1> QED
  BY <1>1, <1>2 DEF BrowserInv, KeysInv, ScreensHaveKeys

\* The user turns to another screen, or the shell does.
LEMMA TurnStep ==
    ASSUME BrowserInv,
           \/ \E s \in Section : Visits(s)
           \/ Redirect \/ \E a \in App : Open(a)
    PROVE  BrowserInv'
<1>1. PICK s \in Section, c \in BOOLEAN :
         /\ Turn(s, user, c, underway)
         /\ UNCHANGED <<site, storeVars, wallet, serverVars, forms, left, late, mixed>>
         /\ c = connected \/ (c /\ keys # Absent)
  <2>1. CASE \E s \in Section : Visits(s)
    BY <2>1, BeforeTurn DEF Visits
  <2>2. CASE Redirect
    <3>1. Gate(section) \in Section
      BY <2>2, BeforeTurn DEF Redirect, Gate, Section
    <3> QED
      BY <2>2, <3>1, BeforeTurn DEF Redirect
  <2>3. ASSUME NEW a \in App, Open(a)
        PROVE  \E s \in Section, c \in BOOLEAN :
                 /\ Turn(s, user, c, underway)
                 /\ UNCHANGED <<site, storeVars, wallet, serverVars, forms, left, late, mixed>>
                 /\ c = connected \/ (c /\ keys # Absent)
    <3>1. Web /\ a # Absent /\ "app" \in Section /\ "link" \in Section
      BY <2>3, Elsewhere DEF Open, Section
    <3>2. CASE keys = a
      <4>1. Turn("app", user, TRUE, underway)
        BY <2>3, <3>2 DEF Open
      <4> QED
        BY <2>3, <3>1, <3>2, <4>1 DEF Open
    <3>3. CASE keys # a
      <4>1. Turn("link", user, connected, underway)
        BY <2>3, <3>3 DEF Open
      <4> QED
        BY <2>3, <3>1, <4>1, BeforeTurn DEF Open
    <3> QED
      BY <3>2, <3>3
  <2> QED
    BY <2>1, <2>2, <2>3
<1>2. Draw(s, user, c, unlocked, fresh, underway)
  BY <1>1 DEF Turn
<1>3. StoresTyped'
  BY <1>1, BeforeTurn DEF StoresTyped, storeVars, serverVars, Visit
<1>4. UNCHANGED <<site, keys, secret, wallet, left, late, mixed>>
  BY <1>1 DEF storeVars
<1>5. (c => keys' # Absent) /\ (Web => (keys' # Absent => c))
  BY <1>1, <1>4, BeforeTurn
<1>6. left' /\ keys' # Absent => late'
  BY <1>4, BeforeTurn
<1>7. \A q \in underway :
         Unlocking(q) /\ ~Web => Showing = "operator" /\ ~unlocked /\ (secret' # Absent \/ wiped)
  BY <1>4, BeforeTurn
<1>8. unlocked => secret' # Absent \/ wiped
  BY <1>4, BeforeTurn
<1>9. /\ user \in Visit \union {Nobody, Unknown} /\ fresh \in App \union {Absent}
      /\ unlocked \in BOOLEAN /\ underway \in SUBSET Requests
      /\ \A q \in underway : Carried(q)
      /\ \A q, r \in underway : Unlocking(q) /\ Unlocking(r) => q = r
  BY BeforeTurn
<1>10. site' = site /\ (wallet' = wallet \/ wallet' = Nobody) /\ mixed' = mixed
  BY <1>4
<1>11. \A q \in underway : Loading(q) => q \in underway
  OBVIOUS
<1> QED
  BY <1>2, <1>3, <1>5, <1>6, <1>7, <1>8, <1>9, <1>10, <1>11, Redrawn

\* The user signs out.
LEMMA SignOutStep ==
    ASSUME BrowserInv, SignOut
    PROVE  BrowserInv'
<1>1. PICK c \in BOOLEAN : ~c /\ Draw("login", Nobody, c, unlocked, fresh, underway)
  BY DEF SignOut, Turn
<1>2. /\ "login" \in Section /\ ~Web
      /\ UNCHANGED <<site, keys, secret, wallet, left, late, mixed>>
  BY DEF SignOut, Section
<1>3. StoresTyped'
  BY BeforeTurn DEF StoresTyped, SignOut, Token, serverVars, Visit
<1>4. left' /\ keys' # Absent => late'
  BY <1>2, BeforeTurn
<1>5. \A q \in underway : Unlocking(q) => Showing = "operator" /\ ~unlocked /\ (secret' # Absent \/ wiped)
  BY <1>2, BeforeTurn
<1>6. unlocked => secret' # Absent \/ wiped
  BY <1>2, BeforeTurn
<1>7. /\ underway \in SUBSET Requests /\ fresh \in App \union {Absent} /\ unlocked \in BOOLEAN
      /\ \A q \in underway : Carried(q)
      /\ \A q, r \in underway : Unlocking(q) /\ Unlocking(r) => q = r
  BY BeforeTurn
<1> QED
  BY <1>1, <1>2, <1>3, <1>4, <1>5, <1>6, <1>7, Redrawn

\* The user of web signs out: the session and the app go, the balance too.
LEMMA WebSignOutStep ==
    ASSUME BrowserInv, WebSignOut
    PROVE  BrowserInv'
<1> DEFINE old == {[q EXCEPT !.old = q.what = "link"] : q \in Dismiss(underway)}
           requests == old \union {Plain("logout", jar)}
<1>0. PICK c \in BOOLEAN : ~c /\ Draw("login", Nobody, c, unlocked, fresh, requests)
  BY DEF WebSignOut, Turn
<1>1. /\ "login" \in Section /\ Web
      /\ UNCHANGED <<site, secret, mixed>> /\ keys' = Absent /\ wallet' = Nobody
      /\ left' = TRUE /\ late' = FALSE
  BY DEF WebSignOut, Section, Keys
<1>2. StoresTyped'
  BY BeforeTurn DEF StoresTyped, WebSignOut, Keys, serverVars, Visit
<1>3. Plain("logout", jar) \in Requests /\ Carried(Plain("logout", jar)) /\ ~Unlocking(Plain("logout", jar))
  BY BeforeTurn, PlainTyped DEF StoresTyped, Carried, Unlocking
<1>4. ASSUME NEW q \in old
      PROVE  q \in Requests /\ Carried(q)
  <2>1. PICK p \in Dismiss(underway) : q = [p EXCEPT !.old = p.what = "link"]
    OBVIOUS
  <2>2. PICK r \in underway : p = IF r.what = "wallet" THEN Faded(r) ELSE r
    BY DEF Dismiss, Faded
  <2>3. p \in Requests /\ Carried(p)
    BY <2>2, BeforeTurn, FadedIs DEF Carried
  <2>4. q \in Requests /\ q.what = p.what /\ q.arg = p.arg
    BY <2>1, <2>3 DEF Requests
  <2> QED
    BY <2>3, <2>4 DEF Carried
<1>5. requests \in SUBSET Requests /\ \A q \in requests : Carried(q)
  BY <1>3, <1>4
<1>6. \A q, r \in requests : Unlocking(q) /\ Unlocking(r) => q = r
  <2>1. ASSUME NEW q \in old, Unlocking(q)
        PROVE  \E r \in underway : Unlocking(r) /\ q = [r EXCEPT !.old = r.what = "link"]
    <3>1. PICK p \in Dismiss(underway) : q = [p EXCEPT !.old = p.what = "link"]
      OBVIOUS
    <3>2. PICK r \in underway : p = IF r.what = "wallet" THEN Faded(r) ELSE r
      BY DEF Dismiss, Faded
    <3>3. p \in Requests
      BY <3>2, BeforeTurn, FadedIs
    <3>4. q.what = p.what /\ q.home = p.home
      BY <3>1, <3>3 DEF Requests
    <3> QED
      BY <2>1, <3>1, <3>2, <3>4, BeforeTurn, FadedIs DEF Unlocking
  <2>2. ASSUME NEW q \in old, NEW r \in old, Unlocking(q), Unlocking(r)
        PROVE  q = r
    <3>1. PICK p \in underway : Unlocking(p) /\ q = [p EXCEPT !.old = p.what = "link"]
      BY <2>1, <2>2
    <3>2. PICK t \in underway : Unlocking(t) /\ r = [t EXCEPT !.old = t.what = "link"]
      BY <2>1, <2>2
    <3>3. p = t
      BY <3>1, <3>2, BeforeTurn
    <3> QED
      BY <3>1, <3>2, <3>3
  <2> QED
    BY <1>3, <2>2
<1> HIDE DEF requests
<1> QED
  BY <1>0, <1>1, <1>2, <1>5, <1>6, BeforeTurn, Redrawn, Elsewhere

\* The app just made is connected, or the operator's panels are locked.
LEMMA OwnStep ==
    ASSUME BrowserInv, Acknowledge \/ Lock
    PROVE  BrowserInv'
<1>1. /\ underway \in SUBSET Requests /\ fresh \in App \union {Absent} /\ unlocked \in BOOLEAN
      /\ user \in Visit \union {Nobody, Unknown} /\ section \in Section /\ connected \in BOOLEAN
      /\ \A q \in underway : Carried(q)
      /\ \A q, r \in underway : Unlocking(q) /\ Unlocking(r) => q = r
  BY BeforeTurn
<1>2. CASE Acknowledge
  <2>1. PICK c \in BOOLEAN : c /\ Draw("app", user, c, unlocked, fresh, underway)
    BY <1>2 DEF Acknowledge, Turn
  <2>2. /\ "app" \in Section /\ Web /\ keys' = fresh /\ fresh # Absent /\ ~left'
        /\ UNCHANGED <<site, secret, wallet, mixed>>
    BY <1>2 DEF Acknowledge, Section, Keys
  <2>3. StoresTyped'
    BY <1>2, BeforeTurn DEF StoresTyped, Acknowledge, Keys, serverVars, Visit
  <2>4. /\ unlocked => secret' # Absent \/ wiped
        /\ c => keys' # Absent
        /\ Web => (keys' # Absent => c)
        /\ left' /\ keys' # Absent => late'
    BY <2>1, <2>2, BeforeTurn
  <2>5. ~Web => \A q \in underway : ~Unlocking(q)
    BY <2>2
  <2> QED
    BY <1>1, <2>1, <2>2, <2>3, <2>4, <2>5, Redrawn
<1>3. CASE Lock
  <2>1. PICK into \in BOOLEAN : ~into /\ Draw(section, user, connected, into, fresh, underway)
    BY <1>3 DEF Lock
  <2>2. unlocked /\ UNCHANGED <<site, keys, wallet, left, late, mixed>>
    BY <1>3 DEF Lock
  <2>3. StoresTyped'
    BY <1>3, BeforeTurn DEF StoresTyped, Lock, OperatorSecret, serverVars, Visit
  <2>4. /\ (connected => keys' # Absent) /\ (Web => (keys' # Absent => connected))
        /\ (left' /\ keys' # Absent => late')
    BY <2>2, BeforeTurn
  <2>5. ~Web => \A q \in underway : ~Unlocking(q)
    BY <2>2, BeforeTurn
  <2> QED
    BY <1>1, <2>1, <2>2, <2>3, <2>4, <2>5, Redrawn
<1> QED
  BY <1>2, <1>3

-----------------------------------------------------------------------------
(* The answers *)

\* An answer that changes nothing that the page shows.
LEMMA ShrugStep ==
    ASSUME BrowserInv, NEW q \in underway, LoggedOut(q) \/ Verified(q) \/ Shrug(q)
    PROVE  BrowserInv'
<1>1. StoresTyped /\ Carried(q)
  BY BeforeTurn
<1>2. StoresTyped'
  BY <1>1 DEF StoresTyped, LoggedOut, Verified, Shrug, Token, storeVars, serverVars, noteVars, Visit
<1>3. UNCHANGED <<site, keys, secret, pageVars, noteVars, wallet>> /\ q.what # "wallet"
  BY DEF LoggedOut, Verified, Shrug, storeVars
<1>4. /\ Plain("me", jar) \in Requests /\ ~Plain("me", jar).home
      /\ Plain("me", jar).what = "me"
  BY <1>1, PlainTyped DEF StoresTyped
<1>5. \/ underway' = underway \ {q}
      \/ Web /\ underway' = (underway \ {q}) \union {Plain("me", jar)}
  BY <1>1 DEF LoggedOut, Verified, Shrug, Carried
<1>6. Web => Carried(Plain("me", jar)) /\ ~Unlocking(Plain("me", jar)) /\ ~Loading(Plain("me", jar))
  BY <1>4 DEF Carried, Unlocking, Loading
<1>7. \A r \in underway' : \/ r \in underway
                           \/ r \in Requests /\ Carried(r) /\ ~Unlocking(r) /\ ~Loading(r)
  BY <1>4, <1>5, <1>6
<1>8. \A r \in underway : r.what = "wallet" => r \in underway'
  BY <1>3, <1>5
<1> QED
  BY <1>2, <1>3, <1>7, <1>8, Still

\* The balance comes.
LEMMA BalanceStep ==
    ASSUME BrowserInv, NEW q \in underway, Balance(q)
    PROVE  BrowserInv'
<1>1. StoresTyped /\ Carried(q) /\ q \in Requests /\ TabTyped /\ LeftInv /\ KeysInv
  BY BeforeTurn DEF BrowserInv
<1>2. /\ q.what = "wallet" /\ underway' = underway \ {q}
      /\ wallet' = (IF ~q.home THEN wallet ELSE IF q.answer = "ok" THEN q.as ELSE Nobody)
      /\ UNCHANGED <<site, storeVars, pageVars, serverVars, forms, noteVars>>
  BY DEF Balance
<1>3. StoresTyped'
  BY <1>1, <1>2 DEF StoresTyped, storeVars, serverVars, noteVars, Visit, Requests
<1>4. TabTyped'
  BY <1>1, <1>2, <1>3, KeptWhole DEF TabTyped, BrowserTypeOK, Requests, noteVars
<1>5. KeysInv'
  <2>1. \A p, r \in underway' : Unlocking(p) /\ Unlocking(r) => p = r
    BY <1>1, <1>2 DEF KeysInv
  <2> QED
    BY <1>1, <1>2, <2>1, KeptKeys DEF noteVars, storeVars
<1>6. LeftInv'
  <2>1. Web /\ Web' /\ UNCHANGED <<user, mixed, keys, left, late>>
    BY <1>1, <1>2 DEF Carried, Web, storeVars, noteVars, pageVars
  <2>2. ASSUME user \in Visit, ~mixed, NEW r \in underway', Loading(r)
        PROVE  r.as = user
    BY <1>1, <1>2, <2>2 DEF LeftInv
  <2>3. ASSUME user \in Visit, ~mixed, wallet' # Nobody
        PROVE  wallet' = user \/ \E r \in underway' : r.what = "wallet" /\ r.home
    <3>1. CASE q.home
      BY <1>1, <1>2, <2>3, <3>1 DEF LeftInv, Loading
    <3>2. CASE ~q.home
      BY <1>1, <1>2, <2>3, <3>2 DEF LeftInv, NothingIsLeft
    <3> QED
      BY <3>1, <3>2
  <2>4. NothingIsLeft'
    BY <1>1, <2>1, <2>3 DEF LeftInv, NothingIsLeft, Visit
  <2> QED
    BY <2>1, <2>2, <2>4 DEF LeftInv, Loading, Visit
<1> QED
  BY <1>4, <1>5, <1>6 DEF BrowserInv

\* The user comes.
LEMMA MeStep ==
    ASSUME BrowserInv, NEW q \in underway, Me(q)
    PROVE  BrowserInv'
<1> DEFINE new == Plain("wallet", jar)
<1>1. /\ StoresTyped /\ Carried(q) /\ q \in Requests /\ TabTyped /\ LeftInv /\ KeysInv
      /\ Web /\ section \in Section /\ connected \in BOOLEAN /\ unlocked \in BOOLEAN
      /\ fresh \in App \union {Absent}
  BY BeforeTurn DEF BrowserInv, Me, Carried
<1>2. PICK u \in Visit \union {Nobody} :
         /\ wallet' = (IF u \in Visit THEN wallet ELSE Nobody)
         /\ mixed' = (u \in Visit /\ u # jar)
         /\ Turn(section, u, connected,
                 Dismiss(underway \ {q}) \union (IF u \in Visit THEN {new} ELSE {}))
    <2>1. (IF q.answer = "ok" THEN q.as ELSE Nobody) \in Visit \union {Nobody}
      BY <1>1 DEF Requests, Visit
    <2> QED
      BY <2>1 DEF Me, Wallet
<1>3. PICK requests \in SUBSET Requests :
         /\ requests = Dismiss(underway \ {q}) \union (IF u \in Visit THEN {new} ELSE {})
         /\ Draw(section, u, connected, unlocked, fresh, requests)
         /\ \A r \in requests : Carried(r)
         /\ \A r \in requests : Unlocking(r) => r \in underway
         /\ \A r \in requests : Loading(r) => r = new /\ u \in Visit
         /\ u \in Visit => new \in requests
  <2>1. ASSUME NEW r \in Dismiss(underway \ {q})
        PROVE  /\ r \in Requests /\ Carried(r) /\ ~Loading(r) /\ (Unlocking(r) => r \in underway)
    <3>1. PICK p \in underway : r = IF p.what = "wallet" THEN Faded(p) ELSE p
      BY DEF Dismiss, Faded
    <3> QED
      BY <3>1, BeforeTurn, FadedIs DEF Carried, Loading, Unlocking
  <2>2. new \in Requests /\ Carried(new) /\ ~Unlocking(new)
    BY <1>1, PlainTyped DEF StoresTyped, Carried, Unlocking
  <2> HIDE DEF new
  <2> QED
    BY <1>2, <2>1, <2>2 DEF Turn
<1>4. UNCHANGED <<site, jar, keys, secret, left, late>>
  BY DEF Me, storeVars
<1>5. StoresTyped'
  BY <1>1, <1>2, <1>4 DEF Me, StoresTyped, serverVars, Visit
<1>6. TabTyped' /\ Drawing(section, u, connected, unlocked, fresh, requests)
  BY <1>1, <1>3, <1>4, <1>5, Turned
<1>7. KeysInv'
  <2>1. /\ (connected => keys' # Absent) /\ (keys' # Absent => connected)
        /\ (unlocked => secret' # Absent \/ wiped)
    BY <1>1, <1>4, BeforeTurn
  <2>2. /\ \A p, r \in requests : Unlocking(p) /\ Unlocking(r) => p = r
        /\ ~Web => \A r \in requests : ~Unlocking(r)
    BY <1>1, <1>3, BeforeTurn
  <2> HIDE DEF new
  <2> QED
    BY <1>1, <1>4, <1>6, <2>1, <2>2, DrawnKeys
<1>8. LeftInv'
  <2>1. new.what = "wallet" /\ new.home /\ new.as = jar
    BY <1>1, PlainTyped DEF StoresTyped
  <2> HIDE DEF new
  <2>2. Web' /\ user' = u
    BY <1>1, <1>4, <1>6 DEF Web, Drawing
  <2>3. ASSUME u \in Visit, ~mixed', NEW r \in underway', Loading(r)
        PROVE  r.as = u
    BY <1>2, <1>3, <1>6, <2>1, <2>3 DEF Drawing, Loading
  <2>4. u \in Visit => new \in underway'
    BY <1>3, <1>6, <2>1 DEF Drawing
  <2>5. NothingIsLeft'
    BY <1>4, <2>1, <2>2, <2>4, BeforeTurn DEF NothingIsLeft, Visit
  <2> QED
    BY <2>2, <2>3, <2>5 DEF LeftInv, Loading, Visit
<1> QED
  BY <1>6, <1>7, <1>8 DEF BrowserInv

\* Signed in.
LEMMA SignedInStep ==
    ASSUME BrowserInv, NEW q \in underway, SignedIn(q)
    PROVE  BrowserInv'
<1>1. /\ StoresTyped /\ q \in Requests /\ fresh \in App \union {Absent} /\ unlocked \in BOOLEAN
      /\ user \in Visit \union {Nobody, Unknown} /\ section \in Section /\ connected \in BOOLEAN
      /\ underway \in SUBSET Requests /\ \A r \in underway : Carried(r)
      /\ \A p, r \in underway : Unlocking(p) /\ Unlocking(r) => p = r
  BY BeforeTurn
<1>2. q.n \in Visit /\ q.what = "login" /\ UNCHANGED <<site, keys, secret, wallet, left, late, mixed>>
  BY <1>1 DEF SignedIn, Requests, Visit
<1>3. StoresTyped'
  BY <1>1, <1>2 DEF SignedIn, StoresTyped, Token, serverVars, Visit
<1>4. /\ (connected => keys' # Absent) /\ (Web => (keys' # Absent => connected))
      /\ (left' /\ keys' # Absent => late') /\ (unlocked => secret' # Absent \/ wiped)
      /\ ~Web => \A r \in underway :
                    Unlocking(r) => Showing = "operator" /\ ~unlocked /\ (secret' # Absent \/ wiped)
  BY <1>2, BeforeTurn
<1>5. CASE Web
  <2>1. PICK new \in Requests : new = Plain("me", q.n) /\ new.what = "me"
    BY <1>2, PlainTyped
  <2>2. PICK requests \in SUBSET Requests : requests = (underway \ {q}) \union {new}
    BY <1>1
  <2>3. Draw("apps", user, connected, unlocked, fresh, requests) /\ "apps" \in Section
    BY <1>5, <2>1, <2>2 DEF SignedIn, Turn, Section
  <2>4. /\ \A r \in requests : Carried(r)
        /\ \A p, r \in requests : Unlocking(p) /\ Unlocking(r) => p = r
        /\ \A r \in requests : Loading(r) => r \in underway
        /\ \A r \in underway : Loading(r) => r \in requests
    BY <1>1, <1>2, <1>5, <2>1, <2>2 DEF Carried, Unlocking, Loading
  <2> QED
    BY <1>1, <1>2, <1>3, <1>4, <1>5, <2>3, <2>4, Redrawn
<1>6. CASE ~Web
  <2>1. PICK c \in BOOLEAN : c = (keys # Absent)
    OBVIOUS
  <2>2. PICK s \in Section : s = IF section = "login" THEN "app" ELSE section
    BY <1>1, <1>6 DEF Section
  <2>3. PICK requests \in SUBSET Requests : requests = underway \ {q}
    BY <1>1
  <2>4. Draw(s, q.n, c, unlocked, fresh, requests)
    BY <1>6, <2>1, <2>2, <2>3 DEF SignedIn, Turn
  <2>5. /\ \A r \in requests : Carried(r) /\ r \in underway
        /\ \A p, r \in requests : Unlocking(p) /\ Unlocking(r) => p = r
    BY <1>1, <2>3
  <2>6. /\ c => keys' # Absent
        /\ left' /\ keys' # Absent => late'
        /\ unlocked => secret' # Absent \/ wiped
        /\ \A r \in requests :
              Unlocking(r) => Showing = "operator" /\ ~unlocked /\ (secret' # Absent \/ wiped)
    BY <1>2, <1>4, <1>6, <2>1, <2>5
  <2>7. fresh \in App \union {Absent} /\ unlocked \in BOOLEAN
    BY <1>1
  <2> QED
    BY <1>2, <1>3, <1>6, <2>4, <2>5, <2>6, <2>7, Redrawn
<1> QED
  BY <1>5, <1>6

\* An app was linked or connected, or a screen of it refused.
LEMMA LinkedStep ==
    ASSUME BrowserInv, NEW q \in underway, Linked(q) \/ Refused(q)
    PROVE  BrowserInv'
<1>1. /\ StoresTyped /\ q \in Requests /\ fresh \in App \union {Absent} /\ unlocked \in BOOLEAN
      /\ user \in Visit \union {Nobody, Unknown} /\ section \in Section
      /\ underway \in SUBSET Requests /\ \A r \in underway : Carried(r)
      /\ \A p, r \in underway : Unlocking(p) /\ Unlocking(r) => p = r
  BY BeforeTurn
<1>2. PICK requests \in SUBSET Requests : requests = underway \ {q}
  BY <1>1
<1>3. q.what # "wallet" /\ UNCHANGED <<site, secret, wallet, mixed>>
  BY DEF Linked, Refused
<1>4. /\ \A r \in requests : Carried(r) /\ r \in underway
      /\ \A p, r \in requests : Unlocking(p) /\ Unlocking(r) => p = r
      /\ \A r \in underway : Loading(r) => r \in requests
  BY <1>1, <1>2, <1>3 DEF Loading
<1>5. /\ unlocked => secret' # Absent \/ wiped
      /\ ~Web => \A r \in requests :
                    Unlocking(r) => Showing = "operator" /\ ~unlocked /\ (secret' # Absent \/ wiped)
  BY <1>2, <1>3, BeforeTurn
<1>6. CASE Linked(q)
  <2>1. PICK c \in BOOLEAN : c /\ Draw("app", user, c, unlocked, fresh, requests) /\ "app" \in Section
    BY <1>2, <1>6 DEF Linked, Turn, Section
  <2>2. q.arg \in App /\ q.old \in BOOLEAN
    BY <1>1, <1>6 DEF Linked, Carried, Requests
  <2>3. StoresTyped'
    BY <1>1, <1>6, <2>2 DEF Linked, StoresTyped, Keys, serverVars, Visit
  <2>4. /\ c => keys' # Absent
        /\ Web => (keys' # Absent => c)
        /\ left' /\ keys' # Absent => late'
    BY <1>6, <2>1, <2>2, Elsewhere DEF Linked, Keys
  <2>5. fresh \in App \union {Absent} /\ unlocked \in BOOLEAN /\ user \in Visit \union {Nobody, Unknown}
    BY <1>1
  <2>6. /\ site' = site /\ wallet' = wallet /\ mixed' = mixed
        /\ \A r \in requests : Loading(r) => r \in underway
    BY <1>3, <1>4
  <2>7. TabTyped' /\ Drawing("app", user, c, unlocked, fresh, requests)
    BY <1>4, <2>1, <2>3, <2>5, <2>6, Turned DEF BrowserInv
  <2>8. KeysInv'
    BY <1>4, <1>5, <2>4, <2>5, <2>6, <2>7, DrawnKeys DEF BrowserInv
  <2>9. LeftInv'
    BY <1>4, <2>4, <2>6, <2>7, DrawnBalance DEF BrowserInv
  <2> QED
    BY <2>7, <2>8, <2>9 DEF BrowserInv
<1>7. CASE Refused(q)
  <2>1. PICK c \in BOOLEAN : ~c /\ Draw(section, user, c, unlocked, fresh, requests)
    BY <1>2, <1>7 DEF Refused, Turn
  <2>2. StoresTyped'
    BY <1>1, <1>7 DEF Refused, StoresTyped, Keys, serverVars, Visit
  <2>3. keys' = Absent
    BY <1>7 DEF Refused, Keys
  <2> QED
    BY <1>1, <1>3, <1>4, <1>5, <2>1, <2>2, <2>3, Redrawn
<1> QED
  BY <1>6, <1>7

\* An app was made.
LEMMA MadeStep ==
    ASSUME BrowserInv, NEW q \in underway, Made(q)
    PROVE  BrowserInv'
<1>1. /\ StoresTyped /\ q \in Requests /\ fresh \in App \union {Absent} /\ unlocked \in BOOLEAN
      /\ user \in Visit \union {Nobody, Unknown} /\ section \in Section /\ connected \in BOOLEAN
      /\ underway \in SUBSET Requests /\ \A r \in underway : Carried(r)
      /\ \A p, r \in underway : Unlocking(p) /\ Unlocking(r) => p = r
  BY BeforeTurn
<1>2. PICK requests \in SUBSET Requests : requests = underway \ {q}
  BY <1>1
<1>3. q.what = "create" /\ UNCHANGED <<site, keys, secret, wallet, mixed, left, late>>
  BY DEF Made, storeVars
<1>4. /\ \A r \in requests : Carried(r) /\ r \in underway
      /\ \A p, r \in requests : Unlocking(p) /\ Unlocking(r) => p = r
      /\ \A r \in underway : Loading(r) => r \in requests
  BY <1>1, <1>2, <1>3 DEF Loading
<1>5. /\ unlocked => secret' # Absent \/ wiped
      /\ ~Web => \A r \in requests :
                    Unlocking(r) => Showing = "operator" /\ ~unlocked /\ (secret' # Absent \/ wiped)
      /\ (connected => keys' # Absent) /\ (Web => (keys' # Absent => connected))
      /\ (left' /\ keys' # Absent => late')
  BY <1>2, <1>3, BeforeTurn
<1>6. PICK new \in App \union {Absent} : Draw(section, user, connected, unlocked, new, requests)
  <2>1. q.arg \in App
    BY <1>1, <1>3 DEF Carried
  <2> QED
    BY <1>1, <1>2, <2>1 DEF Made
<1>7. StoresTyped'
  BY <1>1 DEF Made, StoresTyped, storeVars, serverVars, Visit
<1> QED
  BY <1>1, <1>3, <1>4, <1>5, <1>6, <1>7, Redrawn

\* The operator's secret was accepted, or refused.
LEMMA OperatorStep ==
    ASSUME BrowserInv, NEW q \in underway, Unlocked(q) \/ Rejected(q)
    PROVE  BrowserInv'
<1>1. /\ StoresTyped /\ q \in Requests /\ fresh \in App \union {Absent} /\ unlocked \in BOOLEAN
      /\ user \in Visit \union {Nobody, Unknown} /\ section \in Section /\ connected \in BOOLEAN
      /\ underway \in SUBSET Requests /\ \A r \in underway : Carried(r)
      /\ \A p, r \in underway : Unlocking(p) /\ Unlocking(r) => p = r
  BY BeforeTurn
<1>2. PICK requests \in SUBSET Requests : requests = underway \ {q}
  BY <1>1
<1>3. q.what \in {"unlock", "operate"} /\ UNCHANGED <<site, keys, wallet, mixed, left, late>>
  BY DEF Unlocked, Rejected
<1>4. /\ \A r \in requests : Carried(r) /\ r \in underway
      /\ \A p, r \in requests : Unlocking(p) /\ Unlocking(r) => p = r
      /\ \A r \in underway : Loading(r) => r \in requests
  BY <1>1, <1>2, <1>3 DEF Loading
<1>5. /\ (connected => keys' # Absent) /\ (Web => (keys' # Absent => connected))
      /\ (left' /\ keys' # Absent => late')
  BY <1>3, BeforeTurn
<1>6. CASE Unlocked(q)
  <2>1. PICK into \in BOOLEAN :
           /\ into = (unlocked \/ q.home)
           /\ Draw(section, user, connected, into, fresh, requests)
    BY <1>2, <1>6 DEF Unlocked
  <2>2. q.what = "unlock" /\ q.arg \in Secret /\ q.arg # Absent /\ (q.home => Unlocking(q))
    BY <1>1, <1>6, Elsewhere DEF Unlocked, Carried, Unlocking
  <2>3. StoresTyped'
    BY <1>1, <1>6, <2>2 DEF Unlocked, StoresTyped, OperatorSecret, serverVars, Visit
  <2>4. secret' = IF Web THEN q.arg ELSE secret
    BY <1>6 DEF Unlocked, OperatorSecret
  <2>5. into => secret' # Absent \/ wiped
    BY <2>1, <2>2, <2>4, BeforeTurn
  <2>6. ~Web => \A r \in requests :
                   Unlocking(r) => Showing = "operator" /\ ~into /\ (secret' # Absent \/ wiped)
    BY <1>1, <1>2, <2>1, <2>2, <2>4, BeforeTurn
  <2> QED
    BY <1>1, <1>3, <1>4, <1>5, <2>1, <2>3, <2>5, <2>6, Redrawn
<1>7. CASE Rejected(q)
  <2>1. PICK s \in Section : s = IF ~Web /\ section = "operator" THEN "app" ELSE section
    BY <1>1 DEF Section
  <2>2. PICK into \in BOOLEAN : ~into /\ Draw(s, user, connected, into, fresh, requests)
    BY <1>2, <1>7, <2>1 DEF Rejected
  <2>3. StoresTyped'
    BY <1>1, <1>7 DEF Rejected, StoresTyped, OperatorSecret, serverVars, Visit
  <2>4. ~Web /\ Showing = "operator" => ScreenOf(s, user, connected) # Showing
    BY <2>1 DEF Showing, ScreenOf, DashboardScreen
  <2>5. ~Web /\ ScreenOf(s, user, connected) = Showing => \A r \in requests : ~Unlocking(r)
    BY <1>2, <2>4, BeforeTurn
  <2> QED
    BY <1>1, <1>3, <1>4, <1>5, <2>2, <2>3, <2>5, Redrawn
<1> QED
  BY <1>6, <1>7

\* The dashboard could not ask for it.
LEMMA UnreachedStep ==
    ASSUME BrowserInv, NEW q \in underway, Unreached(q)
    PROVE  BrowserInv'
<1>1. /\ StoresTyped /\ TabTyped /\ LeftInv /\ KeysInv
      /\ unlocked \in BOOLEAN /\ wiped \in BOOLEAN /\ q.home \in BOOLEAN
  BY BeforeTurn DEF BrowserInv, Requests
<1>2. /\ ~Web /\ q.what = "unlock" /\ secret' = Absent /\ wiped' = (wiped \/ ~q.home)
      /\ underway' = underway \ {q}
      /\ UNCHANGED <<site, jar, keys, pageVars, wallet, serverVars, forms, left, late, mixed>>
  BY DEF Unreached, OperatorSecret
<1>3. StoresTyped'
  BY <1>1, <1>2 DEF StoresTyped, serverVars, Visit
<1>4. TabTyped'
  BY <1>1, <1>2, <1>3, KeptWhole DEF TabTyped, BrowserTypeOK, Requests
<1>5. KeysInv'
  <2>1. Web' = Web /\ UNCHANGED <<connected, unlocked>> /\ Showing' = Showing
    BY <1>2 DEF Web, pageVars, Showing, ScreenOf, WebScreen, DashboardScreen
  <2>2. q.home => ~unlocked /\ \A r \in underway' : ~Unlocking(r)
    BY <1>1, <1>2 DEF KeysInv, Unlocking
  <2>3. ScreensHaveKeys'
    BY <1>1, <1>2, <2>1, <2>2 DEF ScreensHaveKeys, KeysInv
  <2>4. \A p, r \in underway' : Unlocking(p) /\ Unlocking(r) => p = r
    BY <1>1, <1>2 DEF KeysInv
  <2>5. \A r \in underway' : Unlocking(r) => Showing' = "operator" /\ ~unlocked' /\ wiped'
    BY <1>1, <1>2, <2>1, <2>2 DEF KeysInv
  <2> QED
    BY <2>1, <2>3, <2>4, <2>5 DEF KeysInv, Unlocking
<1>6. LeftInv'
  BY <1>1, <1>2, KeptBalance DEF Loading, pageVars
<1> QED
  BY <1>4, <1>5, <1>6 DEF BrowserInv

-----------------------------------------------------------------------------
\* Every step keeps the invariant.
LEMMA BrowserStep == BrowserInv /\ [BrowserNext]_browserVars => BrowserInv'
<1> SUFFICES ASSUME BrowserInv, [BrowserNext]_browserVars PROVE BrowserInv'
  OBVIOUS
<1>1. ASSUME NEW q \in underway, ServeIt(q) \/ Drop(q) PROVE BrowserInv'
  BY <1>1, ServeStep
<1>2. ASSUME NEW q \in underway, Reads(q) PROVE BrowserInv'
  BY <1>2, MeStep, BalanceStep, ShrugStep, SignedInStep, LinkedStep, MadeStep, OperatorStep,
     UnreachedStep DEF Reads
<1>3. ASSUME \/ \E v \in Visit : Expire(v)
             \/ \E a \in App : Withdraw(a)
             \/ \E x \in Secret : Rotate(x)
      PROVE  BrowserInv'
  BY <1>3, ServerStep
<1>4. ASSUME \/ LogIn \/ Verify
             \/ \E a \in App : Create(a) \/ Link(a) \/ Connect(a)
             \/ \E v \in Visit : Reset(v)
      PROVE  BrowserInv'
  BY <1>4, FormsStep
<1>5. ASSUME Use \/ Operate PROVE BrowserInv'
  BY <1>5, AskStep
<1>6. ASSUME NEW x \in Secret, Unlock(x) PROVE BrowserInv'
  BY <1>6, UnlockStep
<1>7. ASSUME LoadPage PROVE BrowserInv'
  BY <1>7, LoadStep
<1>8. ASSUME \/ \E s \in Section : Visits(s)
             \/ Redirect \/ \E a \in App : Open(a)
      PROVE  BrowserInv'
  BY <1>8, TurnStep
<1>9. ASSUME SignOut \/ WebSignOut PROVE BrowserInv'
  BY <1>9, SignOutStep, WebSignOutStep
<1>10. ASSUME Acknowledge \/ Lock PROVE BrowserInv'
  BY <1>10, OwnStep
<1>11. CASE UNCHANGED browserVars
  <2>1. UNCHANGED <<site, keys, secret, pageVars, noteVars, wallet>> /\ underway' = underway
    BY <1>11 DEF browserVars, storeVars
  <2>2. StoresTyped'
    BY <1>11, BeforeTurn DEF StoresTyped, browserVars, storeVars, serverVars, noteVars, Visit
  <2> QED
    BY <2>1, <2>2, Still
<1>12. CASE BrowserNext
  BY <1>1, <1>2, <1>3, <1>4, <1>5, <1>6, <1>7, <1>8, <1>9, <1>10, <1>12 DEF BrowserNext
<1> QED
  BY <1>11, <1>12

\* The invariant of the two clients' pages: types, credentials and what is shown of whom.
THEOREM TabHolds == BrowserSpec => []BrowserInv
BY StartsRight, BrowserStep, PTL DEF BrowserSpec

\* A page that takes an app to be connected has its keys, the web's conversely too, and open
\* operator's panels have a secret to ask with, but for an unlock of an earlier screen that
\* failed meanwhile; whatever is typed, answered, lost or left (Browser's routes and stores).
THEOREM KeysAreThere == BrowserSpec => []ScreensHaveKeys
<1>1. BrowserInv => ScreensHaveKeys
  BY DEF BrowserInv, KeysInv
<1> QED
  BY <1>1, TabHolds, PTL

\* After Sign out the web's tab holds no app's keys but by a link sent before or anew; the
\* balance in the top bar is that of the user beside it, however its loads overlap.
THEOREM LeavesNothing == BrowserSpec => []NothingIsLeft
<1>1. BrowserInv => NothingIsLeft
  BY DEF BrowserInv, LeftInv
<1> QED
  BY <1>1, TabHolds, PTL

-----------------------------------------------------------------------------
(* Listing: a set in order. *)

\* R is a total order on S, of what precedes what.
OrdersAll(S, R) ==
    /\ \A x \in S : <<x, x>> \notin R
    /\ \A x, y \in S : x = y \/ <<x, y>> \in R \/ <<y, x>> \in R
    /\ \A x, y, z \in S : <<x, y>> \in R /\ <<y, z>> \in R => <<x, z>> \in R

\* A finite set that is ordered has, for each place, the element with so many before it.
LEMMA InOrderIs ==
    ASSUME NEW S, IsFiniteSet(S), NEW R, OrdersAll(S, R),
           NEW q, q = InOrder(S, R)
    PROVE  /\ q \in Seq(S) /\ DOMAIN q = 1..Cardinality(S) /\ \A i \in DOMAIN q : q[i] \in S
           /\ \A x \in S : \E i \in DOMAIN q : q[i] = x
           /\ \A i, k \in DOMAIN q : i < k => <<q[i], q[k]>> \in R
<1> DEFINE n == Cardinality(S)
           lower(x) == {y \in S : <<y, x>> \in R}
           rank == [x \in S |-> Cardinality(lower(x))]
<1>1. n \in Nat
  BY FS_CardinalityType
<1>2. \A x \in S : IsFiniteSet(lower(x)) /\ Cardinality(lower(x)) \in Nat
  <2> SUFFICES ASSUME NEW x \in S PROVE IsFiniteSet(lower(x)) /\ Cardinality(lower(x)) \in Nat
    OBVIOUS
  <2>1. lower(x) \in SUBSET S
    OBVIOUS
  <2> QED
    BY <2>1, FS_Subset, FS_CardinalityType
<1>3. ASSUME NEW x \in S PROVE rank[x] \in 0..(n - 1)
  <2>1. lower(x) \in SUBSET (S \ {x})
    BY DEF OrdersAll
  <2>2. IsFiniteSet(S \ {x}) /\ Cardinality(S \ {x}) = n - 1
    BY FS_RemoveElement
  <2>3. Cardinality(lower(x)) <= n - 1
    BY <2>1, <2>2, FS_Subset
  <2>4. Cardinality(lower(x)) \in Nat
    BY <1>2
  <2> HIDE DEF n
  <2> QED
    BY <1>1, <2>3, <2>4
<1>4. ASSUME NEW x \in S, NEW y \in S, <<x, y>> \in R PROVE rank[x] < rank[y]
  <2>1. lower(x) \in SUBSET lower(y)
    BY <1>4 DEF OrdersAll
  <2>2. x \in lower(y) /\ x \notin lower(x)
    BY <1>4 DEF OrdersAll
  <2>3. IsFiniteSet(lower(y))
    BY <1>2
  <2>4. lower(x) # lower(y)
    BY <2>2
  <2>5. Cardinality(lower(x)) <= Cardinality(lower(y)) /\ Cardinality(lower(x)) # Cardinality(lower(y))
    <3> HIDE DEF lower
    <3> QED
      BY <2>1, <2>3, <2>4, FS_Subset
  <2>6. Cardinality(lower(x)) \in Nat /\ Cardinality(lower(y)) \in Nat
    BY <1>2
  <2>7. rank[x] = Cardinality(lower(x)) /\ rank[y] = Cardinality(lower(y))
    OBVIOUS
  <2> HIDE DEF lower, rank
  <2> QED
    BY <2>5, <2>6, <2>7
<1> HIDE DEF n
<1>5. rank \in [S -> 0..(n - 1)]
  <2>1. \A x \in S : rank[x] \in 0..(n - 1)
    BY <1>3
  <2>2. rank = [x \in S |-> rank[x]]
    OBVIOUS
  <2> HIDE DEF rank
  <2> QED
    BY <2>1, <2>2
<1>6. \A x \in S : rank[x] = Cardinality({y \in S : <<y, x>> \in R})
  OBVIOUS
<1> HIDE DEF lower, rank
<1>7. ASSUME NEW x \in S, NEW y \in S, rank[x] = rank[y] PROVE x = y
  <2>1. rank[x] \in Int /\ rank[y] \in Int
    BY <1>1, <1>5
  <2>2. ~(rank[x] < rank[y]) /\ ~(rank[y] < rank[x])
    BY <1>7, <2>1
  <2>3. <<x, y>> \notin R /\ <<y, x>> \notin R
    BY <1>4, <2>2
  <2> QED
    BY <2>3 DEF OrdersAll
<1>8. rank \in Injection(S, 0..(n - 1))
  BY <1>5, <1>7 DEF Injection, IsInjective
<1>9. IsFiniteSet(0..(n - 1)) /\ Cardinality(0..(n - 1)) = n
  BY <1>1, FS_Interval
<1>10. rank \in Surjection(S, 0..(n - 1))
  BY <1>8, <1>9, FS_Injection DEF n
<1>11. ASSUME NEW i \in 1..n PROVE q[i] \in S /\ rank[q[i]] = i - 1
  <2>1. PICK x \in S : rank[x] = i - 1
    BY <1>1, <1>10 DEF Surjection
  <2>2. \E z \in S : Cardinality({y \in S : <<y, z>> \in R}) = i - 1
    BY <1>6, <2>1
  <2>3. q[i] = CHOOSE z \in S : Cardinality({y \in S : <<y, z>> \in R}) = i - 1
    BY DEF InOrder, n
  <2>4. q[i] \in S /\ Cardinality({y \in S : <<y, q[i]>> \in R}) = i - 1
    BY <2>2, <2>3
  <2> QED
    BY <1>6, <2>4
<1>12. DOMAIN q = 1..n /\ q \in [1..n -> S]
  <2>0. q = [i \in 1..n |-> CHOOSE z \in S : Cardinality({y \in S : <<y, z>> \in R}) = i - 1]
    BY DEF InOrder, n
  <2>1. DOMAIN q = 1..n /\ q = [i \in 1..n |-> q[i]]
    BY <2>0
  <2> QED
    BY <1>11, <2>1
<1>13. q \in Seq(S)
  BY <1>1, <1>12
<1>14. ASSUME NEW x \in S PROVE \E i \in 1..n : q[i] = x
  <2>1. rank[x] + 1 \in 1..n /\ rank[x] \in Int
    BY <1>1, <1>5
  <2>2. q[rank[x] + 1] \in S /\ rank[q[rank[x] + 1]] = rank[x]
    BY <1>11, <2>1
  <2> QED
    BY <1>7, <2>1, <2>2
<1>15. ASSUME NEW i \in 1..n, NEW k \in 1..n, i < k PROVE <<q[i], q[k]>> \in R
  <2>1. q[i] \in S /\ q[k] \in S /\ rank[q[i]] = i - 1 /\ rank[q[k]] = k - 1
    BY <1>11
  <2>2. rank[q[i]] < rank[q[k]] /\ rank[q[i]] # rank[q[k]] /\ ~(rank[q[k]] < rank[q[i]])
    BY <1>15, <2>1
  <2> QED
    BY <1>4, <2>1, <2>2 DEF OrdersAll
<1> QED
  BY <1>11, <1>12, <1>13, <1>14, <1>15 DEF n

-----------------------------------------------------------------------------
(* Rows in the order of their pages. *)

Present == {r \in RowId : row[r] # Empty}

TableOK == row \in [RowId -> Stored \union {Empty}] /\ IsFiniteSet(Present)

\* A list of rows, in order.
InLine(q) == \A i, k \in DOMAIN q : i < k => Before(SortKey(q[i]), SortKey(q[k]))

\* A list of rows that has all of X, in order, and nothing else.
IsListOf(q, X) == q \in Seq(X) /\ InLine(q) /\ \A r \in X : \E i \in DOMAIN q : q[i] = r

\* The rows have keys, and of two one is before the other.
LEMMA KeysAre == TableOK => \A r \in Present : SortKey(r) \in Cursor /\ SortKey(r).id = r
<1> SUFFICES ASSUME TableOK, NEW r \in Present PROVE SortKey(r) \in Cursor /\ SortKey(r).id = r
  OBVIOUS
<1>1. row[r] \in Stored /\ r \in RowId
  BY DEF TableOK, Present
<1> QED
  BY <1>1 DEF Stored, SortKey, Cursor

\* Keys are totally ordered, but for those of one row.
LEMMA BeforeIs ==
    /\ \A a \in Cursor : ~Before(a, a)
    /\ \A a, b \in Cursor : a.id = b.id \/ Before(a, b) \/ Before(b, a)
    /\ \A a, b, c \in Cursor : Before(a, b) /\ Before(b, c) => Before(a, c)
    /\ \A a, b, c \in Cursor : ~Before(c, a) /\ Before(c, b) => Before(a, b)
<1>1. \A a \in Cursor : a.time \in Nat /\ a.id \in Nat
  BY ListingAssumption DEF Cursor
<1> QED
  BY <1>1 DEF Before

\* The rows that are there can be listed.
LEMMA OrderedIs ==
    ASSUME TableOK, NEW X \in SUBSET Present
    PROVE  IsListOf(Ordered(X), X)
<1> DEFINE R == {p \in X \X X : Before(SortKey(p[1]), SortKey(p[2]))}
           q == Ordered(X)
<1>1. \A x, y \in X : <<x, y>> \in R <=> Before(SortKey(x), SortKey(y))
  OBVIOUS
<1>2. IsFiniteSet(X)
  BY FS_Subset DEF TableOK
<1>3. q = InOrder(X, R)
  BY DEF Ordered
<1>4. \A x \in X : SortKey(x) \in Cursor /\ SortKey(x).id = x
  BY KeysAre
<1> HIDE DEF R, q
<1>5. \A x \in X : <<x, x>> \notin R
  BY <1>1, <1>4, BeforeIs
<1>6. \A x, y \in X : x = y \/ <<x, y>> \in R \/ <<y, x>> \in R
  BY <1>1, <1>4, BeforeIs
<1>7. \A x, y, z \in X : <<x, y>> \in R /\ <<y, z>> \in R => <<x, z>> \in R
  BY <1>1, <1>4, BeforeIs
<1>8. OrdersAll(X, R)
  BY <1>5, <1>6, <1>7 DEF OrdersAll
<1>9. /\ q \in Seq(X)
      /\ \A x \in X : \E i \in DOMAIN q : q[i] = x
      /\ \A i, k \in DOMAIN q : i < k => <<q[i], q[k]>> \in R
  BY <1>2, <1>3, <1>8, InOrderIs
<1>10. \A i \in DOMAIN q : q[i] \in X
  BY <1>9
<1>11. InLine(q)
  BY <1>1, <1>9, <1>10 DEF InLine
<1> QED
  BY <1>9, <1>11 DEF IsListOf, q

\* What is left of a list is in its order.
LEMMA FilteredIs ==
    ASSUME NEW X, NEW all, IsListOf(all, X), NEW T
    PROVE  IsListOf(Filtered(all, T), X \intersect T)
<1> DEFINE at == {i \in DOMAIN all : all[i] \in T}
           R == {p \in at \X at : p[1] < p[2]}
           places == InOrder(at, R)
           q == Filtered(all, T)
<1>1. \A x, y \in at : <<x, y>> \in R <=> x < y
  OBVIOUS
<1>2. DOMAIN all = 1..Len(all) /\ Len(all) \in Nat /\ \A i \in DOMAIN all : all[i] \in X
  BY DEF IsListOf
<1>3. IsFiniteSet(at) /\ at \subseteq Nat
  <2>1. at \in SUBSET (1..Len(all))
    BY <1>2
  <2>2. IsFiniteSet(1..Len(all))
    BY <1>2, FS_Interval
  <2> HIDE DEF at
  <2>3. IsFiniteSet(at)
    BY <2>1, <2>2, FS_Subset
  <2>4. at \subseteq Nat
    BY <1>2, <2>1
  <2> QED
    BY <2>3, <2>4
<1>4. q = [n \in DOMAIN places |-> all[places[n]]]
  BY DEF Filtered
<1>5. \A i \in at : i \in DOMAIN all /\ all[i] \in X \intersect T
  BY <1>2
<1>6. \A r \in X \intersect T : \E i \in at : all[i] = r
  BY DEF IsListOf
<1>7. \A i, k \in at : i < k => Before(SortKey(all[i]), SortKey(all[k]))
  BY DEF IsListOf, InLine
<1> HIDE DEF at, R, q, places
<1>8. OrdersAll(at, R)
  BY <1>1, <1>3 DEF OrdersAll
<1>9. /\ places \in Seq(at) /\ DOMAIN places = 1..Cardinality(at) /\ \A i \in DOMAIN places : places[i] \in at
      /\ \A x \in at : \E i \in DOMAIN places : places[i] = x
      /\ \A i, k \in DOMAIN places : i < k => <<places[i], places[k]>> \in R
  BY <1>3, <1>8, InOrderIs DEF places
<1>10. \A i \in DOMAIN places : places[i] \in at
  BY <1>9
<1>11. DOMAIN q = DOMAIN places /\ \A n \in DOMAIN q : q[n] = all[places[n]]
  BY <1>4
<1>12. q \in Seq(X \intersect T)
  <2>1. Cardinality(at) \in Nat
    BY <1>3, FS_CardinalityType
  <2>2. \A n \in 1..Cardinality(at) : all[places[n]] \in X \intersect T
    BY <1>5, <1>9, <1>10
  <2>3. q \in [1..Cardinality(at) -> X \intersect T]
    BY <1>4, <1>9, <2>2
  <2> QED
    BY <2>1, <2>3
<1>13. InLine(q)
  <2> SUFFICES ASSUME NEW i \in DOMAIN q, NEW k \in DOMAIN q, i < k
               PROVE  Before(SortKey(q[i]), SortKey(q[k]))
    BY DEF InLine
  <2>1. places[i] \in at /\ places[k] \in at /\ <<places[i], places[k]>> \in R
    BY <1>9, <1>10, <1>11
  <2>2. Before(SortKey(all[places[i]]), SortKey(all[places[k]]))
    BY <1>1, <1>7, <2>1
  <2> QED
    BY <1>11, <2>2
<1>14. ASSUME NEW r \in X \intersect T PROVE \E n \in DOMAIN q : q[n] = r
  <2>1. PICK i \in at : all[i] = r
    BY <1>6
  <2>2. PICK n \in DOMAIN places : places[n] = i
    BY <1>9
  <2> QED
    BY <1>11, <2>1, <2>2
<1>15. IsListOf(q, X \intersect T)
  BY <1>12, <1>13, <1>14 DEF IsListOf
<1> QED
  BY <1>15 DEF q

-----------------------------------------------------------------------------
(* Pages. *)

\* A page of X: its first rows, each once and in order, down to the cursor if there are more.
IsPage(page, X) ==
    /\ page \in PageReply
    /\ \A i \in DOMAIN page.rows : page.rows[i] \in X
    /\ InLine(page.rows)
    /\ page.next # Empty =>
          /\ \E r \in X : page.next = SortKey(r)
          /\ \A i \in DOMAIN page.rows : ~Before(page.next, SortKey(page.rows[i]))
    /\ \A r \in X : page.next = Empty \/ ~Before(page.next, SortKey(r))
                    => \E i \in DOMAIN page.rows : page.rows[i] = r

\* The first n of a list.
LEMMA PrefixIs ==
    \A X : \A s \in Seq(X) : \A n \in 0..Len(s) :
        /\ SubSeq(s, 1, n) \in Seq(X) /\ DOMAIN SubSeq(s, 1, n) = 1..n
        /\ \A i \in 1..n : SubSeq(s, 1, n)[i] = s[i] /\ i \in DOMAIN s /\ s[i] \in X
OBVIOUS

\* What is cut off a list of X is a page of X.
LEMMA CutIs ==
    ASSUME TableOK, NEW X \in SUBSET Present, NEW all, IsListOf(all, X)
    PROVE  IsPage(Cut(all), X)
<1> DEFINE m == IF Len(all) < PageSize THEN Len(all) ELSE PageSize
           rows == SubSeq(all, 1, m)
           next == IF Len(all) > PageSize THEN SortKey(all[PageSize]) ELSE Empty
<1>1. all \in Seq(X) /\ Len(all) \in Nat /\ DOMAIN all = 1..Len(all) /\ \A i \in DOMAIN all : all[i] \in X
  BY DEF IsListOf
<1>2. PageSize \in Nat \ {0}
  BY ListingAssumption
<1>3. /\ m \in 0..Len(all)
      /\ Len(all) > PageSize => m = PageSize /\ PageSize \in 1..Len(all)
      /\ ~(Len(all) > PageSize) => m = Len(all)
  <2>1. \A n \in Nat, k \in Nat \ {0} :
           LET l == IF n < k THEN n ELSE k
           IN  /\ l \in 0..n
               /\ n > k => l = k /\ k \in 1..n
               /\ ~(n > k) => l = n
    OBVIOUS
  <2> QED
    BY <1>1, <1>2, <2>1
<1>4. rows \in Seq(X) /\ DOMAIN rows = 1..m
      /\ \A i \in 1..m : rows[i] = all[i] /\ i \in DOMAIN all /\ all[i] \in X
  BY <1>1, <1>3, PrefixIs
<1>5. Cut(all) = [rows |-> rows, next |-> next]
  BY DEF Cut
<1>6. X \subseteq RowId
  BY DEF Present
<1>7. \A r \in X : SortKey(r) \in Cursor /\ SortKey(r).id = r /\ SortKey(r) # Empty
  BY KeysAre, ListingAssumption
<1>8. next # Empty => /\ Len(all) > PageSize /\ m = PageSize /\ PageSize \in DOMAIN all
                      /\ next = SortKey(all[PageSize]) /\ all[PageSize] \in X
  <2>1. SUFFICES ASSUME next # Empty PROVE Len(all) > PageSize
    <3>1. Len(all) > PageSize => m = PageSize /\ next = SortKey(all[PageSize]) /\ PageSize \in 1..Len(all)
      <4>1. Len(all) > PageSize => next = SortKey(all[PageSize])
        OBVIOUS
      <4> HIDE DEF m, next
      <4> QED
        BY <1>3, <4>1
    <3> HIDE DEF m, next
    <3> QED
      BY <1>1, <3>1
  <2> QED
    BY <2>1
<1>9. next \in Cursor \union {Empty}
  BY <1>7, <1>8
<1>10. next = Empty => m = Len(all)
  <2>1. CASE Len(all) > PageSize
    <3>1. next = SortKey(all[PageSize]) /\ all[PageSize] \in X
      BY <1>1, <1>2, <2>1
    <3> QED
      BY <1>7, <3>1
  <2>2. CASE ~(Len(all) > PageSize)
    <3>1. m = Len(all)
      BY <1>3, <2>2
    <3> QED
      BY <3>1
  <2> QED
    BY <2>1, <2>2
<1> HIDE DEF rows, next, m
<1>11. rows \in Seq(RowId)
  BY <1>4, <1>6
<1>12. Cut(all) \in PageReply /\ Cut(all).rows = rows /\ Cut(all).next = next
  BY <1>5, <1>9, <1>11 DEF PageReply
<1>13. \A i \in 1..m : i \in DOMAIN all /\ rows[i] \in X
  BY <1>4
<1>14. InLine(rows)
  BY <1>4, <1>13 DEF InLine, IsListOf
<1>15. ASSUME next # Empty, NEW i \in 1..m PROVE ~Before(next, SortKey(rows[i]))
  <2>1. rows[i] = all[i] /\ all[i] \in X /\ i \in DOMAIN all /\ next = SortKey(all[PageSize])
    BY <1>4, <1>8, <1>13, <1>15
  <2>2. i = PageSize \/ i < PageSize
    BY <1>2, <1>8, <1>15
  <2>3. i = PageSize \/ Before(SortKey(all[i]), next)
    BY <1>8, <1>15, <2>1, <2>2 DEF IsListOf, InLine
  <2>4. SortKey(all[i]) \in Cursor /\ next \in Cursor
    BY <1>7, <1>8, <1>15, <2>1
  <2> QED
    BY <2>1, <2>3, <2>4, BeforeIs
<1>16. ASSUME NEW r \in X, next = Empty \/ ~Before(next, SortKey(r))
       PROVE  \E i \in 1..m : rows[i] = r
  <2>1. PICK k \in DOMAIN all : all[k] = r
    BY DEF IsListOf
  <2>2. CASE k \in 1..m
    BY <1>4, <2>1, <2>2
  <2>3. CASE k \notin 1..m
    <3>1. next # Empty
      BY <1>1, <1>10, <2>1, <2>3
    <3>2. PageSize < k /\ next = SortKey(all[PageSize]) /\ PageSize \in DOMAIN all
      BY <1>1, <1>2, <1>8, <2>1, <2>3, <3>1
    <3>3. Before(next, SortKey(r))
      BY <2>1, <3>2 DEF IsListOf, InLine
    <3> QED
      BY <1>16, <3>1, <3>3
  <2> QED
    BY <2>2, <2>3
<1> QED
  BY <1>4, <1>8, <1>12, <1>13, <1>14, <1>15, <1>16 DEF IsPage

\* What each route sends is a page of what the filter selects, behind the cursor.
LEMMA PageIs ==
    ASSUME TableOK, screen \in Screens, NEW f, NEW from, screen \in Pages \/ from = Empty
    PROVE  IsPage(Page(f, from), Kept(f) \intersect Follows(from))
<1>1. Kept(f) \in SUBSET Present /\ Follows(from) \in SUBSET Present /\ Follows(Empty) = Present
  BY DEF Kept, Follows, Selects, Present
<1>2. Kept(f) \intersect Follows(from) \in SUBSET Present
  BY <1>1
<1>3. CASE screen \in {"history", "sends"}
  <2>1. Page(f, from) = Cut(Ordered(Kept(f) \intersect Follows(from)))
    BY <1>3 DEF Page, TransactionPage, SendPage, Oversight
  <2> QED
    BY <1>2, <2>1, OrderedIs, CutIs
<1>4. CASE screen = "ledger"
  <2>1. Page(f, from) = Cut(Filtered(Ordered(Kept(f)), Follows(from)))
    BY <1>4 DEF Page, LedgerPage, Oversight
  <2>2. IsListOf(Filtered(Ordered(Kept(f)), Follows(from)), Kept(f) \intersect Follows(from))
    BY <1>1, OrderedIs, FilteredIs
  <2> QED
    BY <1>2, <2>1, <2>2, CutIs
<1>5. CASE screen \in {"campaigns", "section", "panel"}
  <2>1. from = Empty
    BY <1>5 DEF Pages
  <2>2. Page(f, from) = Cut(Ordered(Kept(f)))
    BY <1>5 DEF Page, CampaignPage, OversightPage, Oversight
  <2>3. Kept(f) \intersect Follows(from) = Kept(f)
    BY <1>1, <2>1
  <2> QED
    BY <1>1, <2>2, <2>3, OrderedIs, CutIs
<1> QED
  BY <1>3, <1>4, <1>5 DEF Screens, Pages, Oversight

-----------------------------------------------------------------------------
(* A walk through the pages. *)

\* Of the rows that were listed when the walk began, s has those down to the cursor c.
Walked(s, c) ==
    /\ \A i \in DOMAIN s : s[i] \in Present
    /\ InLine(s)
    /\ c # Empty => \A i \in DOMAIN s : ~Before(c, SortKey(s[i]))
    /\ \A r \in began :
          Selects(filter, r) /\ (c = Empty \/ ~Before(c, SortKey(r)))
          => \E i \in DOMAIN s : s[i] = r

\* A row of them that the filter does not select any more has been settled, for good.
Steady == \A r \in began : Selects(filter, r) \/ row[r].tag \in Settled

ListingTypes ==
    /\ second \in Nat /\ screen \in Screens /\ filter \in Filter \union {Empty}
    /\ shown \in Seq(RowId) /\ cursor \in Cursor \union {Empty}
    /\ asked \in [Fetch -> PageRequest \union {Empty}]
    /\ overlapped \in BOOLEAN
    /\ TableOK /\ began \subseteq Present

\* How requests are made: the first page of a walk from no cursor, others by those that page.
WellAsked ==
    /\ filter = Empty => cursor = Empty /\ \A q \in Fetch : asked[q] = Empty
    /\ \A q \in Fetch : asked[q] # Empty =>
          /\ asked[q].first => asked[q].from = Empty /\ asked[q].on = <<>>
          /\ ~asked[q].first => screen \in Pages

\* One request at a time, for the filter on the screen.
Single ==
    /\ \A p, q \in Fetch : asked[p] # Empty /\ asked[q] # Empty => p = q
    /\ \A q \in Fetch : asked[q] # Empty => asked[q].filter = filter

\* The screen shows the walk so far, unless another is being started.
Standing ==
    filter # Empty /\ (\A q \in Fetch : asked[q] # Empty => ~asked[q].first)
        => Walked(shown, cursor) /\ Steady

\* A first page that is on its way, and a next one.
FirstOf(a) == a.first /\ a.reply # Empty => Walked(a.reply.rows, a.reply.next) /\ Steady
NextOf(a) ==
    ~a.first =>
        /\ a.from = cursor /\ cursor # Empty /\ (screen # "history" => a.on = shown)
        /\ a.reply # Empty => Walked(shown \o a.reply.rows, a.reply.next)

OnItsWay == \A q \in Fetch : asked[q] # Empty => FirstOf(asked[q]) /\ NextOf(asked[q])

ListingInv ==
    /\ ListingTypes /\ WellAsked
    /\ ~overlapped => Single /\ Standing /\ OnItsWay

\* What is asked is a request.
LEMMA RequestsAre ==
    ListingTypes => \A q \in Fetch : asked[q] # Empty => asked[q] \in PageRequest
BY DEF ListingTypes

\* What is before a page is in line with it.
LEMMA WalkOn ==
    ASSUME ListingTypes, NEW s \in Seq(RowId), NEW c \in Cursor, Walked(s, c), NEW page,
           Steady, filter # Empty, IsPage(page, Kept(filter) \intersect Follows(c))
    PROVE  Walked(s \o page.rows, page.next)
<1> DEFINE X == Kept(filter) \intersect Follows(c)
           t == page.rows
           all == s \o t
<1>1. \A r \in X : r \in Present /\ Before(c, SortKey(r))
  BY ListingAssumption DEF Follows, Present
<1>2. \A r \in Present : SortKey(r) \in Cursor
  BY KeysAre DEF ListingTypes
<1>3. t \in Seq(RowId) /\ page.next \in Cursor \union {Empty}
  BY DEF IsPage, PageReply
<1>4. \A i \in DOMAIN t : t[i] \in X
  BY DEF IsPage
<1>5. \A i \in DOMAIN s : s[i] \in Present /\ ~Before(c, SortKey(s[i]))
  BY ListingAssumption DEF Walked
<1>6. \A r \in began : Selects(filter, r) /\ Before(c, SortKey(r)) => r \in X
  BY DEF Follows, Kept, Present, ListingTypes
<1>7. page.next # Empty => /\ \E r \in X : page.next = SortKey(r)
                           /\ \A i \in DOMAIN t : ~Before(page.next, SortKey(t[i]))
  BY DEF IsPage
<1>8. InLine(t) /\ InLine(s)
  BY DEF IsPage, Walked
<1>9. \A r \in X : page.next = Empty \/ ~Before(page.next, SortKey(r)) => \E i \in DOMAIN t : t[i] = r
  BY DEF IsPage
<1>10. \A r \in began : Selects(filter, r) /\ ~Before(c, SortKey(r)) => \E i \in DOMAIN s : s[i] = r
  BY DEF Walked
<1> HIDE DEF X, t
<1>11. /\ \A i \in DOMAIN s : i \in DOMAIN all /\ all[i] = s[i]
       /\ \A i \in DOMAIN t : Len(s) + i \in DOMAIN all /\ all[Len(s) + i] = t[i]
  BY <1>3
<1>12. \A i \in DOMAIN all : \/ i \in DOMAIN s /\ all[i] = s[i]
                             \/ i - Len(s) \in DOMAIN t /\ all[i] = t[i - Len(s)] /\ i > Len(s)
  BY <1>3
<1>13. DOMAIN s = 1..Len(s) /\ Len(s) \in Nat /\ DOMAIN all \subseteq Int
  BY <1>3
<1> HIDE DEF all
<1>14. \A i \in DOMAIN all : all[i] \in Present
  BY <1>1, <1>4, <1>5, <1>12
<1>15. ASSUME NEW i \in DOMAIN all, NEW k \in DOMAIN all, i < k
       PROVE  Before(SortKey(all[i]), SortKey(all[k]))
  <2>1. CASE i \in DOMAIN s /\ all[i] = s[i] /\ k \in DOMAIN s /\ all[k] = s[k]
    BY <1>8, <1>15, <2>1 DEF InLine
  <2>2. CASE i \in DOMAIN s /\ all[i] = s[i] /\ k - Len(s) \in DOMAIN t /\ all[k] = t[k - Len(s)]
    <3>1. ~Before(c, SortKey(all[i])) /\ Before(c, SortKey(all[k]))
      BY <1>1, <1>4, <1>5, <2>2
    <3>2. SortKey(all[i]) \in Cursor /\ SortKey(all[k]) \in Cursor
      BY <1>2, <1>14
    <3> QED
      BY <3>1, <3>2, BeforeIs
  <2>3. CASE i - Len(s) \in DOMAIN t /\ all[i] = t[i - Len(s)] /\ k - Len(s) \in DOMAIN t /\ all[k] = t[k - Len(s)]
    <3>1. i - Len(s) < k - Len(s)
      BY <1>13, <1>15
    <3> QED
      BY <1>8, <2>3, <3>1 DEF InLine
  <2>4. CASE i > Len(s) /\ k \in DOMAIN s
    BY <1>13, <1>15, <2>4
  <2> QED
    BY <1>12, <2>1, <2>2, <2>3, <2>4
<1>16. ASSUME page.next # Empty, NEW i \in DOMAIN all PROVE ~Before(page.next, SortKey(all[i]))
  <2>1. CASE i \in DOMAIN s /\ all[i] = s[i]
    <3>1. PICK r \in X : page.next = SortKey(r)
      BY <1>7, <1>16
    <3>2. ~Before(c, SortKey(all[i])) /\ Before(c, SortKey(r))
      BY <1>1, <1>5, <2>1
    <3>3. SortKey(all[i]) \in Cursor /\ SortKey(r) \in Cursor
      BY <1>1, <1>2, <1>14
    <3>4. Before(SortKey(all[i]), page.next)
      BY <3>1, <3>2, <3>3, BeforeIs
    <3> QED
      BY <3>1, <3>3, <3>4, BeforeIs
  <2>2. CASE i - Len(s) \in DOMAIN t /\ all[i] = t[i - Len(s)]
    BY <1>7, <1>16, <2>2
  <2> QED
    BY <1>12, <2>1, <2>2
<1>17. ASSUME NEW r \in began, Selects(filter, r), page.next = Empty \/ ~Before(page.next, SortKey(r))
       PROVE  \E i \in DOMAIN all : all[i] = r
  <2>1. CASE Before(c, SortKey(r))
    <3>1. PICK i \in DOMAIN t : t[i] = r
      BY <1>6, <1>9, <1>17, <2>1
    <3> QED
      BY <1>11, <3>1
  <2>2. CASE ~Before(c, SortKey(r))
    <3>1. PICK i \in DOMAIN s : s[i] = r
      BY <1>10, <1>17, <2>2
    <3> QED
      BY <1>11, <3>1
  <2> QED
    BY <2>1, <2>2
<1>18. Walked(all, page.next)
  BY <1>14, <1>15, <1>16, <1>17 DEF Walked, InLine
<1> QED
  BY <1>18 DEF all, t

-----------------------------------------------------------------------------

\* Rows that are added or settled keep every walk.
LEMMA TableMoves ==
    ASSUME ListingTypes,
           \/ Passes \/ \E r \in RowId, tag \in Tag, time \in 0..second : Adds(r, tag, time)
           \/ \E r \in RowId, tag \in Settled : Settles(r, tag)
    PROVE  /\ ListingTypes' /\ UNCHANGED screenVars
           /\ \A r \in Present : r \in Present' /\ SortKey(r)' = SortKey(r)
           /\ Steady => Steady' /\ \A r \in began : Selects(filter, r)' => Selects(filter, r)
<1> USE DEF ListingTypes
<1>1. CASE Passes
  <2>1. second' \in Nat /\ row' = row /\ UNCHANGED screenVars
    BY <1>1 DEF Passes
  <2>2. TableOK' /\ Present' = Present
    BY <2>1 DEF TableOK, Present
  <2> QED
    BY <2>1, <2>2 DEF screenVars, SortKey, Selects, Steady
<1>2. ASSUME NEW r \in RowId, NEW tag \in Tag, NEW time \in 0..second, Adds(r, tag, time)
      PROVE  /\ ListingTypes' /\ UNCHANGED screenVars
             /\ \A p \in Present : p \in Present' /\ SortKey(p)' = SortKey(p)
             /\ Steady => Steady' /\ \A p \in began : Selects(filter, p)' => Selects(filter, p)
  <2>1. /\ row[r] = Empty /\ row' = [row EXCEPT ![r] = [time |-> time, tag |-> tag]]
        /\ second' = second /\ UNCHANGED screenVars
    BY <1>2 DEF Adds
  <2>2. row \in [RowId -> Stored \union {Empty}]
    BY DEF TableOK
  <2>3. time \in Nat
    OBVIOUS
  <2>4. [time |-> time, tag |-> tag] \in Stored
    BY <2>3 DEF Stored
  <2>5. [time |-> time, tag |-> tag] # Empty
    BY <2>4, ListingAssumption
  <2>6. Present' = Present \union {r} /\ r \notin Present
    BY <2>1, <2>2, <2>5 DEF Present
  <2>7. \A p \in Present : row'[p] = row[p]
    BY <2>1, <2>2, <2>6 DEF Present
  <2>8. TableOK'
    <3>1. row' \in [RowId -> Stored \union {Empty}]
      BY <2>1, <2>2, <2>4
    <3>2. IsFiniteSet(Present \union {r})
      BY FS_AddElement DEF TableOK
    <3> QED
      BY <2>6, <3>1, <3>2 DEF TableOK
  <2>9. \A p \in Present : p \in Present' /\ SortKey(p)' = SortKey(p)
    BY <2>6, <2>7 DEF SortKey
  <2>10. \A p \in began : p \in Present /\ row'[p] = row[p]
    BY <2>7
  <2>11. filter' = filter /\ began' = began
    BY <2>1 DEF screenVars
  <2>12. Steady => Steady' /\ \A p \in began : Selects(filter, p)' => Selects(filter, p)
    BY <2>10, <2>11 DEF Steady, Selects
  <2>13. ListingTypes'
    BY <2>1, <2>6, <2>8 DEF screenVars
  <2> QED
    BY <2>1, <2>9, <2>12, <2>13
<1>3. ASSUME NEW r \in RowId, NEW tag \in Settled, Settles(r, tag)
      PROVE  /\ ListingTypes' /\ UNCHANGED screenVars
             /\ \A p \in Present : p \in Present' /\ SortKey(p)' = SortKey(p)
             /\ Steady => Steady' /\ \A p \in began : Selects(filter, p)' => Selects(filter, p)
  <2>1. /\ row[r] # Empty /\ row[r].tag \notin Settled /\ row' = [row EXCEPT ![r].tag = tag]
        /\ second' = second /\ UNCHANGED screenVars
    BY <1>3 DEF Settles
  <2>2. row \in [RowId -> Stored \union {Empty}] /\ row[r] \in Stored /\ tag \in Tag
    BY <2>1, ListingAssumption DEF TableOK
  <2>3. row'[r] = [row[r] EXCEPT !.tag = tag] /\ \A p \in RowId \ {r} : row'[p] = row[p]
    BY <2>1, <2>2
  <2>4. row'[r] \in Stored /\ row'[r].time = row[r].time /\ row'[r].tag = tag
    BY <2>2, <2>3 DEF Stored
  <2>5. row'[r] # Empty
    BY <2>4, ListingAssumption
  <2>6. row' \in [RowId -> Stored \union {Empty}]
    BY <2>1, <2>2, <2>3, <2>4
  <2>7. Present' = Present
    BY <2>1, <2>3, <2>5 DEF Present
  <2>8. TableOK'
    BY <2>6, <2>7 DEF TableOK
  <2>9. \A p \in Present : p \in Present' /\ SortKey(p)' = SortKey(p)
    BY <2>3, <2>4, <2>7 DEF SortKey, Present
  <2>10. filter' = filter /\ began' = began
    BY <2>1 DEF screenVars
  <2>11. ASSUME Steady PROVE Steady' /\ \A p \in began : Selects(filter, p)' => Selects(filter, p)
    <3>1. r \in began => Selects(filter, r)
      BY <2>1, <2>11 DEF Steady
    <3>2. \A p \in began : p \in RowId /\ (p # r => row'[p] = row[p])
      BY <2>3 DEF Present
    <3>3. Steady'
      BY <2>4, <2>10, <2>11, <3>2 DEF Steady, Selects
    <3> QED
      BY <2>10, <3>1, <3>2, <3>3 DEF Selects
  <2>12. ListingTypes'
    BY <2>1, <2>7, <2>8 DEF screenVars
  <2> QED
    BY <2>1, <2>9, <2>11, <2>12
<1> QED
  BY <1>1, <1>2, <1>3

\* And the walk that is under way goes on.
LEMMA TableStep ==
    ListingInv /\ (\/ Passes \/ \E r \in RowId, tag \in Tag, time \in 0..second : Adds(r, tag, time)
                   \/ \E r \in RowId, tag \in Settled : Settles(r, tag))
        => ListingInv'
<1> SUFFICES ASSUME ListingInv,
                    \/ Passes \/ \E r \in RowId, tag \in Tag, time \in 0..second : Adds(r, tag, time)
                    \/ \E r \in RowId, tag \in Settled : Settles(r, tag)
             PROVE  ListingInv'
  OBVIOUS
<1>1. /\ ListingTypes' /\ UNCHANGED screenVars
      /\ \A r \in Present : r \in Present' /\ SortKey(r)' = SortKey(r)
      /\ Steady => Steady' /\ \A r \in began : Selects(filter, r)' => Selects(filter, r)
  BY TableMoves DEF ListingInv
<1>2. UNCHANGED <<screen, filter, shown, cursor, loading, asked, began, overlapped>>
  BY <1>1 DEF screenVars
<1>3. WellAsked'
  BY <1>2 DEF ListingInv, WellAsked
<1>4. ASSUME NEW s, NEW c, Walked(s, c), Steady PROVE Walked(s, c)'
  <2>1. \A i \in DOMAIN s : s[i] \in Present /\ s[i] \in Present' /\ SortKey(s[i])' = SortKey(s[i])
    BY <1>1, <1>4 DEF Walked
  <2>2. \A r \in began : r \in Present /\ SortKey(r)' = SortKey(r) /\ (Selects(filter, r)' => Selects(filter, r))
    BY <1>1, <1>4 DEF ListingInv, ListingTypes
  <2>3. InLine(s)'
    BY <1>4, <2>1 DEF Walked, InLine
  <2>4. \A r \in began' : Selects(filter, r)' => Selects(filter, r)
    BY <1>2, <2>2
  <2> QED
    BY <1>2, <1>4, <2>1, <2>2, <2>3, <2>4 DEF Walked
<1>5. ASSUME ~overlapped, Single, Standing, OnItsWay PROVE (Single /\ Standing /\ OnItsWay)'
  <2>1. Single'
    BY <1>2, <1>5 DEF Single
  <2>2. Standing'
    <3> SUFFICES ASSUME filter # Empty, \A q \in Fetch : asked[q] # Empty => ~asked[q].first
                 PROVE  (Walked(shown, cursor) /\ Steady)'
      BY <1>2 DEF Standing
    <3>1. Walked(shown, cursor) /\ Steady
      BY <1>5 DEF Standing
    <3>2. PICK s, c : s = shown /\ c = cursor
      OBVIOUS
    <3>3. Walked(s, c)'
      BY <1>4, <3>1, <3>2
    <3> QED
      BY <1>1, <1>2, <3>1, <3>2, <3>3
  <2>3. OnItsWay'
    <3> SUFFICES ASSUME NEW q \in Fetch, asked[q] # Empty PROVE FirstOf(asked[q])' /\ NextOf(asked[q])'
      BY <1>2 DEF OnItsWay
    <3>1. FirstOf(asked[q]) /\ NextOf(asked[q])
      BY <1>5 DEF OnItsWay
    <3>2. ASSUME asked[q].first, asked[q].reply # Empty
          PROVE  (Walked(asked[q].reply.rows, asked[q].reply.next) /\ Steady)'
      <4>1. PICK s, c : s = asked[q].reply.rows /\ c = asked[q].reply.next
        OBVIOUS
      <4>2. Walked(s, c) /\ Steady
        BY <3>1, <3>2, <4>1 DEF FirstOf
      <4>3. Walked(s, c)'
        BY <1>4, <4>2
      <4> QED
        BY <1>1, <1>2, <4>1, <4>2, <4>3
    <3>3. ASSUME ~asked[q].first, asked[q].reply # Empty
          PROVE  Walked(shown \o asked[q].reply.rows, asked[q].reply.next)'
      <4>1. PICK s, c : s = shown \o asked[q].reply.rows /\ c = asked[q].reply.next
        OBVIOUS
      <4>2. Walked(s, c)
        BY <3>1, <3>3, <4>1 DEF NextOf
      <4>3. Steady
        <5>1. filter # Empty
          BY DEF ListingInv, WellAsked
        <5>2. \A p \in Fetch : asked[p] # Empty => ~asked[p].first
          BY <1>5, <3>3 DEF Single
        <5> QED
          BY <1>5, <5>1, <5>2 DEF Standing
      <4>4. Walked(s, c)'
        BY <1>4, <4>2, <4>3
      <4> QED
        BY <1>2, <4>1, <4>4
    <3>4. FirstOf(asked[q])'
      BY <1>2, <3>2 DEF FirstOf
    <3>5. NextOf(asked[q])'
      BY <1>2, <3>1, <3>3 DEF NextOf
    <3> QED
      BY <3>4, <3>5
  <2> QED
    BY <2>1, <2>2, <2>3
<1>6. overlapped' = overlapped
  BY <1>2
<1> QED
  BY <1>1, <1>3, <1>5, <1>6 DEF ListingInv

\* A request is made.
LEMMA AskingIs ==
    ASSUME ListingTypes, NEW q \in Fetch, NEW first \in BOOLEAN, NEW from \in Cursor \union {Empty},
           NEW on \in Seq(RowId), NEW f \in Filter, filter' = f, Asking(q, first, from, on)
    PROVE  /\ asked[q] = Empty /\ asked' \in [Fetch -> PageRequest \union {Empty}]
           /\ asked'[q] # Empty /\ asked'[q].first = first /\ asked'[q].filter = f /\ asked'[q].from = from
           /\ asked'[q].on = on /\ asked'[q].reply = Empty
           /\ \A p \in Fetch \ {q} : asked'[p] = asked[p]
           /\ overlapped' \in BOOLEAN
           /\ ~overlapped' => (\A p \in Fetch : asked[p] = Empty) /\ (first \/ ~overlapped)
<1> DEFINE a == [first |-> first, filter |-> f, from |-> from, on |-> on, reply |-> Empty]
<1>1. a \in PageRequest
  BY DEF PageRequest
<1>2. a # Empty
  <2> HIDE DEF a
  <2> QED
    BY <1>1, ListingAssumption
<1>3. asked[q] = Empty /\ asked' = [asked EXCEPT ![q] = a]
  BY DEF Asking
<1>4. asked' \in [Fetch -> PageRequest \union {Empty}] /\ asked'[q] = a /\ \A p \in Fetch \ {q} : asked'[p] = asked[p]
  <2> HIDE DEF a
  <2> QED
    BY <1>1, <1>3 DEF ListingTypes
<1>5. overlapped' = IF \A p \in Fetch : asked[p] = Empty THEN ~first /\ overlapped ELSE TRUE
  BY DEF Asking
<1>6. overlapped' \in BOOLEAN
  BY <1>5, Zenon DEF ListingTypes
<1>7. ~overlapped' => (\A p \in Fetch : asked[p] = Empty) /\ (first \/ ~overlapped)
  BY <1>5, Zenon
<1> QED
  BY <1>2, <1>3, <1>4, <1>6, <1>7

\* A first page is asked for: of a walk that is alone, or of none that counts.
LEMMA ChooseStep ==
    \A q \in Fetch : \A f \in Filter : ListingInv /\ Choose(q, f) => ListingInv'
<1> SUFFICES ASSUME NEW q \in Fetch, NEW f \in Filter, ListingInv, Choose(q, f) PROVE ListingInv'
  OBVIOUS
<1>1. /\ filter' = f /\ Asking(q, TRUE, Empty, <<>>)
      /\ UNCHANGED <<second, row, screen, shown, cursor, began>>
  BY DEF Choose, tableVars
<1>2. ListingTypes /\ TRUE \in BOOLEAN /\ Empty \in Cursor \union {Empty} /\ <<>> \in Seq(RowId)
  BY DEF ListingInv
<1>3. /\ asked[q] = Empty /\ asked' \in [Fetch -> PageRequest \union {Empty}]
      /\ asked'[q] # Empty /\ asked'[q].first = TRUE /\ asked'[q].filter = f /\ asked'[q].from = Empty
      /\ asked'[q].on = <<>> /\ asked'[q].reply = Empty
      /\ \A p \in Fetch \ {q} : asked'[p] = asked[p]
      /\ overlapped' \in BOOLEAN
      /\ ~overlapped' => \A p \in Fetch : asked[p] = Empty
  BY <1>1, <1>2, AskingIs
<1>4. TableOK' /\ Present' = Present
  BY <1>1 DEF TableOK, Present, ListingInv, ListingTypes
<1>5. ListingTypes'
  BY <1>1, <1>3, <1>4 DEF ListingInv, ListingTypes
<1>6. f # Empty
  BY ListingAssumption
<1>7. WellAsked'
  BY <1>1, <1>3, <1>6 DEF ListingInv, WellAsked
<1>8. ASSUME ~overlapped' PROVE (Single /\ Standing /\ OnItsWay)'
  <2>1. \A p \in Fetch : asked'[p] # Empty => p = q
    BY <1>3, <1>8
  <2>2. Single'
    BY <1>1, <1>3, <2>1 DEF Single
  <2>3. Standing'
    BY <1>3 DEF Standing
  <2>4. OnItsWay'
    BY <1>3, <2>1 DEF OnItsWay, FirstOf, NextOf
  <2> QED
    BY <2>2, <2>3, <2>4
<1> QED
  BY <1>5, <1>7, <1>8 DEF ListingInv

\* A next page is asked for, of the walk on the screen.
LEMMA MoreStep == \A q \in Fetch : ListingInv /\ More(q) => ListingInv'
<1> SUFFICES ASSUME NEW q \in Fetch, ListingInv, More(q) PROVE ListingInv'
  OBVIOUS
<1>1. PICK on \in Seq(RowId) :
         /\ Asking(q, FALSE, cursor, on) /\ cursor # Empty /\ screen \in Pages
         /\ screen # "history" => on = shown
  <2>1. shown \in Seq(RowId) /\ <<>> \in Seq(RowId)
    BY DEF ListingInv, ListingTypes
  <2>2. CASE HistoryMore(q)
    <3>1. Asking(q, FALSE, cursor, <<>>) /\ cursor # Empty /\ screen = "history"
      BY <2>2 DEF HistoryMore, HistoryView
    <3> QED
      BY <2>1, <3>1 DEF Pages
  <2>3. CASE MoreLedger(q) \/ MoreSend(q)
    <3>1. Asking(q, FALSE, cursor, shown) /\ cursor # Empty /\ screen \in {"ledger", "sends"}
      BY <2>3 DEF MoreLedger, MoreSend, LedgerView, SendView
    <3> QED
      BY <2>1, <3>1 DEF Pages
  <2> QED
    BY <2>2, <2>3 DEF More
<1>2. filter' = filter /\ UNCHANGED <<second, row, screen, shown, cursor, began>>
  BY DEF More, tableVars
<1>3. ListingTypes /\ FALSE \in BOOLEAN /\ cursor \in Cursor \union {Empty} /\ filter \in Filter
  BY <1>1 DEF ListingInv, ListingTypes, WellAsked
<1>4. /\ asked[q] = Empty /\ asked' \in [Fetch -> PageRequest \union {Empty}]
      /\ asked'[q] # Empty /\ asked'[q].first = FALSE /\ asked'[q].filter = filter /\ asked'[q].from = cursor
      /\ asked'[q].on = on /\ asked'[q].reply = Empty
      /\ \A p \in Fetch \ {q} : asked'[p] = asked[p]
      /\ overlapped' \in BOOLEAN
      /\ ~overlapped' => (\A p \in Fetch : asked[p] = Empty) /\ ~overlapped
  <2>1. PICK f, from : f = filter /\ from = cursor
    OBVIOUS
  <2>2. f \in Filter /\ from \in Cursor \union {Empty} /\ filter' = f /\ Asking(q, FALSE, from, on)
    BY <1>1, <1>2, <1>3, <2>1
  <2>3. /\ asked[q] = Empty /\ asked' \in [Fetch -> PageRequest \union {Empty}]
        /\ asked'[q] # Empty /\ asked'[q].first = FALSE /\ asked'[q].filter = f /\ asked'[q].from = from
        /\ asked'[q].on = on /\ asked'[q].reply = Empty
        /\ \A p \in Fetch \ {q} : asked'[p] = asked[p]
        /\ overlapped' \in BOOLEAN
        /\ ~overlapped' => (\A p \in Fetch : asked[p] = Empty) /\ (FALSE \/ ~overlapped)
    BY <1>3, <2>2, AskingIs
  <2> QED
    BY <2>1, <2>3
<1>5. TableOK' /\ Present' = Present
  BY <1>2 DEF TableOK, Present, ListingInv, ListingTypes
<1>6. ListingTypes'
  BY <1>2, <1>4, <1>5 DEF ListingInv, ListingTypes
<1>7. WellAsked'
  BY <1>1, <1>2, <1>3, <1>4, ListingAssumption DEF ListingInv, WellAsked
<1>8. ASSUME ~overlapped' PROVE (Single /\ Standing /\ OnItsWay)'
  <2>1. (\A p \in Fetch : asked'[p] # Empty => p = q) /\ Single /\ Standing
    BY <1>4, <1>8 DEF ListingInv
  <2>2. Single'
    BY <1>2, <1>4, <2>1 DEF Single
  <2>3. filter # Empty /\ \A p \in Fetch : asked[p] = Empty
    BY <1>3, <1>4, <1>8, ListingAssumption
  <2>4. Walked(shown, cursor) /\ Steady
    BY <2>1, <2>3 DEF Standing
  <2>5. (Walked(shown, cursor) /\ Steady)'
    BY <1>2, <1>5, <2>4 DEF Walked, Steady, InLine, SortKey, Selects
  <2>6. Standing'
    BY <2>5 DEF Standing
  <2>7. OnItsWay'
    BY <1>1, <1>2, <1>4, <2>1 DEF OnItsWay, FirstOf, NextOf
  <2> QED
    BY <2>2, <2>6, <2>7
<1> QED
  BY <1>6, <1>7, <1>8 DEF ListingInv

\* The server answers with a page of the rows it has then.
LEMMA ListsStep == \A q \in Fetch : ListingInv /\ Lists(q) => ListingInv'
<1> SUFFICES ASSUME NEW q \in Fetch, ListingInv, Lists(q) PROVE ListingInv'
  OBVIOUS
<1>1. PICK a \in PageRequest : a = asked[q]
  BY RequestsAre DEF ListingInv, Lists
<1> DEFINE page == Page(a.filter, a.from)
           b == [a EXCEPT !.reply = page]
           X == Kept(a.filter) \intersect Follows(a.from)
<1>2. /\ a # Empty /\ a.reply = Empty /\ asked' = [asked EXCEPT ![q].reply = page]
      /\ began' = IF a.first THEN Kept(a.filter) ELSE began
      /\ UNCHANGED <<second, row, screen, filter, shown, cursor, loading, overlapped>>
  BY <1>1 DEF Lists, Kept, tableVars
<1>3. /\ TableOK /\ screen \in Screens /\ asked \in [Fetch -> PageRequest \union {Empty}]
      /\ began \subseteq Present
  BY DEF ListingInv, ListingTypes
<1>4. a.first \in BOOLEAN /\ a.filter \in Filter /\ a.from \in Cursor \union {Empty} /\ a.on \in Seq(RowId)
  BY DEF PageRequest
<1>5. (a.first => a.from = Empty /\ a.on = <<>>) /\ (~a.first => screen \in Pages) /\ filter # Empty
  BY <1>1, <1>2 DEF ListingInv, WellAsked
<1>6. IsPage(page, X)
  <2>1. PICK f, from : f = a.filter /\ from = a.from
    OBVIOUS
  <2>2. screen \in Pages \/ from = Empty
    BY <1>4, <1>5, <2>1
  <2>3. IsPage(Page(f, from), Kept(f) \intersect Follows(from))
    BY <1>3, <2>2, PageIs
  <2> QED
    BY <2>1, <2>3
<1>7. asked' = [asked EXCEPT ![q] = b]
  BY <1>1, <1>2
<1> HIDE DEF page
<1>8. page \in PageReply
  BY <1>6 DEF IsPage
<1>9. /\ b \in PageRequest /\ b.first = a.first /\ b.filter = a.filter /\ b.from = a.from /\ b.on = a.on
      /\ b.reply = page
  BY <1>4, <1>8 DEF PageRequest
<1> HIDE DEF b
<1>10. b # Empty
  BY <1>9, ListingAssumption
<1>11. /\ asked' \in [Fetch -> PageRequest \union {Empty}] /\ asked'[q] = b
       /\ \A p \in Fetch \ {q} : asked'[p] = asked[p]
  BY <1>3, <1>7, <1>9
<1>12. TableOK' /\ Present' = Present
  BY <1>2, <1>3 DEF TableOK, Present
<1>13. Kept(a.filter) \subseteq Present
  BY DEF Kept, Selects, Present
<1>14. ListingTypes'
  BY <1>2, <1>3, <1>11, <1>12, <1>13 DEF ListingInv, ListingTypes
<1>15. WellAsked'
  <2>1. WellAsked /\ filter' = filter /\ cursor' = cursor /\ screen' = screen
    BY <1>2 DEF ListingInv
  <2>2. \A p \in Fetch : asked'[p] # Empty => /\ asked'[p].first => asked'[p].from = Empty /\ asked'[p].on = <<>>
                                              /\ ~asked'[p].first => screen \in Pages
    BY <1>5, <1>9, <1>11, <2>1 DEF WellAsked
  <2> QED
    BY <1>5, <2>1, <2>2 DEF WellAsked
<1>16. ASSUME ~overlapped PROVE (Single /\ Standing /\ OnItsWay)'
  <2>1. Single /\ Standing /\ OnItsWay
    BY <1>16 DEF ListingInv
  <2>2. (\A p \in Fetch : asked[p] # Empty => p = q) /\ a.filter = filter
    BY <1>1, <1>2, <2>1 DEF Single
  <2>3. \A p \in Fetch : asked'[p] # Empty => p = q
    BY <1>11, <2>2
  <2>4. Single'
    BY <1>2, <1>9, <1>11, <2>2, <2>3 DEF Single
  <2>5. CASE a.first
    <3>1. X = Kept(filter)
      BY <1>5, <2>2, <2>5 DEF Kept, Follows, Selects
    <3>2. began' = Kept(filter) /\ row' = row /\ filter' = filter
      BY <1>2, <2>2, <2>5
    <3>3. Steady'
      BY <3>2 DEF Steady, Kept, Selects
    <3>4. /\ \A i \in DOMAIN page.rows : page.rows[i] \in Present
          /\ InLine(page.rows)
          /\ page.next # Empty => \A i \in DOMAIN page.rows : ~Before(page.next, SortKey(page.rows[i]))
          /\ \A r \in Kept(filter) : page.next = Empty \/ ~Before(page.next, SortKey(r))
                                     => \E i \in DOMAIN page.rows : page.rows[i] = r
      BY <1>6, <1>13, <2>2, <3>1 DEF IsPage
    <3>5. PICK rows, next : rows = page.rows /\ next = page.next
      OBVIOUS
    <3>6. Walked(rows, next)'
      BY <1>12, <3>2, <3>4, <3>5 DEF Walked, InLine, SortKey
    <3>7. (Walked(asked[q].reply.rows, asked[q].reply.next))'
      BY <1>9, <1>11, <3>5, <3>6
    <3>8. FirstOf(asked[q])'
      BY <3>3, <3>7 DEF FirstOf
    <3>9. NextOf(asked[q])'
      BY <1>9, <1>11, <2>5 DEF NextOf
    <3>10. OnItsWay'
      BY <2>3, <3>8, <3>9 DEF OnItsWay
    <3>11. Standing'
      BY <1>9, <1>10, <1>11, <2>5 DEF Standing
    <3> QED
      BY <2>4, <3>10, <3>11
  <2>6. CASE ~a.first
    <3>1. NextOf(a)
      BY <1>1, <1>2, <2>1 DEF OnItsWay
    <3>2. a.from = cursor /\ cursor # Empty /\ (screen # "history" => a.on = shown)
      BY <2>6, <3>1 DEF NextOf
    <3>3. Walked(shown, cursor) /\ Steady
      BY <1>1, <1>5, <2>1, <2>2, <2>6 DEF Standing
    <3>4. IsPage(page, Kept(filter) \intersect Follows(cursor))
      BY <1>6, <2>2, <3>2
    <3>5. Walked(shown \o page.rows, page.next)
      <4>1. PICK s, c : s = shown /\ c = cursor
        OBVIOUS
      <4>2. s \in Seq(RowId) /\ c \in Cursor
        BY <3>2, <4>1 DEF ListingInv, ListingTypes
      <4>3. Walked(s, c) /\ IsPage(page, Kept(filter) \intersect Follows(c)) /\ ListingTypes
        BY <3>3, <3>4, <4>1 DEF ListingInv
      <4>4. Walked(s \o page.rows, page.next)
        BY <1>5, <3>3, <4>2, <4>3, WalkOn
      <4> QED
        BY <4>1, <4>4
    <3>6. began' = began /\ row' = row /\ filter' = filter
      BY <1>2, <2>6
    <3>7. ASSUME NEW s, NEW c, Walked(s, c) PROVE Walked(s, c)'
      BY <1>12, <3>6, <3>7 DEF Walked, InLine, SortKey, Selects
    <3>8. Steady'
      BY <3>3, <3>6 DEF Steady, Selects
    <3>9. Walked(shown, cursor)'
      <4>1. PICK s, c : s = shown /\ c = cursor
        OBVIOUS
      <4>2. Walked(s, c)'
        BY <3>3, <3>7, <4>1
      <4> QED
        BY <1>2, <4>1, <4>2
    <3>10. Walked(shown \o asked[q].reply.rows, asked[q].reply.next)'
      <4>1. PICK s, c : s = shown \o page.rows /\ c = page.next
        OBVIOUS
      <4>2. Walked(s, c)'
        BY <3>5, <3>7, <4>1
      <4> QED
        BY <1>2, <1>9, <1>11, <4>1, <4>2
    <3>11. FirstOf(asked[q])'
      BY <1>9, <1>11, <2>6 DEF FirstOf
    <3>12. NextOf(asked[q])'
      BY <1>2, <1>9, <1>11, <3>2, <3>10 DEF NextOf
    <3>13. OnItsWay'
      BY <2>3, <3>11, <3>12 DEF OnItsWay
    <3>14. Standing'
      BY <3>8, <3>9 DEF Standing
    <3> QED
      BY <2>4, <3>13, <3>14
  <2> QED
    BY <1>4, <2>5, <2>6
<1>17. overlapped' = overlapped
  BY <1>2
<1> QED
  BY <1>14, <1>15, <1>16, <1>17 DEF ListingInv

\* An answer reaches the screen.
LEMMA AppliedStep == \A q \in Fetch : ListingInv /\ Applied(q) => ListingInv'
<1> SUFFICES ASSUME NEW q \in Fetch, ListingInv, Applied(q) PROVE ListingInv'
  OBVIOUS
<1>1. PICK a \in PageRequest : a = asked[q]
  BY RequestsAre DEF ListingInv, Applied
<1>2. /\ a # Empty /\ a.reply # Empty /\ cursor' = a.reply.next /\ asked' = [asked EXCEPT ![q] = Empty]
      /\ UNCHANGED <<second, row, screen, filter, began, overlapped>>
  BY <1>1 DEF Applied, tableVars
<1>3. /\ a.reply \in PageReply /\ a.reply.rows \in Seq(RowId) /\ a.reply.next \in Cursor \union {Empty}
      /\ a.on \in Seq(RowId) /\ a.first \in BOOLEAN /\ shown \in Seq(RowId)
      /\ asked \in [Fetch -> PageRequest \union {Empty}] /\ screen \in Screens
  BY <1>2 DEF PageRequest, PageReply, ListingInv, ListingTypes
<1>4. (a.first => a.on = <<>>) /\ (~a.first => screen \in Pages) /\ filter # Empty
  BY <1>1, <1>2 DEF ListingInv, WellAsked
<1>5. /\ screen = "history" => shown' = IF a.first THEN a.reply.rows ELSE shown \o a.reply.rows
      /\ screen \in {"ledger", "sends"} => shown' = a.on \o a.reply.rows
      /\ screen \notin Pages => shown' = a.reply.rows
  BY <1>1 DEF Applied, HistoryShows, ReportShows, CampaignsShow, Pages
<1>6. a.first => shown' = a.reply.rows
  <2>1. <<>> \o a.reply.rows = a.reply.rows
    BY <1>3
  <2>2. CASE screen \in {"ledger", "sends"}
    BY <1>4, <1>5, <2>1, <2>2
  <2>3. CASE screen = "history" \/ screen \notin Pages
    BY <1>5, <2>3
  <2> QED
    BY <2>2, <2>3 DEF Pages
<1>7. ~a.first /\ (screen # "history" => a.on = shown) => shown' = shown \o a.reply.rows
  BY <1>4, <1>5 DEF Pages
<1>8. shown' \in Seq(RowId)
  <2>1. /\ shown \o a.reply.rows \in Seq(RowId)
        /\ a.on \o a.reply.rows \in Seq(RowId)
    BY <1>3
  <2>2. CASE screen = "history"
    BY <1>3, <1>5, <2>1, <2>2
  <2>3. CASE screen \in {"ledger", "sends"}
    BY <1>5, <2>1, <2>3
  <2>4. CASE screen \notin Pages
    BY <1>3, <1>5, <2>4
  <2> QED
    BY <2>2, <2>3, <2>4 DEF Pages
<1>9. asked' \in [Fetch -> PageRequest \union {Empty}] /\ asked'[q] = Empty /\ \A p \in Fetch \ {q} : asked'[p] = asked[p]
  BY <1>2, <1>3
<1>10. TableOK' /\ Present' = Present
  BY <1>2 DEF TableOK, Present, ListingInv, ListingTypes
<1>11. ListingTypes'
  BY <1>2, <1>3, <1>8, <1>9, <1>10 DEF ListingInv, ListingTypes
<1>12. WellAsked'
  BY <1>2, <1>4, <1>9 DEF ListingInv, WellAsked
<1>13. ASSUME ~overlapped PROVE (Single /\ Standing /\ OnItsWay)'
  <2>1. Single /\ Standing /\ FirstOf(a) /\ NextOf(a)
    BY <1>1, <1>2, <1>13 DEF ListingInv, OnItsWay
  <2>2. \A p \in Fetch : asked'[p] = Empty
    BY <1>1, <1>2, <1>9, <2>1 DEF Single
  <2>3. PICK s, c : s = shown' /\ c = cursor'
    OBVIOUS
  <2>4. Walked(s, c) /\ Steady
    <3>1. CASE a.first
      BY <1>2, <1>6, <2>1, <2>3, <3>1 DEF FirstOf
    <3>2. CASE ~a.first
      <4>1. Walked(s, c)
        BY <1>2, <1>7, <2>1, <2>3, <3>2 DEF NextOf
      <4>2. \A p \in Fetch : asked[p] # Empty => ~asked[p].first
        <5>1. \A p \in Fetch : asked[p] # Empty => p = q
          BY <1>1, <1>2, <2>1 DEF Single
        <5> QED
          BY <1>1, <3>2, <5>1
      <4>3. Steady
        BY <1>4, <2>1, <4>2 DEF Standing
      <4> QED
        BY <4>1, <4>3
    <3> QED
      BY <3>1, <3>2
  <2>5. Walked(s, c)' /\ Steady'
    BY <1>2, <1>10, <2>4 DEF Walked, InLine, SortKey, Selects, Steady
  <2>6. Standing'
    BY <2>3, <2>5 DEF Standing
  <2>7. Single' /\ OnItsWay'
    BY <2>2 DEF Single, OnItsWay
  <2> QED
    BY <2>6, <2>7
<1>14. overlapped' = overlapped
  BY <1>2
<1> QED
  BY <1>11, <1>12, <1>13, <1>14 DEF ListingInv

\* One is lost: a first page leaves the screen to another walk, a next one changes nothing.
LEMMA UnansweredStep == \A q \in Fetch : ListingInv /\ Unanswered(q) => ListingInv'
<1> SUFFICES ASSUME NEW q \in Fetch, ListingInv, Unanswered(q) PROVE ListingInv'
  OBVIOUS
<1>1. PICK a \in PageRequest : a = asked[q]
  BY RequestsAre DEF ListingInv, Unanswered
<1>2. /\ a # Empty /\ asked' = [asked EXCEPT ![q] = Empty] /\ overlapped' = (overlapped \/ a.first)
      /\ UNCHANGED <<second, row, screen, filter, shown, cursor, began>>
  BY <1>1 DEF Unanswered, tableVars
<1>3. /\ asked \in [Fetch -> PageRequest \union {Empty}] /\ overlapped \in BOOLEAN /\ a.first \in BOOLEAN
      /\ filter # Empty
  BY <1>1, <1>2 DEF ListingInv, ListingTypes, PageRequest, WellAsked
<1>4. asked' \in [Fetch -> PageRequest \union {Empty}] /\ asked'[q] = Empty /\ \A p \in Fetch \ {q} : asked'[p] = asked[p]
  BY <1>2, <1>3
<1>5. overlapped' \in BOOLEAN
  BY <1>2
<1>6. TableOK' /\ Present' = Present
  BY <1>2 DEF TableOK, Present, ListingInv, ListingTypes
<1>7. ListingTypes'
  BY <1>2, <1>4, <1>5, <1>6 DEF ListingInv, ListingTypes
<1>8. WellAsked'
  BY <1>2, <1>3, <1>4 DEF ListingInv, WellAsked
<1>9. ASSUME ~overlapped' PROVE (Single /\ Standing /\ OnItsWay)'
  <2>1. ~overlapped /\ ~a.first
    BY <1>2, <1>9
  <2>2. Single /\ Standing
    BY <2>1 DEF ListingInv
  <2>3. \A p \in Fetch : asked'[p] = Empty
    BY <1>1, <1>2, <1>4, <2>2 DEF Single
  <2>4. Walked(shown, cursor) /\ Steady
    <3>1. \A p \in Fetch : asked[p] # Empty => p = q
      BY <1>1, <1>2, <2>2 DEF Single
    <3>2. \A p \in Fetch : asked[p] # Empty => ~asked[p].first
      BY <1>1, <2>1, <3>1
    <3> QED
      BY <1>3, <2>2, <3>2 DEF Standing
  <2>5. (Walked(shown, cursor) /\ Steady)'
    BY <1>2, <1>6, <2>4 DEF Walked, Steady, InLine, SortKey, Selects
  <2>6. Standing' /\ Single' /\ OnItsWay'
    BY <2>3, <2>5 DEF Standing, Single, OnItsWay
  <2> QED
    BY <2>6
<1> QED
  BY <1>7, <1>8, <1>9 DEF ListingInv

\* The invariant of the walk.
LEMMA ListingHolds == ListingSpec => []ListingInv
<1>1. ListingInit => ListingInv
  <2> SUFFICES ASSUME ListingInit PROVE ListingInv
    OBVIOUS
  <2>1. Present = {} /\ row \in [RowId -> Stored \union {Empty}]
    BY DEF ListingInit, Present
  <2>2. TableOK
    BY <2>1, FS_EmptySet DEF TableOK
  <2>3. ListingTypes
    <3>1. second \in Nat /\ screen \in Screens /\ filter = Empty /\ cursor = Empty
      BY DEF ListingInit
    <3>2. shown \in Seq(RowId)
      BY DEF ListingInit
    <3>3. asked \in [Fetch -> PageRequest \union {Empty}]
      <4>1. asked = [q \in Fetch |-> Empty]
        BY DEF ListingInit
      <4>2. Empty \in PageRequest \union {Empty}
        OBVIOUS
      <4> QED
        BY <4>1, <4>2, Zenon
    <3>4. overlapped \in BOOLEAN /\ began = {}
      BY DEF ListingInit
    <3> QED
      BY <2>2, <3>1, <3>2, <3>3, <3>4 DEF ListingTypes
  <2>4. WellAsked /\ Single /\ Standing /\ OnItsWay
    BY DEF ListingInit, WellAsked, Single, Standing, OnItsWay
  <2> QED
    BY <2>3, <2>4 DEF ListingInv
<1>2. ListingInv /\ [ListingNext]_listingVars => ListingInv'
  <2> SUFFICES ASSUME ListingInv, [ListingNext]_listingVars PROVE ListingInv'
    OBVIOUS
  <2>1. CASE UNCHANGED listingVars
    <3>1. UNCHANGED <<second, row, screen, filter, shown, cursor, asked, began, overlapped>>
      BY <2>1 DEF listingVars, tableVars, screenVars
    <3>2. ListingTypes' /\ WellAsked'
      BY <3>1 DEF ListingInv, ListingTypes, WellAsked, TableOK, Present
    <3>3. \A s, c : Walked(s, c) => Walked(s, c)'
      BY <3>1 DEF Walked, InLine, SortKey, Selects, Present
    <3>4. Steady => Steady'
      BY <3>1 DEF Steady, Selects
    <3>5. ASSUME Single, Standing, OnItsWay PROVE (Single /\ Standing /\ OnItsWay)'
      <4>1. Single'
        BY <3>1, <3>5 DEF Single
      <4>2. Walked(shown, cursor) => Walked(shown, cursor)'
        <5>1. PICK s, c : s = shown /\ c = cursor
          OBVIOUS
        <5>2. Walked(s, c) => Walked(s, c)'
          BY <3>3
        <5> QED
          BY <3>1, <5>1, <5>2
      <4>3. Standing'
        BY <3>1, <3>4, <3>5, <4>2 DEF Standing
      <4>4. ASSUME NEW q \in Fetch, asked[q] # Empty PROVE FirstOf(asked[q])' /\ NextOf(asked[q])'
        <5>1. FirstOf(asked[q]) /\ NextOf(asked[q])
          BY <3>5, <4>4 DEF OnItsWay
        <5>2. PICK s, t, c : s = asked[q].reply.rows /\ t = shown \o asked[q].reply.rows /\ c = asked[q].reply.next
          OBVIOUS
        <5>3. (Walked(s, c) => Walked(s, c)') /\ (Walked(t, c) => Walked(t, c)')
          BY <3>3
        <5>4. FirstOf(asked[q])'
          BY <3>1, <3>4, <5>1, <5>2, <5>3 DEF FirstOf
        <5>5. NextOf(asked[q])'
          BY <3>1, <5>1, <5>2, <5>3 DEF NextOf
        <5> QED
          BY <5>4, <5>5
      <4>5. OnItsWay'
        BY <3>1, <4>4 DEF OnItsWay
      <4> QED
        BY <4>1, <4>3, <4>5
    <3> QED
      BY <3>1, <3>2, <3>5 DEF ListingInv
  <2>2. CASE \/ Passes \/ \E r \in RowId, tag \in Tag, time \in 0..second : Adds(r, tag, time)
             \/ \E r \in RowId, tag \in Settled : Settles(r, tag)
    BY <2>2, TableStep
  <2>3. ASSUME NEW q \in Fetch, \/ \E f \in Filter : Choose(q, f)
                                \/ More(q) \/ Lists(q) \/ Applied(q) \/ Unanswered(q)
        PROVE  ListingInv'
    BY <2>3, ChooseStep, MoreStep, ListsStep, AppliedStep, UnansweredStep
  <2> QED
    BY <2>1, <2>2, <2>3 DEF ListingNext
<1> QED
  BY <1>1, <1>2, PTL DEF ListingSpec

\* Pages neither repeat nor drop a row, for any rows, sizes of a page, filters and screens: what
\* is sent follows the cursor in the one order both the page and the cursor use
\* (billing.ts:206-211, admin-reports.ts:248-260), and a row that left a filter does not return.
THEOREM PagesLoseNothing == ListingSpec => []PagesAreLossless
<1>1. ListingInv => PagesAreLossless
  <2> SUFFICES ASSUME ListingInv, Quiet PROVE
         /\ \A i, k \in DOMAIN shown : i < k => Before(SortKey(shown[i]), SortKey(shown[k]))
         /\ \A r \in began :
              Selects(filter, r) /\ (cursor = Empty \/ r \notin Follows(cursor))
              => \E i \in DOMAIN shown : shown[i] = r
    BY DEF PagesAreLossless
  <2>1. Walked(shown, cursor) /\ began \subseteq Present
    BY DEF ListingInv, Quiet, Standing, ListingTypes
  <2> QED
    BY <2>1 DEF Walked, InLine, Follows, Present
<1> QED
  BY <1>1, ListingHolds, PTL
=============================================================================
