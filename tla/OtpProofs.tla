----------------------------- MODULE OtpProofs -----------------------------
(***************************************************************************)
(* Theorems about Otp, the plan below it, and ClientSdk above it, for any  *)
(* numbers, plans, phones, clocks, limits and any count of calls.  First what *)
(* the server's sessions and plans keep; then that, whatever the clients'  *)
(* calls do to one another, the server behaves as Otp says, and a code opens *)
(* one door.                                                               *)
(***************************************************************************)
EXTENDS MCOtp, FiniteSetTheorems, TLAPS

\* The later of a time and an expiry that may be absent is a time.
LEMMA LaterTime ==
    ASSUME NEW a \in Nat, creditsEnd \in Nat \cup {NoTime}
    PROVE  Max({a} \cup ({creditsEnd} \ {NoTime})) \in Nat
<1> DEFINE S == {a} \cup ({creditsEnd} \ {NoTime})
<1>1. S \in SUBSET Nat /\ S # {}
  BY OtpAssumption DEF OtpAssumption
<1>2. \E x \in S : \A y \in S : x >= y
  BY OtpAssumption DEF OtpAssumption
<1> QED
  BY <1>1, <1>2 DEF Max

\* What the handlers store is a session.
LEMMA SessionUpdates ==
    ASSUME NEW s \in Session
    PROVE  /\ \A st \in {"pending", "verified", "expired"} : [s EXCEPT !.status = st] \in Session
           /\ now \in Nat => AfterWrong(s) \in Session
<1>1. ASSUME NEW st \in {"pending", "verified", "expired"}
      PROVE  [s EXCEPT !.status = st] \in Session
  BY DEF Session
<1>2. ASSUME now \in Nat PROVE AfterWrong(s) \in Session
  <2> DEFINE a == s.attempts + 1
             l == IF a >= MaxAttempts THEN now + LockoutSec ELSE s.locked_until
  <2>1. a \in Nat
    BY DEF Session
  <2>2. l \in Nat \cup {NoTime}
    BY <1>2, <2>1, OtpAssumption DEF Session
  <2>3. AfterWrong(s) = [s EXCEPT !.attempts = a, !.locked_until = l]
    BY DEF AfterWrong
  <2> HIDE DEF a, l
  <2> QED
    BY <2>1, <2>2, <2>3 DEF Session
<1> QED
  BY <1>1, <1>2

\* What a send appends, and what it leaves of the sessions before.
LEMMA Appended ==
    ASSUME session \in Seq(Session), NEW n \in Number, NEW s \in Session
    PROVE  LET q == Append(Supersede(n), s)
           IN  /\ q \in Seq(Session)
               /\ Len(q) = Len(session) + 1
               /\ DOMAIN q = 1..(Len(session) + 1)
               /\ q[Len(session) + 1] = s
               /\ \A i \in DOMAIN session : q[i] = Supersede(n)[i]
<1>1. DOMAIN session = 1..Len(session) /\ Len(session) \in Nat
  OBVIOUS
<1>2. \A i \in DOMAIN session : Supersede(n)[i] \in Session
  <2> SUFFICES ASSUME NEW i \in DOMAIN session PROVE Supersede(n)[i] \in Session
    OBVIOUS
  <2>1. session[i] \in Session
    BY <1>1
  <2> QED
    BY <2>1, SessionUpdates DEF Supersede
<1>3. Supersede(n) \in Seq(Session) /\ Len(Supersede(n)) = Len(session)
  BY <1>1, <1>2 DEF Supersede
<1> QED
  BY <1>1, <1>3

\* The start of a new period is a time.
LEMMA BaseType == PlansTypeOK => Base \in Nat
<1> SUFFICES ASSUME PlansTypeOK PROVE Base \in Nat
  OBVIOUS
<1>1. now \in Nat
  BY PlansAssumption DEF PlansTypeOK, PlansAssumption
<1>2. CASE \E s \in With("active") : expires[s] > now
  <2>1. (CHOOSE s \in With("active") : TRUE) \in With("active")
    BY <1>2
  <2> QED
    BY <2>1, <1>1 DEF With, Base, PlansTypeOK
<1> QED
  BY <1>1, <1>2 DEF Base

\* The plan's own steps keep its types.
LEMMA PlanTypes == PlansTypeOK /\ PlanStep => PlansTypeOK'
<1> SUFFICES ASSUME PlansTypeOK, PlanStep PROVE PlansTypeOK'
  OBVIOUS
<1> USE PlansAssumption DEF PlansAssumption, PlansTypeOK, planVars, phoneVars
<1>1. ASSUME NEW s \in Sub, Purchase(s) PROVE PlansTypeOK'
  BY <1>1 DEF Purchase
<1>2. ASSUME NEW s \in Sub, NEW x \in Trx, SubmitTrx(s, x) PROVE PlansTypeOK'
  BY <1>2 DEF SubmitTrx
<1>3. ASSUME NEW s \in Sub, Approve(s) PROVE PlansTypeOK'
  <2>1. Base + Validity \in Nat
    BY BaseType
  <2> QED
    BY <1>3, <2>1 DEF Approve
<1>4. ASSUME NEW s \in Sub, Reject(s) PROVE PlansTypeOK'
  BY <1>4 DEF Reject
<1>5. ASSUME NEW d \in Device, Enroll(d) PROVE PlansTypeOK'
  BY <1>5 DEF Enroll
<1>6. ASSUME NEW d \in Device, Delete(d) PROVE PlansTypeOK'
  BY <1>6 DEF Delete
<1> QED
  BY <1>1, <1>2, <1>3, <1>4, <1>5, <1>6 DEF PlanStep

-----------------------------------------------------------------------------
\* The types are inductive together with a bound on the wallet.
TypeInv == TypeOK /\ credits <= bought

LEMMA SendTypes ==
    ASSUME TypeInv, NEW n \in Number, NEW t \in {now, now + 1} \cap 0..MaxNow, Send(n, t)
    PROVE  TypeInv'
<1> USE DEF TypeInv, TypeOK
<1>1. PlansTypeOK' /\ t \in Nat /\ now \in Nat
  BY PlansAssumption DEF Send, PlansTypeOK, PlansAssumption, planVars, phoneVars
<1>2. lastSend' \in [Number -> Nat \cup {NoTime}]
  BY <1>1 DEF Send
<1>3. CASE UNCHANGED <<session, credits>>
  BY <1>1, <1>2, <1>3 DEF Send
<1>4. CASE byodEligible(t) \/ CanPay(t)
  <2> DEFINE s == [phone |-> n, status |-> "pending", attempts |-> 0,
                   locked_until |-> NoTime, created |-> t, free |-> byodEligible(t)]
  <2>1. session' = Append(Supersede(n), s)
    BY <1>4 DEF Send, CreateSession
  <2>2. byodEligible(t) \in BOOLEAN
    BY DEF byodEligible
  <2>3. s \in Session
    BY <1>1, <2>2 DEF Session
  <2> HIDE DEF s
  <2>4. session' \in Seq(Session) /\ Len(session') <= MaxSends
    BY <2>1, <2>3, Appended, OtpAssumption DEF Send, OtpAssumption
  <2>5. credits' \in 0..MaxBought /\ credits' <= bought
    BY <1>4, OtpAssumption DEF Send, CreateSession, CanPay, OtpAssumption
  <2> QED
    BY <1>1, <1>2, <2>4, <2>5 DEF Send
<1> QED
  BY <1>3, <1>4 DEF Send, CreateSession

\* A handler that stores one session again keeps everything else.
LEMMA StoreTypes ==
    ASSUME TypeInv, NEW i \in DOMAIN session, NEW s \in Session, SetSession(i, s)
    PROVE  TypeInv'
BY DEF TypeInv, TypeOK, PlansTypeOK, SetSession, planVars, phoneVars

LEMMA VerifyTypes ==
    ASSUME TypeInv, NEW n \in Number, NEW right \in BOOLEAN, Verify(n, right)
    PROVE  TypeInv'
<1>1. PICK i \in Newest(Pending(n)) :
         IF Lapsed(i) THEN Expire(i)
         ELSE /\ MayTry(i)
              /\ SetSession(i, IF right THEN [session[i] EXCEPT !.status = "verified"]
                               ELSE AfterWrong(session[i]))
  BY DEF Verify
<1>2. i \in DOMAIN session /\ session[i] \in Session /\ now \in Nat
  BY PlansAssumption DEF Newest, Pending, Of, TypeInv, TypeOK, PlansTypeOK, PlansAssumption
<1>3. \E s \in Session : SetSession(i, s)
  BY <1>1, <1>2, SessionUpdates DEF Expire
<1> QED
  BY <1>2, <1>3, StoreTypes

LEMMA StatusTypes ==
    ASSUME TypeInv, NEW n \in Number, Status(n)
    PROVE  TypeInv'
<1>1. PICK i \in Newest(Of(n)) : Expire(i)
  BY DEF Status
<1>2. i \in DOMAIN session /\ session[i] \in Session
  BY DEF Newest, Of, TypeInv, TypeOK
<1>3. \E s \in Session : SetSession(i, s)
  BY <1>1, <1>2, SessionUpdates DEF Expire
<1> QED
  BY <1>2, <1>3, StoreTypes

LEMMA TypeInit == Init => TypeInv
BY PlansAssumption, OtpAssumption
   DEF Init, PlansInit, TypeInv, TypeOK, PlansTypeOK, PlansAssumption, OtpAssumption

LEMMA TypeStep == TypeInv /\ [Next]_vars => TypeInv'
<1> SUFFICES ASSUME TypeInv, [Next]_vars PROVE TypeInv'
  OBVIOUS
<1> USE DEF TypeInv, TypeOK
<1>1. CASE PlanStep /\ UNCHANGED otpVars
  BY <1>1, PlanTypes DEF otpVars
<1>2. CASE TopUp
  <2>1. now + CreditDays \in Nat
    BY PlansAssumption, OtpAssumption DEF PlansTypeOK, PlansAssumption, OtpAssumption
  <2>2. creditsEnd' \in Nat
    BY <1>2, <2>1, LaterTime DEF TopUp
  <2>3. credits' \in 0..MaxBought /\ bought' \in 0..MaxBought /\ credits' <= bought'
    BY <1>2, OtpAssumption DEF TopUp, OtpAssumption
  <2>4. PlansTypeOK'
    BY <1>2 DEF TopUp, PlansTypeOK, planVars, phoneVars
  <2> QED
    BY <1>2, <2>2, <2>3, <2>4 DEF TopUp
<1>3. CASE Restart
  BY <1>3 DEF Restart, PlansTypeOK, planVars, phoneVars
<1>4. CASE Tick
  BY <1>4, PlansAssumption DEF Tick, otpVars, PlansTypeOK, planVars, phoneVars, PlansAssumption
<1>5. CASE UNCHANGED vars
  BY <1>5 DEF vars, otpVars, PlansTypeOK, planVars, phoneVars
<1> QED
  BY <1>1, <1>2, <1>3, <1>4, <1>5, SendTypes, VerifyTypes, StatusTypes DEF Next

\* Type correctness of sessions, wallet, plans and phones; the wallet never
\* goes below zero.
THEOREM TypeCorrect == Spec => []TypeOK
BY TypeInit, TypeStep, PTL DEF Spec, TypeInv

-----------------------------------------------------------------------------
(* FreeIsCovered is inductive together with the types and the fact that an   *)
(* approved plan has begun: the plan whose pass a send rides on has begun    *)
(* before the transaction's clock and ends after it, and neither end of an   *)
(* approved period ever moves.                                               *)

Begun == \A s \in Sub : starts[s] <= now

Approved == With("active") \cup With("superseded")

\* What the plan's steps never do: take an approval back or move its period.
LEMMA PeriodsStay ==
    ASSUME PlansTypeOK, PlanStep, NEW s \in Approved
    PROVE  s \in Approved' /\ starts'[s] = starts[s] /\ expires'[s] = expires[s]
<1> USE DEF Approved, With, PlansTypeOK, planVars, phoneVars
<1>1. ASSUME NEW q \in Sub, Approve(q)
      PROVE  s \in Approved' /\ starts'[s] = starts[s] /\ expires'[s] = expires[s]
  BY <1>1 DEF Approve
<1>2. ASSUME NEW q \in Sub, Purchase(q) \/ Reject(q) \/ \E x \in Trx : SubmitTrx(q, x)
      PROVE  s \in Approved' /\ starts'[s] = starts[s] /\ expires'[s] = expires[s]
  BY <1>2 DEF Purchase, Reject, SubmitTrx
<1>3. ASSUME NEW d \in Device, Enroll(d) \/ Delete(d)
      PROVE  s \in Approved' /\ starts'[s] = starts[s] /\ expires'[s] = expires[s]
  BY <1>3 DEF Enroll, Delete
<1> QED
  BY <1>1, <1>2, <1>3 DEF PlanStep

LEMMA BegunStays == TypeOK /\ Begun /\ [Next]_vars => Begun'
<1> SUFFICES ASSUME TypeOK, Begun, [Next]_vars PROVE Begun'
  OBVIOUS
<1> USE DEF TypeOK, PlansTypeOK, Begun
<1>1. now \in Nat /\ MaxNow \in Nat
  BY PlansAssumption DEF PlansAssumption
<1>2. CASE PlanStep
  <2>1. ASSUME NEW s \in Sub, Approve(s) PROVE Begun'
    BY <1>1, <2>1 DEF Approve
  <2>2. CASE UNCHANGED <<starts, now>>
    BY <2>2
  <2> QED
    BY <1>2, <2>1, <2>2 DEF PlanStep, Purchase, SubmitTrx, Reject, Enroll, Delete, planVars
<1>3. CASE UNCHANGED starts /\ now' \in {now, now + 1}
  BY <1>1, <1>3
<1>4. ASSUME NEW n \in Number, NEW t \in {now, now + 1} \cap 0..MaxNow, Send(n, t)
      PROVE  UNCHANGED starts /\ now' \in {now, now + 1}
  BY <1>4 DEF Send, planVars
<1>5. ASSUME NEW n \in Number, (\E right \in BOOLEAN : Verify(n, right)) \/ Status(n)
      PROVE  UNCHANGED starts /\ now' \in {now, now + 1}
  BY <1>5 DEF Verify, Status, Expire, SetSession, planVars
<1>6. ASSUME TopUp \/ Restart \/ Tick \/ UNCHANGED vars
      PROVE  UNCHANGED starts /\ now' \in {now, now + 1}
  BY <1>6 DEF TopUp, Restart, Tick, vars, planVars
<1> QED
  BY <1>2, <1>3, <1>4, <1>5, <1>6 DEF Next

\* The sessions a step leaves: all of them, when they were created and whether
\* they were free.
SessionsKept(q) ==
    /\ DOMAIN session \subseteq DOMAIN q
    /\ \A i \in DOMAIN session :
          /\ q[i].phone = session[i].phone
          /\ q[i].created = session[i].created
          /\ q[i].free = session[i].free

\* Verify and status keep the number, age and price of every session.
LEMMA StoreKeeps ==
    ASSUME TypeOK, NEW n \in Number,
           (\E right \in BOOLEAN : Verify(n, right)) \/ Status(n)
    PROVE  SessionsKept(session') /\ DOMAIN session' = DOMAIN session
<1>1. ASSUME NEW i \in DOMAIN session, NEW st \in {"verified", "expired"},
             session' = [session EXCEPT ![i] = [session[i] EXCEPT !.status = st]]
      PROVE  SessionsKept(session') /\ DOMAIN session' = DOMAIN session
  BY <1>1 DEF SessionsKept, TypeOK, Session
<1>2. ASSUME NEW i \in DOMAIN session,
             session' = [session EXCEPT ![i] = AfterWrong(session[i])]
      PROVE  SessionsKept(session') /\ DOMAIN session' = DOMAIN session
  BY <1>2 DEF SessionsKept, AfterWrong, TypeOK, Session
<1>3. \A i \in Newest(Pending(n)) \cup Newest(Of(n)) : i \in DOMAIN session
  BY DEF Newest, Pending, Of
<1> QED
  BY <1>1, <1>2, <1>3 DEF Verify, Status, Expire, SetSession

\* So does a send of what it supersedes.
LEMMA SupersedeKeeps ==
    ASSUME TypeOK, NEW n \in Number, NEW s \in Session
    PROVE  SessionsKept(Append(Supersede(n), s))
<1>1. \A i \in DOMAIN session : session[i] \in Session
  BY DEF TypeOK
<1>2. \A i \in DOMAIN session :
         /\ Supersede(n)[i].phone = session[i].phone
         /\ Supersede(n)[i].created = session[i].created
         /\ Supersede(n)[i].free = session[i].free
  BY <1>1 DEF Supersede, Session
<1>3. DOMAIN session = 1..Len(session) /\ Len(session) \in Nat
  BY DEF TypeOK
<1> QED
  BY <1>2, <1>3, Appended DEF SessionsKept, TypeOK

\* A free session lies in an approved period, in every reachable state: a plan
\* that lapses between a send's checks and its transaction carries nothing.
LEMMA CoveredInit == Init => FreeIsCovered
BY DEF Init, FreeIsCovered

\* A step of a plan takes no cover away.
LEMMA CoveredByPlan ==
    ASSUME TypeOK, FreeIsCovered, PlanStep, UNCHANGED otpVars
    PROVE  FreeIsCovered'
<1> SUFFICES ASSUME NEW i \in DOMAIN session, session[i].free
             PROVE  \E s \in Approved' :
                        starts'[s] <= session[i].created /\ session[i].created < expires'[s]
  BY DEF FreeIsCovered, otpVars, Approved
<1>1. PICK s \in Approved : starts[s] <= session[i].created /\ session[i].created < expires[s]
  BY DEF FreeIsCovered, Approved
<1> QED
  BY <1>1, PeriodsStay DEF TypeOK

\* A send is free only under a plan that its transaction finds active.
LEMMA CoveredBySend ==
    ASSUME TypeInv, Begun, FreeIsCovered,
           NEW n \in Number, NEW t \in {now, now + 1} \cap 0..MaxNow, Send(n, t)
    PROVE  FreeIsCovered'
<1> USE DEF TypeInv, TypeOK
<1>1. UNCHANGED <<sub, starts, expires>>
  BY DEF Send, planVars
<1>2. CASE UNCHANGED session
  BY <1>1, <1>2 DEF FreeIsCovered, With
<1>3. CASE byodEligible(t) \/ CanPay(t)
  <2> DEFINE s == [phone |-> n, status |-> "pending", attempts |-> 0,
                   locked_until |-> NoTime, created |-> t, free |-> byodEligible(t)]
  <2>1. session' = Append(Supersede(n), s)
    BY <1>3 DEF Send, CreateSession
  <2>2. t \in Nat /\ now \in Nat /\ t >= now /\ byodEligible(t) \in BOOLEAN
    BY PlansAssumption DEF PlansTypeOK, PlansAssumption, byodEligible
  <2>3. s \in Session /\ s.created = t /\ s.free = byodEligible(t)
    BY <2>2 DEF Session
  <2> HIDE DEF s
  <2>4. /\ SessionsKept(session')
        /\ DOMAIN session' = DOMAIN session \cup {Len(session) + 1}
        /\ session'[Len(session) + 1] = s
    BY <2>1, <2>3, Appended, SupersedeKeeps
  <2>5. byodEligible(t) => \E q \in With("active") : starts[q] <= t /\ t < expires[q]
    BY <2>2 DEF byodEligible, Begun, With, PlansTypeOK
  <2> SUFFICES ASSUME NEW i \in DOMAIN session', session'[i].free
               PROVE  \E q \in With("active") \cup With("superseded") :
                          starts[q] <= session'[i].created /\ session'[i].created < expires[q]
    BY <1>1 DEF FreeIsCovered, With
  <2>6. CASE i = Len(session) + 1
    BY <2>3, <2>4, <2>5, <2>6
  <2>7. CASE i \in DOMAIN session
    BY <2>4, <2>7 DEF SessionsKept, FreeIsCovered
  <2> QED
    BY <2>4, <2>6, <2>7
<1> QED
  BY <1>2, <1>3 DEF Send, CreateSession

\* "A bypass that evaporates must fall back to charging" (routes/otp.ts:256-258).
THEOREM FreeSessionsAreCovered == Spec => []FreeIsCovered
<1> DEFINE I == TypeInv /\ Begun /\ FreeIsCovered
<1>1. Init => I
  BY TypeInit, CoveredInit, PlansAssumption
     DEF Init, PlansInit, Begun, PlansAssumption
<1>2. I /\ [Next]_vars => I'
  <2> SUFFICES ASSUME I, [Next]_vars PROVE FreeIsCovered'
    BY TypeStep, BegunStays DEF TypeInv
  <2>1. ASSUME NEW n \in Number, (\E right \in BOOLEAN : Verify(n, right)) \/ Status(n)
        PROVE  FreeIsCovered'
    <3>1. UNCHANGED <<sub, starts, expires>>
      BY <2>1 DEF Verify, Status, Expire, SetSession, planVars
    <3>2. SessionsKept(session') /\ DOMAIN session' = DOMAIN session
      BY <2>1, StoreKeeps DEF TypeInv
    <3> QED
      BY <3>1, <3>2 DEF FreeIsCovered, SessionsKept, With
  <2>2. CASE UNCHANGED <<session, sub, starts, expires>>
    BY <2>2 DEF FreeIsCovered, With
  <2>3. ASSUME TopUp \/ Restart \/ Tick \/ UNCHANGED vars
        PROVE  UNCHANGED <<session, sub, starts, expires>>
    BY <2>3 DEF TopUp, Restart, Tick, vars, otpVars, planVars
  <2> QED
    BY <2>1, <2>2, <2>3, CoveredByPlan, CoveredBySend DEF Next, TypeInv
<1> QED
  BY <1>1, <1>2, PTL DEF Spec

-----------------------------------------------------------------------------
(* CreditsSpent counts the paid sessions, of which a paid send adds one.     *)

PaidSessions == {i \in DOMAIN session : ~session[i].free}

LEMMA PaidIsFinite ==
    ASSUME TypeOK
    PROVE  IsFiniteSet(PaidSessions) /\ Cardinality(PaidSessions) \in Nat
<1>1. DOMAIN session = 1..Len(session) /\ Len(session) \in Nat
  BY DEF TypeOK
<1>2. IsFiniteSet(DOMAIN session)
  BY <1>1, FS_Interval
<1> QED
  BY <1>2, FS_Subset, FS_CardinalityType DEF PaidSessions

\* A send that is not free takes one credit.
LEMMA SpentBySend ==
    ASSUME TypeInv, CreditsSpent,
           NEW n \in Number, NEW t \in {now, now + 1} \cap 0..MaxNow, Send(n, t)
    PROVE  CreditsSpent'
<1> USE DEF TypeInv, TypeOK
<1>1. UNCHANGED bought
  BY DEF Send
<1>2. CASE UNCHANGED <<session, credits>>
  BY <1>1, <1>2 DEF CreditsSpent
<1>3. CASE byodEligible(t) \/ CanPay(t)
  <2> DEFINE s == [phone |-> n, status |-> "pending", attempts |-> 0,
                   locked_until |-> NoTime, created |-> t, free |-> byodEligible(t)]
             k == Len(session) + 1
  <2>1. session' = Append(Supersede(n), s)
    BY <1>3 DEF Send, CreateSession
  <2>2. t \in Nat /\ byodEligible(t) \in BOOLEAN
    BY PlansAssumption DEF PlansTypeOK, PlansAssumption, byodEligible
  <2>3. s \in Session /\ s.free = byodEligible(t)
    BY <2>2 DEF Session
  <2> HIDE DEF s
  <2>4. /\ SessionsKept(session')
        /\ DOMAIN session' = DOMAIN session \cup {k}
        /\ session'[k] = s
        /\ k \notin DOMAIN session
    BY <2>1, <2>3, Appended, SupersedeKeeps
  <2> HIDE DEF k
  <2>5. CASE byodEligible(t)
    <3>1. PaidSessions' = PaidSessions
      BY <2>3, <2>4, <2>5 DEF PaidSessions, SessionsKept
    <3>2. UNCHANGED credits
      BY <1>3, <2>5 DEF Send, CreateSession
    <3> QED
      BY <1>1, <3>1, <3>2 DEF CreditsSpent, PaidSessions
  <2>6. CASE ~byodEligible(t)
    <3>1. PaidSessions' = PaidSessions \cup {k} /\ k \notin PaidSessions
      BY <2>3, <2>4, <2>6 DEF PaidSessions, SessionsKept
    <3>2. Cardinality(PaidSessions') = Cardinality(PaidSessions) + 1
      BY <3>1, PaidIsFinite, FS_AddElement
    <3>3. credits' = credits - 1
      BY <1>3, <2>6 DEF Send, CreateSession
    <3> QED
      BY <1>1, <3>2, <3>3, PaidIsFinite DEF CreditsSpent, PaidSessions
  <2> QED
    BY <2>5, <2>6
<1> QED
  BY <1>2, <1>3 DEF Send, CreateSession

\* "balance check + 1-SMS deduct + session creation are ONE atomic step"
\* (routes/otp.ts:247-248): what was bought is there, or paid for one session.
THEOREM CreditsAreSpent == Spec => []CreditsSpent
<1> DEFINE I == TypeInv /\ CreditsSpent
<1>1. Init => I
  <2> SUFFICES ASSUME Init PROVE CreditsSpent
    BY TypeInit
  <2>1. PaidSessions = {} /\ credits = 0 /\ bought = 0
    BY DEF Init, PaidSessions
  <2> QED
    BY <2>1, FS_EmptySet DEF CreditsSpent, PaidSessions
<1>2. I /\ [Next]_vars => I'
  <2> SUFFICES ASSUME I, [Next]_vars PROVE CreditsSpent'
    BY TypeStep
  <2>1. ASSUME NEW n \in Number, (\E right \in BOOLEAN : Verify(n, right)) \/ Status(n)
        PROVE  CreditsSpent'
    <3>1. UNCHANGED <<credits, bought>>
      BY <2>1 DEF Verify, Status, Expire, SetSession
    <3>2. SessionsKept(session') /\ DOMAIN session' = DOMAIN session
      BY <2>1, StoreKeeps DEF TypeInv
    <3>3. PaidSessions' = PaidSessions
      BY <3>2 DEF PaidSessions, SessionsKept
    <3> QED
      BY <3>1, <3>3 DEF CreditsSpent, PaidSessions
  <2>2. CASE TopUp
    <3>1. PaidSessions' = PaidSessions /\ credits' = credits + 1 /\ bought' = bought + 1
      BY <2>2 DEF TopUp, PaidSessions
    <3>2. credits + Cardinality(PaidSessions) = bought /\ credits \in Int /\ Cardinality(PaidSessions) \in Nat
      BY PaidIsFinite, OtpAssumption DEF CreditsSpent, PaidSessions, TypeInv, TypeOK, OtpAssumption
    <3>3. credits' + Cardinality(PaidSessions') = bought'
      BY <3>1, <3>2
    <3> QED
      BY <3>3 DEF CreditsSpent, PaidSessions
  <2>3. CASE UNCHANGED <<session, credits, bought>>
    BY <2>3 DEF CreditsSpent
  <2>4. ASSUME (PlanStep /\ UNCHANGED otpVars) \/ Restart \/ Tick \/ UNCHANGED vars
        PROVE  UNCHANGED <<session, credits, bought>>
    BY <2>4 DEF Restart, Tick, vars, otpVars
  <2> QED
    BY <2>1, <2>2, <2>3, <2>4, SpentBySend DEF Next
<1> QED
  BY <1>1, <1>2, PTL DEF Spec

\* Every code is covered.
THEOREM CodesAreCovered == Spec => []EveryCodeIsCovered
BY FreeSessionsAreCovered, CreditsAreSpent, PTL DEF EveryCodeIsCovered

-----------------------------------------------------------------------------
(* PlansAreHonest.  The plan's state moves by its own steps; any other step  *)
(* leaves it alone and lets at most a second pass.                           *)

LEMMA OtherSteps ==
    [Next]_vars => \/ PlanStep
                   \/ UNCHANGED <<planVars, phoneVars>> /\ now' \in {now, now + 1}
<1>1. ASSUME NEW n \in Number, NEW t \in {now, now + 1} \cap 0..MaxNow, Send(n, t)
      PROVE  UNCHANGED <<planVars, phoneVars>> /\ now' \in {now, now + 1}
  BY <1>1 DEF Send
<1>2. ASSUME NEW n \in Number, (\E right \in BOOLEAN : Verify(n, right)) \/ Status(n)
      PROVE  UNCHANGED <<planVars, phoneVars>> /\ now' \in {now, now + 1}
  BY <1>2 DEF Verify, Status, Expire, SetSession
<1>3. ASSUME TopUp \/ Restart \/ Tick \/ UNCHANGED vars
      PROVE  UNCHANGED <<planVars, phoneVars>> /\ now' \in {now, now + 1}
  BY <1>3 DEF TopUp, Restart, Tick, vars
<1> QED
  BY <1>1, <1>2, <1>3 DEF Next

\* Periods are apart because a new one starts where the last one ends: the plan
\* that is active ends last of all that were ever approved.
LastEnds ==
    /\ \A s, q \in With("active") : s = q
    /\ \A s \in With("active"), q \in Approved : expires[q] <= expires[s]
    /\ Approved # {} => With("active") # {}

\* A new period begins where the last approved one ends.
LEMMA BaseIsLast ==
    ASSUME PlansTypeOK, LastEnds
    PROVE  Base \in Nat /\ \A q \in Approved : expires[q] <= Base
<1>1. now \in Nat /\ Base \in Nat
  BY PlansAssumption, BaseType DEF PlansTypeOK, PlansAssumption
<1> SUFFICES ASSUME NEW q \in Approved PROVE expires[q] <= Base
  BY <1>1
<1>2. PICK a \in With("active") : \A p \in With("active") : p = a
  BY DEF LastEnds
<1>3. /\ a \in Sub /\ q \in Sub
      /\ expires[a] \in Nat /\ expires[q] \in Nat /\ expires[q] <= expires[a]
  BY <1>2 DEF LastEnds, Approved, With, PlansTypeOK
<1>4. (CHOOSE p \in With("active") : TRUE) = a
  BY <1>2
<1>5. CASE expires[a] > now
  BY <1>2, <1>3, <1>4, <1>5 DEF Base
<1>6. CASE ~(expires[a] > now)
  <2>1. Base = now
    BY <1>2, <1>6 DEF Base
  <2> QED
    BY <1>1, <1>3, <1>6, <2>1
<1> QED
  BY <1>5, <1>6

ApartInv ==
    /\ LastEnds
    /\ \A s, q \in With("pending") : s = q
    /\ \A s, q \in Sub : trx[s] = trx[q] /\ trx[s] # NoTrx => s = q
    /\ \A s, q \in Approved :
          s = q \/ expires[s] + Validity <= expires[q] \/ expires[q] + Validity <= expires[s]

LEMMA ApartByApprove ==
    ASSUME PlansTypeOK, ApartInv, NEW s \in Sub, Approve(s)
    PROVE  ApartInv'
<1> USE PlansAssumption DEF PlansAssumption
<1>1. Base \in Nat /\ \A q \in Approved : expires[q] <= Base
  BY BaseIsLast DEF ApartInv
<1>2. /\ s \notin Approved /\ With("active")' = {s} /\ Approved' = Approved \cup {s}
      /\ With("pending")' \subseteq With("pending")
  BY DEF Approve, Approved, With, PlansTypeOK
<1>3. /\ \A q \in Approved : q # s /\ expires'[q] = expires[q] /\ expires[q] \in Nat
      /\ expires'[s] = Base + Validity
  BY <1>2 DEF Approve, Approved, With, PlansTypeOK
<1>4. LastEnds'
  <2>1. \A q \in Approved' : expires'[q] <= expires'[s]
    BY <1>1, <1>2, <1>3
  <2> QED
    BY <1>2, <2>1 DEF LastEnds
<1>5. \A p, q \in Approved' :
         p = q \/ expires'[p] + Validity <= expires'[q] \/ expires'[q] + Validity <= expires'[p]
  BY <1>1, <1>2, <1>3 DEF ApartInv
<1> QED
  BY <1>2, <1>4, <1>5 DEF ApartInv, Approve

LEMMA ApartStep == PlansTypeOK /\ ApartInv /\ [Next]_vars => ApartInv'
<1> SUFFICES ASSUME PlansTypeOK, ApartInv, [Next]_vars PROVE ApartInv'
  OBVIOUS
<1> USE DEF ApartInv, LastEnds, Approved, With
<1>1. ASSUME NEW s \in Sub, Purchase(s) PROVE ApartInv'
  BY <1>1 DEF Purchase, PlansTypeOK
<1>2. ASSUME NEW s \in Sub, Reject(s) PROVE ApartInv'
  BY <1>2 DEF Reject, PlansTypeOK
<1>3. ASSUME NEW s \in Sub, NEW x \in Trx, SubmitTrx(s, x) PROVE ApartInv'
  BY <1>3, PlansAssumption DEF SubmitTrx, PlansTypeOK, PlansAssumption
<1>4. CASE UNCHANGED planVars
  BY <1>4 DEF planVars
<1>5. ASSUME NEW d \in Device, Enroll(d) \/ Delete(d) PROVE UNCHANGED planVars
  BY <1>5 DEF Enroll, Delete
<1> QED
  BY <1>1, <1>2, <1>3, <1>4, <1>5, ApartByApprove, OtherSteps DEF PlanStep

\* A set without two elements has one at most.
LEMMA AtMostOne ==
    ASSUME NEW S, \A x, y \in S : x = y
    PROVE  Cardinality(S) <= 1
<1>1. CASE S = {}
  BY <1>1, FS_EmptySet
<1>2. CASE S # {}
  <2>1. PICK x : S = {x}
    BY <1>2
  <2> QED
    BY <2>1, FS_Singleton
<1> QED
  BY <1>1, <1>2

LEMMA ApartIsEnough == ApartInv => PurchasesAreApart
BY AtMostOne DEF ApartInv, LastEnds, Approved, PurchasesAreApart

-----------------------------------------------------------------------------
(* Slots.  A phone that joins is counted before it is let in, and none that  *)
(* joined before the plan counts against it.                                 *)

Phones == {d \in Device : phone[d] # "none"}
Live   == {d \in Device : phone[d] = "live"}
JoinedSince(s) == {d \in Device : phone[d] # "none" /\ enrolled[d] > starts[s]}

SlotInv ==
    /\ IsFiniteSet(Phones)
    /\ \A d \in Device : enrolled[d] <= now
    /\ \A s \in With("active") :
          /\ Cardinality(JoinedSince(s) \cap Live) <= Cap[s]
          /\ Cardinality(JoinedSince(s) \cap Recent) <= Cap[s] + 1

\* A part of a finite set is no larger.
LEMMA NoLarger ==
    ASSUME NEW S, NEW R, IsFiniteSet(S), R \subseteq S, NEW k \in Int, Cardinality(S) <= k
    PROVE  IsFiniteSet(R) /\ Cardinality(R) <= k
<1>1. IsFiniteSet(R) /\ Cardinality(R) <= Cardinality(S)
  BY FS_Subset
<1>2. Cardinality(R) \in Nat /\ Cardinality(S) \in Nat
  BY <1>1, FS_CardinalityType
<1> QED
  BY <1>1, <1>2

\* One more makes it larger by one at most.
LEMMA OneLarger ==
    ASSUME NEW S, NEW R, NEW x, IsFiniteSet(S), R \subseteq S \cup {x},
           NEW k \in Int, Cardinality(S) <= k
    PROVE  IsFiniteSet(R) /\ Cardinality(R) <= k + 1
<1>1. IsFiniteSet(S \cup {x}) /\ Cardinality(S \cup {x}) <= Cardinality(S) + 1
  <2>1. Cardinality(S) \in Nat
    BY FS_CardinalityType
  <2> QED
    BY <2>1, FS_AddElement
<1>2. Cardinality(S) \in Nat /\ Cardinality(S \cup {x}) \in Nat
  BY <1>1, FS_CardinalityType
<1>3. Cardinality(S \cup {x}) <= k + 1
  BY <1>1, <1>2
<1> QED
  BY <1>1, <1>3, NoLarger

\* A step that lets no phone in, and approves nothing, frees slots if it does anything.
LEMMA SlotsStay ==
    ASSUME PlansTypeOK, SlotInv,
           UNCHANGED <<starts, enrolled>>, now' \in {now, now + 1},
           With("active")' \subseteq With("active"),
           Phones' = Phones, Live' \subseteq Live
    PROVE  SlotInv'
<1>1. now \in Nat /\ \A d \in Device : enrolled[d] \in Nat
  BY PlansAssumption DEF PlansTypeOK, PlansAssumption
<1>2. \A d \in Device : enrolled'[d] <= now'
  BY <1>1 DEF SlotInv
<1> SUFFICES ASSUME NEW s \in With("active")'
             PROVE  /\ Cardinality((JoinedSince(s) \cap Live)') <= Cap[s]
                    /\ Cardinality((JoinedSince(s) \cap Recent)') <= Cap[s] + 1
  BY <1>2 DEF SlotInv, Phones, With
<1>3. s \in With("active") /\ Cap[s] \in Nat
  BY PlansAssumption DEF With, PlansAssumption
<1>4. JoinedSince(s)' = JoinedSince(s) /\ JoinedSince(s) \subseteq Phones
  BY DEF JoinedSince, Phones
<1>5. Recent' \subseteq Recent
  BY <1>1, PlansAssumption DEF Recent, Phones, PlansAssumption
<1>6. IsFiniteSet(JoinedSince(s) \cap Live) /\ IsFiniteSet(JoinedSince(s) \cap Recent)
  BY <1>4, FS_Subset DEF SlotInv
<1>7. Cardinality((JoinedSince(s) \cap Live)') <= Cap[s]
  <2>1. (JoinedSince(s) \cap Live)' \subseteq JoinedSince(s) \cap Live
    BY <1>4
  <2>2. Cardinality(JoinedSince(s) \cap Live) <= Cap[s]
    BY <1>3 DEF SlotInv
  <2>3. Cap[s] \in Int
    BY <1>3
  <2> QED
    BY <1>6, <2>1, <2>2, <2>3, NoLarger
<1>8. Cardinality((JoinedSince(s) \cap Recent)') <= Cap[s] + 1
  <2>1. (JoinedSince(s) \cap Recent)' \subseteq JoinedSince(s) \cap Recent
    BY <1>4, <1>5
  <2>2. Cardinality(JoinedSince(s) \cap Recent) <= Cap[s] + 1
    BY <1>3 DEF SlotInv
  <2>3. Cap[s] + 1 \in Int
    BY <1>3
  <2> QED
    BY <1>6, <2>1, <2>2, <2>3, NoLarger
<1> QED
  BY <1>7, <1>8

\* A new period begins with no phone that joined since.
LEMMA SlotsByApprove ==
    ASSUME PlansTypeOK, SlotInv, NEW s \in Sub, Approve(s)
    PROVE  SlotInv'
<1>1. With("active")' = {s} /\ starts'[s] = now /\ Cap[s] \in Nat
  BY PlansAssumption DEF Approve, With, PlansTypeOK, PlansAssumption
<1>2. UNCHANGED <<now, phone, enrolled>>
  BY DEF Approve, phoneVars
<1>3. JoinedSince(s)' = {}
  BY <1>1, <1>2, PlansAssumption DEF JoinedSince, SlotInv, PlansTypeOK, PlansAssumption
<1>4. /\ Cardinality((JoinedSince(s) \cap Live)') <= Cap[s]
      /\ Cardinality((JoinedSince(s) \cap Recent)') <= Cap[s] + 1
  BY <1>1, <1>3, FS_EmptySet
<1> QED
  BY <1>1, <1>2, <1>4 DEF SlotInv, Phones

\* A phone is let in only below the cap and the churn limit.
LEMMA SlotsByEnroll ==
    ASSUME PlansTypeOK, SlotInv, NEW d \in Device, Enroll(d)
    PROVE  SlotInv'
<1>1. UNCHANGED <<now, sub, starts>> /\ With("active")' = With("active")
  BY DEF Enroll, planVars, With
<1>2. /\ Phones' = Phones \cup {d} /\ Live' = Live \cup {d} /\ Recent' \subseteq Recent \cup {d}
      /\ \A c \in Device : enrolled'[c] <= now'
  BY <1>1, PlansAssumption
     DEF Enroll, Phones, Live, Recent, SlotInv, PlansTypeOK, PlansAssumption
<1>3. IsFiniteSet(Phones')
  BY <1>2, FS_AddElement DEF SlotInv
<1>4. IsFiniteSet(Live) /\ IsFiniteSet(Recent)
  BY FS_Subset DEF SlotInv, Phones, Live, Recent
<1> SUFFICES ASSUME NEW s \in With("active")
             PROVE  /\ Cardinality((JoinedSince(s) \cap Live)') <= Cap[s]
                    /\ Cardinality((JoinedSince(s) \cap Recent)') <= Cap[s] + 1
  BY <1>1, <1>2, <1>3 DEF SlotInv
<1>5. Cap[s] \in Nat /\ Cardinality(Live) \in Nat
  BY <1>4, PlansAssumption, FS_CardinalityType DEF With, PlansAssumption
<1>6. Cardinality(Live) <= Cap[s] - 1 /\ Cardinality(Recent) <= Cap[s]
  BY <1>5 DEF Enroll, SlotFree, boundDeviceCount, Live
<1>7. Cardinality((JoinedSince(s) \cap Live)') <= (Cap[s] - 1) + 1
  <2>1. (JoinedSince(s) \cap Live)' \subseteq Live \cup {d} /\ Cap[s] - 1 \in Int
    BY <1>2, <1>5
  <2> QED
    BY <1>4, <1>6, <2>1, OneLarger
<1>8. Cardinality((JoinedSince(s) \cap Recent)') <= Cap[s] + 1
  <2>1. (JoinedSince(s) \cap Recent)' \subseteq Recent \cup {d} /\ Cap[s] \in Int
    BY <1>2, <1>5
  <2> QED
    BY <1>4, <1>6, <2>1, OneLarger
<1> QED
  BY <1>5, <1>7, <1>8

LEMMA SlotStep == PlansTypeOK /\ SlotInv /\ [Next]_vars => SlotInv'
<1> SUFFICES ASSUME PlansTypeOK, SlotInv, [Next]_vars PROVE SlotInv'
  OBVIOUS
<1>1. ASSUME NEW s \in Sub, Purchase(s) \/ Reject(s) \/ \E x \in Trx : SubmitTrx(s, x)
      PROVE  SlotInv'
  <2>1. /\ UNCHANGED <<starts, phone, enrolled, now>>
        /\ With("active")' \subseteq With("active")
    BY <1>1 DEF Purchase, Reject, SubmitTrx, With, PlansTypeOK, phoneVars
  <2> QED
    BY <2>1, SlotsStay DEF Phones, Live
<1>2. ASSUME NEW d \in Device, Delete(d) PROVE SlotInv'
  <2>1. UNCHANGED <<starts, enrolled, now, sub>> /\ Phones' = Phones /\ Live' \subseteq Live
    BY <1>2 DEF Delete, planVars, Phones, Live, PlansTypeOK
  <2> QED
    BY <2>1, SlotsStay DEF With
<1>3. CASE UNCHANGED <<planVars, phoneVars>> /\ now' \in {now, now + 1}
  BY <1>3, SlotsStay DEF planVars, phoneVars, With, Phones, Live
<1> QED
  BY <1>1, <1>2, <1>3, OtherSteps, SlotsByApprove, SlotsByEnroll DEF PlanStep

\* PaidSessions periods laid end to end never overlap (routes/billing.ts:1279-1288), and the
\* slots of a plan are kept by the phones that joined since it began, at once and within
\* the churn window (routes/device.ts:240-267), for any plans, phones and clock.
THEOREM PlansHonest == Spec => []PlansAreHonest
<1> DEFINE I == TypeInv /\ ApartInv /\ SlotInv
<1>1. Init => I
  <2> SUFFICES ASSUME Init PROVE ApartInv /\ SlotInv
    BY TypeInit
  <2>1. ApartInv
    BY DEF Init, PlansInit, ApartInv, LastEnds, Approved, With
  <2>2. Phones = {} /\ With("active") = {} /\ \A d \in Device : enrolled[d] <= now
    BY DEF Init, PlansInit, Phones, With
  <2> QED
    BY <2>1, <2>2, FS_EmptySet DEF SlotInv
<1>2. I /\ [Next]_vars => I'
  BY TypeStep, ApartStep, SlotStep DEF TypeInv, TypeOK
<1>3. I => PlansAreHonest
  BY ApartIsEnough DEF PlansAreHonest, SlotInv, SlotsSinceStart, JoinedSince, Live
<1> QED
  BY <1>1, <1>2, <1>3, PTL DEF Spec

-----------------------------------------------------------------------------
(* What a step makes of the sessions: the outcome of one pending session is  *)
(* stored, or a new one supersedes the number's pending ones.                *)

Stored(i) ==
    /\ session[i].status = "pending"
    /\ now' = now /\ DOMAIN session' = DOMAIN session
    /\ \A j \in DOMAIN session : j # i => session'[j] = session[j]
    /\ \/ session'[i] = [session[i] EXCEPT !.status = "expired"]
       \/ /\ ~Lapsed(i) /\ ~Locked(i)
          /\ session'[i] \in {[session[i] EXCEPT !.status = "verified"], AfterWrong(session[i])}

Sent(n, s) ==
    /\ RateOk(n) /\ now' \in {now, now + 1}
    /\ s.phone = n /\ s.status = "pending" /\ s.attempts = 0 /\ s.created = now'
    /\ DOMAIN session' = DOMAIN session \cup {Len(session) + 1}
    /\ session'[Len(session) + 1] = s
    /\ \A j \in DOMAIN session : session'[j] = Supersede(n)[j]

LEMMA StoreSteps ==
    ASSUME TypeInv, NEW n \in Number,
           (\E right \in BOOLEAN : Verify(n, right)) \/ Status(n)
    PROVE  \E i \in DOMAIN session : Stored(i)
<1>1. ASSUME NEW i \in DOMAIN session, NEW s, SetSession(i, s), session[i].status = "pending",
             \/ s = [session[i] EXCEPT !.status = "expired"]
             \/ /\ ~Lapsed(i) /\ ~Locked(i)
                /\ s \in {[session[i] EXCEPT !.status = "verified"], AfterWrong(session[i])}
      PROVE  Stored(i)
  <2>1. session'[i] = s /\ DOMAIN session' = DOMAIN session
    BY <1>1 DEF SetSession, TypeInv, TypeOK
  <2>2. \A j \in DOMAIN session : j # i => session'[j] = session[j]
    BY <1>1 DEF SetSession, TypeInv, TypeOK
  <2>3. now' = now
    BY <1>1 DEF SetSession
  <2> QED
    BY <1>1, <2>1, <2>2, <2>3 DEF Stored
<1>2. ASSUME NEW right \in BOOLEAN, Verify(n, right)
      PROVE  \E i \in DOMAIN session : Stored(i)
  <2>1. PICK i \in Newest(Pending(n)) :
          IF Lapsed(i) THEN Expire(i)
          ELSE /\ MayTry(i)
               /\ SetSession(i, IF right THEN [session[i] EXCEPT !.status = "verified"]
                                ELSE AfterWrong(session[i]))
    BY <1>2 DEF Verify
  <2>2. i \in DOMAIN session /\ session[i].status = "pending"
    BY DEF Newest, Pending, Of
  <2> QED
    BY <1>1, <2>1, <2>2 DEF Expire, MayTry
<1>3. CASE Status(n)
  <2>1. PICK i \in Newest(Of(n)) : session[i].status = "pending" /\ Expire(i)
    BY <1>3 DEF Status
  <2>2. i \in DOMAIN session
    BY DEF Newest, Of
  <2> QED
    BY <1>1, <2>1, <2>2 DEF Expire
<1> QED
  BY <1>2, <1>3

LEMMA SendSteps ==
    ASSUME TypeInv, NEW n \in Number, NEW t \in {now, now + 1} \cap 0..MaxNow, Send(n, t),
           session' # session
    PROVE  \E s \in Session : Sent(n, s)
<1> DEFINE s == [phone |-> n, status |-> "pending", attempts |-> 0,
                 locked_until |-> NoTime, created |-> t, free |-> byodEligible(t)]
<1>1. session' = Append(Supersede(n), s)
  BY DEF Send, CreateSession
<1>2. t \in Nat /\ byodEligible(t) \in BOOLEAN
  BY PlansAssumption DEF PlansTypeOK, PlansAssumption, byodEligible
<1>3. /\ s \in Session /\ s.phone = n /\ s.status = "pending"
      /\ s.attempts = 0 /\ s.created = t
  BY <1>2 DEF Session
<1> HIDE DEF s
<1>4. /\ DOMAIN session' = DOMAIN session \cup {Len(session) + 1}
      /\ session'[Len(session) + 1] = s
      /\ \A j \in DOMAIN session : session'[j] = Supersede(n)[j]
  BY <1>1, <1>3, Appended DEF TypeInv, TypeOK
<1>5. RateOk(n) /\ now' = t
  BY DEF Send
<1> QED
  BY <1>3, <1>4, <1>5 DEF Sent

\* Sessions change in two ways: one is stored anew, or a number is sent another.
LEMMA SessionSteps ==
    TypeInv /\ [Next]_vars =>
        \/ UNCHANGED session /\ now' \in {now, now + 1}
        \/ \E i \in DOMAIN session : Stored(i)
        \/ \E n \in Number, s \in Session : Sent(n, s)
<1> SUFFICES ASSUME TypeInv, [Next]_vars
             PROVE  \/ UNCHANGED session /\ now' \in {now, now + 1}
                    \/ \E i \in DOMAIN session : Stored(i)
                    \/ \E n \in Number, s \in Session : Sent(n, s)
  OBVIOUS
<1>1. CASE PlanStep /\ UNCHANGED otpVars
  BY <1>1 DEF PlanStep, Purchase, Approve, Reject, SubmitTrx, Enroll, Delete, otpVars
<1>2. CASE TopUp \/ Restart \/ Tick \/ UNCHANGED vars
  BY <1>2 DEF TopUp, Restart, Tick, vars, otpVars
<1>3. ASSUME NEW n \in Number, NEW t \in {now, now + 1} \cap 0..MaxNow, Send(n, t)
      PROVE  \/ UNCHANGED session /\ now' \in {now, now + 1}
             \/ \E s \in Session : Sent(n, s)
  BY <1>3, SendSteps DEF Send
<1> QED
  BY <1>1, <1>2, <1>3, StoreSteps DEF Next

\* A number's pending session is the last one sent to it.
LastInv ==
    \A i \in DOMAIN session : session[i].status = "pending" =>
        \A j \in Of(session[i].phone) : j <= i

\* What a store keeps of the session.
LEMMA StoredKeeps ==
    ASSUME TypeInv, NEW i \in DOMAIN session, Stored(i)
    PROVE  /\ session'[i].phone = session[i].phone
           /\ session'[i].created = session[i].created
           /\ session'[i].status \in {"pending", "verified", "expired"}
           /\ session'[i].status = "verified" => ~Lapsed(i) /\ ~Locked(i)
<1>1. session[i] \in Session
  BY DEF TypeInv, TypeOK
<1>2. AfterWrong(session[i]).phone = session[i].phone
      /\ AfterWrong(session[i]).created = session[i].created
      /\ AfterWrong(session[i]).status = session[i].status
  BY <1>1 DEF AfterWrong, Session
<1> QED
  BY <1>1, <1>2 DEF Stored, Session

\* What a send keeps of the sessions before.
LEMMA SentKeeps ==
    ASSUME TypeInv, NEW n \in Number, NEW j \in DOMAIN session
    PROVE  LET s == Supersede(n)[j]
           IN  /\ s.phone = session[j].phone /\ s.created = session[j].created
               /\ s.attempts = session[j].attempts /\ s.locked_until = session[j].locked_until
               /\ IF j \in Pending(n) THEN s.status = "expired" ELSE s.status = session[j].status
<1>1. session[j] \in Session
  BY DEF TypeInv, TypeOK
<1> QED
  BY <1>1 DEF Supersede, Session

LEMMA LastStep == TypeInv /\ LastInv /\ [Next]_vars => LastInv'
<1> SUFFICES ASSUME TypeInv, LastInv, [Next]_vars PROVE LastInv'
  OBVIOUS
<1>1. CASE UNCHANGED session
  BY <1>1 DEF LastInv, Of
<1>2. ASSUME NEW i \in DOMAIN session, Stored(i) PROVE LastInv'
  BY <1>2, StoredKeeps DEF LastInv, Of, Stored
<1>3. ASSUME NEW n \in Number, NEW s \in Session, Sent(n, s) PROVE LastInv'
  <2>1. DOMAIN session = 1..Len(session) /\ Len(session) \in Nat
    BY DEF TypeInv, TypeOK
  <2> DEFINE k == Len(session) + 1
  <2>2. \A j \in DOMAIN session : j < k /\ k \notin DOMAIN session
    BY <2>1
  <2>3. k \in Int
    BY <2>1
  <2>4. DOMAIN session' = DOMAIN session \cup {k} /\ session'[k] = s /\ s.phone = n
    BY <1>3 DEF Sent
  <2> HIDE DEF k
  <2>5. \A j \in DOMAIN session :
           /\ session'[j].phone = session[j].phone
           /\ session'[j].status = "pending" =>
                 session[j].status = "pending" /\ session[j].phone # n
    <3> SUFFICES ASSUME NEW j \in DOMAIN session
                 PROVE  /\ session'[j].phone = session[j].phone
                        /\ session'[j].status = "pending" =>
                              session[j].status = "pending" /\ session[j].phone # n
      OBVIOUS
    <3>1. session'[j] = Supersede(n)[j]
      BY <1>3 DEF Sent
    <3> QED
      BY <3>1, SentKeeps DEF Pending, Of
  <2> SUFFICES ASSUME NEW i \in DOMAIN session', session'[i].status = "pending",
                      NEW j \in DOMAIN session', session'[j].phone = session'[i].phone
               PROVE  j <= i
    BY DEF LastInv, Of
  <2>6. CASE i = k
    BY <2>1, <2>2, <2>3, <2>4, <2>6
  <2>7. CASE i # k
    <3>1. i \in DOMAIN session /\ session[i].status = "pending" /\ session[i].phone # n
      BY <2>4, <2>5, <2>7
    <3>2. j \in DOMAIN session /\ session[j].phone = session[i].phone
      BY <2>4, <2>5, <3>1
    <3> QED
      BY <3>1, <3>2 DEF LastInv, Of
  <2> QED
    BY <2>6, <2>7
<1> QED
  BY <1>1, <1>2, <1>3, SessionSteps

\* A session is decided once, and verified only while it is alive and the last of its number.
LEMMA OnlyTheLastStep ==
    TypeInv /\ LastInv /\ [Next]_vars =>
        \A i \in DOMAIN session :
            LET was == session[i].status
                is  == session'[i].status
            IN  /\ is # was => was = "pending"
                /\ is = "verified" /\ was = "pending" =>
                        /\ ~Lapsed(i) /\ ~Locked(i)
                        /\ \A j \in Of(session[i].phone) : j <= i
<1> SUFFICES ASSUME TypeInv, LastInv, [Next]_vars, NEW i \in DOMAIN session
             PROVE  /\ session'[i].status # session[i].status => session[i].status = "pending"
                    /\ session'[i].status = "verified" /\ session[i].status = "pending" =>
                          /\ ~Lapsed(i) /\ ~Locked(i)
                          /\ \A j \in Of(session[i].phone) : j <= i
  OBVIOUS
<1>1. CASE UNCHANGED session
  BY <1>1
<1>2. ASSUME NEW k \in DOMAIN session, Stored(k)
      PROVE  /\ session'[i].status # session[i].status => i = k
             /\ session[k].status = "pending"
             /\ session'[k].status = "verified" => ~Lapsed(k) /\ ~Locked(k)
  BY <1>2, StoredKeeps DEF Stored
<1>3. ASSUME NEW n \in Number, NEW s \in Session, Sent(n, s)
      PROVE  \/ session'[i].status = session[i].status
             \/ session'[i].status = "expired" /\ session[i].status = "pending"
  <2>1. session'[i] = Supersede(n)[i]
    BY <1>3 DEF Sent
  <2> QED
    BY <2>1, SentKeeps DEF Pending, Of
<1>4. session[i].status = "pending" => \A j \in Of(session[i].phone) : j <= i
  BY DEF LastInv
<1> QED
  BY <1>1, <1>2, <1>3, <1>4, SessionSteps

\* Only the last code sent to a number opens it, while it has neither lapsed nor been
\* locked, and what was verified or expired stays so (routes/otp.ts: the send supersedes,
\* the verification takes the newest pending session), for any numbers and clocks.
THEOREM LastVerifies == Spec => OnlyTheLastVerifies
<1>1. Init => LastInv
  BY DEF Init, LastInv
<1>2. TypeInv /\ LastInv /\ [Next]_vars =>
        [\A i \in DOMAIN session :
            LET was == session[i].status
                is  == session'[i].status
            IN  /\ is # was => was = "pending"
                /\ is = "verified" /\ was = "pending" =>
                        /\ ~Lapsed(i) /\ ~Locked(i)
                        /\ \A j \in Of(session[i].phone) : j <= i]_vars
  BY OnlyTheLastStep
<1> QED
  BY <1>1, <1>2, TypeInit, TypeStep, LastStep, PTL DEF Spec, OnlyTheLastVerifies

-----------------------------------------------------------------------------
(* GuessBudget.  Each guess past the lock waits for the lock to end, and a   *)
(* session lapses after Ttl: the lock's end tells how many were made.        *)

GuessInv ==
    \A i \in DOMAIN session :
        /\ session[i].created <= now
        /\ session[i].attempts >= MaxAttempts =>
              /\ session[i].locked_until # NoTime
              /\ session[i].locked_until
                    >= session[i].created + (session[i].attempts - MaxAttempts + 1) * LockoutSec
        /\ session[i].attempts <= GuessesOf

RecentOf(n) == {i \in Of(n) : session[i].created + RateWindow > now}

\* What fits into T of a length L.
LEMMA DivBound ==
    ASSUME NEW T \in Nat, NEW L \in Nat \ {0}, NEW k \in Nat, k * L <= T
    PROVE  k <= T \div L
<1> DEFINE d == T \div L
<1>1. d \in Nat /\ T < L * (d + 1)
  BY SMT
<1> HIDE DEF d
<1>2. SUFFICES ASSUME k > d PROVE FALSE
  BY <1>1
<1>3. k >= d + 1
  BY <1>1, <1>2
<1>4. L * (d + 1) <= L * k
  BY <1>1, <1>3
<1> QED
  BY <1>1, <1>4

\* Guess number x past the lock, counted from it.
LEMMA PastLock ==
    ASSUME NEW x \in Nat, NEW M \in Nat, NEW L \in Nat, x >= M
    PROVE  /\ x - M + 1 \in Nat /\ (x - M + 1) * L \in Nat
           /\ x + 1 >= M /\ x + 1 = M + (x - M + 1)
           /\ ((x + 1) - M + 1) * L = (x - M + 1) * L + L
<1>1. PICK k \in Nat : k = x - M + 1
  OBVIOUS
<1>2. (x + 1) - M + 1 = k + 1 /\ x + 1 = M + k
  BY <1>1
<1>3. k * L \in Nat /\ (k + 1) * L = k * L + L
  OBVIOUS
<1> QED
  BY <1>1, <1>2, <1>3

LEMMA BudgetType == GuessesOf \in Nat /\ GuessesOf >= MaxAttempts
<1>1. Ttl - 1 \in Nat /\ LockoutSec \in Nat \ {0} /\ MaxAttempts \in Nat
  BY OtpAssumption DEF OtpAssumption
<1>2. (Ttl - 1) \div LockoutSec \in Nat
  BY <1>1
<1> QED
  BY <1>1, <1>2 DEF GuessesOf

\* One more wrong guess of a session that may still be tried.
LEMMA GuessOnce ==
    ASSUME NEW s \in Session, now \in Nat, s.created <= now, now < s.created + Ttl,
           s.locked_until # NoTime => s.locked_until <= now,
           s.attempts >= MaxAttempts =>
              /\ s.locked_until # NoTime
              /\ s.locked_until >= s.created + (s.attempts - MaxAttempts + 1) * LockoutSec
    PROVE  LET w == AfterWrong(s)
           IN  /\ w.created = s.created
               /\ w.attempts >= MaxAttempts =>
                     /\ w.locked_until # NoTime
                     /\ w.locked_until >= w.created + (w.attempts - MaxAttempts + 1) * LockoutSec
               /\ w.attempts <= GuessesOf
<1>1. /\ Ttl \in Nat \ {0} /\ LockoutSec \in Nat \ {0} /\ MaxAttempts \in Nat \ {0}
      /\ s.attempts \in Nat /\ s.created \in Nat
      /\ NoTime \notin Nat
  BY OtpAssumption DEF OtpAssumption, Session
<1> DEFINE a == s.attempts + 1
           w == AfterWrong(s)
<1>2. /\ w.created = s.created /\ w.attempts = a
      /\ w.locked_until = IF a >= MaxAttempts THEN now + LockoutSec ELSE s.locked_until
  BY DEF AfterWrong, Session
<1> HIDE DEF w
<1>3. CASE s.attempts < MaxAttempts
  <2>1. a <= MaxAttempts
    BY <1>1, <1>3
  <2>2. a >= MaxAttempts => (a - MaxAttempts + 1) * LockoutSec = LockoutSec
    BY <1>1, <2>1
  <2>3. a >= MaxAttempts =>
           /\ w.locked_until = now + LockoutSec /\ w.locked_until # NoTime
           /\ w.locked_until >= w.created + (w.attempts - MaxAttempts + 1) * LockoutSec
    BY <1>1, <1>2, <2>2
  <2>4. a <= GuessesOf
    BY <1>1, <2>1, BudgetType
  <2> QED
    BY <1>2, <2>3, <2>4 DEF w
<1>4. CASE s.attempts >= MaxAttempts
  <2> DEFINE k == s.attempts - MaxAttempts + 1
             p == k * LockoutSec
  <2>1. k \in Nat /\ a >= MaxAttempts /\ a = MaxAttempts + k
    BY <1>1, <1>4, PastLock
  <2>2. p \in Nat /\ (a - MaxAttempts + 1) * LockoutSec = p + LockoutSec
    BY <1>1, <1>4, PastLock
  <2>3. s.locked_until \in Nat /\ s.created + p <= s.locked_until /\ s.locked_until <= now
    BY <1>1, <1>4 DEF Session
  <2>4. s.created + p <= now
    <3> HIDE DEF p
    <3> QED
      BY <1>1, <2>2, <2>3
  <2>5. p <= Ttl - 1
    <3> HIDE DEF p
    <3> QED
      BY <1>1, <2>2, <2>4
  <2>6. k <= (Ttl - 1) \div LockoutSec
    <3>1. Ttl - 1 \in Nat
      BY <1>1
    <3> HIDE DEF k
    <3> QED
      BY <1>1, <2>1, <2>5, <3>1, DivBound
  <2>7. a <= GuessesOf
    <3>1. (Ttl - 1) \div LockoutSec \in Nat
      BY <1>1
    <3> HIDE DEF k, a
    <3> QED
      BY <1>1, <2>1, <2>6, <3>1 DEF GuessesOf
  <2>8. /\ w.locked_until = now + LockoutSec /\ w.locked_until # NoTime
        /\ (w.attempts - MaxAttempts + 1) * LockoutSec = p + LockoutSec
    BY <1>1, <1>2, <2>1, <2>2
  <2>9. w.locked_until >= w.created + (w.attempts - MaxAttempts + 1) * LockoutSec
    <3> HIDE DEF p
    <3> QED
      BY <1>1, <1>2, <2>2, <2>4, <2>8
  <2> QED
    BY <1>2, <2>7, <2>8, <2>9 DEF w
<1> QED
  BY <1>1, <1>3, <1>4

LEMMA GuessStep == TypeInv /\ GuessInv /\ [Next]_vars => GuessInv'
<1> SUFFICES ASSUME TypeInv, GuessInv, [Next]_vars PROVE GuessInv'
  OBVIOUS
<1>1. now \in Nat /\ now' \in Nat /\ \A i \in DOMAIN session : session[i] \in Session
  BY TypeStep, PlansAssumption DEF TypeInv, TypeOK, PlansTypeOK, PlansAssumption
<1>2. CASE UNCHANGED session /\ now' \in {now, now + 1}
  BY <1>1, <1>2 DEF GuessInv, Session, GuessesOf
<1>3. ASSUME NEW i \in DOMAIN session, Stored(i) PROVE GuessInv'
  <2>1. CASE session'[i] = AfterWrong(session[i]) /\ ~Lapsed(i) /\ ~Locked(i)
    <3>1. now < session[i].created + Ttl
      BY <1>1, <2>1, OtpAssumption DEF Lapsed, Session, OtpAssumption
    <3>2. session[i].locked_until # NoTime => session[i].locked_until <= now
      BY <1>1, <2>1 DEF Locked, Session
    <3> QED
      BY <1>1, <1>3, <2>1, <3>1, <3>2, GuessOnce DEF GuessInv, Stored, GuessesOf
  <2>2. ASSUME NEW st, session'[i] = [session[i] EXCEPT !.status = st] PROVE GuessInv'
    BY <1>1, <1>3, <2>2 DEF GuessInv, Stored, Session, GuessesOf
  <2> QED
    BY <1>3, <2>1, <2>2 DEF Stored
<1>4. ASSUME NEW n \in Number, NEW s \in Session, Sent(n, s) PROVE GuessInv'
  <2> SUFFICES ASSUME NEW i \in DOMAIN session'
               PROVE  /\ session'[i].created <= now'
                      /\ session'[i].attempts >= MaxAttempts =>
                            /\ session'[i].locked_until # NoTime
                            /\ session'[i].locked_until >= session'[i].created
                                  + (session'[i].attempts - MaxAttempts + 1) * LockoutSec
                      /\ session'[i].attempts <= GuessesOf
    BY DEF GuessInv, GuessesOf
  <2>1. CASE i \in DOMAIN session
    <3>1. session'[i] = Supersede(n)[i]
      BY <1>4, <2>1 DEF Sent
    <3>2. session[i].created <= now' /\ session[i].created \in Nat
      BY <1>1, <1>4, <2>1 DEF Sent, GuessInv, Session
    <3> QED
      BY <2>1, <3>1, <3>2, SentKeeps DEF GuessInv
  <2>2. CASE i = Len(session) + 1
    <3>1. session'[i].attempts = 0 /\ session'[i].created = now'
      BY <1>4, <2>2 DEF Sent
    <3> QED
      BY <1>1, <3>1, BudgetType, OtpAssumption DEF OtpAssumption
  <2> QED
    BY <1>4, <2>1, <2>2 DEF Sent
<1> QED
  BY <1>2, <1>3, <1>4, SessionSteps

\* A number's sessions of one window: the limiter is asked before each send.
LEMMA RateStep ==
    TypeInv /\ (\A n \in Number : Cardinality(RecentOf(n)) <= RateMax) /\ [Next]_vars
        => (\A n \in Number : Cardinality(RecentOf(n)) <= RateMax)'
<1> SUFFICES ASSUME TypeInv, \A n \in Number : Cardinality(RecentOf(n)) <= RateMax, [Next]_vars,
                    NEW n \in Number
             PROVE  Cardinality(RecentOf(n)') <= RateMax
  BY Zenon
<1>1. /\ now \in Nat /\ \A i \in DOMAIN session : session[i].created \in Nat
      /\ RateWindow \in Nat /\ RateMax \in Int
  <2>1. \A i \in DOMAIN session : session[i] \in Session
    BY DEF TypeInv, TypeOK
  <2>2. \A i \in DOMAIN session : session[i].created \in Nat
    BY <2>1 DEF Session
  <2> QED
    BY <2>2, PlansAssumption, OtpAssumption
       DEF TypeInv, TypeOK, PlansTypeOK, PlansAssumption, OtpAssumption
<1>2. IsFiniteSet(RecentOf(n))
  <2>1. IsFiniteSet(DOMAIN session)
    <3>1. DOMAIN session = 1..Len(session) /\ Len(session) \in Nat
      BY DEF TypeInv, TypeOK
    <3> QED
      BY <3>1, FS_Interval
  <2>2. RecentOf(n) \subseteq DOMAIN session
    BY DEF RecentOf, Of
  <2> QED
    BY <2>1, <2>2, FS_Subset
<1>3. Cardinality(RecentOf(n)) <= RateMax
  OBVIOUS
<1>4. ASSUME RecentOf(n)' \subseteq RecentOf(n) PROVE Cardinality(RecentOf(n)') <= RateMax
  BY <1>1, <1>2, <1>3, <1>4, NoLarger
<1>5. CASE UNCHANGED session /\ now' \in {now, now + 1}
  <2>1. RecentOf(n)' \subseteq RecentOf(n)
    BY <1>1, <1>5 DEF RecentOf, Of
  <2> QED
    BY <1>4, <2>1
<1>6. ASSUME NEW i \in DOMAIN session, Stored(i) PROVE Cardinality(RecentOf(n)') <= RateMax
  <2>1. RecentOf(n)' \subseteq RecentOf(n)
    BY <1>6, StoredKeeps DEF RecentOf, Of, Stored
  <2> QED
    BY <1>4, <2>1
<1>7. ASSUME NEW m \in Number, NEW s \in Session, Sent(m, s)
      PROVE  Cardinality(RecentOf(n)') <= RateMax
  <2>1. \A j \in DOMAIN session : j \in RecentOf(n)' => j \in RecentOf(n)
    <3> SUFFICES ASSUME NEW j \in DOMAIN session, j \in RecentOf(n)' PROVE j \in RecentOf(n)
      OBVIOUS
    <3>1. session'[j].phone = session[j].phone /\ session'[j].created = session[j].created
      BY <1>7, SentKeeps DEF Sent
    <3>2. now' \in {now, now + 1}
      BY <1>7 DEF Sent
    <3>3. session[j].phone = n /\ session[j].created + RateWindow > now'
      BY <3>1 DEF RecentOf, Of
    <3>4. session[j].created + RateWindow > now
      BY <1>1, <3>2, <3>3
    <3> QED
      BY <3>3, <3>4 DEF RecentOf, Of
  <2> DEFINE k == Len(session) + 1
  <2>2. DOMAIN session' = DOMAIN session \cup {k} /\ session'[k].phone = m
    BY <1>7 DEF Sent
  <2> HIDE DEF k
  <2>3. RecentOf(n)' \subseteq RecentOf(n) \cup {k} /\ (m # n => RecentOf(n)' \subseteq RecentOf(n))
    BY <2>1, <2>2 DEF RecentOf, Of
  <2>4. CASE m # n
    BY <1>4, <2>3, <2>4
  <2>5. CASE m = n
    <3>1. Cardinality(RecentOf(n)) <= RateMax - 1
      <4>1. Cardinality(RecentOf(n)) < RateMax
        BY <1>7, <2>5 DEF Sent, RateOk, RecentOf
      <4>2. Cardinality(RecentOf(n)) \in Nat
        BY <1>2, FS_CardinalityType
      <4> QED
        BY <1>1, <4>1, <4>2
    <3>2. RateMax - 1 \in Int /\ (RateMax - 1) + 1 = RateMax
      BY <1>1
    <3>3. Cardinality(RecentOf(n)') <= (RateMax - 1) + 1
      BY <1>2, <2>3, <3>1, <3>2, OneLarger
    <3> QED
      BY <3>2, <3>3
  <2> QED
    BY <2>4, <2>5
<1> QED
  BY <1>5, <1>6, <1>7, SessionSteps

BudgetInv == TypeInv /\ GuessInv /\ \A n \in Number : Cardinality(RecentOf(n)) <= RateMax

LEMMA BudgetInit == Init => BudgetInv
<1> SUFFICES ASSUME Init PROVE BudgetInv
  OBVIOUS
<1>1. GuessInv /\ \A n \in Number : RecentOf(n) = {}
  BY DEF Init, GuessInv, RecentOf, Of
<1>2. RateMax >= 0
  BY OtpAssumption DEF OtpAssumption
<1> QED
  BY <1>1, <1>2, TypeInit, FS_EmptySet DEF BudgetInv

LEMMA BudgetStep == BudgetInv /\ [Next]_vars => BudgetInv'
BY TypeStep, GuessStep, RateStep DEF BudgetInv

LEMMA BudgetIsEnough == BudgetInv => GuessBudget
BY DEF BudgetInv, GuessBudget, GuessInv, RecentOf, Of

\* Asking often is no way to guess a code (routes/otp.ts, OTP_MAX_ATTEMPTS, OTP_LOCKOUT_SEC
\* and the per-phone rate): for any limits, windows, numbers and counts of sessions.
THEOREM GuessesAreBounded == Spec => []GuessBudget
BY BudgetInit, BudgetStep, BudgetIsEnough, PTL DEF Spec

-----------------------------------------------------------------------------
(* The clients. *)

VerifyAnswer == {"verified", "otp_expired", "invalid_otp", "otp_locked", "unauthorized"}

CallInv ==
    /\ TypeInv
    /\ call \in Seq(Made) /\ Len(call) <= MaxCalls
    /\ \A c \in DOMAIN call :
          /\ call[c].op = "verify" => call[c].answer \in VerifyAnswer \union {NoAnswer}
          /\ call[c].got = "answer" => call[c].answer # NoAnswer

\* The ways the record of the calls may change.
Asked(m) ==
    /\ m \in Made /\ m.answer = NoAnswer /\ m.got = "nothing"
    /\ call' = Append(call, m) /\ Len(call) < MaxCalls

Ended(c, got) ==
    /\ got \in {"answer", "network"} /\ (got = "answer" => call[c].answer # NoAnswer)
    /\ call' = [call EXCEPT ![c] = [call[c] EXCEPT !.got = got]]

Opens(c, i) ==
    /\ i \in DOMAIN session /\ session[i].status = "pending"
    /\ i \in DOMAIN session' /\ session'[i].status = "verified" /\ call[c].code = i

Told(c, a, i) ==
    /\ call[c].answer = NoAnswer /\ a \in Answer /\ i \in 0..MaxSends
    /\ call[c].op = "verify" => /\ a \in VerifyAnswer
                                /\ a = "verified" => Opens(c, i)
    /\ call' = [call EXCEPT ![c] = [call[c] EXCEPT !.answer = a, !.of = i]]

CallStep ==
    \/ UNCHANGED call
    \/ \E m \in Made : Asked(m)
    \/ \E c \in DOMAIN call : \E got \in {"answer", "network"} : Ended(c, got)
    \/ \E c \in DOMAIN call : \E a \in Answer, i \in 0..MaxSends : Told(c, a, i)

\* A session that is verified stays so.
LEMMA VerifiedStays ==
    ASSUME TypeInv, [Next]_vars, NEW k \in DOMAIN session, session[k].status = "verified"
    PROVE  k \in DOMAIN session' /\ session'[k].status = "verified"
<1> USE DEF TypeInv, TypeOK
<1>1. ASSUME NEW i \in DOMAIN session, NEW s \in Session, session[i].status = "pending",
             session' = [session EXCEPT ![i] = s]
      PROVE  k \in DOMAIN session' /\ session'[k].status = "verified"
  BY <1>1
<1>2. ASSUME NEW n \in Number, (\E right \in BOOLEAN : Verify(n, right)) \/ Status(n)
      PROVE  \E i \in DOMAIN session, s \in Session :
                session[i].status = "pending" /\ session' = [session EXCEPT ![i] = s]
  <2>1. now \in Nat
    BY PlansAssumption DEF PlansTypeOK, PlansAssumption
  <2>2. \A i \in DOMAIN session : session[i] \in Session
    OBVIOUS
  <2>3. PICK i \in DOMAIN session :
          /\ session[i].status = "pending"
          /\ \/ Expire(i)
             \/ SetSession(i, [session[i] EXCEPT !.status = "verified"])
             \/ SetSession(i, AfterWrong(session[i]))
    BY <1>2 DEF Verify, Status, Newest, Pending, Of
  <2>4. /\ [session[i] EXCEPT !.status = "verified"] \in Session
        /\ [session[i] EXCEPT !.status = "expired"] \in Session
        /\ AfterWrong(session[i]) \in Session
    BY <2>1, <2>2, SessionUpdates
  <2> QED
    BY <2>3, <2>4 DEF Expire, SetSession
<1>3. ASSUME NEW n \in Number, NEW t \in {now, now + 1} \cap 0..MaxNow, Send(n, t)
      PROVE  k \in DOMAIN session' /\ session'[k].status = "verified"
  <2>1. CASE UNCHANGED session
    BY <2>1
  <2>2. CASE byodEligible(t) \/ CanPay(t)
    <3> DEFINE s == [phone |-> n, status |-> "pending", attempts |-> 0,
                     locked_until |-> NoTime, created |-> t, free |-> byodEligible(t)]
    <3>1. session' = Append(Supersede(n), s)
      BY <1>3, <2>2 DEF Send, CreateSession
    <3>2. t \in Nat /\ byodEligible(t) \in BOOLEAN
      BY PlansAssumption DEF PlansTypeOK, PlansAssumption, byodEligible
    <3>3. s \in Session
      BY <3>2 DEF Session
    <3> HIDE DEF s
    <3>4. k \in DOMAIN session' /\ session'[k] = Supersede(n)[k]
      BY <3>1, <3>3, Appended
    <3>5. Supersede(n)[k] = session[k]
      BY DEF Supersede, Pending
    <3> QED
      BY <3>4, <3>5
  <2> QED
    BY <1>3, <2>1, <2>2 DEF Send, CreateSession
<1>4. CASE UNCHANGED session
  BY <1>4
<1>5. ASSUME (PlanStep /\ UNCHANGED otpVars) \/ TopUp \/ Restart \/ Tick \/ UNCHANGED vars
      PROVE  UNCHANGED session
  BY <1>5 DEF TopUp, Restart, Tick, vars, otpVars
<1>6. ASSUME NEW n \in Number, (\E right \in BOOLEAN : Verify(n, right)) \/ Status(n)
      PROVE  k \in DOMAIN session' /\ session'[k].status = "verified"
  BY <1>1, <1>2, <1>6
<1> QED
  BY <1>3, <1>4, <1>5, <1>6 DEF Next

-----------------------------------------------------------------------------
(* Every step of the client and the server is a step of Otp, and changes    *)
(* the calls in one of the four ways.                                       *)

\* An answer that says nothing of a session that opened.
LEMMA Plainly ==
    ASSUME CallInv, NEW c \in DOMAIN call, call[c].answer = NoAnswer,
           NEW a \in Answer, NEW i \in 0..MaxSends, Replies(c, a, i),
           call[c].op = "verify" => a \in VerifyAnswer \ {"verified"}
    PROVE  CallStep
<1>1. [call EXCEPT ![c].answer = a, ![c].of = i]
         = [call EXCEPT ![c] = [call[c] EXCEPT !.answer = a, !.of = i]]
  <2>1. call[c] \in Made
    BY DEF CallInv
  <2> QED
    BY <2>1 DEF Made
<1>2. Told(c, a, i)
  BY <1>1 DEF Replies, Told
<1> QED
  BY <1>2 DEF CallStep

LEMMA NoSessionIsZero == 0 \in 0..MaxSends
BY OtpAssumption DEF OtpAssumption

LEMMA Held ==
    ASSUME CallInv
    PROVE  /\ DOMAIN session = 1..Len(session) /\ Len(session) \in 0..MaxSends
           /\ DOMAIN session \subseteq 0..MaxSends
           /\ \A c \in DOMAIN call : call[c] \in Made /\ call[c].phone \in Number
<1>1. DOMAIN session = 1..Len(session) /\ Len(session) \in Nat /\ Len(session) <= MaxSends
  BY DEF CallInv, TypeInv, TypeOK
<1>2. \A c \in DOMAIN call : call[c] \in Made
  BY DEF CallInv
<1>3. \A m \in Made : m.phone \in Number
  BY DEF Made
<1> QED
  BY <1>1, <1>2, <1>3, OtpAssumption DEF OtpAssumption

LEMMA StepOfSend ==
    ASSUME CallInv, NEW c \in DOMAIN call, NEW t \in {now, now + 1} \cap 0..MaxNow, HandlesSend(c, t)
    PROVE  [Next]_vars /\ CallStep
<1>1. call[c].phone \in Number /\ call[c].op = "send" /\ call[c].answer = NoAnswer
  BY Held DEF HandlesSend, Waits
<1>2. ASSUME NEW refusal \in SendRefusals(call[c].phone), Replies(c, refusal, 0), UNCHANGED vars
      PROVE  [Next]_vars /\ CallStep
  <2>1. refusal \in Answer
    BY DEF SendRefusals, Answer
  <2> QED
    BY <1>1, <1>2, <2>1, Plainly, NoSessionIsZero
<1>3. CASE Send(call[c].phone, t) /\ IF session' # session THEN Replies(c, "created", Len(session'))
                                     ELSE Replies(c, "insufficient_credits", 0)
  <2>1. Next
    BY <1>1, <1>3 DEF Next
  <2>2. TypeInv'
    BY <2>1, TypeStep DEF CallInv
  <2>3. Len(session') \in 0..MaxSends
    BY <2>2, OtpAssumption DEF TypeInv, TypeOK, OtpAssumption
  <2>4. {"created", "insufficient_credits"} \subseteq Answer
    BY DEF Answer
  <2>5. CallStep
    BY <1>1, <1>3, <2>3, <2>4, Plainly, NoSessionIsZero
  <2> QED
    BY <2>1, <2>5
<1> QED
  BY <1>2, <1>3 DEF HandlesSend

LEMMA StepOfStatus ==
    ASSUME CallInv, NEW c \in DOMAIN call, HandlesStatus(c)
    PROVE  [Next]_vars /\ CallStep
<1>1. call[c].phone \in Number /\ call[c].op = "status" /\ call[c].answer = NoAnswer
  BY Held DEF HandlesStatus, Waits
<1>2. CASE Replies(c, "not_found", 0) /\ UNCHANGED vars
  <2>1. "not_found" \in Answer
    BY DEF Answer
  <2> QED
    BY <1>1, <1>2, <2>1, Plainly, NoSessionIsZero
<1>3. ASSUME NEW i \in Of(call[c].phone), Status(call[c].phone), Replies(c, "expired", i)
      PROVE  [Next]_vars /\ CallStep
  <2>1. i \in 0..MaxSends /\ "expired" \in Answer
    BY Held DEF Of, Answer
  <2>2. CallStep
    BY <1>1, <1>3, <2>1, Plainly
  <2> QED
    BY <1>1, <1>3, <2>2 DEF Next
<1>4. ASSUME NEW i \in Newest(Of(call[c].phone)), Replies(c, session[i].status, i), UNCHANGED vars
      PROVE  [Next]_vars /\ CallStep
  <2>1. i \in DOMAIN session /\ i \in 0..MaxSends
    BY Held DEF Newest, Of
  <2>2. session[i] \in Session
    BY <2>1 DEF CallInv, TypeInv, TypeOK
  <2>3. session[i].status \in Answer
    BY <2>2 DEF Session, Answer
  <2> QED
    BY <1>1, <1>4, <2>1, <2>3, Plainly
<1> QED
  BY <1>2, <1>3, <1>4 DEF HandlesStatus

\* A verification that answers "verified" has just opened the pending session of its code.
LEMMA StepOfVerify ==
    ASSUME CallInv, NEW c \in DOMAIN call, HandlesVerify(c)
    PROVE  [Next]_vars /\ CallStep
<1> DEFINE n == call[c].phone
<1>1. n \in Number /\ call[c].op = "verify" /\ call[c].answer = NoAnswer
  BY Held DEF HandlesVerify, Waits
<1>2. {"otp_expired", "otp_locked", "invalid_otp", "verified"} \subseteq Answer \cap VerifyAnswer
  BY DEF Answer, VerifyAnswer
<1>3. ASSUME NEW a \in {"otp_expired", "otp_locked"}, Replies(c, a, 0),
             UNCHANGED vars \/ Verify(n, FALSE)
      PROVE  [Next]_vars /\ CallStep
  <2>1. CallStep
    BY <1>1, <1>2, <1>3, Plainly, NoSessionIsZero
  <2> QED
    BY <1>1, <1>3, <2>1 DEF Next
<1>4. ASSUME NEW i \in Newest(Pending(n)), ~Lapsed(i), Verify(n, call[c].code = i),
             Replies(c, CASE session'[i].status = "verified" -> "verified"
                          [] session'[i].locked_until # session[i].locked_until -> "otp_locked"
                          [] OTHER -> "invalid_otp", i)
      PROVE  [Next]_vars /\ CallStep
  <2>1. Next
    <3>1. (call[c].code = i) \in BOOLEAN
      OBVIOUS
    <3> QED
      BY <1>1, <1>4, <3>1 DEF Next
  <2>2. i \in DOMAIN session /\ i \in 0..MaxSends /\ session[i].status = "pending"
    BY Held DEF Newest, Pending, Of
  <2>3. CASE session'[i].status # "verified"
    <3>1. \E a \in {"otp_locked", "invalid_otp"} : Replies(c, a, i)
      BY <1>4, <2>3
    <3> QED
      BY <1>1, <1>2, <2>1, <2>2, <3>1, Plainly
  <2>4. CASE session'[i].status = "verified"
    <3>1. PICK j \in Newest(Pending(n)) :
             IF Lapsed(j) THEN Expire(j)
             ELSE SetSession(j, IF call[c].code = i THEN [session[j] EXCEPT !.status = "verified"]
                                ELSE AfterWrong(session[j]))
      BY <1>4 DEF Verify
    <3>2. j \in DOMAIN session /\ session[j] \in Session
      BY DEF Newest, Pending, Of, CallInv, TypeInv, TypeOK
    <3>3. j = i
      BY <2>2, <2>4, <3>1 DEF SetSession, Expire
    <3>4. call[c].code = i /\ DOMAIN session' = DOMAIN session
      <4>1. AfterWrong(session[i]).status = "pending"
        BY <2>2, <3>2, <3>3 DEF AfterWrong, Session
      <4>2. DOMAIN session' = DOMAIN session
        <5>1. \E s : session' = [session EXCEPT ![i] = s]
          BY <3>1, <3>3 DEF SetSession, Expire
        <5> QED
          BY <5>1 DEF CallInv, TypeInv, TypeOK
      <4>3. ASSUME call[c].code # i PROVE FALSE
        <5>1. session' = [session EXCEPT ![i] = AfterWrong(session[i])]
          BY <1>4, <3>1, <3>3, <4>3 DEF SetSession
        <5>2. session'[i] = AfterWrong(session[i])
          BY <2>2, <5>1 DEF CallInv, TypeInv, TypeOK
        <5> QED
          BY <2>4, <4>1, <5>2
      <4> QED
        BY <4>2, <4>3
    <3>5. Opens(c, i)
      BY <2>2, <2>4, <3>4 DEF Opens
    <3>6. Replies(c, "verified", i)
      <4>1. session' = [session EXCEPT ![i] = [session[i] EXCEPT !.status = "verified"]]
        BY <1>4, <3>1, <3>3, <3>4 DEF SetSession
      <4>2. session'[i] = [session[i] EXCEPT !.status = "verified"]
        BY <2>2, <4>1 DEF CallInv, TypeInv, TypeOK
      <4>3. session'[i].locked_until = session[i].locked_until
        BY <3>2, <3>3, <4>2 DEF Session
      <4> QED
        BY <1>4, <2>4, <4>3
    <3>7. [call EXCEPT ![c].answer = "verified", ![c].of = i]
            = [call EXCEPT ![c] = [call[c] EXCEPT !.answer = "verified", !.of = i]]
      <4>1. call[c] \in Made
        BY Held
      <4> QED
        BY <4>1 DEF Made
    <3>8. Told(c, "verified", i)
      BY <1>1, <1>2, <2>2, <3>5, <3>6, <3>7 DEF Told, Replies
    <3> QED
      BY <1>2, <2>1, <2>2, <3>8 DEF CallStep
  <2> QED
    BY <2>3, <2>4
<1> QED
  BY <1>3, <1>4 DEF HandlesVerify

\* The server's own work, and the calls': each step of SdkNext.
LEMMA StepIsCovered == CallInv /\ [SdkNext]_sdkVars => [Next]_vars /\ CallStep
<1> SUFFICES ASSUME CallInv, [SdkNext]_sdkVars PROVE [Next]_vars /\ CallStep
  OBVIOUS
<1>1. ASSUME NEW n \in Number, NEW op \in {"send", "verify", "status"},
             NEW code \in 0..Len(session), Asks(op, n, code)
      PROVE  [Next]_vars /\ CallStep
  <2> DEFINE m == [op |-> op, phone |-> n, code |-> code,
                   answer |-> NoAnswer, of |-> 0, got |-> "nothing"]
  <2>1. code \in 0..MaxSends
    BY Held, OtpAssumption DEF OtpAssumption
  <2>2. m \in Made
    BY <2>1, NoSessionIsZero DEF Made
  <2>3. Asked(m)
    BY <1>1, <2>2 DEF Asks, Asked
  <2> QED
    BY <1>1, <2>2, <2>3 DEF Asks, CallStep
<1>2. ASSUME NEW c \in DOMAIN call, Returns(c) \/ TimesOut(c)
      PROVE  [Next]_vars /\ CallStep
  <2>1. \E got \in {"answer", "network"} : Ended(c, got)
    BY <1>2 DEF Returns, TimesOut, Ended
  <2> QED
    BY <1>2, <2>1 DEF Returns, TimesOut, CallStep
<1>3. ASSUME NEW c \in DOMAIN call, Refuses(c)
      PROVE  [Next]_vars /\ CallStep
  <2>1. "unauthorized" \in Answer /\ "unauthorized" \in VerifyAnswer \ {"verified"}
    BY DEF Answer, VerifyAnswer
  <2> QED
    BY <1>3, <2>1, Plainly, NoSessionIsZero DEF Refuses
<1>4. ASSUME (PlanStep /\ UNCHANGED <<otpVars, call>>) \/ (TopUp /\ UNCHANGED call)
             \/ (Restart /\ UNCHANGED call) \/ (Tick /\ UNCHANGED call)
      PROVE  [Next]_vars /\ CallStep
  BY <1>4 DEF Next, CallStep
<1>5. CASE UNCHANGED sdkVars
  BY <1>5 DEF sdkVars, CallStep
<1>6. 0 \in 0..Len(session)
  BY Held
<1>7. ASSUME NEW n \in Number,
             SendOtp(n) \/ GetOtpStatus(n) \/ \E code \in 0..Len(session) : VerifyOtp(n, code)
      PROVE  [Next]_vars /\ CallStep
  BY <1>1, <1>6, <1>7 DEF SendOtp, GetOtpStatus, VerifyOtp
<1> QED
  BY <1>2, <1>3, <1>4, <1>5, <1>7, StepOfSend, StepOfStatus, StepOfVerify DEF SdkNext

-----------------------------------------------------------------------------
(* The calls keep their types, and what was told of a session stays true.   *)

LEMMA CallsKept ==
    ASSUME CallInv, [SdkNext]_sdkVars
    PROVE  CallInv'
<1>1. TypeInv' /\ CallStep
  BY StepIsCovered, TypeStep DEF CallInv
<1> DEFINE Fits(k) == /\ k.op = "verify" => k.answer \in VerifyAnswer \union {NoAnswer}
                      /\ k.got = "answer" => k.answer # NoAnswer
<1>2. \A c \in DOMAIN call : call[c] \in Made /\ Fits(call[c])
  BY DEF CallInv
<1>3. call \in Seq(Made) /\ Len(call) <= MaxCalls
  BY DEF CallInv
<1>4. ASSUME NEW c \in DOMAIN call, NEW k \in Made, Fits(k), call' = [call EXCEPT ![c] = k]
      PROVE  CallInv'
  <2>1. call' \in Seq(Made) /\ Len(call') = Len(call)
    BY <1>3, <1>4
  <2>2. \A d \in DOMAIN call' : Fits(call'[d])
    BY <1>2, <1>3, <1>4
  <2> QED
    BY <1>1, <1>3, <2>1, <2>2 DEF CallInv
<1>5. ASSUME NEW m \in Made, Asked(m) PROVE CallInv'
  <2>1. Fits(m)
    BY <1>5 DEF Asked
  <2>2. call' \in Seq(Made) /\ Len(call') <= MaxCalls
    BY <1>3, <1>5, SdkAssumption DEF Asked, SdkAssumption
  <2>3. \A d \in DOMAIN call' : Fits(call'[d])
    BY <1>2, <1>3, <1>5, <2>1 DEF Asked
  <2> QED
    BY <1>1, <2>2, <2>3 DEF CallInv
<1>6. ASSUME NEW c \in DOMAIN call, NEW got \in {"answer", "network"}, Ended(c, got) PROVE CallInv'
  <2> DEFINE k == [call[c] EXCEPT !.got = got]
  <2>1. k \in Made /\ k.op = call[c].op /\ k.answer = call[c].answer /\ k.got = got
    BY <1>2 DEF Made
  <2>2. Fits(k)
    BY <1>2, <1>6, <2>1 DEF Ended
  <2>3. call' = [call EXCEPT ![c] = k]
    BY <1>6 DEF Ended
  <2> HIDE DEF k, Fits
  <2> QED
    BY <1>4, <2>1, <2>2, <2>3
<1>7. ASSUME NEW c \in DOMAIN call, NEW a \in Answer, NEW i \in 0..MaxSends, Told(c, a, i)
      PROVE  CallInv'
  <2> DEFINE k == [call[c] EXCEPT !.answer = a, !.of = i]
  <2>1. k \in Made /\ k.op = call[c].op /\ k.answer = a
    BY <1>2 DEF Made
  <2>2. Fits(k)
    BY <1>7, <2>1, SdkAssumption DEF Told, SdkAssumption
  <2>3. call' = [call EXCEPT ![c] = k]
    BY <1>7 DEF Told
  <2> HIDE DEF k, Fits
  <2> QED
    BY <1>4, <2>1, <2>2, <2>3
<1>8. CASE UNCHANGED call
  BY <1>1, <1>8 DEF CallInv
<1> QED
  BY <1>1, <1>5, <1>6, <1>7, <1>8 DEF CallStep

LEMMA CallsBegin == SdkInit => CallInv
BY TypeInit, SdkAssumption DEF SdkInit, CallInv, SdkAssumption

\* The types of the client's calls, next to those of the sessions and the plan.
THEOREM SdkTypes == SdkSpec => []SdkTypeOK
<1>1. CallInv => SdkTypeOK
  BY DEF CallInv, SdkTypeOK, TypeInv
<1> QED
  BY <1>1, CallsBegin, CallsKept, PTL DEF SdkSpec

\* However the calls overlap, time out, are handled late or lose their answers, the
\* server's part of a behaviour is one of Otp: what holds of the OTP plane (FreeIsCovered,
\* CreditsSpent, GuessBudget) holds behind the SDKs.
THEOREM SdkImplementsOtp == SdkSpec => Spec
<1>1. SdkInit => Init
  BY DEF SdkInit
<1>2. CallInv /\ [SdkNext]_sdkVars => [Next]_vars
  BY StepIsCovered
<1> QED
  BY <1>1, <1>2, CallsBegin, CallsKept, PTL DEF SdkSpec, Spec

-----------------------------------------------------------------------------
(* CodeOpensOnce is inductive with two facts: the session of a call that was *)
(* answered "verified" is verified, and no two such calls share one.         *)

Opened == {c \in DOMAIN call : call[c].op = "verify" /\ call[c].answer = "verified"}

DoorsInv ==
    /\ \A c \in Opened : /\ call[c].of \in DOMAIN session
                          /\ session[call[c].of].status = "verified"
                          /\ call[c].code = call[c].of
    /\ \A c, d \in Opened : call[c].of = call[d].of => c = d

\* What the apps understand as "true" is what the server said.
LEMMA ConfirmedIsOpened ==
    ASSUME CallInv, NEW c \in DOMAIN call, Confirms(c)
    PROVE  c \in Opened
<1>1. call[c].op = "verify" /\ call[c].answer # NoAnswer
  BY DEF CallInv, Confirms, Known
<1>2. call[c].answer \in VerifyAnswer
  BY <1>1 DEF CallInv
<1>3. ASSUME NEW a \in VerifyAnswer \ {"verified"}
      PROVE  parseVerifyResponse(a) # "true" /\ verifyOtp(a) # "true"
  BY <1>3 DEF VerifyAnswer, parseVerifyResponse, verifyOtp, failureFor, errorFrom
<1> QED
  BY <1>1, <1>2, <1>3 DEF Confirms, Opened

LEMMA DoorsStep == CallInv /\ DoorsInv /\ [SdkNext]_sdkVars => DoorsInv'
<1> SUFFICES ASSUME CallInv, DoorsInv, [SdkNext]_sdkVars PROVE DoorsInv'
  OBVIOUS
<1>1. CallStep /\ [Next]_vars /\ TypeInv
  BY StepIsCovered DEF CallInv
<1>2. \A k \in DOMAIN session : session[k].status = "verified" =>
         k \in DOMAIN session' /\ session'[k].status = "verified"
  BY <1>1, VerifiedStays
<1>3. call \in Seq(Made)
  BY DEF CallInv
<1>4. ASSUME Opened' = Opened,
             \A c \in Opened : call'[c].of = call[c].of /\ call'[c].code = call[c].code
      PROVE  DoorsInv'
  BY <1>2, <1>4 DEF DoorsInv
<1>5. CASE UNCHANGED call
  BY <1>4, <1>5 DEF Opened
<1>6. ASSUME NEW m \in Made, Asked(m) PROVE DoorsInv'
  <2>1. m.answer # "verified"
    BY <1>6, SdkAssumption DEF Asked, SdkAssumption, Answer
  <2>2. /\ DOMAIN call' = DOMAIN call \union {Len(call) + 1}
        /\ call'[Len(call) + 1] = m
        /\ \A c \in DOMAIN call : call'[c] = call[c] /\ c # Len(call) + 1
    BY <1>3, <1>6 DEF Asked
  <2> QED
    BY <1>4, <2>1, <2>2 DEF Opened
<1>7. ASSUME NEW c \in DOMAIN call, NEW k \in Made, call' = [call EXCEPT ![c] = k]
      PROVE  /\ DOMAIN call' = DOMAIN call /\ call'[c] = k
             /\ \A d \in DOMAIN call \ {c} : call'[d] = call[d]
  BY <1>3, <1>7
<1>8. ASSUME NEW c \in DOMAIN call, NEW got \in {"answer", "network"}, Ended(c, got) PROVE DoorsInv'
  <2> DEFINE k == [call[c] EXCEPT !.got = got]
  <2>1. /\ k \in Made /\ k.op = call[c].op /\ k.answer = call[c].answer
        /\ k.of = call[c].of /\ k.code = call[c].code
    <3>1. call[c] \in Made
      BY <1>3
    <3> QED
      BY <3>1 DEF Made
  <2>2. call' = [call EXCEPT ![c] = k]
    BY <1>8 DEF Ended
  <2> HIDE DEF k
  <2> QED
    BY <1>4, <1>7, <2>1, <2>2 DEF Opened
<1>9. ASSUME NEW c \in DOMAIN call, NEW a \in Answer, NEW i \in 0..MaxSends, Told(c, a, i)
      PROVE  DoorsInv'
  <2> DEFINE k == [call[c] EXCEPT !.answer = a, !.of = i]
  <2>1. /\ k \in Made /\ k.op = call[c].op /\ k.answer = a
        /\ k.of = i /\ k.code = call[c].code
    <3>1. call[c] \in Made
      BY <1>3
    <3> QED
      BY <3>1 DEF Made
  <2>2. call' = [call EXCEPT ![c] = k]
    BY <1>9 DEF Told
  <2>3. c \notin Opened
    BY <1>9, SdkAssumption DEF Told, Opened, SdkAssumption, Answer
  <2> HIDE DEF k
  <2>4. CASE ~(call[c].op = "verify" /\ a = "verified")
    BY <1>4, <1>7, <2>1, <2>2, <2>3, <2>4 DEF Opened
  <2>5. CASE call[c].op = "verify" /\ a = "verified"
    <3>1. Opens(c, i)
      BY <1>9, <2>5 DEF Told
    <3>2. Opened' = Opened \union {c}
      BY <1>7, <2>1, <2>2, <2>5 DEF Opened
    <3>3. \A d \in Opened : call'[d] = call[d] /\ call[d].of # i
      BY <1>7, <2>1, <2>2, <2>3, <3>1 DEF Opened, Opens, DoorsInv
    <3>4. call'[c].of = i /\ call'[c].code = i
      BY <1>7, <2>1, <2>2, <3>1 DEF Opens
    <3> QED
      BY <1>2, <3>1, <3>2, <3>3, <3>4 DEF DoorsInv, Opens
  <2> QED
    BY <2>4, <2>5
<1> QED
  BY <1>1, <1>5, <1>6, <1>8, <1>9 DEF CallStep

LEMMA DoorsAreEnough == CallInv /\ DoorsInv => CodeOpensOnce
<1> SUFFICES ASSUME CallInv, DoorsInv, NEW i \in DOMAIN session
             PROVE  LET confirmed == {c \in DOMAIN call : call[c].of = i /\ Confirms(c)}
                    IN  /\ Cardinality(confirmed) <= 1
                        /\ \A c \in confirmed : call[c].code = i /\ session[i].status = "verified"
  BY DEF CodeOpensOnce
<1> DEFINE confirmed == {c \in DOMAIN call : call[c].of = i /\ Confirms(c)}
<1>1. \A c \in confirmed : c \in Opened /\ call[c].of = i
  BY ConfirmedIsOpened
<1>2. \A c, d \in confirmed : c = d
  BY <1>1 DEF DoorsInv
<1>3. Cardinality(confirmed) <= 1
  <2>1. CASE confirmed = {}
    BY <2>1, FS_EmptySet
  <2>2. CASE confirmed # {}
    <3>1. PICK c : confirmed = {c}
      BY <1>2, <2>2
    <3> HIDE DEF confirmed
    <3>2. Cardinality({c}) = 1
      BY FS_Singleton, Zenon
    <3> QED
      BY <3>1, <3>2
  <2> QED
    BY <2>1, <2>2
<1> QED
  BY <1>1, <1>3 DEF DoorsInv

\* Of all the calls that carried a code, one at most is confirmed to the app, and it
\* is the one that verified the session; for any number of calls, codes and numbers.
THEOREM CodesOpenOnce == SdkSpec => []CodeOpensOnce
<1>1. SdkInit => DoorsInv
  BY DEF SdkInit, DoorsInv, Opened
<1> QED
  BY <1>1, CallsBegin, CallsKept, DoorsStep, DoorsAreEnough, PTL DEF SdkSpec

-----------------------------------------------------------------------------
(* What a call costs and what its answer said.  Calm steps cost no guess.    *)

Calm ==
    \A i \in DOMAIN session' :
        session'[i].attempts = IF i \in DOMAIN session THEN session[i].attempts ELSE 0

Guessed(c, i) ==
    /\ i \in DOMAIN session /\ session[i].status = "pending" /\ call[c].code # i
    /\ session'[i].attempts = session[i].attempts + 1
    /\ \A j \in DOMAIN session' : j # i => session'[j].attempts = session[j].attempts
    /\ DOMAIN session' = DOMAIN session

Answered(c, a, i) == call' = [call EXCEPT ![c] = [call[c] EXCEPT !.answer = a, !.of = i]]

\* An answer, and what it was given for.
Says(c, a, i) ==
    /\ call[c].answer = NoAnswer /\ a \in Answer /\ Answered(c, a, i)
    /\ \/ call[c].op = "send" /\ Calm
       \/ /\ call[c].op = "status" /\ Calm
          /\ i = 0 \/ (i \in DOMAIN session /\ a = session'[i].status)
       \/ call[c].op = "verify" /\ Calm /\ i = 0 /\ a # "verified"
       \/ /\ call[c].op = "verify" /\ Calm /\ a = "verified"
          /\ Opens(c, i) /\ session[i].phone = call[c].phone
       \/ call[c].op = "verify" /\ Guessed(c, i) /\ a # "verified"

\* A reply is stored in the call it is for.
LEMMA ReplyStores ==
    ASSUME CallInv, NEW c \in DOMAIN call, NEW a, NEW i, Replies(c, a, i)
    PROVE  Answered(c, a, i)
<1>1. call[c] \in Made
  BY DEF CallInv
<1>2. [call EXCEPT ![c].answer = a, ![c].of = i]
         = [call EXCEPT ![c] = [call[c] EXCEPT !.answer = a, !.of = i]]
  BY <1>1 DEF Made
<1> QED
  BY <1>2 DEF Replies, Answered

LEMMA SilenceIsCalm == UNCHANGED session => Calm
BY DEF Calm

LEMMA SendIsCalm ==
    ASSUME TypeInv, NEW n \in Number, NEW t \in {now, now + 1} \cap 0..MaxNow, Send(n, t)
    PROVE  Calm
<1>1. CASE session' # session
  <2>1. PICK s \in Session : Sent(n, s)
    BY <1>1, SendSteps
  <2>2. \A j \in DOMAIN session : session'[j].attempts = session[j].attempts
    BY <2>1, SentKeeps DEF Sent
  <2>3. /\ DOMAIN session' = DOMAIN session \cup {Len(session) + 1}
        /\ session'[Len(session) + 1].attempts = 0
        /\ Len(session) + 1 \notin DOMAIN session
    BY <2>1 DEF Sent, TypeInv, TypeOK
  <2> QED
    BY <2>2, <2>3 DEF Calm
<1> QED
  BY <1>1, SilenceIsCalm

\* The outcome of one session, stored.
LEMMA OutcomeStored ==
    ASSUME TypeInv, NEW i \in DOMAIN session, NEW s, SetSession(i, s)
    PROVE  /\ DOMAIN session' = DOMAIN session /\ session'[i] = s
           /\ \A j \in DOMAIN session : j # i => session'[j] = session[j]
           /\ s.attempts = session[i].attempts => Calm
BY DEF SetSession, TypeInv, TypeOK, Calm

LEMMA ExpireIsCalm ==
    ASSUME TypeInv, NEW i \in DOMAIN session, Expire(i)
    PROVE  Calm /\ session'[i].status = "expired"
<1>1. session[i] \in Session
  BY DEF TypeInv, TypeOK
<1> DEFINE s == [session[i] EXCEPT !.status = "expired"]
<1>2. s.attempts = session[i].attempts /\ s.status = "expired" /\ SetSession(i, s)
  BY <1>1 DEF Session, Expire
<1> HIDE DEF s
<1> QED
  BY <1>2, OutcomeStored

\* The last pending session of a number is its newest.
LEMMA OneIsPending ==
    ASSUME TypeInv, LastInv, NEW n \in Number, NEW i \in Pending(n), NEW j \in Pending(n)
    PROVE  i = j
<1>1. i \in Nat /\ j \in Nat /\ i <= j /\ j <= i
  BY DEF TypeInv, TypeOK, LastInv, Pending, Of
<1> QED
  BY <1>1

\* What each answer says of the sessions as they are when it is made.
LEMMA VerifySays ==
    ASSUME CallInv, LastInv, NEW c \in DOMAIN call, HandlesVerify(c)
    PROVE  \E a, i : Says(c, a, i)
<1> DEFINE n == call[c].phone
<1>0. {"verified", "otp_expired", "otp_locked", "invalid_otp"} \subseteq Answer
  BY DEF Answer
<1>1. n \in Number /\ call[c].op = "verify" /\ call[c].answer = NoAnswer /\ TypeInv
  BY Held DEF HandlesVerify, Waits, CallInv
<1>2. \A i \in Newest(Pending(n)) :
         /\ i \in DOMAIN session /\ session[i].status = "pending" /\ session[i].phone = n
         /\ \A j \in Newest(Pending(n)) : i = j
  BY <1>1, OneIsPending DEF Newest, Pending, Of
<1>3. ASSUME NEW a \in {"otp_expired", "otp_locked"}, Replies(c, a, 0), UNCHANGED vars
      PROVE  Says(c, a, 0)
  <2>1. Answered(c, a, 0)
    BY <1>3, ReplyStores
  <2>2. Calm
    BY <1>3, SilenceIsCalm DEF vars, otpVars
  <2> QED
    BY <1>0, <1>1, <1>3, <2>1, <2>2 DEF Says
<1>4. ASSUME NEW i \in Newest(Pending(n)), Lapsed(i), Verify(n, FALSE), Replies(c, "otp_expired", 0)
      PROVE  Says(c, "otp_expired", 0)
  <2>1. Expire(i)
    BY <1>2, <1>4 DEF Verify
  <2>2. Calm
    BY <1>1, <1>2, <2>1, ExpireIsCalm
  <2>3. Answered(c, "otp_expired", 0)
    BY <1>4, ReplyStores
  <2> QED
    BY <1>0, <1>1, <2>2, <2>3 DEF Says
<1>5. ASSUME NEW i \in Newest(Pending(n)), ~Lapsed(i), Verify(n, call[c].code = i),
             NEW a, a = (CASE session'[i].status = "verified" -> "verified"
                           [] session'[i].locked_until # session[i].locked_until -> "otp_locked"
                           [] OTHER -> "invalid_otp"),
             Replies(c, a, i)
      PROVE  Says(c, a, i)
  <2>1. i \in DOMAIN session /\ session[i] \in Session
    BY <1>2 DEF CallInv, TypeInv, TypeOK
  <2>2. SetSession(i, IF call[c].code = i THEN [session[i] EXCEPT !.status = "verified"]
                      ELSE AfterWrong(session[i]))
    BY <1>2, <1>5 DEF Verify
  <2>3. Answered(c, a, i)
    BY <1>5, ReplyStores
  <2>4. CASE call[c].code = i
    <3> DEFINE s == [session[i] EXCEPT !.status = "verified"]
    <3>1. /\ s.status = "verified" /\ SetSession(i, s)
          /\ s.attempts = session[i].attempts /\ s.locked_until = session[i].locked_until
      BY <2>1, <2>2, <2>4 DEF Session
    <3> HIDE DEF s
    <3>2. /\ DOMAIN session' = DOMAIN session /\ session'[i].status = "verified" /\ Calm
          /\ session'[i].locked_until = session[i].locked_until
      BY <1>1, <2>1, <3>1, OutcomeStored
    <3>3. a = "verified"
      BY <1>5, <3>2
    <3>4. Opens(c, i)
      BY <1>2, <2>1, <2>4, <3>2 DEF Opens
    <3> QED
      BY <1>0, <1>1, <1>2, <2>3, <3>2, <3>3, <3>4 DEF Says
  <2>5. CASE call[c].code # i
    <3> DEFINE s == AfterWrong(session[i])
    <3>1. s.status = "pending" /\ s.attempts = session[i].attempts + 1 /\ SetSession(i, s)
      BY <1>2, <2>1, <2>2, <2>5 DEF Session, AfterWrong
    <3> HIDE DEF s
    <3>2. /\ DOMAIN session' = DOMAIN session /\ session'[i] = s
          /\ \A j \in DOMAIN session : j # i => session'[j] = session[j]
      BY <1>1, <2>1, <3>1, OutcomeStored
    <3>3. a \in {"otp_locked", "invalid_otp"}
      BY <1>5, <3>1, <3>2
    <3>4. Guessed(c, i)
      BY <1>2, <2>1, <2>5, <3>1, <3>2 DEF Guessed
    <3> QED
      BY <1>0, <1>1, <2>3, <3>3, <3>4 DEF Says
  <2> QED
    BY <2>4, <2>5
<1> QED
  BY <1>3, <1>4, <1>5 DEF HandlesVerify

LEMMA StatusSays ==
    ASSUME CallInv, NEW c \in DOMAIN call, HandlesStatus(c)
    PROVE  \E a, i : Says(c, a, i)
<1> DEFINE n == call[c].phone
<1>0. {"pending", "verified", "expired", "not_found"} \subseteq Answer
  BY DEF Answer
<1>1. n \in Number /\ call[c].op = "status" /\ call[c].answer = NoAnswer /\ TypeInv
  BY Held DEF HandlesStatus, Waits, CallInv
<1>2. ASSUME Replies(c, "not_found", 0), UNCHANGED vars PROVE Says(c, "not_found", 0)
  <2>1. Answered(c, "not_found", 0)
    BY <1>2, ReplyStores
  <2>2. Calm
    BY <1>2, SilenceIsCalm DEF vars, otpVars
  <2> QED
    BY <1>0, <1>1, <2>1, <2>2 DEF Says
<1>3. ASSUME NEW i \in Of(n), Status(n), session'[i] # session[i], Replies(c, "expired", i)
      PROVE  Says(c, "expired", i)
  <2>1. PICK k \in DOMAIN session : Expire(k)
    BY <1>3 DEF Status, Newest, Of
  <2>2. Calm /\ session'[k].status = "expired"
    BY <1>1, <2>1, ExpireIsCalm
  <2>3. k = i /\ i \in DOMAIN session
    BY <1>1, <1>3, <2>1, OutcomeStored DEF Expire, Of
  <2>4. Answered(c, "expired", i)
    BY <1>3, ReplyStores
  <2> QED
    BY <1>0, <1>1, <2>2, <2>3, <2>4 DEF Says
<1>4. ASSUME NEW i \in Newest(Of(n)), Replies(c, session[i].status, i), UNCHANGED vars
      PROVE  Says(c, session[i].status, i)
  <2>1. Answered(c, session[i].status, i)
    BY <1>4, ReplyStores
  <2>2. Calm /\ session' = session /\ i \in DOMAIN session
    BY <1>4, SilenceIsCalm DEF vars, otpVars, Newest, Of
  <2>3. session[i].status \in {"pending", "verified", "expired"}
    <3>1. session[i] \in Session
      BY <1>1, <2>2 DEF TypeInv, TypeOK
    <3> QED
      BY <3>1 DEF Session
  <2> QED
    BY <1>0, <1>1, <2>1, <2>2, <2>3 DEF Says
<1> QED
  BY <1>2, <1>3, <1>4 DEF HandlesStatus

LEMMA SendSays ==
    ASSUME CallInv, NEW c \in DOMAIN call, NEW t \in {now, now + 1} \cap 0..MaxNow, HandlesSend(c, t)
    PROVE  \E a, i : Says(c, a, i)
<1>1. call[c].phone \in Number /\ call[c].op = "send" /\ call[c].answer = NoAnswer /\ TypeInv
  BY Held DEF HandlesSend, Waits, CallInv
<1>2. \E a \in Answer : \E i : Answered(c, a, i)
  <2>1. \E a \in Answer : \E i : Replies(c, a, i)
    BY DEF HandlesSend, SendRefusals, Answer
  <2> QED
    BY <2>1, ReplyStores
<1>3. Calm
  BY <1>1, SilenceIsCalm, SendIsCalm DEF HandlesSend, vars, otpVars
<1> QED
  BY <1>1, <1>2, <1>3 DEF Says

\* Every step either tells a call its answer or is calm and tells nothing.
LEMMA StepSays ==
    CallInv /\ LastInv /\ [SdkNext]_sdkVars =>
        \/ \E c \in DOMAIN call : \E a, i : Says(c, a, i)
        \/ Calm /\ UNCHANGED call
        \/ Calm /\ \E m \in Made : m.of = 0 /\ Asked(m)
        \/ Calm /\ \E c \in DOMAIN call : \E got \in {"answer", "network"} : Ended(c, got)
<1> SUFFICES ASSUME CallInv, LastInv, [SdkNext]_sdkVars
             PROVE  \/ \E c \in DOMAIN call : \E a, i : Says(c, a, i)
                    \/ Calm /\ UNCHANGED call
                    \/ Calm /\ \E m \in Made : m.of = 0 /\ Asked(m)
                    \/ Calm /\ \E c \in DOMAIN call : \E got \in {"answer", "network"} : Ended(c, got)
  OBVIOUS
<1>1. ASSUME NEW n \in Number, NEW op \in {"send", "verify", "status"},
             NEW code \in 0..Len(session), Asks(op, n, code)
      PROVE  Calm /\ \E m \in Made : m.of = 0 /\ Asked(m)
  <2> DEFINE m == [op |-> op, phone |-> n, code |-> code,
                   answer |-> NoAnswer, of |-> 0, got |-> "nothing"]
  <2>1. code \in 0..MaxSends
    BY Held, OtpAssumption DEF OtpAssumption
  <2>2. m \in Made /\ m.of = 0
    BY <2>1, NoSessionIsZero DEF Made
  <2>3. Asked(m)
    BY <1>1, <2>2 DEF Asks, Asked
  <2>4. Calm
    BY <1>1, SilenceIsCalm DEF Asks, vars, otpVars
  <2> QED
    BY <2>2, <2>3, <2>4
<1>2. ASSUME NEW c \in DOMAIN call, Returns(c) \/ TimesOut(c)
      PROVE  Calm /\ \E got \in {"answer", "network"} : Ended(c, got)
  <2>1. \E got \in {"answer", "network"} : Ended(c, got)
    BY <1>2 DEF Returns, TimesOut, Ended
  <2>2. Calm
    BY <1>2, SilenceIsCalm DEF Returns, TimesOut, vars, otpVars
  <2> QED
    BY <2>1, <2>2
<1>3. ASSUME NEW c \in DOMAIN call, Refuses(c) PROVE \E a, i : Says(c, a, i)
  <2>1. Answered(c, "unauthorized", 0)
    BY <1>3, ReplyStores DEF Refuses
  <2>2. Calm
    BY <1>3, SilenceIsCalm DEF Refuses, vars, otpVars
  <2>3. call[c].op \in {"send", "verify", "status"}
    BY Held DEF Made
  <2> QED
    BY <1>3, <2>1, <2>2, <2>3 DEF Refuses, Says, Answer
<1>4. ASSUME (PlanStep /\ UNCHANGED <<otpVars, call>>) \/ (TopUp /\ UNCHANGED call)
             \/ (Restart /\ UNCHANGED call) \/ (Tick /\ UNCHANGED call) \/ UNCHANGED sdkVars
      PROVE  Calm /\ UNCHANGED call
  BY <1>4, SilenceIsCalm DEF TopUp, Restart, Tick, sdkVars, vars, otpVars
<1>5. 0 \in 0..Len(session)
  BY Held
<1>6. ASSUME NEW n \in Number,
             SendOtp(n) \/ GetOtpStatus(n) \/ \E code \in 0..Len(session) : VerifyOtp(n, code)
      PROVE  Calm /\ \E m \in Made : m.of = 0 /\ Asked(m)
  BY <1>1, <1>5, <1>6 DEF SendOtp, GetOtpStatus, VerifyOtp
<1> QED
  BY <1>2, <1>3, <1>4, <1>6, SendSays, StatusSays, VerifySays DEF SdkNext

\* What the client was told is of a session that is there, and what is final stays so.
KnownInv ==
    \A c \in DOMAIN call :
        /\ call[c].answer = NoAnswer => call[c].of = 0
        /\ call[c].op = "verify" => call[c].of \in {0} \cup DOMAIN session
        /\ call[c].op = "verify" /\ call[c].answer = "verified" =>
              session[call[c].of].phone = call[c].phone
        /\ call[c].op = "status" /\ call[c].of # 0 =>
              /\ call[c].of \in DOMAIN session
              /\ call[c].answer \in {"pending", "verified", "expired"}
              /\ call[c].answer = "expired" => session[call[c].of].status = "expired"

\* A session keeps its number and, once decided, its status.
LEMMA SessionsStay ==
    ASSUME TypeInv, LastInv, [Next]_vars, NEW i \in DOMAIN session
    PROVE  /\ i \in DOMAIN session' /\ session'[i].phone = session[i].phone
           /\ session[i].status # "pending" => session'[i].status = session[i].status
           /\ session'[i].status \in {"pending", "verified", "expired"}
<1>1. i \in DOMAIN session' /\ session'[i].phone = session[i].phone
  <2>1. ASSUME NEW k \in DOMAIN session, Stored(k)
        PROVE  i \in DOMAIN session' /\ session'[i].phone = session[i].phone
    BY <2>1, StoredKeeps DEF Stored
  <2>2. ASSUME NEW n \in Number, NEW s \in Session, Sent(n, s)
        PROVE  i \in DOMAIN session' /\ session'[i].phone = session[i].phone
    BY <2>2, SentKeeps DEF Sent
  <2> QED
    BY <2>1, <2>2, SessionSteps
<1>2. TypeInv'
  BY TypeStep
<1>3. session'[i].status \in {"pending", "verified", "expired"}
  <2>1. session'[i] \in Session
    BY <1>1, <1>2 DEF TypeInv, TypeOK
  <2> QED
    BY <2>1 DEF Session
<1>4. session'[i].status # session[i].status => session[i].status = "pending"
  BY OnlyTheLastStep
<1> QED
  BY <1>1, <1>3, <1>4

\* One call takes its answer, the others stand.
LEMMA OneAnswered ==
    ASSUME CallInv, NEW c \in DOMAIN call, NEW a, NEW i, Answered(c, a, i)
    PROVE  /\ DOMAIN call' = DOMAIN call
           /\ \A d \in DOMAIN call : d # c => call'[d] = call[d]
           /\ call'[c].answer = a /\ call'[c].of = i
           /\ call'[c].op = call[c].op /\ call'[c].phone = call[c].phone
           /\ call'[c].code = call[c].code /\ call'[c].got = call[c].got
<1>1. call \in Seq(Made) /\ call[c] \in Made
  BY DEF CallInv
<1> DEFINE k == [call[c] EXCEPT !.answer = a, !.of = i]
<1>2. /\ k.answer = a /\ k.of = i /\ k.op = call[c].op
      /\ k.phone = call[c].phone /\ k.code = call[c].code /\ k.got = call[c].got
  BY <1>1 DEF Made
<1>3. call' = [call EXCEPT ![c] = k]
  BY DEF Answered
<1> HIDE DEF k
<1>4. DOMAIN call' = DOMAIN call /\ call'[c] = k /\ \A d \in DOMAIN call : d # c => call'[d] = call[d]
  BY <1>1, <1>3
<1> QED
  BY <1>2, <1>4

\* A call asked or ended changes nothing of what was told.
LEMMA OthersStand ==
    ASSUME CallInv,
           \/ UNCHANGED call
           \/ \E m \in Made : m.of = 0 /\ Asked(m)
           \/ \E c \in DOMAIN call : \E got \in {"answer", "network"} : Ended(c, got)
    PROVE  /\ DOMAIN call \subseteq DOMAIN call'
           /\ \A d \in DOMAIN call :
                 /\ call'[d].answer = call[d].answer /\ call'[d].of = call[d].of
                 /\ call'[d].op = call[d].op /\ call'[d].phone = call[d].phone
                 /\ call'[d].code = call[d].code
           /\ \A d \in DOMAIN call' \ DOMAIN call : call'[d].of = 0 /\ call'[d].answer = NoAnswer
<1>1. call \in Seq(Made)
  BY DEF CallInv
<1>2. CASE UNCHANGED call
  BY <1>2
<1>3. ASSUME NEW m \in Made, m.of = 0, Asked(m)
      PROVE  /\ DOMAIN call' = DOMAIN call \union {Len(call) + 1}
             /\ call'[Len(call) + 1] = m /\ m.answer = NoAnswer
             /\ \A d \in DOMAIN call : call'[d] = call[d]
  BY <1>1, <1>3 DEF Asked
<1>4. ASSUME NEW c \in DOMAIN call, NEW got \in {"answer", "network"}, Ended(c, got)
      PROVE  /\ DOMAIN call' = DOMAIN call
             /\ \A d \in DOMAIN call :
                   /\ call'[d].answer = call[d].answer /\ call'[d].of = call[d].of
                   /\ call'[d].op = call[d].op /\ call'[d].phone = call[d].phone
                   /\ call'[d].code = call[d].code
  <2> DEFINE k == [call[c] EXCEPT !.got = got]
  <2>1. /\ k.op = call[c].op /\ k.answer = call[c].answer
        /\ k.of = call[c].of /\ k.code = call[c].code /\ k.phone = call[c].phone
    <3>1. call[c] \in Made
      BY <1>1
    <3> QED
      BY <3>1 DEF Made
  <2>2. call' = [call EXCEPT ![c] = k]
    BY <1>4 DEF Ended
  <2> HIDE DEF k
  <2>3. DOMAIN call' = DOMAIN call /\ call'[c] = k /\ \A d \in DOMAIN call : d # c => call'[d] = call[d]
    BY <1>1, <2>2
  <2> QED
    BY <2>1, <2>3
<1> QED
  BY <1>2, <1>3, <1>4

LEMMA KnownStep == CallInv /\ LastInv /\ DoorsInv /\ KnownInv /\ [SdkNext]_sdkVars => KnownInv'
<1> SUFFICES ASSUME CallInv, LastInv, DoorsInv, KnownInv, [SdkNext]_sdkVars PROVE KnownInv'
  OBVIOUS
<1>1. TypeInv /\ [Next]_vars
  BY StepIsCovered DEF CallInv
<1> DEFINE Knows(d) ==
        /\ call[d].answer = NoAnswer => call[d].of = 0
        /\ call[d].op = "verify" => call[d].of \in {0} \cup DOMAIN session
        /\ call[d].op = "verify" /\ call[d].answer = "verified" =>
              session[call[d].of].phone = call[d].phone
        /\ call[d].op = "status" /\ call[d].of # 0 =>
              /\ call[d].of \in DOMAIN session
              /\ call[d].answer \in {"pending", "verified", "expired"}
              /\ call[d].answer = "expired" => session[call[d].of].status = "expired"
<1>2. ASSUME NEW d \in DOMAIN call, d \in DOMAIN call',
             call'[d].answer = call[d].answer, call'[d].of = call[d].of, call'[d].op = call[d].op,
             call'[d].phone = call[d].phone
      PROVE  Knows(d)'
  <2>1. Knows(d)
    BY DEF KnownInv
  <2>2. call[d].op = "verify" /\ call[d].answer = "verified" => call[d].of \in DOMAIN session
    BY DEF DoorsInv, Opened
  <2> QED
    BY <1>1, <1>2, <2>1, <2>2, SessionsStay
<1>3. CASE \/ UNCHANGED call
           \/ \E m \in Made : m.of = 0 /\ Asked(m)
           \/ \E c \in DOMAIN call : \E got \in {"answer", "network"} : Ended(c, got)
  <2> SUFFICES ASSUME NEW d \in DOMAIN call' PROVE Knows(d)'
    BY DEF KnownInv
  <2>1. CASE d \in DOMAIN call
    BY <1>2, <1>3, <2>1, OthersStand
  <2>2. CASE d \notin DOMAIN call
    <3>1. call'[d].of = 0 /\ call'[d].answer = NoAnswer /\ NoAnswer # "verified"
      BY <1>3, <2>2, OthersStand, SdkAssumption DEF SdkAssumption, Answer
    <3> QED
      BY <3>1
  <2> QED
    BY <2>1, <2>2
<1>4. ASSUME NEW c \in DOMAIN call, NEW a, NEW i, Says(c, a, i) PROVE KnownInv'
  <2> SUFFICES ASSUME NEW d \in DOMAIN call' PROVE Knows(d)'
    BY DEF KnownInv
  <2>1. /\ DOMAIN call' = DOMAIN call
        /\ \A e \in DOMAIN call : e # c => call'[e] = call[e]
        /\ call'[c].answer = a /\ call'[c].of = i
        /\ call'[c].op = call[c].op /\ call'[c].phone = call[c].phone
    BY <1>4, OneAnswered DEF Says
  <2>2. CASE d # c
    BY <1>2, <2>1, <2>2
  <2>3. CASE d = c
    <3>1. a # NoAnswer
      BY <1>4, SdkAssumption DEF Says, SdkAssumption
    <3> QED
      BY <1>1, <1>4, <2>1, <2>3, <3>1, SessionsStay DEF Says, Opens, Guessed
  <2> QED
    BY <2>2, <2>3
<1> QED
  BY <1>3, <1>4, StepSays

GuessesFor(i) == {c \in DOMAIN call : call[c].op = "verify" /\ call[c].of = i /\ call[c].code # i}

LEMMA CallsAreFinite ==
    ASSUME CallInv, NEW i
    PROVE  IsFiniteSet(GuessesFor(i)) /\ Cardinality(GuessesFor(i)) \in Nat
<1>1. DOMAIN call = 1..Len(call) /\ Len(call) \in Nat
  BY DEF CallInv
<1>2. IsFiniteSet(DOMAIN call)
  BY <1>1, FS_Interval
<1> QED
  BY <1>2, FS_Subset, FS_CardinalityType DEF GuessesFor

\* A call spends one guess at most.
LEMMA GuessCounted ==
    CallInv /\ LastInv /\ KnownInv /\ OneGuessPerCall /\ [SdkNext]_sdkVars => OneGuessPerCall'
<1> SUFFICES ASSUME CallInv, LastInv, KnownInv, OneGuessPerCall, [SdkNext]_sdkVars
             PROVE  OneGuessPerCall'
  OBVIOUS
<1>1. TypeInv /\ [Next]_vars /\ DOMAIN session \subseteq 1..Len(session) /\ Len(session) \in Nat
  BY StepIsCovered DEF CallInv, TypeInv, TypeOK
<1>2. \A i \in DOMAIN session :
         session[i].attempts = Cardinality(GuessesFor(i)) /\ i # 0
  BY <1>1 DEF OneGuessPerCall, GuessesFor
<1>3. \A d \in DOMAIN call : call[d].op = "verify" => call[d].of \in {0} \cup DOMAIN session
  BY DEF KnownInv
<1>4. \A i \in DOMAIN session' : i # 0
  BY TypeStep, <1>1 DEF TypeInv, TypeOK
<1>5. ASSUME Calm, \A i \in DOMAIN session' : GuessesFor(i)' = GuessesFor(i)
      PROVE  OneGuessPerCall'
  <2> SUFFICES ASSUME NEW i \in DOMAIN session'
               PROVE  session'[i].attempts = Cardinality(GuessesFor(i)')
    BY DEF OneGuessPerCall, GuessesFor
  <2>1. CASE i \in DOMAIN session
    BY <1>2, <1>5, <2>1 DEF Calm
  <2>2. CASE i \notin DOMAIN session
    <3>1. GuessesFor(i) = {}
      BY <1>3, <1>4, <2>2 DEF GuessesFor
    <3>2. session'[i].attempts = 0 /\ GuessesFor(i)' = {}
      BY <1>5, <2>2, <3>1 DEF Calm
    <3> QED
      BY <3>2, FS_EmptySet
  <2> QED
    BY <2>1, <2>2
<1>6. CASE /\ Calm
           /\ \/ UNCHANGED call
              \/ \E m \in Made : m.of = 0 /\ Asked(m)
              \/ \E c \in DOMAIN call : \E got \in {"answer", "network"} : Ended(c, got)
  <2>1. \A i \in DOMAIN session' : GuessesFor(i)' = GuessesFor(i)
    BY <1>4, <1>6, OthersStand DEF GuessesFor
  <2> QED
    BY <1>5, <1>6, <2>1
<1>7. ASSUME NEW c \in DOMAIN call, NEW a, NEW k, Says(c, a, k) PROVE OneGuessPerCall'
  <2>1. /\ DOMAIN call' = DOMAIN call
        /\ \A e \in DOMAIN call : e # c => call'[e] = call[e]
        /\ call'[c].of = k /\ call'[c].op = call[c].op /\ call'[c].code = call[c].code
        /\ call[c].of = 0
    BY <1>7, OneAnswered DEF Says, KnownInv
  <2>2. CASE ~(call[c].op = "verify" /\ Guessed(c, k))
    <3>1. Calm /\ (call[c].op = "verify" => k = 0 \/ call[c].code = k)
      BY <1>7, <2>2 DEF Says, Opens
    <3>2. \A i \in DOMAIN session' : GuessesFor(i)' = GuessesFor(i)
      BY <1>4, <2>1, <3>1 DEF GuessesFor
    <3> QED
      BY <1>5, <3>1, <3>2
  <2>3. CASE call[c].op = "verify" /\ Guessed(c, k)
    <3> SUFFICES ASSUME NEW i \in DOMAIN session'
                 PROVE  session'[i].attempts = Cardinality(GuessesFor(i)')
      BY DEF OneGuessPerCall, GuessesFor
    <3>1. CASE i # k
      <4>1. GuessesFor(i)' = GuessesFor(i)
        BY <1>4, <2>1, <3>1 DEF GuessesFor
      <4> QED
        BY <1>2, <2>3, <3>1, <4>1 DEF Guessed
    <3>2. CASE i = k
      <4>1. GuessesFor(i)' = GuessesFor(i) \cup {c} /\ c \notin GuessesFor(i)
        BY <1>4, <2>1, <2>3, <3>2 DEF GuessesFor, Guessed
      <4>2. Cardinality(GuessesFor(i)') = Cardinality(GuessesFor(i)) + 1
        BY <4>1, CallsAreFinite, FS_AddElement
      <4>3. session'[i].attempts = session[i].attempts + 1 /\ i \in DOMAIN session
        BY <2>3, <3>2 DEF Guessed
      <4> QED
        BY <1>2, <4>2, <4>3
    <3> QED
      BY <3>1, <3>2
  <2> QED
    BY <2>2, <2>3
<1> QED
  BY <1>6, <1>7, StepSays

\* What the invariants say of a confirmation that was lost.
LEMMA LostIsKnown == CallInv /\ DoorsInv /\ KnownInv => LostIsTold
<1> SUFFICES ASSUME CallInv, DoorsInv, KnownInv, NEW c \in DOMAIN call,
                    call[c].op = "verify", call[c].answer = "verified",
                    {j \in Of(call[c].phone) : session[j].created >= session[call[c].of].created}
                        \ {call[c].of} = {}
             PROVE  /\ \A j \in Newest(Of(call[c].phone)) : session[j].status = "verified"
                    /\ \A d \in DOMAIN call :
                          call[d].of = call[c].of /\ d > c => Tells(d) \subseteq {"verified", "pending"}
  BY Zenon DEF LostIsTold
<1> DEFINE i == call[c].of
           n == call[c].phone
<1>1. i \in DOMAIN session /\ session[i].status = "verified" /\ session[i].phone = n
  BY DEF DoorsInv, Opened, KnownInv
<1>2. ASSUME NEW j \in Newest(Of(n)) PROVE j = i
  <2>1. j \in Of(n) /\ session[i].created <= session[j].created
    BY <1>1, <1>2 DEF Newest, Of
  <2>2. session[i].created \in Nat /\ session[j].created \in Nat
    <3>1. session[i] \in Session /\ session[j] \in Session
      BY <1>1, <2>1 DEF Of, CallInv, TypeInv, TypeOK
    <3> QED
      BY <3>1 DEF Session
  <2>3. session[j].created >= session[i].created
    BY <2>1, <2>2
  <2> QED
    BY <2>1, <2>3
<1>3. ASSUME NEW d \in DOMAIN call, call[d].of = i PROVE Tells(d) \subseteq {"verified", "pending"}
  <2>1. CASE ~(Known(d) /\ call[d].op = "status")
    BY <2>1 DEF Tells
  <2>2. CASE Known(d) /\ call[d].op = "status"
    <3>1. i # 0
      BY <1>1, Held
    <3>2. call[d].answer \in {"pending", "verified"}
      BY <1>1, <1>3, <2>2, <3>1 DEF KnownInv
    <3>3. ASSUME NEW a \in {"pending", "verified"}
          PROVE  parseStatusResponse(a) = a /\ getOtpStatus(a) = a
      BY DEF parseStatusResponse, getOtpStatus, failureFor, errorFrom
    <3> QED
      BY <2>2, <3>2, <3>3 DEF Tells
  <2> QED
    BY <2>1, <2>2
<1> QED
  BY <1>1, <1>2, <1>3

KnowsInv == CallInv /\ LastInv /\ DoorsInv /\ KnownInv /\ OneGuessPerCall

LEMMA KnowsInit == SdkInit => KnowsInv
<1> SUFFICES ASSUME SdkInit PROVE LastInv /\ DoorsInv /\ KnownInv /\ OneGuessPerCall
  BY CallsBegin DEF KnowsInv
<1> QED
  BY DEF SdkInit, Init, LastInv, DoorsInv, Opened, KnownInv, OneGuessPerCall

LEMMA KnowsStep == KnowsInv /\ [SdkNext]_sdkVars => KnowsInv'
<1> SUFFICES ASSUME KnowsInv, [SdkNext]_sdkVars PROVE KnowsInv'
  OBVIOUS
<1>1. CallInv' /\ DoorsInv' /\ KnownInv' /\ OneGuessPerCall'
  BY CallsKept, DoorsStep, KnownStep, GuessCounted DEF KnowsInv
<1>2. LastInv'
  BY StepIsCovered, LastStep DEF KnowsInv, CallInv
<1> QED
  BY <1>1, <1>2 DEF KnowsInv

LEMMA KnowsEnough == KnowsInv => AppKnows
BY DoorsAreEnough, LostIsKnown DEF KnowsInv, AppKnows

\* What the app knows of its codes, in every behaviour of the client and the server: a
\* code opens one door, a call costs one guess at most, a confirmation lost on the way is
\* told by the status; for any number of calls, however they overlap, fail or are late.
THEOREM AppsKnow == SdkSpec => []AppKnows
BY KnowsInit, KnowsStep, KnowsEnough, PTL DEF SdkSpec

\* In the specification the runs check, where a behaviour has the whole world of the OTP
\* plane or the client's calls alone: codes are guarded in both.
THEOREM Guarded == OtpPartsSpec => []CodesAreGuarded
<1> DEFINE I == BudgetInv /\ (part = "sdk" => KnowsInv)
<1>1. OtpPartsInit => I
  BY BudgetInit, KnowsInit DEF OtpPartsInit, SdkInit
<1>2. I /\ [OtpPartsNext]_<<part, sdkVars>> => I'
  <2> SUFFICES ASSUME I, [OtpPartsNext]_<<part, sdkVars>> PROVE I'
    OBVIOUS
  <2>1. part' = part
    BY DEF OtpPartsNext
  <2>2. CASE [Next]_vars /\ part # "sdk"
    BY <2>1, <2>2, BudgetStep
  <2>3. CASE [SdkNext]_sdkVars /\ part = "sdk"
    <3>1. [Next]_vars
      BY <2>3, StepIsCovered DEF KnowsInv
    <3> QED
      BY <2>1, <2>3, <3>1, BudgetStep, KnowsStep
  <2> QED
    BY <2>2, <2>3 DEF OtpPartsNext, sdkVars
<1>3. I => CodesAreGuarded
  BY BudgetIsEnough, KnowsEnough DEF CodesAreGuarded
<1> QED
  BY <1>1, <1>2, <1>3, PTL DEF OtpPartsSpec
=============================================================================
