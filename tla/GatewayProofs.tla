---------------------------- MODULE GatewayProofs ----------------------------
(***************************************************************************)
(* Proofs about SmsQueue, for every set of rows, phones and apps, every    *)
(* requeue window and every batch limit; and about the gateway phones on   *)
(* top of it, for every send interval, timeout and count of hand-outs.     *)
(***************************************************************************)
EXTENDS Gateway, FiniteSetTheorems, TLAPS

\* The oldest-first rank of a new row is a natural number.
LEMMA RankType == Cardinality({n \in Msg : status[n] # "none"}) \in Nat
<1>1. IsFiniteSet({n \in Msg : status[n] # "none"})
  BY QueueAssumption, FS_Subset
<1> QED
  BY <1>1, FS_CardinalityType

\* An age stays in its range as time passes.
LEMMA OlderType == \A age \in AgeRange : Older(age) \in AgeRange
BY QueueAssumption DEF AgeRange, Older, Expired

LEMMA QueueTypeInit == Init => TypeOK
BY QueueAssumption DEF Init, TypeOK, AgeRange, Expired

LEMMA QueueTypes == TypeOK /\ [Next]_vars => TypeOK'
<1> SUFFICES ASSUME TypeOK, [Next]_vars PROVE TypeOK'
  OBVIOUS
<1> USE DEF TypeOK
<1>1. ASSUME NEW m \in Msg, Insert(m) PROVE TypeOK'
  BY <1>1, RankType DEF Insert, deviceVars, histVars
<1>2. ASSUME NEW M \in SUBSET Msg, Withdraw(M) PROVE TypeOK'
  BY <1>2 DEF Withdraw, deviceVars, histVars
<1>3. ASSUME NEW d \in Device, Enroll(d) PROVE TypeOK'
  BY <1>3 DEF Enroll, rowVars, histVars
<1>4. ASSUME NEW d \in Device, Revoke(d) PROVE TypeOK'
  BY <1>4 DEF Revoke, rowVars, histVars
<1>5. ASSUME NEW d \in Device, NEW batch \in SUBSET Msg, FetchBatch(d, batch)
      PROVE TypeOK'
  BY <1>5, QueueAssumption DEF FetchBatch, deviceVars, AgeRange, Expired
<1>6. ASSUME NEW d \in Device, NEW M \in SUBSET Msg, NEW outcome \in [M -> Outcome],
             NEW wellFormed \in BOOLEAN, Results(d, outcome, wellFormed)
      PROVE TypeOK'
  BY <1>6 DEF Results, deviceVars, histVars
<1>7. CASE Tick
  BY <1>7, OlderType DEF Tick, deviceVars
<1>8. CASE UNCHANGED vars
  BY <1>8 DEF vars, rowVars, deviceVars, histVars
<1> QED
  BY <1>1, <1>2, <1>3, <1>4, <1>5, <1>6, <1>7, <1>8 DEF Next, Fetch, Report

\* Type correctness of the table and of the bookkeeping.
THEOREM TypeCorrect == Spec => []TypeOK
BY QueueTypeInit, QueueTypes, PTL DEF Spec

-----------------------------------------------------------------------------
(* The inductive invariant behind the claims is ClaimsAreOffers with the    *)
(* types: it ties the age of a claim to the age of the last hand-out, which *)
(* is what makes the requeue window count from the hand-out.                *)

\* A claim always belongs to a phone that was handed the row, and a row back in
\* the queue after a hand-out has waited out the window.
THEOREM ClaimsHold == Spec => []ClaimsAreOffers
<1>1. Init => ClaimsAreOffers
  BY DEF Init, ClaimsAreOffers, Offered
<1>2. TypeOK /\ ClaimsAreOffers /\ [Next]_vars => ClaimsAreOffers'
  <2> SUFFICES ASSUME TypeOK, ClaimsAreOffers, [Next]_vars PROVE ClaimsAreOffers'
    OBVIOUS
  <2>1. ASSUME NEW m \in Msg, Insert(m) PROVE ClaimsAreOffers'
    BY <2>1 DEF TypeOK, ClaimsAreOffers, Offered, Insert, deviceVars, histVars
  <2>2. ASSUME NEW M \in SUBSET Msg, Withdraw(M) PROVE ClaimsAreOffers'
    BY <2>2 DEF TypeOK, ClaimsAreOffers, Offered, Withdraw, Open, deviceVars, histVars
  <2>3. ASSUME NEW d \in Device, Enroll(d) \/ Revoke(d) PROVE ClaimsAreOffers'
    BY <2>3 DEF TypeOK, ClaimsAreOffers, Offered, Enroll, Revoke, rowVars, histVars
  <2>5. ASSUME NEW d \in Device, NEW batch \in SUBSET Msg, FetchBatch(d, batch)
        PROVE ClaimsAreOffers'
    <3> SUFFICES ASSUME NEW m \in Msg
                 PROVE  /\ status'[m] = "none" => ~Offered(m)'
                        /\ status'[m] = "claimed" => /\ <<m, claimedBy'[m]>> \in offers'
                                                     /\ claimAge'[m] = offerAge'[m]
                        /\ status'[m] = "pending" /\ Offered(m)' => offerAge'[m] > RequeueSec
      BY DEF ClaimsAreOffers
    <3>1. CASE m \in batch
      BY <2>5, <3>1 DEF TypeOK, ClaimsAreOffers, Offered, FetchBatch, Stale, deviceVars
    <3>2. CASE m \notin batch /\ m \in Stale
      BY <2>5, <3>2 DEF TypeOK, ClaimsAreOffers, Offered, FetchBatch, Stale, deviceVars
    <3>3. CASE m \notin batch /\ m \notin Stale
      BY <2>5, <3>3 DEF TypeOK, ClaimsAreOffers, Offered, FetchBatch, deviceVars
    <3> QED
      BY <3>1, <3>2, <3>3
  <2>6. ASSUME NEW d \in Device, NEW M \in SUBSET Msg, NEW outcome \in [M -> Outcome],
               NEW wellFormed \in BOOLEAN, Results(d, outcome, wellFormed)
        PROVE ClaimsAreOffers'
    <3>1. \A m \in Msg : \/ status'[m] = status[m]
                         \/ status[m] # "none" /\ status'[m] \in Outcome
      BY <2>6 DEF TypeOK, Results, Open
    <3>2. UNCHANGED <<offers, offerAge, claimAge, claimedBy>>
      BY <2>6 DEF Results, histVars
    <3> QED
      BY <3>1, <3>2 DEF ClaimsAreOffers, Offered, Outcome
  <2>7. CASE Tick
    <3>1. UNCHANGED <<status, claimedBy, offers>>
      BY <2>7 DEF Tick
    <3>2. \A m \in Msg : status[m] = "claimed" /\ Offered(m) /\ claimAge[m] = offerAge[m]
                            => claimAge'[m] = offerAge'[m]
      BY <2>7 DEF Tick, Open
    <3>3. \A m \in Msg : offerAge[m] > RequeueSec => offerAge'[m] > RequeueSec
      BY <2>7, QueueAssumption DEF Tick, TypeOK, Older, Expired, AgeRange
    <3>4. \A m \in Msg : status[m] = "claimed" => Offered(m)
      BY DEF ClaimsAreOffers, Offered, TypeOK
    <3> QED
      BY <3>1, <3>2, <3>3, <3>4 DEF ClaimsAreOffers, Offered
  <2>8. CASE UNCHANGED vars
    BY <2>8 DEF ClaimsAreOffers, Offered, vars, rowVars, deviceVars, histVars
  <2> QED
    BY <2>1, <2>2, <2>3, <2>5, <2>6, <2>7, <2>8 DEF Next, Fetch, Report
<1> QED
  BY <1>1, <1>2, TypeCorrect, PTL DEF Spec

\* A message never reaches a phone that may not see it.
THEOREM RoutesSeparate == Spec => []RouteSeparation
<1>1. Init => RouteSeparation
  BY DEF Init, RouteSeparation
<1>2. TypeOK /\ RouteSeparation /\ [Next]_vars => RouteSeparation'
  <2> SUFFICES ASSUME TypeOK, RouteSeparation, [Next]_vars PROVE RouteSeparation'
    OBVIOUS
  <2> USE DEF TypeOK, RouteSeparation
  <2>1. ASSUME NEW d \in Device, NEW batch \in SUBSET Msg, FetchBatch(d, batch)
        PROVE RouteSeparation'
    <3>1. \A m \in batch : MayClaim(d, m)
      BY <2>1 DEF FetchBatch
    <3> QED
      BY <2>1, <3>1 DEF FetchBatch, MayClaim, deviceVars
  <2>2. CASE UNCHANGED <<offers, owner, freePass, bound>>
    BY <2>2
  <2>3. CASE \E m \in Msg : Insert(m)
    BY <2>2, <2>3 DEF Insert, deviceVars, histVars
  <2>4. CASE \E M \in SUBSET Msg : Withdraw(M)
    BY <2>2, <2>4 DEF Withdraw, deviceVars, histVars
  <2>5. ASSUME NEW d \in Device, Enroll(d) \/ Revoke(d) \/ Report(d) PROVE RouteSeparation'
    BY <2>2, <2>5 DEF Enroll, Revoke, Report, Results, rowVars, deviceVars, histVars
  <2>6. CASE Tick \/ UNCHANGED vars
    BY <2>2, <2>6 DEF Tick, vars, rowVars, deviceVars, histVars
  <2> QED
    BY <2>1, <2>3, <2>4, <2>5, <2>6 DEF Next, Fetch
<1> QED
  BY <1>1, <1>2, TypeCorrect, PTL DEF Spec

\* Two phones hold a message only when the first has had it longer than the
\* requeue window.
THEOREM SecondPhoneHasWaited == Spec => SecondPhoneWaits
<1> DEFINE Waits == \A m \in Msg, d \in Device :
                        <<m, d>> \notin offers /\ <<m, d>> \in offers' /\ Offered(m)
                            => offerAge[m] > RequeueSec
<1>1. TypeOK /\ ClaimsAreOffers /\ [Next]_vars => [Waits]_vars
  <2> SUFFICES ASSUME TypeOK, ClaimsAreOffers, Next,
                      NEW m \in Msg, NEW d \in Device,
                      <<m, d>> \notin offers, <<m, d>> \in offers', Offered(m)
               PROVE  offerAge[m] > RequeueSec
    OBVIOUS
  <2>1. PICK e \in Device, batch \in SUBSET Msg : FetchBatch(e, batch)
    BY DEF Next, Fetch, Insert, Withdraw, Enroll, Revoke, Report, Results, Tick, histVars
  <2>2. m \in batch
    BY <2>1 DEF FetchBatch
  <2>3. status[m] = "pending" \/ m \in Stale
    BY <2>1, <2>2 DEF FetchBatch
  <2> QED
    BY <2>3 DEF Stale, ClaimsAreOffers
<1> QED
  BY <1>1, TypeCorrect, ClaimsHold, PTL DEF Spec, SecondPhoneWaits

-----------------------------------------------------------------------------
(* Refinement: every step of the queue is a step of the life cycle or none. *)

\* The queue implements what it promises its producers: one outcome per message,
\* never changed, whatever phones, requeues and late reports do.
THEOREM Refinement == Spec => ImplementsLifecycle
<1>1. Init => Life!LifeInit
  BY DEF Init, Life!LifeInit, LifeState, Open
<1>2. TypeOK /\ [Next]_vars => [Life!LifeNext]_LifeState
  <2> SUFFICES ASSUME TypeOK, [Next]_vars PROVE Life!LifeNext \/ UNCHANGED LifeState
    OBVIOUS
  <2>1. ASSUME NEW m \in Msg, Insert(m) PROVE Life!LifeNext
    <3>1. Life!Accept({m})
      BY <2>1 DEF Insert, Life!Accept, LifeState, TypeOK, Open
    <3> QED
      BY <3>1 DEF Life!LifeNext
  <2>2. ASSUME NEW M \in SUBSET Msg, Withdraw(M) PROVE Life!LifeNext
    <3>1. Life!Withdraw(M)
      BY <2>2 DEF Withdraw, Life!Withdraw, LifeState, TypeOK, Open, Outcome
    <3> QED
      BY <3>1 DEF Life!LifeNext
  <2>3. ASSUME NEW d \in Device, Enroll(d) \/ Revoke(d) PROVE UNCHANGED LifeState
    BY <2>3 DEF Enroll, Revoke, LifeState, rowVars, Open
  <2>4. ASSUME NEW d \in Device, NEW batch \in SUBSET Msg, FetchBatch(d, batch)
        PROVE UNCHANGED LifeState
    <3>1. \A m \in Msg : \/ status'[m] = status[m]
                         \/ Open(m) /\ status'[m] \in {"pending", "claimed"}
      BY <2>4 DEF FetchBatch, Stale, TypeOK, Open
    <3> QED
      BY <3>1 DEF LifeState, Open
  <2>5. ASSUME NEW d \in Device, NEW M \in SUBSET Msg, NEW outcome \in [M -> Outcome],
               NEW wellFormed \in BOOLEAN, Results(d, outcome, wellFormed)
        PROVE Life!LifeNext
    <3>1. Life!Resolve(outcome)
      BY <2>5 DEF Results, Life!Resolve, LifeState, TypeOK, Open, Outcome
    <3>2. outcome \in [M -> Life!Outcome]
      BY DEF Outcome, Life!Outcome
    <3> QED
      BY <3>1, <3>2 DEF Life!LifeNext
  <2>6. CASE Tick \/ UNCHANGED vars
    BY <2>6 DEF Tick, vars, rowVars, LifeState, Open
  <2> QED
    BY <2>1, <2>2, <2>3, <2>4, <2>5, <2>6 DEF Next, Fetch, Report
<1> QED
  BY <1>1, <1>2, TypeCorrect, PTL DEF Spec, ImplementsLifecycle, Life!LifeSpec

\* What a webhook, a campaign or a session has been told of a message stays
\* true: no requeue, late report or withdrawal changes a recorded outcome.
THEOREM OutcomesAreFinal == Spec => Life!OutcomeIsFinal
<1> DEFINE Final == \A m \in Msg : LifeState[m] \in Life!Outcome => LifeState'[m] = LifeState[m]
<1>1. [Life!LifeNext]_LifeState => [Final]_LifeState
  <2> SUFFICES ASSUME Life!LifeNext, NEW m \in Msg, LifeState[m] \in Life!Outcome
               PROVE  LifeState'[m] = LifeState[m]
    OBVIOUS
  <2>1. LifeState[m] # "none" /\ LifeState[m] # "open"
    BY DEF Life!Outcome
  <2>2. PICK M \in SUBSET Msg : \/ Life!Accept(M)
                                \/ \E outcome \in [M -> Life!Outcome] : Life!Resolve(outcome)
                                \/ Life!Withdraw(M)
    BY DEF Life!LifeNext
  <2>3. CASE Life!Accept(M)
    BY <2>1, <2>3 DEF Life!Accept
  <2>4. CASE \E outcome \in [M -> Life!Outcome] : Life!Resolve(outcome)
    BY <2>1, <2>4 DEF Life!Resolve
  <2>5. CASE Life!Withdraw(M)
    BY <2>1, <2>5 DEF Life!Withdraw
  <2> QED
    BY <2>2, <2>3, <2>4, <2>5
<1> QED
  BY <1>1, Refinement, PTL DEF ImplementsLifecycle, Life!LifeSpec, Life!OutcomeIsFinal

-----------------------------------------------------------------------------
(* The gateway phones                                                       *)

\* What a response hands to the limiter is a sequence of the rows it names.
LEMMA TurnsAreRows ==
    ASSUME NEW S \in SUBSET Msg, NEW q \in InTurn(S)
    PROVE  /\ Cardinality(S) \in Nat
           /\ q \in Seq(Msg) /\ Len(q) = Cardinality(S) /\ DOMAIN q = 1..Cardinality(S)
           /\ \A i \in DOMAIN q : q[i] \in S
<1>1. Cardinality(S) \in Nat
  BY QueueAssumption, FS_Subset, FS_CardinalityType DEF QueueAssumption
<1> QED
  BY <1>1 DEF InTurn

\* What a phone takes from a hand-out is typed.
LEMMA ReceiveTypes ==
    ASSUME GatewayTypeOK, NEW d \in Device, NEW batch \in SUBSET Msg, Receive(d, batch)
    PROVE  /\ limiter' \in [Device -> Seq(Msg)]
           /\ inFlight' \in [Device -> [Msg -> (0..SmsTimeout) \cup {Idle}]]
           /\ reports' \subseteq (Device \X Msg \X Outcome)
<1> DEFINE fresh == {m \in batch : inFlight[d][m] = Idle}
           toSend == fresh \ Sealed
<1>1. PICK rows \in InTurn(toSend) : limiter' = [limiter EXCEPT ![d] = @ \o rows]
  BY DEF Receive
<1>2. rows \in Seq(Msg)
  BY <1>1, TurnsAreRows
<1>3. limiter' \in [Device -> Seq(Msg)]
  BY <1>1, <1>2 DEF GatewayTypeOK
<1>4. inFlight' \in [Device -> [Msg -> (0..SmsTimeout) \cup {Idle}]]
  BY GatewayAssumption DEF Receive, GatewayTypeOK, GatewayAssumption
<1>5. reports' \subseteq (Device \X Msg \X Outcome)
  BY DEF Receive, GatewayTypeOK, Outcome
<1> QED
  BY <1>3, <1>4, <1>5

LEMMA PhoneTypes ==
    ASSUME GatewayTypeOK, NEW d \in Device, PhoneStep(d), TypeOK'
    PROVE  GatewayTypeOK'
<1> USE DEF GatewayTypeOK
<1>1. ASSUME NEW batch \in SUBSET Msg, FetchBatch(d, batch),
             claims' = [m \in Msg |-> IF m \in batch THEN claims[m] + 1 ELSE claims[m]],
             Receive(d, batch) \/ UNCHANGED <<limiter, inFlight, reports>>,
             UNCHANGED <<cool, radio, killed, aired>>
      PROVE  GatewayTypeOK'
  <2>1. claims' \in [Msg -> Nat]
    BY <1>1
  <2>2. /\ limiter' \in [Device -> Seq(Msg)]
        /\ inFlight' \in [Device -> [Msg -> (0..SmsTimeout) \cup {Idle}]]
        /\ reports' \subseteq (Device \X Msg \X Outcome)
    BY <1>1, ReceiveTypes
  <2> QED
    BY <1>1, <2>1, <2>2
<1>2. CASE SendNext(d)
  <2>1. limiter[d] \in Seq(Msg) /\ limiter[d] # <<>>
    BY <1>2 DEF SendNext
  <2>2. Head(limiter[d]) \in Msg /\ Tail(limiter[d]) \in Seq(Msg)
    BY <2>1
  <2>3. limiter' \in [Device -> Seq(Msg)] /\ cool' \in [Device -> 0..SendInterval]
    BY <1>2, <2>2, GatewayAssumption DEF SendNext, GatewayAssumption
  <2>4. CASE /\ radio' = [radio EXCEPT ![d][Head(limiter[d])] = @ + 1]
             /\ UNCHANGED <<inFlight, reports>>
    <3>1. radio' \in [Device -> [Msg -> Nat]]
      BY <2>2, <2>4
    <3> QED
      BY <1>2, <2>3, <2>4, <3>1 DEF SendNext
  <2>5. CASE /\ inFlight' = [inFlight EXCEPT ![d][Head(limiter[d])] = Idle]
             /\ reports' = reports \cup {<<d, Head(limiter[d]), "failed">>}
             /\ UNCHANGED radio
    <3>1. inFlight' \in [Device -> [Msg -> (0..SmsTimeout) \cup {Idle}]]
      BY <2>2, <2>5
    <3>2. reports' \subseteq (Device \X Msg \X Outcome)
      BY <2>2, <2>5 DEF Outcome
    <3> QED
      BY <1>2, <2>3, <2>5, <3>1, <3>2 DEF SendNext
  <2> QED
    BY <1>2, <2>4, <2>5 DEF SendNext
<1>3. CASE Kill(d)
  BY <1>3, GatewayAssumption DEF Kill, GatewayAssumption
<1>4. ASSUME NEW m \in Msg, SendTimeout(d, m) PROVE GatewayTypeOK'
  BY <1>4 DEF SendTimeout, Outcome
<1>5. ASSUME NEW m \in Msg, NEW outcome \in Outcome, NEW heard \in BOOLEAN,
             RadioDone(d, m, outcome, heard)
      PROVE  GatewayTypeOK'
  <2>1. radio' \in [Device -> [Msg -> Nat]] /\ aired' \in [Msg -> Nat]
    BY <1>5 DEF RadioDone
  <2>2. UNCHANGED <<limiter, cool, killed, claims>>
    BY <1>5 DEF RadioDone
  <2>3. inFlight' \in [Device -> [Msg -> (0..SmsTimeout) \cup {Idle}]]
    <3>1. [inFlight EXCEPT ![d][m] = Idle] \in [Device -> [Msg -> (0..SmsTimeout) \cup {Idle}]]
      OBVIOUS
    <3>2. inFlight' = [inFlight EXCEPT ![d][m] = Idle] \/ inFlight' = inFlight
      BY <1>5 DEF RadioDone
    <3> QED
      BY <3>1, <3>2
  <2>4. reports' \subseteq (Device \X Msg \X Outcome)
    BY <1>5 DEF RadioDone
  <2> QED
    BY <2>1, <2>2, <2>3, <2>4
<1> QED
  BY <1>1, <1>2, <1>3, <1>4, <1>5 DEF PhoneStep, PhoneFetch

LEMMA GatewayTypes == GatewayTypeOK /\ TypeOK' /\ [GatewayNext]_allVars => GatewayTypeOK'
<1> SUFFICES ASSUME GatewayTypeOK, TypeOK', [GatewayNext]_allVars PROVE GatewayTypeOK'
  OBVIOUS
<1> USE DEF GatewayTypeOK
<1>1. ASSUME NEW r \in reports, DeliverReport(r) \/ LoseReport(r) PROVE GatewayTypeOK'
  BY <1>1 DEF DeliverReport, LoseReport
<1>2. CASE Elapse
  <2>1. cool' \in [Device -> 0..SendInterval]
    BY <1>2, GatewayAssumption DEF Elapse, GatewayAssumption
  <2>2. inFlight' \in [Device -> [Msg -> (0..SmsTimeout) \cup {Idle}]]
    <3>1. ASSUME NEW d \in Device, NEW m \in Msg, inFlight[d][m] # Idle, inFlight[d][m] # SmsTimeout
          PROVE  inFlight[d][m] + 1 \in 0..SmsTimeout
      BY <3>1, GatewayAssumption DEF GatewayAssumption
    <3> QED
      BY <1>2, <3>1 DEF Elapse
  <2> QED
    BY <1>2, <2>1, <2>2 DEF Elapse
<1>3. CASE ServerStep \/ UNCHANGED allVars
  BY <1>3 DEF ServerStep, phoneVars, allVars
<1> QED
  BY <1>1, <1>2, <1>3, PhoneTypes DEF GatewayNext

-----------------------------------------------------------------------------
(* A phone deals only with what it was handed, so that behind the phones the *)
(* server goes through SmsQueue's steps and no others.                       *)

Waits(d, m) == \E i \in DOMAIN limiter[d] : limiter[d][i] = m

HandedInv ==
    \A d \in Device, m \in Msg :
        \/ inFlight[d][m] # Idle \/ Waits(d, m) \/ radio[d][m] > 0
        \/ \E o \in Outcome : <<d, m, o>> \in reports
        => <<m, d>> \in offers

\* What a response adds to what the phone deals with.
LEMMA Received ==
    ASSUME GatewayTypeOK, NEW d \in Device, NEW batch \in SUBSET Msg, Receive(d, batch)
    PROVE  /\ \A e \in Device, m \in Msg :
                 /\ Waits(e, m)' => Waits(e, m) \/ (e = d /\ m \in batch \ Sealed)
                 /\ inFlight'[e][m] # Idle => inFlight[e][m] # Idle \/ (e = d /\ m \in batch)
           /\ reports' \subseteq reports \cup {<<d, m, "failed">> : m \in batch}
<1> DEFINE fresh == {m \in batch : inFlight[d][m] = Idle}
           toSend == fresh \ Sealed
<1>1. PICK rows \in InTurn(toSend) : limiter' = [limiter EXCEPT ![d] = @ \o rows]
  BY DEF Receive
<1>2. rows \in Seq(Msg) /\ \A i \in DOMAIN rows : rows[i] \in toSend
  BY <1>1, TurnsAreRows
<1>3. ASSUME NEW e \in Device, NEW m \in Msg, Waits(e, m)'
      PROVE  Waits(e, m) \/ (e = d /\ m \in batch \ Sealed)
  <2>1. CASE e # d
    BY <1>1, <1>3, <2>1 DEF Waits, GatewayTypeOK
  <2>2. CASE e = d
    <3>1. limiter[d] \in Seq(Msg) /\ limiter'[d] = limiter[d] \o rows
      BY <1>1 DEF GatewayTypeOK
    <3>2. PICK i \in DOMAIN limiter'[d] : limiter'[d][i] = m
      BY <1>3, <2>2 DEF Waits
    <3>3. \/ i \in DOMAIN limiter[d] /\ limiter'[d][i] = limiter[d][i]
          \/ i - Len(limiter[d]) \in DOMAIN rows /\ limiter'[d][i] = rows[i - Len(limiter[d])]
      BY <1>2, <3>1
    <3> QED
      BY <1>2, <2>2, <3>2, <3>3 DEF Waits
  <2> QED
    BY <2>1, <2>2
<1>4. ASSUME NEW e \in Device, NEW m \in Msg, inFlight'[e][m] # Idle
      PROVE  inFlight[e][m] # Idle \/ (e = d /\ m \in batch)
  BY <1>4 DEF Receive, GatewayTypeOK
<1>5. reports' \subseteq reports \cup {<<d, m, "failed">> : m \in batch}
  BY DEF Receive
<1> QED
  BY <1>3, <1>4, <1>5

\* What follows the head of a queue moves up by one place.
LEMMA TailShifts ==
    ASSUME NEW q \in Seq(Msg), q # <<>>
    PROVE  /\ Len(q) \in Nat /\ Len(q) > 0 /\ DOMAIN q = 1..Len(q)
           /\ DOMAIN Tail(q) = 1..(Len(q) - 1)
           /\ \A i \in DOMAIN Tail(q) : i + 1 \in DOMAIN q /\ Tail(q)[i] = q[i + 1]
<1>1. Len(q) \in Nat /\ Len(q) > 0 /\ DOMAIN q = 1..Len(q)
  OBVIOUS
<1>2. Tail(q) \in Seq(Msg) /\ Len(Tail(q)) = Len(q) - 1
  OBVIOUS
<1>3. DOMAIN Tail(q) = 1..(Len(q) - 1)
  BY <1>2
<1>4. ASSUME NEW i \in 1..(Len(q) - 1)
      PROVE  i + 1 \in 1..Len(q) /\ Tail(q)[i] = q[i + 1]
  BY <1>1, <1>2
<1> QED
  BY <1>1, <1>3, <1>4

\* The limiter passes its head on and keeps the rest.
LEMMA PassedOn ==
    ASSUME GatewayTypeOK, NEW d \in Device, limiter[d] # <<>>,
           limiter' = [limiter EXCEPT ![d] = Tail(@)]
    PROVE  /\ Head(limiter[d]) \in Msg /\ Waits(d, Head(limiter[d]))
           /\ \A e \in Device, m \in Msg : Waits(e, m)' => Waits(e, m)
<1>1. limiter[d] \in Seq(Msg) /\ limiter'[d] = Tail(limiter[d])
  BY DEF GatewayTypeOK
<1>2. 1 \in DOMAIN limiter[d] /\ Head(limiter[d]) = limiter[d][1] /\ Head(limiter[d]) \in Msg
  BY <1>1
<1>3. \A i \in DOMAIN limiter'[d] :
         i + 1 \in DOMAIN limiter[d] /\ limiter'[d][i] = limiter[d][i + 1]
  BY <1>1, TailShifts
<1>4. \A e \in Device : e # d => limiter'[e] = limiter[e]
  BY DEF GatewayTypeOK
<1> QED
  BY <1>2, <1>3, <1>4 DEF Waits

\* What a phone takes was handed to it in that fetch.
LEMMA HandedByFetch ==
    ASSUME TypeOK, GatewayTypeOK, HandedInv, NEW d \in Device, PhoneFetch(d)
    PROVE  HandedInv' /\ [Next]_vars
<1>1. PICK batch \in SUBSET Msg :
         /\ FetchBatch(d, batch)
         /\ Receive(d, batch) \/ UNCHANGED <<limiter, inFlight, reports>>
         /\ UNCHANGED radio
  BY DEF PhoneFetch
<1>2. offers' = offers \cup (batch \X {d})
  BY <1>1 DEF FetchBatch
<1>3. ASSUME NEW e \in Device, NEW m \in Msg,
             \/ inFlight'[e][m] # Idle \/ Waits(e, m)' \/ radio'[e][m] > 0
             \/ \E o \in Outcome : <<e, m, o>> \in reports'
      PROVE  <<m, e>> \in offers'
  <2>1. \/ inFlight[e][m] # Idle \/ Waits(e, m) \/ radio[e][m] > 0
        \/ \E o \in Outcome : <<e, m, o>> \in reports
        \/ e = d /\ m \in batch
    <3>1. CASE UNCHANGED <<limiter, inFlight, reports>>
      BY <1>1, <1>3, <3>1 DEF Waits
    <3>2. CASE Receive(d, batch)
      BY <1>1, <1>3, <3>2, Received
    <3> QED
      BY <1>1, <3>1, <3>2
  <2> QED
    BY <1>2, <2>1 DEF HandedInv
<1>4. Next
  BY <1>1 DEF Next, Fetch
<1> QED
  BY <1>3, <1>4 DEF HandedInv

LEMMA HandedStep == TypeOK /\ GatewayTypeOK /\ HandedInv /\ [GatewayNext]_allVars => HandedInv' /\ [Next]_vars
<1> SUFFICES ASSUME TypeOK, GatewayTypeOK, HandedInv, [GatewayNext]_allVars
             PROVE  HandedInv' /\ [Next]_vars
  OBVIOUS
<1>1. ASSUME UNCHANGED offers,
             \A d \in Device, m \in Msg :
                \/ inFlight'[d][m] # Idle \/ Waits(d, m)' \/ radio'[d][m] > 0
                \/ \E o \in Outcome : <<d, m, o>> \in reports'
                => \/ inFlight[d][m] # Idle \/ Waits(d, m) \/ radio[d][m] > 0
                   \/ \E o \in Outcome : <<d, m, o>> \in reports
      PROVE  HandedInv'
  BY <1>1 DEF HandedInv
<1>2. ASSUME NEW d \in Device, SendNext(d) PROVE HandedInv' /\ [Next]_vars
  <2>1. UNCHANGED vars
    BY <1>2 DEF SendNext
  <2>2. /\ Head(limiter[d]) \in Msg /\ Waits(d, Head(limiter[d]))
        /\ \A e \in Device, m \in Msg : Waits(e, m)' => Waits(e, m)
    BY <1>2, PassedOn DEF SendNext
  <2>3. ASSUME NEW e \in Device, NEW m \in Msg
        PROVE  /\ inFlight'[e][m] # Idle => inFlight[e][m] # Idle
               /\ radio'[e][m] > 0 => radio[e][m] > 0 \/ Waits(e, m)
               /\ \A o \in Outcome : <<e, m, o>> \in reports' => <<e, m, o>> \in reports \/ Waits(e, m)
    <3> DEFINE h == Head(limiter[d])
    <3>1. h \in Msg /\ Waits(d, h)
      BY <2>2
    <3>2. CASE radio' = [radio EXCEPT ![d][h] = @ + 1] /\ UNCHANGED <<inFlight, reports>>
      <4>1. radio'[e][m] = IF e = d /\ m = h THEN radio[e][m] + 1 ELSE radio[e][m]
        BY <3>1, <3>2 DEF GatewayTypeOK
      <4>2. radio'[e][m] > 0 => radio[e][m] > 0 \/ Waits(e, m)
        BY <3>1, <4>1
      <4> QED
        BY <3>2, <4>2
    <3>3. CASE /\ inFlight' = [inFlight EXCEPT ![d][h] = Idle]
               /\ reports' = reports \cup {<<d, h, "failed">>}
               /\ UNCHANGED radio
      <4>1. inFlight'[e][m] # Idle => inFlight[e][m] # Idle
        BY <3>1, <3>3 DEF GatewayTypeOK
      <4>2. \A o \in Outcome : <<e, m, o>> \in reports' => <<e, m, o>> \in reports \/ Waits(e, m)
        BY <3>1, <3>3
      <4> QED
        BY <3>3, <4>1, <4>2
    <3> QED
      BY <1>2, <3>2, <3>3 DEF SendNext
  <2> QED
    BY <1>1, <2>1, <2>2, <2>3 DEF vars, histVars
<1>3. ASSUME NEW d \in Device, Kill(d) PROVE HandedInv' /\ [Next]_vars
  <2>1. UNCHANGED <<vars, radio>> /\ reports' \subseteq reports
    BY <1>3 DEF Kill
  <2>2. \A e \in Device, m \in Msg : inFlight'[e][m] # Idle => inFlight[e][m] # Idle
    BY <1>3 DEF Kill, GatewayTypeOK
  <2>3. \A e \in Device, m \in Msg : Waits(e, m)' => Waits(e, m)
    BY <1>3 DEF Kill, GatewayTypeOK, Waits
  <2> QED
    BY <1>1, <2>1, <2>2, <2>3 DEF vars, histVars
<1>4. ASSUME NEW d \in Device, NEW m \in Msg, SendTimeout(d, m) PROVE HandedInv' /\ [Next]_vars
  <2>1. UNCHANGED <<vars, radio, limiter>> /\ inFlight[d][m] # Idle
    BY <1>4, GatewayAssumption DEF SendTimeout, GatewayAssumption
  <2>2. \A e \in Device, k \in Msg :
           /\ inFlight'[e][k] # Idle => inFlight[e][k] # Idle
           /\ \A o \in Outcome : <<e, k, o>> \in reports' => <<e, k, o>> \in reports \/ inFlight[e][k] # Idle
    BY <1>4, <2>1 DEF SendTimeout, GatewayTypeOK
  <2> QED
    BY <1>1, <2>1, <2>2 DEF vars, histVars, Waits
<1>5. ASSUME NEW d \in Device, NEW m \in Msg, NEW outcome \in Outcome, NEW heard \in BOOLEAN,
             RadioDone(d, m, outcome, heard)
      PROVE  HandedInv' /\ [Next]_vars
  <2>1. UNCHANGED <<vars, limiter>>
    BY <1>5 DEF RadioDone
  <2>2. \A e \in Device, k \in Msg :
           /\ inFlight'[e][k] # Idle => inFlight[e][k] # Idle
           /\ radio'[e][k] > 0 => radio[e][k] > 0
           /\ \A o \in Outcome : <<e, k, o>> \in reports' => <<e, k, o>> \in reports \/ radio[e][k] > 0
    BY <1>5 DEF RadioDone, GatewayTypeOK
  <2> QED
    BY <1>1, <2>1, <2>2 DEF vars, histVars, Waits
<1>6. ASSUME NEW r \in reports, DeliverReport(r) PROVE HandedInv' /\ [Next]_vars
  <2>1. PICK d \in Device, m \in Msg, o \in Outcome : r = <<d, m, o>>
    BY DEF GatewayTypeOK
  <2>2. <<m, d>> \in offers
    BY <2>1 DEF HandedInv
  <2>3. Results(d, [k \in {m} |-> o], TRUE)
    BY <1>6, <2>1 DEF DeliverReport
  <2>4. Report(d)
    BY <2>2, <2>3 DEF Report
  <2>5. UNCHANGED <<offers, limiter, inFlight, radio>> /\ reports' \subseteq reports
    BY <1>6, <2>3 DEF DeliverReport, Results, histVars
  <2> QED
    BY <1>1, <2>4, <2>5 DEF Next, Waits
<1>7. ASSUME NEW r \in reports, LoseReport(r) PROVE HandedInv' /\ [Next]_vars
  BY <1>1, <1>7 DEF LoseReport, vars, histVars, Waits
<1>8. CASE Elapse
  <2>1. UNCHANGED <<offers, limiter, radio, reports>> /\ Next
    BY <1>8 DEF Elapse, Tick, Next
  <2>2. \A e \in Device, m \in Msg : inFlight'[e][m] # Idle => inFlight[e][m] # Idle
    BY <1>8 DEF Elapse
  <2> QED
    BY <1>1, <2>1, <2>2 DEF Waits
<1>9. CASE ServerStep
  <2>1. Next /\ UNCHANGED <<offers, phoneVars>>
    BY <1>9 DEF ServerStep, Next, Insert, Withdraw, Enroll, Revoke, histVars
  <2> QED
    BY <1>1, <2>1 DEF Waits, phoneVars
<1>10. CASE UNCHANGED allVars
  BY <1>1, <1>10 DEF allVars, vars, histVars, phoneVars, Waits
<1> QED
  BY <1>2, <1>3, <1>4, <1>5, <1>6, <1>7, <1>8, <1>9, <1>10, HandedByFetch
     DEF GatewayNext, PhoneStep

GatewayInv == TypeOK /\ GatewayTypeOK /\ HandedInv

LEMMA GatewayBegins == GatewayInit => GatewayInv
<1> SUFFICES ASSUME GatewayInit PROVE GatewayTypeOK /\ HandedInv
  BY QueueTypeInit DEF GatewayInit, GatewayInv
<1>1. GatewayTypeOK
  BY QueueTypeInit, GatewayAssumption DEF GatewayInit, GatewayTypeOK, GatewayAssumption
<1>2. HandedInv
  BY DEF GatewayInit, HandedInv, Waits
<1> QED
  BY <1>1, <1>2

LEMMA GatewayStays == GatewayInv /\ [GatewayNext]_allVars => GatewayInv' /\ [Next]_vars
BY HandedStep, GatewayTypes, QueueTypes DEF GatewayInv

\* Types of the phones, next to those of the queue.
THEOREM PhonesTypeCorrect == GatewaySpec => []GatewayTypeOK
BY GatewayBegins, GatewayStays, PTL DEF GatewaySpec, GatewayInv

\* Whatever the phones do (fetch, queue, time out, be killed, report late or never), the
\* server goes through SmsQueue's steps: a report comes only from a phone that was handed
\* the row, and what holds of the queue (claims, routes, outcomes) holds behind the phones.
THEOREM PhonesImplementQueue == GatewaySpec => Spec
<1>1. GatewayInit => Init
  BY DEF GatewayInit
<1> QED
  BY <1>1, GatewayBegins, GatewayStays, PTL DEF GatewaySpec, Spec

-----------------------------------------------------------------------------
(* What the server is told agrees with the air.  The property is about rows  *)
(* and SMS; what keeps it is what lies between them: a report of success on  *)
(* its way follows an SMS, and what cannot be opened never enters a limiter, *)
(* hence never reaches a radio.                                              *)

ReportsAreAired == \A r \in reports : r[3] = "sent" => aired[r[2]] > 0

SealedIsKept == \A m \in Sealed, d \in Device : radio[d][m] = 0 /\ ~Waits(d, m)

HonestInv == AirIsHonest /\ ReportsAreAired /\ SealedIsKept

\* A step that neither sends nor reports success leaves the balance as it was.
LEMMA Unsent ==
    ASSUME GatewayTypeOK, HonestInv, aired' = aired,
           \A m \in Msg : status'[m] = "sent" => status[m] = "sent",
           \A r \in reports' : r[3] = "sent" => r \in reports,
           \A m \in Sealed, d \in Device :
              /\ radio'[d][m] = radio[d][m] \/ Waits(d, m)
              /\ Waits(d, m)' => Waits(d, m)
    PROVE  HonestInv'
<1>1. (SentIsAired /\ ReportsAreAired)'
  BY DEF HonestInv, AirIsHonest, SentIsAired, ReportsAreAired
<1>2. (SealedIsNotAired /\ SealedIsKept)'
  BY DEF HonestInv, AirIsHonest, SealedIsNotAired, SealedIsKept
<1> QED
  BY <1>1, <1>2 DEF HonestInv, AirIsHonest

\* No step of the server but the reception of a report marks a row sent.
LEMMA MarksNoneSent ==
    ASSUME TypeOK, NEW m \in Msg, status'[m] = "sent",
           \/ ServerStep \/ Tick
           \/ \E d \in Device, batch \in SUBSET Msg : FetchBatch(d, batch)
    PROVE  status[m] = "sent"
<1>1. ASSUME NEW n \in Msg, Insert(n) PROVE status[m] = "sent"
  BY <1>1 DEF Insert, TypeOK
<1>2. ASSUME NEW d \in Device, NEW batch \in SUBSET Msg, FetchBatch(d, batch)
      PROVE  status[m] = "sent"
  BY <1>2 DEF FetchBatch
<1>3. CASE Tick \/ \E M \in SUBSET Msg : Withdraw(M)
  BY <1>3 DEF Tick, Withdraw
<1>4. CASE \E d \in Device : Enroll(d) \/ Revoke(d)
  BY <1>4 DEF Enroll, Revoke, rowVars
<1> QED
  BY <1>1, <1>2, <1>3, <1>4 DEF ServerStep

\* A phone reports success only for what its radio has sent.
LEMMA HonestPhone ==
    ASSUME TypeOK, GatewayTypeOK, HonestInv, NEW d \in Device, PhoneStep(d)
    PROVE  HonestInv'
<1>1. CASE PhoneFetch(d)
  <2>1. PICK batch \in SUBSET Msg :
           /\ FetchBatch(d, batch)
           /\ Receive(d, batch) \/ UNCHANGED <<limiter, inFlight, reports>>
           /\ UNCHANGED <<radio, aired>>
    BY <1>1 DEF PhoneFetch
  <2>2. \A m \in Msg : status'[m] = "sent" => status[m] = "sent"
    BY <2>1, MarksNoneSent
  <2>3. CASE UNCHANGED <<limiter, inFlight, reports>>
    BY <2>1, <2>2, <2>3, Unsent DEF Waits
  <2>4. CASE Receive(d, batch)
    <3>1. /\ \A e \in Device, m \in Msg : Waits(e, m)' => Waits(e, m) \/ m \in batch \ Sealed
          /\ reports' \subseteq reports \cup {<<d, m, "failed">> : m \in batch}
      BY <2>4, Received
    <3>2. \A m \in Sealed, e \in Device : Waits(e, m)' => Waits(e, m)
      BY <3>1, GatewayAssumption DEF GatewayAssumption
    <3>3. \A r \in reports' : r[3] = "sent" => r \in reports
      BY <3>1
    <3> QED
      BY <2>1, <2>2, <3>2, <3>3, Unsent
  <2> QED
    BY <2>1, <2>3, <2>4
<1>2. CASE SendNext(d)
  <2> DEFINE h == Head(limiter[d])
  <2>1. /\ h \in Msg /\ Waits(d, h)
        /\ \A e \in Device, m \in Msg : Waits(e, m)' => Waits(e, m)
    BY <1>2, PassedOn DEF SendNext
  <2>2. UNCHANGED <<status, aired>>
    BY <1>2 DEF SendNext, vars, rowVars
  <2>3. \A r \in reports' : r[3] = "sent" => r \in reports
    BY <1>2 DEF SendNext
  <2>4. \A m \in Sealed, e \in Device : radio'[e][m] = radio[e][m] \/ Waits(e, m)
    <3> SUFFICES ASSUME NEW m \in Sealed, NEW e \in Device, ~Waits(e, m)
                 PROVE  radio'[e][m] = radio[e][m]
      OBVIOUS
    <3>1. m \in Msg /\ ~(e = d /\ m = h)
      BY <2>1, GatewayAssumption DEF GatewayAssumption
    <3>2. radio' = [radio EXCEPT ![d][h] = @ + 1] \/ radio' = radio
      BY <1>2 DEF SendNext
    <3> QED
      BY <2>1, <3>1, <3>2 DEF GatewayTypeOK
  <2>5. \A m \in Sealed, e \in Device : Waits(e, m)' => Waits(e, m)
    BY <2>1, GatewayAssumption DEF GatewayAssumption
  <2> QED
    BY <2>2, <2>3, <2>4, <2>5, Unsent
<1>3. CASE Kill(d)
  <2>1. UNCHANGED <<status, aired, radio>> /\ reports' \subseteq reports
    BY <1>3 DEF Kill, vars, rowVars
  <2>2. \A e \in Device, m \in Sealed : Waits(e, m)' => Waits(e, m)
    BY <1>3 DEF Kill, GatewayTypeOK, Waits
  <2> QED
    BY <2>1, <2>2, Unsent
<1>4. ASSUME NEW m \in Msg, SendTimeout(d, m) PROVE HonestInv'
  <2>1. UNCHANGED <<status, aired, radio, limiter>>
    BY <1>4 DEF SendTimeout, vars, rowVars
  <2>2. \A r \in reports' : r[3] = "sent" => r \in reports
    BY <1>4 DEF SendTimeout
  <2> QED
    BY <2>1, <2>2, Unsent DEF Waits
<1>5. ASSUME NEW m \in Msg, NEW outcome \in Outcome, NEW heard \in BOOLEAN,
             RadioDone(d, m, outcome, heard)
      PROVE  HonestInv'
  <2>1. UNCHANGED <<status, limiter>> /\ radio[d][m] > 0 /\ m \notin Sealed
    BY <1>5 DEF RadioDone, vars, rowVars, HonestInv, SealedIsKept
  <2>2. \A e \in Device, n \in Sealed : radio'[e][n] = radio[e][n]
    BY <1>5, <2>1, GatewayAssumption DEF RadioDone, GatewayTypeOK, GatewayAssumption
  <2>3. \A n \in Msg : /\ aired'[n] >= aired[n]
                       /\ n \in Sealed => aired'[n] = aired[n]
                       /\ n = m /\ outcome = "sent" => aired'[n] > 0
    <3>1. CASE outcome = "sent" /\ aired' = [aired EXCEPT ![m] = @ + 1]
      BY <2>1, <3>1 DEF GatewayTypeOK
    <3>2. CASE outcome # "sent" /\ aired' = aired
      BY <3>2 DEF GatewayTypeOK
    <3> QED
      BY <1>5, <3>1, <3>2 DEF RadioDone
  <2>4. \A r \in reports' : r \in reports \/ (r[2] = m /\ r[3] = outcome)
    BY <1>5 DEF RadioDone
  <2>5. SentIsAired'
    <3>1. \A n \in Msg : aired[n] \in Nat /\ aired'[n] \in Nat
      BY <1>5 DEF RadioDone, GatewayTypeOK
    <3> QED
      BY <2>1, <2>3, <3>1 DEF HonestInv, AirIsHonest, SentIsAired
  <2>6. SealedIsNotAired'
    BY <2>3, GatewayAssumption
       DEF HonestInv, AirIsHonest, SealedIsNotAired, GatewayTypeOK, GatewayAssumption
  <2>7. ReportsAreAired'
    <3>1. \A r \in reports : r[2] \in Msg
      BY DEF GatewayTypeOK
    <3>2. \A n \in Msg : aired[n] \in Nat /\ (aired[n] > 0 => aired'[n] > 0)
      <4>1. \A n \in Msg : aired[n] \in Nat /\ aired'[n] \in Nat
        BY <1>5 DEF RadioDone, GatewayTypeOK
      <4> QED
        BY <2>3, <4>1
    <3> QED
      BY <2>3, <2>4, <3>1, <3>2 DEF HonestInv, ReportsAreAired
  <2>8. SealedIsKept'
    BY <2>1, <2>2 DEF HonestInv, SealedIsKept, Waits
  <2> QED
    BY <2>5, <2>6, <2>7, <2>8 DEF HonestInv, AirIsHonest
<1> QED
  BY <1>1, <1>2, <1>3, <1>4, <1>5 DEF PhoneStep

LEMMA HonestStep == TypeOK /\ GatewayTypeOK /\ HonestInv /\ [GatewayNext]_allVars => HonestInv'
<1> SUFFICES ASSUME TypeOK, GatewayTypeOK, HonestInv, [GatewayNext]_allVars PROVE HonestInv'
  OBVIOUS
<1>1. ASSUME NEW r \in reports, DeliverReport(r) PROVE HonestInv'
  <2>1. PICK d \in Device, m \in Msg, o \in Outcome : r = <<d, m, o>>
    BY DEF GatewayTypeOK
  <2>2. UNCHANGED <<limiter, radio, aired>> /\ reports' \subseteq reports
    BY <1>1 DEF DeliverReport
  <2>3. \A n \in Msg : status'[n] = status[n] \/ (n = m /\ status'[n] = o)
    BY <1>1, <2>1 DEF DeliverReport, Results
  <2>4. SentIsAired'
    BY <2>1, <2>2, <2>3 DEF HonestInv, AirIsHonest, SentIsAired, ReportsAreAired
  <2> QED
    BY <2>2, <2>4
       DEF HonestInv, AirIsHonest, SealedIsNotAired, ReportsAreAired, SealedIsKept, Waits
<1>2. ASSUME NEW r \in reports, LoseReport(r) PROVE HonestInv'
  BY <1>2, Unsent DEF LoseReport, vars, rowVars, Waits
<1>3. CASE Elapse
  BY <1>3, MarksNoneSent, Unsent DEF Elapse, Waits
<1>4. CASE ServerStep
  <2>1. UNCHANGED <<limiter, radio, reports, aired>>
    BY <1>4 DEF ServerStep, phoneVars
  <2> QED
    BY <1>4, <2>1, MarksNoneSent, Unsent DEF Waits
<1>5. CASE UNCHANGED allVars
  BY <1>5, Unsent DEF allVars, vars, rowVars, phoneVars, Waits
<1> QED
  BY <1>1, <1>2, <1>3, <1>4, <1>5, HonestPhone DEF GatewayNext

LEMMA HonestBegins == GatewayInit => HonestInv
<1> SUFFICES ASSUME GatewayInit PROVE HonestInv
  OBVIOUS
<1>1. AirIsHonest
  BY GatewayAssumption
     DEF GatewayInit, Init, AirIsHonest, SentIsAired, SealedIsNotAired, GatewayAssumption
<1>2. ReportsAreAired /\ SealedIsKept
  BY GatewayAssumption DEF GatewayInit, ReportsAreAired, SealedIsKept, Waits, GatewayAssumption
<1> QED
  BY <1>1, <1>2 DEF HonestInv

\* A row marked sent has been sent by the radio of some phone, and one that no phone can
\* open has not: through broadcasts that come late or never, reports lost, delayed or
\* delivered in any order, and processes killed in between.
THEOREM AirStaysHonest == GatewaySpec => []AirIsHonest
<1>1. HonestInv => AirIsHonest
  BY DEF HonestInv
<1>2. GatewayInv /\ HonestInv /\ [GatewayNext]_allVars => HonestInv'
  BY HonestStep DEF GatewayInv
<1> QED
  BY <1>1, <1>2, HonestBegins, GatewayBegins, GatewayStays, PTL DEF GatewaySpec

-----------------------------------------------------------------------------
(* A hand-out is worth at most one SMS.  The property is inductive once the  *)
(* things the phones hold are known to be finitely many: a hand-out adds one *)
(* place in one limiter, the limiter's head gives its place up for the send  *)
(* it starts, and a finished send leaves at most one SMS behind it.          *)

HeldInv == \A m \in Msg : IsFiniteSet(Held(m)) /\ aired[m] + Cardinality(Held(m)) <= claims[m]

\* The copies of a message that phones still hold, one by one.
LEMMA HeldAre ==
    ASSUME NEW m \in Msg, NEW x
    PROVE  x \in Held(m) <=>
              \E d \in Device :
                 \/ \E i \in DOMAIN limiter[d] : limiter[d][i] = m /\ x = <<d, "limiter", i>>
                 \/ \E k \in 1..radio[d][m] : x = <<d, "radio", k>>
BY DEF Held

LEMMA HeldNextAre ==
    ASSUME NEW m \in Msg, NEW x
    PROVE  x \in Held(m)' <=>
              \E d \in Device :
                 \/ \E i \in DOMAIN limiter'[d] : limiter'[d][i] = m /\ x = <<d, "limiter", i>>
                 \/ \E k \in 1..radio'[d][m] : x = <<d, "radio", k>>
BY DEF Held

\* Fewer, one more, one less: what the count of copies needs of cardinality.
LEMMA NoMore ==
    ASSUME NEW S, IsFiniteSet(S), NEW T \in SUBSET S
    PROVE  IsFiniteSet(T) /\ Cardinality(T) \in Nat /\ Cardinality(T) <= Cardinality(S)
BY FS_Subset, FS_CardinalityType

LEMMA OneMore ==
    ASSUME NEW S, IsFiniteSet(S), NEW x, NEW T \in SUBSET (S \cup {x})
    PROVE  IsFiniteSet(T) /\ Cardinality(T) \in Nat /\ Cardinality(T) <= Cardinality(S) + 1
<1>1. IsFiniteSet(S \cup {x}) /\ Cardinality(S \cup {x}) <= Cardinality(S) + 1
  <2>1. Cardinality(S) \in Nat
    BY FS_CardinalityType
  <2> QED
    BY <2>1, FS_AddElement
<1>2. IsFiniteSet(T) /\ Cardinality(T) <= Cardinality(S \cup {x})
  BY <1>1, FS_Subset
<1>3. Cardinality(T) \in Nat /\ Cardinality(S) \in Nat /\ Cardinality(S \cup {x}) \in Nat
  BY <1>1, <1>2, FS_CardinalityType
<1> QED
  BY <1>1, <1>2, <1>3

LEMMA OneLess ==
    ASSUME NEW S, IsFiniteSet(S), NEW x \in S, NEW T \in SUBSET (S \ {x})
    PROVE  IsFiniteSet(T) /\ Cardinality(T) \in Nat /\ Cardinality(T) + 1 <= Cardinality(S)
<1>1. IsFiniteSet(S \ {x}) /\ Cardinality(S \ {x}) = Cardinality(S) - 1
  BY FS_RemoveElement
<1>2. IsFiniteSet(T) /\ Cardinality(T) <= Cardinality(S \ {x})
  BY <1>1, FS_Subset
<1>3. Cardinality(T) \in Nat /\ Cardinality(S) \in Nat /\ Cardinality(S \ {x}) \in Nat
  BY <1>1, <1>2, FS_CardinalityType
<1> QED
  BY <1>1, <1>2, <1>3

\* A message has at most one place in the order of a response.
LEMMA OnePlace ==
    ASSUME NEW rows \in SUBSET Msg, NEW q \in InTurn(rows), GatewayTypeOK,
           NEW i \in DOMAIN q, NEW j \in DOMAIN q, q[i] = q[j]
    PROVE  i = j
<1>1. q \in Seq(Msg)
  BY TurnsAreRows
<1>2. i \in Int /\ j \in Int /\ q[i] \in Msg
  BY <1>1
<1>3. arrival[q[i]] \in Nat
  BY <1>2 DEF GatewayTypeOK, TypeOK
<1>4. i < j => arrival[q[i]] < arrival[q[j]]
  BY DEF InTurn
<1>5. j < i => arrival[q[j]] < arrival[q[i]]
  BY DEF InTurn
<1> QED
  BY <1>2, <1>3, <1>4, <1>5

\* A response adds one place for a message it holds, and none for any other.
LEMMA ReceiveAddsOne ==
    ASSUME GatewayTypeOK, NEW d \in Device, NEW batch \in SUBSET Msg, Receive(d, batch),
           UNCHANGED radio, NEW m \in Msg
    PROVE  /\ m \notin batch => Held(m)' \subseteq Held(m)
           /\ \E x : Held(m)' \subseteq Held(m) \cup {x}
<1> DEFINE toSend == {n \in batch : inFlight[d][n] = Idle} \ Sealed
<1>1. PICK rows \in InTurn(toSend) : limiter' = [limiter EXCEPT ![d] = @ \o rows]
  BY DEF Receive
<1>2. rows \in Seq(Msg) /\ \A i \in DOMAIN rows : rows[i] \in toSend
  BY <1>1, TurnsAreRows
<1>3. limiter[d] \in Seq(Msg) /\ limiter'[d] = limiter[d] \o rows
  BY <1>1 DEF GatewayTypeOK
<1>4. \A e \in Device : e # d => limiter'[e] = limiter[e]
  BY <1>1 DEF GatewayTypeOK
<1>5. \A i \in DOMAIN limiter'[d] :
         \/ i \in DOMAIN limiter[d] /\ limiter'[d][i] = limiter[d][i]
         \/ i - Len(limiter[d]) \in DOMAIN rows /\ limiter'[d][i] = rows[i - Len(limiter[d])]
  BY <1>2, <1>3
<1>6. ASSUME NEW y \in Held(m)'
      PROVE  \/ y \in Held(m)
             \/ \E i \in DOMAIN rows : rows[i] = m /\ y = <<d, "limiter", Len(limiter[d]) + i>>
  <2>1. PICK e \in Device :
           \/ \E i \in DOMAIN limiter'[e] : limiter'[e][i] = m /\ y = <<e, "limiter", i>>
           \/ \E k \in 1..radio'[e][m] : y = <<e, "radio", k>>
    BY HeldNextAre
  <2>2. CASE \E k \in 1..radio'[e][m] : y = <<e, "radio", k>>
    BY <2>2, HeldAre
  <2>3. CASE \E i \in DOMAIN limiter'[e] : limiter'[e][i] = m /\ y = <<e, "limiter", i>>
    <3>1. PICK i \in DOMAIN limiter'[e] : limiter'[e][i] = m /\ y = <<e, "limiter", i>>
      BY <2>3
    <3>2. CASE e # d
      BY <1>4, <3>1, <3>2, HeldAre
    <3>3. CASE e = d
      <4>1. CASE i \in DOMAIN limiter[d] /\ limiter'[d][i] = limiter[d][i]
        BY <3>1, <3>3, <4>1, HeldAre
      <4>2. CASE i - Len(limiter[d]) \in DOMAIN rows /\ limiter'[d][i] = rows[i - Len(limiter[d])]
        <5>1. i = Len(limiter[d]) + (i - Len(limiter[d]))
          BY <1>2, <1>3, <3>1, <3>3
        <5> QED
          BY <3>1, <3>3, <4>2, <5>1
      <4> QED
        BY <1>5, <3>1, <3>3, <4>1, <4>2
    <3> QED
      BY <3>2, <3>3
  <2> QED
    BY <2>1, <2>2, <2>3
<1>7. m \notin batch => Held(m)' \subseteq Held(m)
  BY <1>2, <1>6
<1>8. CASE \E i \in DOMAIN rows : rows[i] = m
  <2>1. PICK i \in DOMAIN rows : rows[i] = m
    BY <1>8
  <2>2. \A j \in DOMAIN rows : rows[j] = m => j = i
    BY <1>1, <2>1, OnePlace
  <2>3. Held(m)' \subseteq Held(m) \cup {<<d, "limiter", Len(limiter[d]) + i>>}
    BY <1>6, <2>2
  <2> QED
    BY <1>7, <2>3
<1>9. CASE ~\E i \in DOMAIN rows : rows[i] = m
  BY <1>6, <1>7, <1>9
<1> QED
  BY <1>8, <1>9

\* The limiter's head gives its place up, at most for the send it starts.
LEMMA SendHolds ==
    ASSUME GatewayTypeOK, NEW d \in Device, SendNext(d), NEW m \in Msg, IsFiniteSet(Held(m))
    PROVE  /\ IsFiniteSet(Held(m)') /\ Cardinality(Held(m)') \in Nat
           /\ Cardinality(Held(m)') <= Cardinality(Held(m))
<1> DEFINE h == Head(limiter[d])
           New == <<d, "radio", radio[d][h] + 1>>
           From(y) == IF y[1] = d /\ y[2] = "limiter" THEN <<d, "limiter", y[3] + 1>>
                      ELSE IF m = h /\ y = New THEN <<d, "limiter", 1>>
                      ELSE y
           f == [y \in Held(m)' |-> From(y)]
<1>1. /\ limiter[d] \in Seq(Msg) /\ limiter[d] # <<>> /\ limiter'[d] = Tail(limiter[d])
      /\ \A e \in Device : e # d => limiter'[e] = limiter[e]
  BY DEF SendNext, GatewayTypeOK
<1>2. /\ 1 \in DOMAIN limiter[d] /\ limiter[d][1] = h /\ h \in Msg
      /\ \A i \in DOMAIN limiter'[d] :
            i \in Nat /\ i > 0 /\ i + 1 \in DOMAIN limiter[d] /\ limiter'[d][i] = limiter[d][i + 1]
  BY <1>1, TailShifts
<1>3. radio' = [radio EXCEPT ![d][h] = @ + 1] \/ radio' = radio
  BY DEF SendNext
<1>4. radio[d][h] \in Nat
  BY <1>2 DEF GatewayTypeOK
<1>5. \A e \in Device : \A k \in 1..radio'[e][m] :
         k \in 1..radio[e][m] \/ (e = d /\ m = h /\ k = radio[d][h] + 1)
  <2> SUFFICES ASSUME NEW e \in Device, NEW k \in 1..radio'[e][m], ~(k \in 1..radio[e][m])
               PROVE  e = d /\ m = h /\ k = radio[d][h] + 1
    OBVIOUS
  <2>1. radio[e][m] \in Nat
    BY DEF GatewayTypeOK
  <2>2. radio'[e][m] = IF e = d /\ m = h THEN radio[e][m] + 1 ELSE radio[e][m]
    <3>1. radio' # radio
      OBVIOUS
    <3> QED
      BY <1>2, <1>3, <3>1 DEF GatewayTypeOK
  <2> QED
    BY <2>1, <2>2
\* What is held after the step: a later place of a limiter, a send that was there, the new one.
<1>6. ASSUME NEW y \in Held(m)'
      PROVE  \/ \E i \in Nat : /\ i > 0 /\ y = <<d, "limiter", i>>
                               /\ i + 1 \in DOMAIN limiter[d] /\ limiter[d][i + 1] = m
             \/ y \in Held(m) /\ ~(y[1] = d /\ y[2] = "limiter") /\ ~(m = h /\ y = New)
             \/ m = h /\ y = New
  <2>1. PICK e \in Device :
           \/ \E i \in DOMAIN limiter'[e] : limiter'[e][i] = m /\ y = <<e, "limiter", i>>
           \/ \E k \in 1..radio'[e][m] : y = <<e, "radio", k>>
    BY HeldNextAre
  <2>2. CASE \E i \in DOMAIN limiter'[e] : limiter'[e][i] = m /\ y = <<e, "limiter", i>>
    <3>1. PICK i \in DOMAIN limiter'[e] : limiter'[e][i] = m /\ y = <<e, "limiter", i>>
      BY <2>2
    <3>2. CASE e = d
      BY <1>2, <3>1, <3>2
    <3>3. CASE e # d
      <4>1. y \in Held(m)
        BY <1>1, <3>1, <3>3, HeldAre
      <4> QED
        BY <3>1, <3>3, <4>1
    <3> QED
      BY <3>2, <3>3
  <2>3. CASE \E k \in 1..radio'[e][m] : y = <<e, "radio", k>>
    <3>1. PICK k \in 1..radio'[e][m] : y = <<e, "radio", k>>
      BY <2>3
    <3>2. CASE k \in 1..radio[e][m]
      <4>1. y \in Held(m)
        BY <3>1, <3>2, HeldAre
      <4>2. m = h /\ y = New => e = d /\ k = radio[d][h] + 1
        BY <3>1
      <4>3. ~(m = h /\ y = New)
        BY <1>4, <3>2, <4>2
      <4> QED
        BY <3>1, <4>1, <4>3
    <3>3. CASE e = d /\ m = h /\ k = radio[d][h] + 1
      BY <3>1, <3>3
    <3> QED
      BY <1>5, <3>1, <3>2, <3>3
  <2> QED
    BY <2>1, <2>2, <2>3
<1>7. ASSUME NEW y \in Held(m)'
      PROVE  \/ \E i \in Nat : /\ i > 0 /\ y = <<d, "limiter", i>> /\ From(y) = <<d, "limiter", i + 1>>
                               /\ i + 1 \in DOMAIN limiter[d] /\ limiter[d][i + 1] = m
             \/ y \in Held(m) /\ ~(y[1] = d /\ y[2] = "limiter") /\ From(y) = y
             \/ m = h /\ y = New /\ From(y) = <<d, "limiter", 1>>
  BY <1>6
<1>8. \A y \in Held(m)' : From(y) \in Held(m)
  BY <1>2, <1>7, HeldAre
<1>9. ASSUME NEW y \in Held(m)', NEW z \in Held(m)', From(y) = From(z) PROVE y = z
  <2> HIDE DEF From
  <2>1. CASE m = h /\ y = New /\ From(y) = <<d, "limiter", 1>>
    BY <1>7, <1>9, <2>1
  <2>2. CASE y \in Held(m) /\ ~(y[1] = d /\ y[2] = "limiter") /\ From(y) = y
    <3>1. CASE From(z) = z
      BY <1>9, <2>2, <3>1
    <3>2. CASE \E j \in Nat : From(z) = <<d, "limiter", j>>
      <4>1. PICK j \in Nat : From(z) = <<d, "limiter", j>>
        BY <3>2
      <4>2. y = <<d, "limiter", j>>
        BY <1>9, <2>2, <4>1
      <4>3. y[1] = d /\ y[2] = "limiter"
        BY <4>2
      <4> QED
        BY <2>2, <4>3
    <3> QED
      BY <1>7, <3>1, <3>2
  <2>3. CASE \E i \in Nat : i > 0 /\ y = <<d, "limiter", i>> /\ From(y) = <<d, "limiter", i + 1>>
    <3>1. PICK i \in Nat : i > 0 /\ y = <<d, "limiter", i>> /\ From(y) = <<d, "limiter", i + 1>>
      BY <2>3
    <3>2. CASE From(z) = <<d, "limiter", 1>>
      BY <1>9, <3>1, <3>2
    <3>3. CASE ~(z[1] = d /\ z[2] = "limiter") /\ From(z) = z
      BY <1>9, <3>1, <3>3
    <3>4. CASE \E j \in Nat : z = <<d, "limiter", j>> /\ From(z) = <<d, "limiter", j + 1>>
      BY <1>9, <3>1, <3>4
    <3> QED
      BY <1>7, <3>2, <3>3, <3>4
  <2> QED
    BY <1>7, <2>1, <2>2, <2>3
<1>10. f \in Injection(Held(m)', Held(m))
  <2> HIDE DEF From
  <2>1. f \in [Held(m)' -> Held(m)]
    BY <1>8
  <2>2. \A y, z \in Held(m)' : f[y] = f[z] => y = z
    BY <1>9
  <2> QED
    BY <2>1, <2>2 DEF Injection, IsInjective
<1>11. IsFiniteSet(Held(m)') /\ Cardinality(Held(m)') <= Cardinality(Held(m))
  <2> HIDE DEF f
  <2> QED
    BY <1>10, FS_Injection
<1> QED
  BY <1>11, FS_CardinalityType

\* No step of a phone makes a copy that was not handed out.
LEMMA HeldPhone ==
    ASSUME GatewayTypeOK, HeldInv, NEW d \in Device, PhoneStep(d)
    PROVE  HeldInv'
<1>0. \A m \in Msg : Cardinality(Held(m)) \in Nat /\ aired[m] \in Nat /\ claims[m] \in Nat
  BY FS_CardinalityType DEF HeldInv, GatewayTypeOK
\* A step that takes away from what is held and neither sends nor claims.
<1>1. ASSUME UNCHANGED <<aired, claims>>, NEW m \in Msg, Held(m)' \subseteq Held(m)
      PROVE  IsFiniteSet(Held(m)') /\ aired'[m] + Cardinality(Held(m)') <= claims'[m]
  <2>1. /\ IsFiniteSet(Held(m)') /\ Cardinality(Held(m)') \in Nat
        /\ Cardinality(Held(m)') <= Cardinality(Held(m))
    BY <1>1, NoMore DEF HeldInv
  <2>2. aired[m] + Cardinality(Held(m)) <= claims[m]
    BY DEF HeldInv
  <2> QED
    BY <1>0, <1>1, <2>1, <2>2
<1>2. CASE PhoneFetch(d)
  <2>1. PICK batch \in SUBSET Msg :
           /\ claims' = [m \in Msg |-> IF m \in batch THEN claims[m] + 1 ELSE claims[m]]
           /\ Receive(d, batch) \/ UNCHANGED <<limiter, inFlight, reports>>
           /\ UNCHANGED <<radio, aired>>
    BY <1>2 DEF PhoneFetch
  <2> SUFFICES ASSUME NEW m \in Msg
               PROVE  IsFiniteSet(Held(m)') /\ aired'[m] + Cardinality(Held(m)') <= claims'[m]
    BY DEF HeldInv
  <2>2. /\ m \notin batch => Held(m)' \subseteq Held(m)
        /\ \E x : Held(m)' \subseteq Held(m) \cup {x}
    <3>1. CASE Receive(d, batch)
      BY <2>1, <3>1, ReceiveAddsOne
    <3>2. CASE UNCHANGED <<limiter, inFlight, reports>>
      BY <2>1, <3>2 DEF Held
    <3> QED
      BY <2>1, <3>1, <3>2
  <2>3. IsFiniteSet(Held(m)) /\ aired[m] + Cardinality(Held(m)) <= claims[m]
    BY DEF HeldInv
  <2>4. CASE m \in batch
    <3>1. /\ IsFiniteSet(Held(m)') /\ Cardinality(Held(m)') \in Nat
          /\ Cardinality(Held(m)') <= Cardinality(Held(m)) + 1
      BY <2>2, <2>3, OneMore
    <3>2. claims'[m] = claims[m] + 1 /\ aired'[m] = aired[m]
      BY <2>1, <2>4
    <3> QED
      BY <1>0, <2>3, <3>1, <3>2
  <2>5. CASE m \notin batch
    <3>1. /\ IsFiniteSet(Held(m)') /\ Cardinality(Held(m)') \in Nat
          /\ Cardinality(Held(m)') <= Cardinality(Held(m))
      BY <2>2, <2>3, <2>5, NoMore
    <3>2. claims'[m] = claims[m] /\ aired'[m] = aired[m]
      BY <2>1, <2>5
    <3> QED
      BY <1>0, <2>3, <3>1, <3>2
  <2> QED
    BY <2>4, <2>5
<1>3. CASE SendNext(d)
  <2> SUFFICES ASSUME NEW m \in Msg
               PROVE  IsFiniteSet(Held(m)') /\ aired'[m] + Cardinality(Held(m)') <= claims'[m]
    BY DEF HeldInv
  <2>1. IsFiniteSet(Held(m)) /\ aired[m] + Cardinality(Held(m)) <= claims[m]
    BY DEF HeldInv
  <2>2. /\ IsFiniteSet(Held(m)') /\ Cardinality(Held(m)') \in Nat
        /\ Cardinality(Held(m)') <= Cardinality(Held(m))
    BY <1>3, <2>1, SendHolds
  <2>3. UNCHANGED <<aired, claims>>
    BY <1>3 DEF SendNext
  <2> QED
    BY <1>0, <2>1, <2>2, <2>3
<1>4. CASE Kill(d)
  <2>1. UNCHANGED <<radio, aired, claims>>
    BY <1>4 DEF Kill
  <2>2. \A e \in Device : limiter'[e] = limiter[e] \/ limiter'[e] = <<>>
    BY <1>4 DEF Kill, GatewayTypeOK
  <2>3. ASSUME NEW m \in Msg PROVE Held(m)' \subseteq Held(m)
    BY <2>1, <2>2, HeldAre, HeldNextAre
  <2> QED
    BY <1>1, <2>1, <2>3 DEF HeldInv
<1>5. ASSUME NEW m \in Msg, SendTimeout(d, m) PROVE HeldInv'
  BY <1>5 DEF SendTimeout, HeldInv, Held
<1>6. ASSUME NEW n \in Msg, NEW outcome \in Outcome, NEW heard \in BOOLEAN,
             RadioDone(d, n, outcome, heard)
      PROVE  HeldInv'
  <2> DEFINE last == <<d, "radio", radio[d][n]>>
  <2>1. UNCHANGED <<limiter, claims>> /\ radio[d][n] \in Nat /\ radio[d][n] > 0
    BY <1>6 DEF RadioDone, GatewayTypeOK
  <2>2. \A e \in Device, m \in Msg :
           radio'[e][m] = IF e = d /\ m = n THEN radio[d][n] - 1 ELSE radio[e][m]
    BY <1>6 DEF RadioDone, GatewayTypeOK
  <2>3. /\ aired'[n] = aired[n] \/ aired'[n] = aired[n] + 1
        /\ \A m \in Msg : m # n => aired'[m] = aired[m]
    BY <1>6 DEF RadioDone, GatewayTypeOK
  <2>4. ASSUME NEW m \in Msg, NEW y \in Held(m)'
        PROVE  y \in Held(m) /\ (m = n => y # last)
    <3>1. PICK e \in Device :
             \/ \E i \in DOMAIN limiter'[e] : limiter'[e][i] = m /\ y = <<e, "limiter", i>>
             \/ \E k \in 1..radio'[e][m] : y = <<e, "radio", k>>
      BY HeldNextAre
    <3>2. CASE \E i \in DOMAIN limiter'[e] : limiter'[e][i] = m /\ y = <<e, "limiter", i>>
      <4>1. y \in Held(m)
        BY <2>1, <3>2, HeldAre
      <4>2. y # last
        BY <3>2
      <4> QED
        BY <4>1, <4>2
    <3>3. CASE \E k \in 1..radio'[e][m] : y = <<e, "radio", k>>
      <4>1. PICK k \in 1..radio'[e][m] : y = <<e, "radio", k>>
        BY <3>3
      <4>2. k \in 1..radio[e][m] /\ (e = d /\ m = n => k # radio[d][n])
        <5>1. radio[e][m] \in Nat /\ k \in 1..radio'[e][m]
          BY <4>1 DEF GatewayTypeOK
        <5>2. CASE e = d /\ m = n
          BY <2>1, <2>2, <5>1, <5>2
        <5>3. CASE ~(e = d /\ m = n)
          <6>1. radio'[e][m] = radio[e][m]
            BY <2>2, <5>3
          <6> QED
            BY <5>1, <5>3, <6>1
        <5> QED
          BY <5>2, <5>3
      <4>3. y \in Held(m)
        BY <4>1, <4>2, HeldAre
      <4> QED
        BY <4>1, <4>2, <4>3
    <3> QED
      BY <3>1, <3>2, <3>3
  <2> SUFFICES ASSUME NEW m \in Msg
               PROVE  IsFiniteSet(Held(m)') /\ aired'[m] + Cardinality(Held(m)') <= claims'[m]
    BY DEF HeldInv
  <2>5. IsFiniteSet(Held(m)) /\ aired[m] + Cardinality(Held(m)) <= claims[m]
    BY DEF HeldInv
  <2>6. CASE m = n
    <3>1. last \in Held(n)
      <4>1. radio[d][n] \in 1..radio[d][n]
        BY <2>1
      <4> QED
        BY <4>1, HeldAre
    <3>2. Held(n)' \subseteq Held(n) \ {last}
      BY <2>4
    <3>3. /\ IsFiniteSet(Held(n)') /\ Cardinality(Held(n)') \in Nat
          /\ Cardinality(Held(n)') + 1 <= Cardinality(Held(n))
      BY <2>5, <2>6, <3>1, <3>2, OneLess
    <3> QED
      BY <1>0, <2>1, <2>3, <2>5, <2>6, <3>3
  <2>7. CASE m # n
    <3>1. /\ IsFiniteSet(Held(m)') /\ Cardinality(Held(m)') \in Nat
          /\ Cardinality(Held(m)') <= Cardinality(Held(m))
      <4>1. Held(m)' \subseteq Held(m)
        BY <2>4
      <4> QED
        BY <2>5, <4>1, NoMore
    <3> QED
      BY <1>0, <2>1, <2>3, <2>5, <2>7, <3>1
  <2> QED
    BY <2>6, <2>7
<1> QED
  BY <1>2, <1>3, <1>4, <1>5, <1>6 DEF PhoneStep

LEMMA HeldStep == GatewayTypeOK /\ HeldInv /\ [GatewayNext]_allVars => HeldInv'
<1> SUFFICES ASSUME GatewayTypeOK, HeldInv, [GatewayNext]_allVars PROVE HeldInv'
  OBVIOUS
<1>1. ASSUME UNCHANGED <<limiter, radio, aired, claims>> PROVE HeldInv'
  BY <1>1 DEF HeldInv, Held
<1>2. ASSUME NEW r \in reports, DeliverReport(r) \/ LoseReport(r) PROVE HeldInv'
  BY <1>1, <1>2 DEF DeliverReport, LoseReport
<1>3. CASE Elapse \/ ServerStep \/ UNCHANGED allVars
  BY <1>1, <1>3 DEF Elapse, ServerStep, phoneVars, allVars
<1> QED
  BY <1>2, <1>3, HeldPhone DEF GatewayNext

LEMMA HeldBegins == GatewayInit => HeldInv
<1> SUFFICES ASSUME GatewayInit, NEW m \in Msg
             PROVE  IsFiniteSet(Held(m)) /\ aired[m] + Cardinality(Held(m)) <= claims[m]
  BY DEF HeldInv
<1>1. \A d \in Device : limiter[d] = <<>> /\ radio[d][m] = 0
  BY DEF GatewayInit
<1>2. Held(m) = {}
  BY <1>1 DEF Held
<1>3. IsFiniteSet(Held(m)) /\ Cardinality(Held(m)) = 0
  BY <1>2, FS_EmptySet
<1>4. aired[m] = 0 /\ claims[m] = 0
  BY DEF GatewayInit
<1> QED
  BY <1>3, <1>4

\* A hand-out is worth at most one SMS, for any number of phones and rows, any send
\* interval and any timeout: no order of timeouts, late broadcasts, kills, lost responses
\* and second hand-outs sends a message more often than the server handed it out.
THEOREM OneSms == GatewaySpec => []OneSmsPerClaim
<1>1. HeldInv => OneSmsPerClaim
  BY DEF HeldInv, OneSmsPerClaim
<1>2. GatewayInv /\ HeldInv /\ [GatewayNext]_allVars => HeldInv'
  BY HeldStep DEF GatewayInv
<1> QED
  BY <1>1, <1>2, HeldBegins, GatewayBegins, GatewayStays, PTL DEF GatewaySpec
=============================================================================
