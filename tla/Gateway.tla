------------------------------- MODULE Gateway -------------------------------
(***************************************************************************)
(* The gateway phones (authenticator-app) on top of the server's queue.    *)
(* OutstandingFetcher pulls a batch, hands every message to the            *)
(* process-wide SmsRateLimiter, which passes one SMS per SendInterval to   *)
(* the radio, and reports an outcome when the radio's broadcast arrives,   *)
(* when the send could not be queued, or when no broadcast came within     *)
(* SmsTimeout of the fetch.                                                *)
(*                                                                         *)
(* A phone process may be killed at any time: queue, in-flight map, timers *)
(* and unsent reports live in memory only, while the radio still sends     *)
(* what it was given.  A request or a response may be lost.                *)
(***************************************************************************)
EXTENDS SmsQueue, Sequences

CONSTANTS
    Sealed,        \* messages in an end-to-end envelope the phone cannot open
    SendInterval,  \* SmsRateLimiter.MIN_INTERVAL_MS
    SmsTimeout,    \* OutstandingFetcher.SMS_TIMEOUT_MS
    Idle,          \* no entry in inFlight
    MaxClaims      \* bound: how often one row is handed out

ASSUME GatewayAssumption ==
    /\ Sealed \subseteq Msg
    /\ SendInterval \in Nat \ {0}
    /\ SmsTimeout \in Nat \ {0}
    /\ Idle \notin Nat
    \* the timer of an earlier fetch has fired before a row can come again
    /\ SmsTimeout <= RequeueSec
    /\ MaxClaims \in Nat

VARIABLES
    limiter,     \* SmsRateLimiter.queue
    cool,        \* time until the limiter may send again
    inFlight,    \* inFlight[d][m]: age of the entry and of its timeout tracker
    radio,       \* radio[d][m]: sends handed to SmsManager, outcome unknown
    reports,     \* results on their way to the server
    killed,      \* phones whose process was killed once (bound: once each)
    aired,       \* history: how often m went over the air
    claims       \* pending_sms.claimed_count

phoneVars == <<limiter, cool, inFlight, radio, reports, killed>>
allVars   == <<vars, phoneVars, aired, claims>>

GatewayTypeOK ==
    /\ TypeOK
    /\ limiter \in [Device -> Seq(Msg)]
    /\ cool \in [Device -> 0..SendInterval]
    /\ inFlight \in [Device -> [Msg -> (0..SmsTimeout) \cup {Idle}]]
    /\ radio \in [Device -> [Msg -> Nat]]
    /\ reports \subseteq (Device \X Msg \X Outcome)
    /\ killed \subseteq Device
    /\ aired \in [Msg -> Nat]
    /\ claims \in [Msg -> Nat]

GatewayInit ==
    /\ Init
    /\ limiter = [d \in Device |-> <<>>]
    /\ cool = [d \in Device |-> 0]
    /\ inFlight = [d \in Device |-> [m \in Msg |-> Idle]]
    /\ radio = [d \in Device |-> [m \in Msg |-> 0]]
    /\ reports = {}
    /\ killed = {}
    /\ aired = [m \in Msg |-> 0]
    /\ claims = [m \in Msg |-> 0]

-----------------------------------------------------------------------------

\* The rows in the order of the response: oldest first.
InTurn(rows) ==
    {q \in [1..Cardinality(rows) -> rows] :
        \A i, j \in DOMAIN q : i < j => arrival[q[i]] < arrival[q[j]]}

\* enqueueSend for every message of the response: one already in flight is
\* skipped, one that cannot be opened is reported failed without a send, any
\* other enters the in-flight map, starts its tracker and joins the limiter.
Receive(d, batch) ==
    LET fresh  == {m \in batch : inFlight[d][m] = Idle}
        toSend == fresh \ Sealed
    IN  /\ \E rows \in InTurn(toSend) : limiter' = [limiter EXCEPT ![d] = @ \o rows]
        /\ inFlight' = [inFlight EXCEPT ![d] =
                            [m \in Msg |-> IF m \in toSend THEN 0 ELSE @[m]]]
        /\ reports' = reports \cup {<<d, m, "failed">> : m \in fresh \cap Sealed}

\* fetchAndSend; the claim stands whether or not the response arrives.
PhoneFetch(d) ==
    \E batch \in SUBSET {m \in Msg : claims[m] < MaxClaims} :
        /\ FetchBatch(d, batch)
        /\ claims' = [m \in Msg |-> IF m \in batch THEN claims[m] + 1 ELSE claims[m]]
        /\ \/ Receive(d, batch)
           \/ UNCHANGED <<limiter, inFlight, reports>>
        /\ UNCHANGED <<cool, radio, killed, aired>>

\* processQueueRunnable with the interval elapsed: the head goes to SmsManager,
\* or SmsManager throws and the message is reported failed.
SendNext(d) ==
    /\ cool[d] = 0
    /\ limiter[d] # <<>>
    /\ LET m == Head(limiter[d])
       IN  \/ /\ radio' = [radio EXCEPT ![d][m] = @ + 1]
              /\ UNCHANGED <<inFlight, reports>>
           \/ /\ inFlight' = [inFlight EXCEPT ![d][m] = Idle]
              /\ reports' = reports \cup {<<d, m, "failed">>}
              /\ UNCHANGED radio
    /\ limiter' = [limiter EXCEPT ![d] = Tail(@)]
    /\ cool' = [cool EXCEPT ![d] = SendInterval]
    /\ UNCHANGED <<vars, killed, aired, claims>>

\* The radio finishes a send.  Its broadcast reaches sentBroadcastReceiver,
\* except that a killed process may not have registered it again yet.
RadioDone(d, m, outcome, heard) ==
    /\ radio[d][m] > 0
    /\ heard \/ d \in killed
    /\ radio' = [radio EXCEPT ![d][m] = @ - 1]
    /\ aired' = IF outcome = "sent" THEN [aired EXCEPT ![m] = @ + 1] ELSE aired
    /\ IF heard
       THEN /\ inFlight' = [inFlight EXCEPT ![d][m] = Idle]
            /\ reports' = reports \cup {<<d, m, outcome>>}
       ELSE UNCHANGED <<inFlight, reports>>
    /\ UNCHANGED <<vars, limiter, cool, killed, claims>>

\* Mutants: the tracker queues the message again; it takes silence for success.
SendTimeoutResends(d, m) ==
    /\ inFlight[d][m] = SmsTimeout
    /\ inFlight' = [inFlight EXCEPT ![d][m] = 0]
    /\ limiter' = [limiter EXCEPT ![d] = Append(@, m)]
    /\ UNCHANGED <<vars, reports, cool, radio, killed, aired, claims>>

SendTimeoutSucceeds(d, m) ==
    /\ inFlight[d][m] = SmsTimeout
    /\ inFlight' = [inFlight EXCEPT ![d][m] = Idle]
    /\ reports' = reports \cup {<<d, m, "sent">>}
    /\ UNCHANGED <<vars, limiter, cool, radio, killed, aired, claims>>

\* The timeout tracker; the message may still be waiting in the limiter.
SendTimeout(d, m) ==
    /\ inFlight[d][m] = SmsTimeout
    /\ inFlight' = [inFlight EXCEPT ![d][m] = Idle]
    /\ reports' = reports \cup {<<d, m, "failed">>}
    /\ UNCHANGED <<vars, limiter, cool, radio, killed, aired, claims>>

\* postResults reaches the server (a revoked phone is turned away).
DeliverReport(r) ==
    /\ Live(r[1])
    /\ Results(r[1], [m \in {r[2]} |-> r[3]], TRUE)
    /\ reports' = reports \ {r}
    /\ UNCHANGED <<limiter, cool, inFlight, radio, killed, aired, claims>>

LoseReport(r) ==
    /\ reports' = reports \ {r}
    /\ UNCHANGED <<vars, limiter, cool, inFlight, radio, killed, aired, claims>>

\* The process is killed and started again.
Kill(d) ==
    /\ d \notin killed
    /\ killed' = killed \cup {d}
    /\ limiter' = [limiter EXCEPT ![d] = <<>>]
    /\ cool' = [cool EXCEPT ![d] = 0]
    /\ inFlight' = [inFlight EXCEPT ![d] = [m \in Msg |-> Idle]]
    /\ reports' = {r \in reports : r[1] # d}
    /\ UNCHANGED <<vars, radio, aired, claims>>

Elapse ==
    /\ Tick
    /\ cool' = [d \in Device |-> IF cool[d] > 0 THEN cool[d] - 1 ELSE 0]
    /\ inFlight' = [d \in Device |-> [m \in Msg |->
            IF inFlight[d][m] = Idle \/ inFlight[d][m] = SmsTimeout
            THEN inFlight[d][m] ELSE inFlight[d][m] + 1]]
    /\ UNCHANGED <<limiter, radio, reports, killed, aired, claims>>

ServerStep ==
    /\ \/ \E m \in Msg : Insert(m)
       \/ \E M \in SUBSET Msg : Withdraw(M)
       \/ \E d \in Device : Enroll(d) \/ Revoke(d)
    /\ UNCHANGED <<phoneVars, aired, claims>>

PhoneStep(d) ==
    \/ PhoneFetch(d) \/ SendNext(d) \/ Kill(d)
    \/ \E m \in Msg : SendTimeout(d, m)
    \/ \E m \in Msg, outcome \in Outcome, heard \in BOOLEAN : RadioDone(d, m, outcome, heard)

GatewayNext ==
    \/ ServerStep
    \/ \E d \in Device : PhoneStep(d)
    \/ \E r \in reports : DeliverReport(r) \/ LoseReport(r)
    \/ Elapse

GatewaySpec == GatewayInit /\ [][GatewayNext]_allVars

-----------------------------------------------------------------------------
\* What the phones still hold of a message: its places in the limiters and the sends
\* the radios have not finished.
Held(m) ==
    UNION {{<<d, "limiter", i>> : i \in {j \in DOMAIN limiter[d] : limiter[d][j] = m}}
              \cup {<<d, "radio", k>> : k \in 1..radio[d][m]} : d \in Device}

\* A hand-out is worth at most one SMS: what went over the air and what the
\* phones still hold of a message never exceeds claimed_count, through
\* timeouts, late broadcasts, kills and lost responses.
OneSmsPerClaim == \A m \in Msg : aired[m] + Cardinality(Held(m)) <= claims[m]

\* The server's word is good in one direction: a row is marked sent only if
\* the radio of some phone has sent it.
SentIsAired == \A m \in Msg : status[m] = "sent" => aired[m] > 0

\* A body that cannot be opened is never transmitted (fail-closed decryption).
SealedIsNotAired == \A m \in Sealed : aired[m] = 0

\* What the server is told agrees with the air: a row marked sent has been sent, and one
\* that no phone could open has not (OutstandingFetcher.kt:104-120, 207-231).
AirIsHonest == SentIsAired /\ SealedIsNotAired
=============================================================================
