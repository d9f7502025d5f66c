------------------------------ MODULE ClientSdk ------------------------------
(***************************************************************************)
(* A client app and the OTP plane, seen through the SDKs (the Kotlin       *)
(* client/PhoneAuthHelper.kt and the Node client-node/src/client.ts).      *)
(*                                                                         *)
(* A call is one request, never repeated by the SDK.  It gives up after    *)
(* its timeout, while the server may be on it: the answer of a send waits  *)
(* for a push to the gateway, that of a verification for the webhook of    *)
(* the app.  So the request may be handled after the call is over, and     *)
(* what was handled may never be told.  Requests overtake each other.      *)
(*                                                                         *)
(* A call refused before its request (a malformed number or code) is no    *)
(* step.  Codes are the number of their session; 0 is no session's code.   *)
(***************************************************************************)
EXTENDS Otp

CONSTANTS
    NoAnswer,
    MaxCalls     \* bound: calls of the client

VARIABLE call    \* the calls in the order they were made

sdkVars == <<vars, call>>

Answer == {"created", "verified", "pending", "expired", "invalid_otp", "otp_expired", "otp_locked",
           "rate_limited", "resend_cooldown", "insufficient_credits", "not_found", "sms_paused",
           "unauthorized"}

ASSUME SdkAssumption == MaxCalls \in Nat /\ NoAnswer \notin Answer

\* of: the session the answer is about, 0 if none was touched; got: what the app has of it.
Made == [op : {"send", "verify", "status"}, phone : Number, code : 0..MaxSends,
         answer : Answer \union {NoAnswer}, of : 0..MaxSends, got : {"nothing", "answer", "network"}]

SdkTypeOK == TypeOK /\ call \in Seq(Made) /\ Len(call) <= MaxCalls

SdkInit == Init /\ call = <<>>

-----------------------------------------------------------------------------
(* What the SDKs make of an answer                                          *)

failureFor == [
    otp_expired |-> "SessionExpired", invalid_otp |-> "WrongOtp", otp_locked |-> "Locked",
    rate_limited |-> "RateLimited", resend_cooldown |-> "RateLimited",
    insufficient_credits |-> "InsufficientCredits", not_found |-> "NotFound",
    sms_paused |-> "ServicePaused", unauthorized |-> "AuthRejected"]

errorFrom == [
    otp_expired |-> "ValidationError", invalid_otp |-> "AuthenticationError",
    otp_locked |-> "DpRelayError", rate_limited |-> "RateLimitError",
    resend_cooldown |-> "RateLimitError", insufficient_credits |-> "InsufficientCreditsError",
    not_found |-> "NotFoundError", sms_paused |-> "DpRelayError",
    unauthorized |-> "AuthenticationError"]

parseVerifyResponse(a) == IF a = "verified" THEN "true" ELSE failureFor[a]

\* A wrong code and a lock are results, not errors.
verifyOtp(a) ==
    CASE a = "verified" -> "true"
      [] a \in {"invalid_otp", "otp_locked"} -> "false"
      [] OTHER -> errorFrom[a]

\* No session is a result in one SDK, an error in the other.
parseStatusResponse(a) ==
    IF a = "not_found" THEN "no session" ELSE IF a \in DOMAIN failureFor THEN failureFor[a] ELSE a
getOtpStatus(a) == IF a \in DOMAIN errorFrom THEN errorFrom[a] ELSE a

Known(c) == call[c].got = "answer"
Confirms(c) ==
    /\ Known(c) /\ call[c].op = "verify"
    /\ "true" \in {parseVerifyResponse(call[c].answer), verifyOtp(call[c].answer)}
Tells(c) ==
    IF Known(c) /\ call[c].op = "status"
    THEN {parseStatusResponse(call[c].answer), getOtpStatus(call[c].answer)} ELSE {}

-----------------------------------------------------------------------------
(* The client                                                               *)

Asks(op, n, code) ==
    /\ Len(call) < MaxCalls
    /\ call' = Append(call, [op |-> op, phone |-> n, code |-> code,
                             answer |-> NoAnswer, of |-> 0, got |-> "nothing"])
    /\ UNCHANGED vars

SendOtp(n) == Asks("send", n, 0)
VerifyOtp(n, code) == Asks("verify", n, code)
GetOtpStatus(n) == Asks("status", n, 0)

Returns(c) ==
    /\ call[c].got = "nothing" /\ call[c].answer # NoAnswer
    /\ call' = [call EXCEPT ![c].got = "answer"]
    /\ UNCHANGED vars

\* Mutant: the request is sent once more.
ResentOnTimeout(c) ==
    /\ call[c].got = "nothing"
    /\ call' = [call EXCEPT ![c].answer = NoAnswer, ![c].of = 0]
    /\ UNCHANGED vars

\* The timeout, or the connection breaks, even between the headers and the body.
TimesOut(c) ==
    /\ call[c].got = "nothing"
    /\ call' = [call EXCEPT ![c].got = "network"]
    /\ UNCHANGED vars

-----------------------------------------------------------------------------
(* The server                                                               *)

Replies(c, answer, i) == call' = [call EXCEPT ![c].answer = answer, ![c].of = i]

Waits(c, op) == call[c].answer = NoAnswer /\ call[c].op = op

\* The app was revoked, or its secret renewed.
Refuses(c) ==
    /\ call[c].answer = NoAnswer
    /\ Replies(c, "unauthorized", 0)
    /\ UNCHANGED vars

\* The first check that fails.
SendRefusals(n) ==
    {"sms_paused"} \union
    (IF ~RateOk(n) THEN {"rate_limited"}
     ELSE IF ~(byodEligible(now) \/ CanPay(now)) THEN {"insufficient_credits"}
     ELSE IF ~CooledDown(n) THEN {"resend_cooldown"} ELSE {})

\* A send that its transaction refuses has armed the cooldown.
HandlesSend(c, t) ==
    /\ Waits(c, "send")
    /\ \/ \E refusal \in SendRefusals(call[c].phone) : Replies(c, refusal, 0) /\ UNCHANGED vars
       \/ /\ Send(call[c].phone, t)
          /\ IF session' # session THEN Replies(c, "created", Len(session'))
             ELSE Replies(c, "insufficient_credits", 0)

HandlesVerify(c) ==
    LET n == call[c].phone
        open == Newest(Pending(n))
    IN  /\ Waits(c, "verify")
        /\ \/ open = {} /\ Replies(c, "otp_expired", 0) /\ UNCHANGED vars
           \/ \E i \in open : \/ Lapsed(i) /\ Verify(n, FALSE) /\ Replies(c, "otp_expired", 0)
                              \/ ~Lapsed(i) /\ Locked(i) /\ Replies(c, "otp_locked", 0) /\ UNCHANGED vars
           \/ \E i \in open :
                 /\ ~Lapsed(i) /\ Verify(n, call[c].code = i)
                 /\ Replies(c, CASE session'[i].status = "verified" -> "verified"
                                 [] session'[i].locked_until # session[i].locked_until -> "otp_locked"
                                 [] OTHER -> "invalid_otp", i)

HandlesStatus(c) ==
    LET n == call[c].phone
    IN  /\ Waits(c, "status")
        /\ \/ Of(n) = {} /\ Replies(c, "not_found", 0) /\ UNCHANGED vars
           \/ Status(n) /\ \E i \in Of(n) : session'[i] # session[i] /\ Replies(c, "expired", i)
           \/ \E i \in Newest(Of(n)) : /\ session[i].status = "pending" => ~Lapsed(i)
                                       /\ Replies(c, session[i].status, i) /\ UNCHANGED vars

SdkNext ==
    \/ \E n \in Number : \/ SendOtp(n) \/ GetOtpStatus(n)
                         \/ \E code \in 0..Len(session) : VerifyOtp(n, code)
    \/ \E c \in DOMAIN call :
          \/ Returns(c) \/ TimesOut(c) \/ Refuses(c)
          \/ \E t \in {now, now + 1} \cap 0..MaxNow : HandlesSend(c, t)
          \/ HandlesVerify(c) \/ HandlesStatus(c)
    \/ (PlanStep /\ UNCHANGED <<otpVars, call>>)
    \/ (TopUp /\ UNCHANGED call) \/ (Restart /\ UNCHANGED call) \/ (Tick /\ UNCHANGED call)

SdkSpec == SdkInit /\ [][SdkNext]_sdkVars

-----------------------------------------------------------------------------
(* Properties                                                               *)

\* A code opens one door: of all the calls that carried it, one at most is confirmed,
\* and that one verified the session.
CodeOpensOnce ==
    \A i \in DOMAIN session :
        LET confirmed == {c \in DOMAIN call : call[c].of = i /\ Confirms(c)}
        IN  /\ Cardinality(confirmed) <= 1
            /\ \A c \in confirmed : call[c].code = i /\ session[i].status = "verified"

\* A call costs the user one guess at most, whether or not its answer comes.
OneGuessPerCall ==
    \A i \in DOMAIN session :
        session[i].attempts = Cardinality({c \in DOMAIN call :
            call[c].op = "verify" /\ call[c].of = i /\ call[c].code # i})

\* A confirmation that was lost is not lost to the app: until a newer code is sent, the
\* status tells it.  (Two codes of one second, which only a restart allows, are one age.)
LostIsTold ==
    \A c \in DOMAIN call : call[c].op = "verify" /\ call[c].answer = "verified" =>
        LET i == call[c].of
            rivals == {j \in Of(call[c].phone) : session[j].created >= session[i].created} \ {i}
        IN  rivals = {} => /\ \A j \in Newest(Of(call[c].phone)) : session[j].status = "verified"
                           /\ \A d \in DOMAIN call :
                                 call[d].of = i /\ d > c => Tells(d) \subseteq {"verified", "pending"}

AppKnows == CodeOpensOnce /\ OneGuessPerCall /\ LostIsTold
=============================================================================
