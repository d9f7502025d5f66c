--------------------------------- MODULE Otp ---------------------------------
(***************************************************************************)
(* One-time passwords of one client app (server/src/routes/otp.ts): send,  *)
(* verify and status, charged to the app's wallet or carried free by its   *)
(* unlimited plan (Plans).                                                 *)
(*                                                                         *)
(* A handler reads and commits without an await in between, but it looks   *)
(* at the clock more than once: a second may begin between the checks of a *)
(* send and its transaction.                                               *)
(***************************************************************************)
EXTENDS Plans, Sequences, FiniteSetsExt

CONSTANTS
    Number,       \* phone numbers that receive codes
    Ttl,          \* OTP_TTL_SEC
    MaxAttempts,  \* OTP_MAX_ATTEMPTS
    LockoutSec,   \* OTP_LOCKOUT_SEC
    CooldownSec,  \* OTP_RESEND_COOLDOWN_SEC
    RateMax, RateWindow,   \* apps.rate_max_per_phone, rate_window_sec
    CreditDays,   \* validity of bought credits
    NoTime,       \* NULL
    MaxSends, MaxBought    \* bounds of the model

ASSUME OtpAssumption ==
    /\ Ttl \in Nat \ {0} /\ MaxAttempts \in Nat \ {0} /\ LockoutSec \in Nat \ {0}
    /\ CooldownSec \in Nat /\ RateMax \in Nat \ {0} /\ RateWindow \in Nat \ {0}
    /\ CreditDays \in Nat \ {0} /\ NoTime \notin Nat
    /\ MaxSends \in Nat /\ MaxBought \in Nat

VARIABLES
    session,     \* otp_sessions in the order of their insertion
    credits,     \* otp_sms_remaining
    creditsEnd,  \* otp_expires_at
    bought,      \* history: credits ever bought
    lastSend     \* resendCooldown: when a send to the number was let through

otpVars == <<session, credits, creditsEnd, bought, lastSend>>
vars    == <<now, planVars, phoneVars, otpVars>>

Session == [phone : Number, status : {"pending", "verified", "expired"}, attempts : Nat,
            locked_until : Nat \cup {NoTime}, created : Nat, free : BOOLEAN]

TypeOK ==
    /\ PlansTypeOK
    /\ session \in Seq(Session) /\ Len(session) <= MaxSends
    /\ credits \in 0..MaxBought /\ bought \in 0..MaxBought
    /\ creditsEnd \in Nat \cup {NoTime}
    /\ lastSend \in [Number -> Nat \cup {NoTime}]

Init ==
    /\ PlansInit
    /\ session = <<>>
    /\ credits = 0 /\ bought = 0 /\ creditsEnd = NoTime
    /\ lastSend = [n \in Number |-> NoTime]

Of(n)      == {i \in DOMAIN session : session[i].phone = n}
Pending(n) == {i \in Of(n) : session[i].status = "pending"}
Lapsed(i)  == session[i].created + Ttl <= now
Locked(i)  == session[i].locked_until # NoTime /\ session[i].locked_until > now

-----------------------------------------------------------------------------
(* POST /v5/otp/send                                                        *)

otpCreditsExpired(t) == creditsEnd # NoTime /\ creditsEnd <= t
CanPay(t)   == credits >= 1 /\ ~otpCreditsExpired(t)
CooledDown(n) == lastSend[n] # NoTime => now >= lastSend[n] + CooldownSec

\* Mutant: the newer code leaves the older one valid.
SupersedeNone(n) == session

RateOk(n) == Cardinality({i \in Of(n) : session[i].created + RateWindow > now}) < RateMax

\* A newer send supersedes the number's pending session.
Supersede(n) == [i \in DOMAIN session |->
                    IF i \in Pending(n) THEN [session[i] EXCEPT !.status = "expired"]
                    ELSE session[i]]

\* Mutant: the charge goes by the free pass of the checks, the row by a new one.
CreateSessionMixed(n, t) ==
    /\ session' = Append(Supersede(n),
            [phone |-> n, status |-> "pending", attempts |-> 0,
             locked_until |-> NoTime, created |-> t, free |-> byodEligible(t)])
    /\ credits' = IF byodEligible(now) THEN credits ELSE credits - 1

\* createSession, whose clock reads t: the free pass is derived anew, and a
\* send it no longer covers is paid or refused.
CreateSession(n, t) ==
    LET free == byodEligible(t)
    IN  IF free \/ CanPay(t)
        THEN /\ session' = Append(Supersede(n),
                    [phone |-> n, status |-> "pending", attempts |-> 0,
                     locked_until |-> NoTime, created |-> t, free |-> free])
             /\ credits' = IF free THEN credits ELSE credits - 1
        ELSE UNCHANGED <<session, credits>>

\* The checks read the clock now, the transaction at t; the cooldown is armed
\* in between.  A send refused by the kill switch is no step: the operator may
\* throw the switch at any time, and it decides nothing else here.
Send(n, t) ==
    /\ Len(session) < MaxSends
    /\ RateOk(n)
    /\ byodEligible(now) \/ CanPay(now)
    /\ CooledDown(n)
    /\ lastSend' = [lastSend EXCEPT ![n] = now]
    /\ CreateSession(n, t)
    /\ now' = t
    /\ UNCHANGED <<planVars, phoneVars, creditsEnd, bought>>

-----------------------------------------------------------------------------
(* POST /v5/otp/verify and GET /v5/otp/status                               *)

Newest(I) == {i \in I : \A j \in I : session[j].created <= session[i].created}

SetSession(i, s) ==
    /\ session' = [session EXCEPT ![i] = s]
    /\ UNCHANGED <<now, planVars, phoneVars, credits, creditsEnd, bought, lastSend>>

Expire(i) == SetSession(i, [session[i] EXCEPT !.status = "expired"])

MayTry(i) == ~Locked(i)

AfterWrong(s) ==
    [s EXCEPT !.attempts = @ + 1,
              !.locked_until = IF s.attempts + 1 >= MaxAttempts THEN now + LockoutSec ELSE @]

\* The newest pending session of the number is looked up and, if it has not
\* lapsed and is not locked, the code is compared and the outcome stored.
Verify(n, right) ==
    \E i \in Newest(Pending(n)) :
        IF Lapsed(i) THEN Expire(i)
        ELSE /\ MayTry(i)
             /\ SetSession(i, IF right THEN [session[i] EXCEPT !.status = "verified"]
                              ELSE AfterWrong(session[i]))

\* A status query expires a pending session that has lapsed.
Status(n) ==
    \E i \in Newest(Of(n)) : session[i].status = "pending" /\ Lapsed(i) /\ Expire(i)

-----------------------------------------------------------------------------
(* The rest of the app's world                                              *)

\* A package of one credit is awarded (services/credits.ts).
TopUp ==
    /\ bought < MaxBought
    /\ bought' = bought + 1 /\ credits' = credits + 1
    /\ creditsEnd' = Max({now + CreditDays} \cup ({creditsEnd} \ {NoTime}))
    /\ UNCHANGED <<now, planVars, phoneVars, session, lastSend>>

\* The cooldown lives in memory.
Restart ==
    /\ lastSend' = [n \in Number |-> NoTime]
    /\ UNCHANGED <<now, planVars, phoneVars, session, credits, creditsEnd, bought>>

Tick ==
    /\ now < MaxNow
    /\ now' = now + 1
    /\ UNCHANGED <<planVars, phoneVars, otpVars>>

Next ==
    \/ PlanStep /\ UNCHANGED otpVars
    \/ \E n \in Number : \/ \E t \in {now, now + 1} \cap 0..MaxNow : Send(n, t)
                         \/ \E right \in BOOLEAN : Verify(n, right)
                         \/ Status(n)
    \/ TopUp \/ Restart \/ Tick

Spec == Init /\ [][Next]_vars

-----------------------------------------------------------------------------
(* Properties                                                               *)

\* No credit is spent twice, lost or forgotten: what was bought is either still
\* there or paid for one session, whatever the plan does between the checks of
\* a send and its transaction.
CreditsSpent ==
    credits + Cardinality({i \in DOMAIN session : ~session[i].free}) = bought

\* Every free session was created within the paid-for time of a plan the
\* operator had approved, also when the plan lapsed while it was being sent.
FreeIsCovered ==
    \A i \in DOMAIN session : session[i].free =>
        \E s \in With("active") \cup With("superseded") :
            starts[s] <= session[i].created /\ session[i].created < expires[s]

\* The wrong guesses one session can take before it lapses: those up to the
\* lock, and one each time the lock ends.
GuessesOf == MaxAttempts + (Ttl - 1) \div LockoutSec

\* Sending again is no way round the lock: all the sessions of a number in a
\* rate window together take no more guesses than RateMax sessions do, and a
\* session never more than its own share.
GuessBudget ==
    \A n \in Number :
        LET recent == {i \in Of(n) : session[i].created + RateWindow > now}
        IN  /\ \A i \in Of(n) : session[i].attempts <= GuessesOf
            /\ Cardinality(recent) <= RateMax

\* Only the last code sent to a number can be verified, while it has neither
\* lapsed nor been locked; and a session that is verified or expired stays so.
OnlyTheLastVerifies ==
    [][\A i \in DOMAIN session :
        LET was == session[i].status
            is  == session'[i].status
        IN  /\ is # was => was = "pending"
            /\ is = "verified" /\ was = "pending" =>
                    /\ ~Lapsed(i) /\ ~Locked(i)
                    /\ \A j \in Of(session[i].phone) : j <= i]_vars

\* Every code that was sent is covered: by a plan, or by one credit.
EveryCodeIsCovered == FreeIsCovered /\ CreditsSpent
=============================================================================
