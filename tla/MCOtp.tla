-------------------------------- MODULE MCOtp --------------------------------
(* Otp on a small instance: a behaviour has either its whole world, or the client's    *)
(* calls and no plan.                                                                  *)
EXTENDS ClientSdk, TLC

VARIABLE part

OtpPartsInit == part \in {"otp", "sdk"} /\ SdkInit

OtpPartsNext ==
    /\ part' = part
    /\ \/ part = "otp" /\ Next /\ UNCHANGED call
       \/ part = "sdk" /\ SdkNext

OtpPartsSpec == OtpPartsInit /\ [][OtpPartsNext]_<<part, sdkVars>>

CONSTANTS s1, s2, d1, d2, d3

CapOne == [s \in Sub |-> 1]

\* Either three phones come and go without a session, or phones, sessions,
\* credits and submitted TrxIDs mix: two phones leave room for one session, one
\* for three.  Each rule is exercised to its limit, though not all of them in
\* one behaviour.
Joined == {d \in Device : phone[d] # "none"}
Paid   == {s \in Sub : trx[s] # NoTrx}
Small  == part = "otp" =>
          \/ session = <<>> /\ bought = 0
          \/ 2 * Cardinality(Joined) + Len(session) + bought + 2 * Cardinality(Paid) <= 5

\* No plan is bought and no phone joins: every code is paid, and the credits are bought
\* first.  At most two codes and two calls under way; the first call is a send, and only
\* it may be refused for what is not the plane's own state.  One call asks for
\* the status; a receipt lost is as good as one unread.
UnderWay == {c \in DOMAIN call : call[c].got = "nothing" \/ call[c].answer = NoAnswer}
Unplanned ==
    part = "sdk" =>
        /\ Joined = {} /\ With("none") = Sub
        /\ now < MaxNow /\ Len(session) <= 2 /\ Cardinality(UnderWay) <= 2
        /\ call # <<>> => call[1].op = "send" /\ bought = MaxBought /\ creditsEnd = CreditDays
        /\ \A c \in DOMAIN call : call[c].answer \in {"unauthorized", "sms_paused"} => c = 1
        /\ Cardinality({c \in DOMAIN call : call[c].op = "status"}) <= 1
        /\ \A c \in DOMAIN call : call[c].op = "send" => call[c].got # "network"

\* Nobody guesses a code by asking often, through lapses, locks and new codes (Otp,
\* GuessBudget); and where the app's calls are all there are, each costs one guess at
\* most, one at most opens the session, and what a lost answer said is not lost
\* (ClientSdk, AppKnows).
CodesAreGuarded == GuessBudget /\ (part = "sdk" => AppKnows)

Symmetry == {p @@ q : p \in Permutations(Device), q \in Permutations(Sub)}
=============================================================================
