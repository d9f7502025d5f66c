----------------------------- MODULE Lifecycle -----------------------------
(***************************************************************************)
(* What the outbound queue promises to the code that puts a message into   *)
(* it (the OTP routes and the bulk tick): an accepted message is open      *)
(* until it gets exactly one outcome, sent or failed, which then never     *)
(* changes; only an open message can be taken back.                        *)
(*                                                                         *)
(* SmsQueue implements this specification; BulkCampaigns uses it as its    *)
(* queue.                                                                  *)
(***************************************************************************)
CONSTANT Msg

VARIABLE state    \* state[m]: where message m is in its life

Outcome == {"sent", "failed"}

LifeInit == state = [m \in Msg |-> "none"]

\* The producer's INSERT INTO pending_sms.
Accept(M) ==
    /\ \A m \in M : state[m] = "none"
    /\ state' = [m \in Msg |-> IF m \in M THEN "open" ELSE state[m]]

\* One report: the first outcome of an open message is recorded, an outcome for
\* any other message is dropped.
Resolve(outcome) ==
    state' = [m \in Msg |-> IF m \in DOMAIN outcome /\ state[m] = "open"
                            THEN outcome[m] ELSE state[m]]

\* The producer deletes its rows; the rows that already have an outcome stay.
Withdraw(M) ==
    state' = [m \in Msg |-> IF m \in M /\ state[m] = "open"
                            THEN "deleted" ELSE state[m]]

LifeNext ==
    \E M \in SUBSET Msg :
        \/ Accept(M)
        \/ \E outcome \in [M -> Outcome] : Resolve(outcome)
        \/ Withdraw(M)

LifeSpec == LifeInit /\ [][LifeNext]_state

-----------------------------------------------------------------------------
\* An outcome is for ever: nothing turns sent into failed, reopens a message
\* or withdraws it once it is resolved.
OutcomeIsFinal ==
    [][\A m \in Msg : state[m] \in Outcome => state'[m] = state[m]]_state
=============================================================================
