-------------------------------- MODULE Plans --------------------------------
(***************************************************************************)
(* The unlimited plan of one client app: its purchases                     *)
(* (server/src/routes/billing.ts), the phones bound to it and the slots    *)
(* they take (server/src/routes/device.ts), and byodEligible, the one      *)
(* place that decides whether a message rides free                         *)
(* (server/src/services/plans.ts).                                         *)
(*                                                                         *)
(* A handler has no await between its reads and its commit and is one      *)
(* step.  Time is the server's clock in seconds.                           *)
(***************************************************************************)
EXTENDS Naturals, FiniteSets

CONSTANTS
    Sub,         \* purchases (app_subscriptions rows)
    Cap,         \* Cap[s]: the max_devices of the tier bought
    Trx, NoTrx,  \* TrxIDs; trx_id IS NULL
    Device,      \* phones the app may bind
    Validity,    \* validityDays of a tier
    ChurnSec,    \* CHURN_WINDOW_SEC
    MaxNow       \* bound of the clock

ASSUME PlansAssumption ==
    /\ Cap \in [Sub -> Nat \ {0}]
    /\ NoTrx \notin Trx
    /\ Validity \in Nat \ {0} /\ ChurnSec \in Nat \ {0}
    /\ MaxNow \in Nat

VARIABLES
    now,
    sub,         \* app_subscriptions.status ("none": not bought)
    trx,         \* app_subscriptions.trx_id
    starts, expires,
    phone,       \* devices: not enrolled, live, or revoked_at set
    enrolled     \* devices.created_at

planVars == <<sub, trx, starts, expires>>
phoneVars == <<phone, enrolled>>

PlansTypeOK ==
    /\ now \in 0..MaxNow
    /\ sub \in [Sub -> {"none", "pending", "active", "rejected", "superseded"}]
    /\ trx \in [Sub -> Trx \cup {NoTrx}]
    /\ starts \in [Sub -> 0..MaxNow]
    /\ expires \in [Sub -> Nat]
    /\ phone \in [Device -> {"none", "live", "revoked"}]
    /\ enrolled \in [Device -> 0..MaxNow]

PlansInit ==
    /\ now = 0
    /\ sub = [s \in Sub |-> "none"]
    /\ trx = [s \in Sub |-> NoTrx]
    /\ starts = [s \in Sub |-> 0]
    /\ expires = [s \in Sub |-> 0]
    /\ phone = [d \in Device |-> "none"]
    /\ enrolled = [d \in Device |-> 0]

With(status)     == {s \in Sub : sub[s] = status}
boundDeviceCount == Cardinality({d \in Device : phone[d] = "live"})

\* An active plan that has not lapsed, and a live phone to carry the message.
byodEligible(t) == (\E s \in With("active") : expires[s] > t) /\ boundDeviceCount > 0

-----------------------------------------------------------------------------
(* Purchases                                                                *)

\* POST /v5/billing/plans/purchase: one purchase pending at a time.
Purchase(s) ==
    /\ sub[s] = "none" /\ With("pending") = {}
    /\ sub' = [sub EXCEPT ![s] = "pending"]
    /\ UNCHANGED <<now, trx, starts, expires, phoneVars>>

\* POST /v5/billing/plans/submit-trx: a TrxID stays with the first purchase.
SubmitTrx(s, x) ==
    /\ sub[s] = "pending" /\ trx[s] = NoTrx
    /\ \A q \in Sub : trx[q] # x
    /\ trx' = [trx EXCEPT ![s] = x]
    /\ UNCHANGED <<now, sub, starts, expires, phoneVars>>

\* The new period starts where the active plan ends.
Base == IF \E s \in With("active") : expires[s] > now
        THEN expires[CHOOSE s \in With("active") : TRUE] ELSE now

\* POST /v5/admin/billing/plans/approve.
Approve(s) ==
    /\ sub[s] = "pending"
    /\ sub' = [q \in Sub |-> IF q = s THEN "active"
                             ELSE IF sub[q] = "active" THEN "superseded" ELSE sub[q]]
    /\ starts' = [starts EXCEPT ![s] = now]
    /\ expires' = [expires EXCEPT ![s] = Base + Validity]
    /\ UNCHANGED <<now, trx, phoneVars>>

Reject(s) ==
    /\ sub[s] = "pending"
    /\ sub' = [sub EXCEPT ![s] = "rejected"]
    /\ UNCHANGED <<now, trx, starts, expires, phoneVars>>

-----------------------------------------------------------------------------
(* Phones                                                                   *)

Recent == {d \in Device : phone[d] # "none" /\ enrolled[d] + ChurnSec > now}

\* Mutant: revoked phones drop out of the window.
SlotFreeForgetful(s) ==
    /\ boundDeviceCount < Cap[s]
    /\ Cardinality({d \in Recent : phone[d] = "live"}) <= Cap[s]

\* A slot is free, and no more than Cap phones joined within the churn window.
SlotFree(s) == boundDeviceCount < Cap[s] /\ Cardinality(Recent) <= Cap[s]

\* POST /v5/device/enroll with the app's enrolment secret.  A lapsed plan goes
\* on counting; an app without one enrols as it likes.
Enroll(d) ==
    /\ phone[d] = "none"
    /\ \A s \in With("active") : SlotFree(s)
    /\ phone' = [phone EXCEPT ![d] = "live"]
    /\ enrolled' = [enrolled EXCEPT ![d] = now]
    /\ UNCHANGED <<now, planVars>>

\* DELETE /v5/apps/devices/:deviceId, or the operator's revoke.
Delete(d) ==
    /\ phone[d] = "live"
    /\ phone' = [phone EXCEPT ![d] = "revoked"]
    /\ UNCHANGED <<now, planVars, enrolled>>

PlanStep ==
    \/ \E s \in Sub : \/ Purchase(s) \/ Approve(s) \/ Reject(s)
                      \/ \E x \in Trx : SubmitTrx(s, x)
    \/ \E d \in Device : Enroll(d) \/ Delete(d)

-----------------------------------------------------------------------------
(* Properties                                                               *)

\* What was paid for is neither doubled nor lost: one plan is active and one
\* purchase open at a time, one TrxID pays for one purchase, and the periods of
\* all approved purchases, laid end to end, never overlap.
PurchasesAreApart ==
    /\ Cardinality(With("active")) <= 1 /\ Cardinality(With("pending")) <= 1
    /\ \A s, q \in Sub : trx[s] = trx[q] /\ trx[s] # NoTrx => s = q
    /\ \A s, q \in With("active") \cup With("superseded") :
          s = q \/ expires[s] + Validity <= expires[q] \/ expires[q] + Validity <= expires[s]

\* The slot rule since the plan began: of the phones that joined after that, at
\* most Cap are live and at most Cap + 1 joined within the churn window.
SlotsSinceStart ==
    \A s \in With("active") :
        LET joined == {d \in Device : phone[d] # "none" /\ enrolled[d] > starts[s]}
        IN  /\ Cardinality({d \in joined : phone[d] = "live"}) <= Cap[s]
            /\ Cardinality(joined \cap Recent) <= Cap[s] + 1

\* What a plan sells is given once and no more: paid periods and slots.
PlansAreHonest == PurchasesAreApart /\ SlotsSinceStart
=============================================================================
