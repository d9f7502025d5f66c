--------------------------- MODULE MCOperations ---------------------------
(* Secrets, Keyring, Fleet and PhoneService, each on a small instance.  They share no  *)
(* state, so one run takes all of them: a behaviour is one part's, and the others stay *)
(* as they began.                                                                      *)
EXTENDS Secrets, Keyring, Fleet, PhoneService, TLC

VARIABLE part

operationsVars == <<part, secretsVars, keyringVars, fleetVars, serviceVars>>

OperationsInit ==
    /\ part \in {"secrets", "keyring", "fleet", "phone"}
    /\ SecretsInit /\ KeyringInit
    /\ FleetInit /\ (part # "fleet" => \A p \in Phone : ~legacy[p])
    /\ PhoneServiceInit

OperationsNext ==
    /\ part' = part
    /\ \/ part = "secrets" /\ SecretsNext
          /\ UNCHANGED <<keyringVars, fleetVars, serviceVars>>
       \/ part = "keyring" /\ KeyringNext
          /\ UNCHANGED <<secretsVars, fleetVars, serviceVars>>
       \/ part = "fleet" /\ FleetNext
          /\ UNCHANGED <<secretsVars, keyringVars, serviceVars>>
       \/ part = "phone" /\ PhoneServiceNext
          /\ UNCHANGED <<secretsVars, keyringVars, fleetVars>>

OperationsSpec == OperationsInit /\ [][OperationsNext]_operationsVars

Lengths == [s \in Secret |-> s \div 10]

\* Once runs are tangled, no property says anything of them.
Untangled == ~tangled

\* What starts the service and what its listeners do touch only at a start and at a
\* kill: once an entry was heard of, the alarm is left armed, and the worker and
\* pushes start it.
Calm == part = "phone" => unheard = Session \/ (alarm = "once" /\ ~waking /\ reachable)

\* The Jobs and the Calls are one set of model values.
Symmetry == Permutations(Call) \union Permutations(Phone) \union Permutations(Number)
=============================================================================
