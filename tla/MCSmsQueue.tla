---------------------------- MODULE MCSmsQueue ----------------------------
(* SmsQueue for TLC.  A batch limit of one makes two rows compete for a batch; *)
(* d1 is a phone of a1, d2 another phone of a1, one of a2 or one of the fleet; *)
(* m1 belongs to a1, and one of the rows has the free pass.                  *)
EXTENDS SmsQueue

CONSTANTS m1, m2, d1, d2, a1, a2

MixedInit ==
    /\ Init
    /\ bound[d1] = a1 /\ owner[m1] = a1
    /\ {freePass[m] : m \in Msg} = BOOLEAN

MixedSpec == MixedInit /\ [][Next]_vars /\ Fairness
=============================================================================
