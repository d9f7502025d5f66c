----------------------------- MODULE MCAlerting -----------------------------
(* Alerting on a small instance. *)
EXTENDS Alerting, TLC

\* Either phones enrol or messages are dispatched: the choice is the clients',
\* and no step that a fairness condition speaks of leaves it.
OneSide == (\A w \in Slot : rows[w] = <<>>) \/ (\A d \in Device : life[d] = "absent")
=============================================================================
