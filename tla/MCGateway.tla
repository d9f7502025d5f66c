------------------------------ MODULE MCGateway ------------------------------
(* Gateway for TLC: the phones of one app, the routing clauses being         *)
(* SmsQueue's business.  Either both phones work and only m1 is sent, up to  *)
(* MaxClaims times, or d1 works alone on m1 and m2, which it cannot open,    *)
(* each handed out twice.                                                    *)
EXTENDS Gateway

CONSTANTS d1, d2, m1, m2

OneAppInit ==
    /\ GatewayInit
    /\ bound \in [Device -> App]
    /\ freePass = [m \in Msg |-> FALSE]

OneAppSpec == OneAppInit /\ [][GatewayNext]_allVars

TwoPhonesOrTwoMessages ==
    \/ status[m2] = "none"
    \/ device[d2] = "none" /\ \A m \in Msg : claims[m] <= 2
=============================================================================
