--------------------------- MODULE MCPaymentReader ---------------------------
(* PaymentReader for TLC: two SMS with one TrxID, of which only the first has  *)
(* an amount above zero, and one the reader cannot parse.                      *)
EXTENDS PaymentReader, TLC

CONSTANTS s1, s2, s3, x1

TrxOfSms == [s \in {s1, s2, s3} |-> IF s = s3 THEN NoTrx ELSE x1]

Symmetry == Permutations(Worker)
=============================================================================
