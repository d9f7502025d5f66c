----------------------------- MODULE MCPayments -----------------------------
(* Payments for TLC: three requests (t2 in another currency), two transfers,   *)
(* one of which arrives in two SMS; under the strict rule only matching      *)
(* pairs fit, under the lax one every pair does.                             *)
EXTENDS Payments

CONSTANTS t1, t2, t3, x1, x2, s1, s2, s3, otp, bulk, strict, lax

TrxOfSms == [s \in {s1, s2, s3} |-> IF s = s3 THEN x2 ELSE x1]
Packages == [t \in {t1, t2, t3} |-> IF t = t1 THEN {otp, bulk} ELSE IF t = t2 THEN {bulk} ELSE {otp}]
Quotas   == [t \in {t1, t2, t3} |-> IF t = t2 THEN 2 ELSE 1]
Days     == [t \in {t1, t2, t3} |-> IF t = t1 THEN 2 ELSE 1]
Matching == [r \in {strict, lax} |->
                IF r = lax THEN {t1, t2, t3} \X {s1, s2, s3}
                ELSE {<<t1, s1>>, <<t2, s1>>, <<t3, s3>>}]
=============================================================================
