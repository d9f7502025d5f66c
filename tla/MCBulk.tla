------------------------------- MODULE MCBulk -------------------------------
(* BulkCampaigns for TLC.                                                   *)
EXTENDS BulkCampaigns

CONSTANTS c1, c2, r1, r2, r3, p1, p2, t1, t2

\* Two campaigns of one recipient each; both list the same phone number.
Shared   == [r \in {r1, r3} |-> IF r = r3 THEN c2 ELSE c1]
Alone    == [r \in {r1, r3} |-> 0]
OnePhone == [r \in {r1, r3} |-> p1]

\* One campaign of two recipients.
OneList == [r \in {r1, r2} |-> c1]
Order   == [r \in {r1, r2} |-> IF r = r2 THEN 1 ELSE 0]
Phones  == [r \in {r1, r2} |-> IF r = r2 THEN p2 ELSE p1]
=============================================================================
