----------------------------- MODULE MCTupleStore -----------------------------
(* A relation of three tuples for TLC, one of which can be typed in two ways   *)
(* (as 7 and 07 of a number); the keys of two of them share a bucket.          *)
EXTENDS TupleStore, TLC

CONSTANTS t1, t2, t3, u1

MCKeys == 1..4
MCBuckets == {0, 1}
MCHash == [k \in MCKeys |-> IF k <= 3 THEN 0 ELSE 1]
MCTuples == {t1, t2, t3, u1}
MCStored == [t \in MCTuples |-> IF t = u1 THEN t1 ELSE t]
MCText == (t1 :> 3) @@ (t2 :> 2) @@ (t3 :> 1) @@ (u1 :> 4)
MCConditions == {{t1}, {t1, t2}, {t1, t2, t3}}
MCAssignments == {[d \in {t1, t2, t3} |-> t2], [d \in {t1, t2, t3} |-> IF d = t3 THEN t2 ELSE d]}
===============================================================================
