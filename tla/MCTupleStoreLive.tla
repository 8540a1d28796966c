--------------------------- MODULE MCTupleStoreLive ---------------------------
(* A relation of the data dictionary with room for two tuples, for liveness. *)
EXTENDS TupleStore, TLC

CONSTANTS t1, t2, u1

MCKeys == 1..3
MCBuckets == {0}
MCHash == [k \in MCKeys |-> 0]
MCTuples == {t1, t2, u1}
MCStored == [t \in MCTuples |-> IF t = u1 THEN t1 ELSE t]
MCText == (t1 :> 2) @@ (t2 :> 1) @@ (u1 :> 3)
MCConditions == {{t1}, {t1, t2}}
MCAssignments == {[d \in {t1, t2} |-> t2]}
===============================================================================
