----------------------------- MODULE MCHashLedger -----------------------------
(* A table of two buckets for TLC: three of the four keys collide in one. *)
EXTENDS HashLedger

CONSTANTS b0, b1

MCKeys    == 1..4
MCBuckets == {b0, b1}
MCHash    == [k \in MCKeys |-> IF k = 2 THEN b1 ELSE b0]
===============================================================================
