------------------------------ MODULE MCChainHeap ------------------------------
(* A chain of up to four nodes over three keys for TLC. *)
EXTENDS ChainHeap

MCKeys == 1..3
MCAddresses == 1..4
===============================================================================
