------------------------------ MODULE MCHandles -----------------------------
(* Instances of Handles: a main thread and one that is spawned.            *)
EXTENDS Handles

CONSTANTS t1, t2, w1, w2, w3, r1, m1

=============================================================================
