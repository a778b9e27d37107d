------------------------------ MODULE MCFuture ------------------------------
(***************************************************************************)
(* Small instances of Future for TLC.                                      *)
(***************************************************************************)
EXTENDS Future

CONSTANTS c1, c2, w1, w2, f1, f2, b1
=============================================================================
