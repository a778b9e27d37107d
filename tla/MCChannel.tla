----------------------------- MODULE MCChannel ------------------------------
(***************************************************************************)
(* Small instances of Channel for TLC.                                     *)
(***************************************************************************)
EXTENDS Channel, TLC

CONSTANTS r, s1, s2, b1, b2, b3, b4

\* The two senders are alike; so are the blocks.
SenderSymmetry == Permutations({s1, s2}) \cup Permutations({b1, b2, b3, b4})
=============================================================================
