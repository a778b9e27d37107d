----------------------------- MODULE MCRegistry -----------------------------
(***************************************************************************)
(* Small instances of Registry for TLC, and its refinement of Lifecycle.   *)
(***************************************************************************)
EXTENDS Registry, TLC

CONSTANTS t1, t2

TwoAddrs == {16, 32}

ClaimOps == {"malloc", "free", "claim"}

SharedDiscipline == {"claim", "share", "realloc"}
NoClaimDiscipline == {"share", "realloc"}
NoReallocDiscipline == {"claim", "share"}

ThreadSymmetry == Permutations({t1, t2})
=============================================================================
