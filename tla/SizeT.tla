-------------------------------- MODULE SizeT -------------------------------
(* The integers of type size_t: arithmetic on them is modulo SizeMax.      *)
EXTENDS Naturals

CONSTANT SizeMax     \* 2 ^ 64 in the code

ASSUME SizeTAssumption == SizeMax \in Nat \ {0}

Size == 0 .. SizeMax - 1

\* Sums and products of sizes, as the machine computes them.
Plus(m, n) == (m + n) % SizeMax

Times(m, n) == (m * n) % SizeMax

=============================================================================
