---------------------------- MODULE MCSequential ----------------------------
(***************************************************************************)
(* Instances of the sequential parts: the objects of the library, and the  *)
(* two parts that read text, the JSON parser and the static analyzer.      *)
(* They share no state, so a behaviour uses one of them.                   *)
(***************************************************************************)
EXTENDS Rc, SafeString, Collections, Region, Json, Lint

CONSTANTS o1, o2, o3, s1, s2, x, y, i1, i2, i3, c1, c2, c3, p, q

VARIABLE part

vars == <<part, rcVars, strVars, colVars, regVars, jsonVars, lintVars>>

Texts == {<<>>, <<x>>, <<x, y>>}

\* Neither the objects nor the variables of a text are told apart by their names.
Symmetry == Permutations(Objects) \cup Permutations(Vars)

Init ==
  /\ part \in {"rc", "string", "vector", "array", "region", "json", "lint", "text"}
  /\ RcInit /\ StrInit /\ ColInit /\ RegInit /\ JsonInit /\ LintInit

Next ==
  /\ UNCHANGED part
  /\ \/ part = "rc" /\ RcNext
     \/ part # "rc" /\ UNCHANGED rcVars
  /\ \/ part = "string" /\ StrNext
     \/ part # "string" /\ UNCHANGED strVars
  /\ \/ part = "vector" /\ VecNext
     \/ part = "array" /\ ArrNext
     \/ part \notin {"vector", "array"} /\ UNCHANGED colVars
  /\ \/ part = "region" /\ RegNext
     \/ part # "region" /\ UNCHANGED regVars
  /\ \/ part = "json" /\ JsonNext
     \/ part # "json" /\ UNCHANGED jsonVars
  /\ \/ part = "lint" /\ LintNext(Line)
     \/ part = "text" /\ LintNext(TextLine)
     \/ part \notin {"lint", "text"} /\ UNCHANGED lintVars

Spec == Init /\ [][Next]_vars

=============================================================================
