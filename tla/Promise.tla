------------------------------ MODULE Promise -------------------------------
(***************************************************************************)
(* What src/include/ownedc_future.h promises: a future spawned on an       *)
(* argument gets one result, and whoever awaits it gets that result, once. *)
(* Future is shown to implement this.                                      *)
(***************************************************************************)
CONSTANTS Callers,   \* the threads that await
          Futures,
          Results    \* what a task may return, no block (NULL) included

VARIABLES stage,     \* stage[f]: absent, pending, ready
          value,     \* value[f]: the result of a ready future
          answer     \* answer[t]: what t's await has got, <<>> or one result

vars == <<stage, value, answer>>

Init ==
  /\ stage = [f \in Futures |-> "absent"]
  /\ value = [f \in Futures |-> <<>>]
  /\ answer = [t \in Callers |-> <<>>]

Spawn(f) ==
  /\ stage[f] = "absent"
  /\ stage' = [stage EXCEPT ![f] = "pending"]
  /\ UNCHANGED <<value, answer>>

Fulfil(f, r) ==
  /\ stage[f] = "pending"
  /\ stage' = [stage EXCEPT ![f] = "ready"]
  /\ value' = [value EXCEPT ![f] = <<r>>]
  /\ UNCHANGED answer

\* The result leaves the future and is the caller's.
Await(t, f) ==
  /\ stage[f] = "ready"
  /\ answer[t] = <<>>
  /\ answer' = [answer EXCEPT ![t] = value[f]]
  /\ stage' = [stage EXCEPT ![f] = "absent"]
  /\ value' = [value EXCEPT ![f] = <<>>]

Return(t) ==
  /\ answer[t] # <<>>
  /\ answer' = [answer EXCEPT ![t] = <<>>]
  /\ UNCHANGED <<stage, value>>

Next ==
  \/ \E f \in Futures :
       \/ Spawn(f)
       \/ \E r \in Results : Fulfil(f, r)
       \/ \E t \in Callers : Await(t, f)
  \/ \E t \in Callers : Return(t)

Spec == Init /\ [][Next]_vars
=============================================================================
