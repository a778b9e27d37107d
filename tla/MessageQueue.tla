---------------------------- MODULE MessageQueue ----------------------------
(***************************************************************************)
(* What src/include/ownedc_channel.h promises of a channel: messages come  *)
(* out in the order they went in, each of them once, and whoever takes one *)
(* out has it alone.  Sending and receiving take effect at one moment      *)
(* between the call and its return.  Channel is shown to implement this.   *)
(***************************************************************************)
EXTENDS Sequences

CONSTANTS Threads, Blocks, NULL

VARIABLES queue,    \* the messages in the channel, the oldest first
          outbox,   \* outbox[t]: the message t is sending
          inbox     \* inbox[t]: the message t has taken and not yet returned

vars == <<queue, outbox, inbox>>

Idle(t) == outbox[t] = NULL /\ inbox[t] = NULL

Init ==
  /\ queue = <<>>
  /\ outbox = [t \in Threads |-> NULL]
  /\ inbox = [t \in Threads |-> NULL]

BeginSend(t, p) ==
  /\ Idle(t)
  /\ outbox' = [outbox EXCEPT ![t] = p]
  /\ UNCHANGED <<queue, inbox>>

Send(t) ==
  /\ outbox[t] # NULL
  /\ queue' = Append(queue, outbox[t])
  /\ outbox' = [outbox EXCEPT ![t] = NULL]
  /\ UNCHANGED inbox

Receive(t) ==
  /\ Idle(t)
  /\ queue # <<>>
  /\ inbox' = [inbox EXCEPT ![t] = Head(queue)]
  /\ queue' = Tail(queue)
  /\ UNCHANGED outbox

Return(t) ==
  /\ inbox[t] # NULL
  /\ inbox' = [inbox EXCEPT ![t] = NULL]
  /\ UNCHANGED <<queue, outbox>>

\* The channel is freed, and what is left in it is nobody's.
Close ==
  /\ \A t \in Threads : Idle(t)
  /\ queue' = <<>>
  /\ UNCHANGED <<outbox, inbox>>

Next ==
  \/ Close
  \/ \E t \in Threads :
       \/ Send(t) \/ Receive(t) \/ Return(t)
       \/ \E p \in Blocks : BeginSend(t, p)

Spec == Init /\ [][Next]_vars
=============================================================================
