----------------------------- MODULE Lifecycle ------------------------------
(***************************************************************************)
(* What OwnedC promises about a block, with no registry, no locks and no   *)
(* quarantine: a block is owned by one thread or shared, it may be         *)
(* borrowed, it is freed once, by a thread entitled to it and with no      *)
(* borrow outstanding, and only then can its memory go back to the         *)
(* allocator.  A freed block is never seen alive again until the allocator *)
(* hands its address out anew.  A call that breaks the rules is no step of *)
(* this specification: the runtime stops the program instead.              *)
(*                                                                         *)
(* Registry and Channel are shown to implement this specification.         *)
(***************************************************************************)
EXTENDS Integers

CONSTANTS Threads, NoThread, Addrs

VARIABLES life,      \* life[a]: what the program may do with the block at a
          borrows,   \* borrows[a]: borrows not yet released
          owner      \* owner[a]: the thread recorded as owner

vars == <<life, borrows, owner>>

TypeOK ==
  /\ life \in [Addrs -> {"absent", "owned", "shared", "freed"}]
  /\ borrows \in [Addrs -> Nat]
  /\ owner \in [Addrs -> Threads \cup {NoThread}]

Alive(a) == life[a] \in {"owned", "shared"}

Entitled(t, a) == life[a] = "shared" \/ (life[a] = "owned" /\ owner[a] = t)

Init ==
  /\ life = [a \in Addrs |-> "absent"]
  /\ borrows = [a \in Addrs |-> 0]
  /\ owner = [a \in Addrs |-> NoThread]

Allocate(t, a) ==
  /\ life[a] = "absent"
  /\ life' = [life EXCEPT ![a] = "owned"]
  /\ owner' = [owner EXCEPT ![a] = t]
  /\ UNCHANGED borrows

Free(t, a) ==
  /\ Entitled(t, a)
  /\ borrows[a] = 0
  /\ life' = [life EXCEPT ![a] = "freed"]
  /\ UNCHANGED <<borrows, owner>>

Claim(t, a) ==
  /\ Alive(a)
  /\ life' = [life EXCEPT ![a] = "owned"]
  /\ owner' = [owner EXCEPT ![a] = t]
  /\ UNCHANGED borrows

Borrow(t, a) ==
  /\ Entitled(t, a)
  /\ borrows' = [borrows EXCEPT ![a] = @ + 1]
  /\ UNCHANGED <<life, owner>>

Release(a) ==
  /\ borrows[a] > 0
  /\ borrows' = [borrows EXCEPT ![a] = @ - 1]
  /\ UNCHANGED <<life, owner>>

Share(t, a) ==
  /\ Alive(a)
  /\ owner[a] = t
  /\ life' = [life EXCEPT ![a] = "shared"]
  /\ UNCHANGED <<borrows, owner>>

\* A block that grows may change its address; everything else moves with it.
Move(t, a, b) ==
  /\ Entitled(t, a)
  /\ life[b] = "absent"
  /\ life' = [life EXCEPT ![b] = life[a], ![a] = "absent"]
  /\ borrows' = [borrows EXCEPT ![b] = borrows[a], ![a] = 0]
  /\ owner' = [owner EXCEPT ![b] = owner[a], ![a] = NoThread]

\* The memory of freed blocks, and of no other, goes back to the allocator.
Recycle(S) ==
  /\ \A a \in S : life[a] = "freed"
  /\ life' = [a \in Addrs |-> IF a \in S THEN "absent" ELSE life[a]]
  /\ owner' = [a \in Addrs |-> IF a \in S THEN NoThread ELSE owner[a]]
  /\ UNCHANGED borrows

Next ==
  \/ \E a \in Addrs :
       \/ Release(a)
       \/ \E t \in Threads :
            \/ Allocate(t, a) \/ Free(t, a) \/ Claim(t, a)
            \/ Borrow(t, a) \/ Share(t, a)
            \/ \E b \in Addrs : Move(t, a, b)
  \/ \E S \in SUBSET Addrs : Recycle(S)

Spec == Init /\ [][Next]_vars

(* A block that is not alive has no borrow outstanding: a free waits for   *)
(* the last release, and nobody can borrow what is freed.                  *)
NoBorrowOfDead == \A a \in Addrs : ~Alive(a) => borrows[a] = 0

(* A freed block stays freed until its memory is recycled.                 *)
FreedIsFinal ==
  [][\A a \in Addrs : life[a] = "freed" => life'[a] \in {"freed", "absent"}]_vars
=============================================================================
