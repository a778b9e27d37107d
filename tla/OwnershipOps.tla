---------------------------- MODULE OwnershipOps ----------------------------
(***************************************************************************)
(* The header OwnedC keeps in front of every block (alloc_meta_t in        *)
(* src/src/runtime.c), and what each ownership call checks and writes in   *)
(* it.  These are pure operators over one header: the modules that use     *)
(* them decide what is atomic (Registry takes the shard locks one by one,  *)
(* Channel runs a whole call at a time).                                   *)
(*                                                                         *)
(* An operator X_fault(m, t) is TRUE when the call X by thread t on a      *)
(* block with header m ends in ownedc_diagnostics_fatal; the header X      *)
(* leaves behind otherwise is the operator named for its effect.           *)
(***************************************************************************)
EXTENDS Integers

CONSTANTS Threads,    \* the threads of the program
          NoThread    \* no thread: the owner in a header that is not mapped

ASSUME NoThreadAssumption == NoThread \notin Threads

\* ownership_state_t; OWNEDC_STATE_RELEASED is never assigned by the runtime.
State == {"INVALID", "OWNED", "BORROWED", "SHARED", "FREED"}

\* The fields of alloc_meta_t that the runtime's decisions depend on.
Meta == [state        : State,
         borrow_count : Nat,
         owner_thread : Threads \cup {NoThread}]

\* What an unmapped address holds: nothing the program may look at.
NoMeta == [state |-> "INVALID", borrow_count |-> 0, owner_thread |-> NoThread]

\* The header owner_malloc_internal writes for thread t.
NewMeta(t) == [state |-> "OWNED", borrow_count |-> 0, owner_thread |-> t]

Live(m) == m.state \in {"OWNED", "BORROWED", "SHARED"}

\* The thread check that free, borrow and realloc repeat.
Foreign(m, t) == m.state # "SHARED" /\ m.owner_thread # t

\* Mutant: the state is not looked at.
free_fault_no_state(m, t) == m.borrow_count > 0 \/ Foreign(m, t)

\* Mutant: the borrows are not looked at.
free_fault_no_borrow(m, t) == m.state = "FREED" \/ Foreign(m, t)

free_fault(m, t) ==
  \/ m.state = "FREED"
  \/ m.borrow_count > 0
  \/ Foreign(m, t)

Freed(m) == [m EXCEPT !.state = "FREED"]

\* ownership_claim checks nothing: it takes the block from whoever had it.
Claimed(m, t) == [m EXCEPT !.state = "OWNED", !.owner_thread = t]

borrow_fault(m, t) == m.state = "FREED" \/ Foreign(m, t)

Borrowed(m) ==
  [m EXCEPT !.borrow_count = @ + 1,
            !.state = IF @ = "SHARED" THEN "SHARED" ELSE "BORROWED"]

\* Any thread may release a borrow; the state is not looked at.
release_fault(m) == m.borrow_count = 0

Released(m) ==
  [m EXCEPT !.borrow_count = @ - 1,
            !.state = IF m.borrow_count = 1 /\ @ = "BORROWED"
                        THEN "OWNED" ELSE @]

\* Only the recorded owner may share, even a block that is shared already;
\* the state is not looked at.
share_fault(m, t) == m.owner_thread # t

Shared(m) == [m EXCEPT !.state = "SHARED"]

realloc_fault(m, t) == m.state = "FREED" \/ Foreign(m, t)

\* check_leaks reports the blocks in these states, and no BORROWED one.
ReportedAsLeak(m) == m.state \in {"OWNED", "SHARED"}

\* The life Lifecycle sees in a header: BORROWED is owned, with borrows.
LifeOf(m) ==
  CASE m.state = "INVALID" -> "absent"
    [] m.state = "FREED"   -> "freed"
    [] m.state = "SHARED"  -> "shared"
    [] OTHER               -> "owned"
=============================================================================
