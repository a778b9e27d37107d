------------------------------ MODULE Registry ------------------------------
(***************************************************************************)
(* The runtime registry of src/src/runtime.c: every block has a header,    *)
(* live headers are linked into NUM_SHARDS doubly linked lists, each under *)
(* its own mutex, and freed blocks wait in a ring of QUARANTINE_SIZE slots *)
(* before their memory goes back to the allocator.  Threads interleave     *)
(* between the lock sections of a call, exactly where the code unlocks;    *)
(* the atexit handler check_leaks and ownedc_diagnostics_fatal, which runs *)
(* it while the other threads go on, are part of the model.                *)
(*                                                                         *)
(* A user pointer stands for its header too (the code goes from one to the *)
(* other by a constant offset).  A call on NULL returns at once and is no  *)
(* step here, except owner_realloc(NULL, n), which is owner_malloc, as     *)
(* owner_realloc(p, 0) is owner_free.                                      *)
(***************************************************************************)
EXTENDS OwnershipOps

CONSTANTS Addrs,            \* user pointers the allocator hands out
          NUM_SHARDS, QUARANTINE_SIZE,
          ExclusiveOps,     \* calls the clients make on a block only while no
                            \* other call on it is in flight (see Permitted)
          ClientOps,        \* scope: the calls the clients make at all
          MaxBorrow         \* bound: borrows outstanding when one more is asked

NULL == 0

Ops == {"malloc", "free", "claim", "borrow", "release", "share", "realloc"}

ASSUME RegistryAssumption ==
  /\ Addrs \subseteq Nat \ {NULL}
  /\ NUM_SHARDS \in Nat \ {0}
  /\ QUARANTINE_SIZE \in Nat \ {0}
  /\ ExclusiveOps \subseteq Ops \ {"malloc"}
  /\ ClientOps \subseteq Ops
  /\ MaxBorrow \in Nat

Shards == 0 .. NUM_SHARDS - 1

Slots == 0 .. QUARANTINE_SIZE - 1

AddrOrNull == Addrs \cup {NULL}

get_shard_idx(ptr) == (ptr \div 16) % NUM_SHARDS

VARIABLES
  heap,               \* blocks the allocator regards as in use
  meta,               \* meta[a]: the header of the block at a
  prev, next,         \* its list links
  registry_heads, registry_mutexes,
  quarantine, quarantine_tail,
  atexit_registered,
  pc, op, ptr,        \* the call each thread is in, and where it is
  dangling,           \* threads whose block was recycled under their call
  status,             \* running; joined or aborting: exit() is running, after
                      \* all calls ended or while other threads go on; exited;
                      \* undefined: memory of the allocator was touched
  scan, leaked        \* check_leaks: the next shard, the blocks reported

lists == <<prev, next, registry_heads>>
blocks == <<heap, meta, dangling>>
ring == <<quarantine, quarantine_tail>>
control == <<pc, op, ptr>>
exiting == <<status, scan, leaked>>

vars == <<heap, meta, prev, next, registry_heads, registry_mutexes,
          quarantine, quarantine_tail, atexit_registered, pc, op, ptr,
          dangling, status, scan, leaked>>

Locations == {"idle", "section", "locked", "check", "remove", "realloc",
              "insert", "quarantine", "fatal", "leaks", "blocked"}

TypeOK ==
  /\ heap \subseteq Addrs
  /\ meta \in [Addrs -> Meta]
  /\ prev \in [Addrs -> AddrOrNull]
  /\ next \in [Addrs -> AddrOrNull]
  /\ registry_heads \in [Shards -> AddrOrNull]
  /\ registry_mutexes \in [Shards -> Threads \cup {NoThread}]
  /\ quarantine \in [Slots -> AddrOrNull]
  /\ quarantine_tail \in Slots
  /\ atexit_registered \in BOOLEAN
  /\ pc \in [Threads -> Locations]
  /\ op \in [Threads -> Ops \cup {"none"}]
  /\ ptr \in [Threads -> AddrOrNull]
  /\ dangling \subseteq Threads
  /\ status \in {"running", "joined", "aborting", "exited", "undefined"}
  /\ scan \in 0 .. NUM_SHARDS + 1
  /\ leaked \subseteq Addrs

Init ==
  /\ heap = {}
  /\ meta = [a \in Addrs |-> NoMeta]
  /\ prev = [a \in Addrs |-> NULL]
  /\ next = [a \in Addrs |-> NULL]
  /\ registry_heads = [s \in Shards |-> NULL]
  /\ registry_mutexes = [s \in Shards |-> NoThread]
  /\ quarantine = [i \in Slots |-> NULL]
  /\ quarantine_tail = 0
  /\ atexit_registered = FALSE
  /\ pc = [t \in Threads |-> "idle"]
  /\ op = [t \in Threads |-> "none"]
  /\ ptr = [t \in Threads |-> NULL]
  /\ dangling = {}
  /\ status = "running"
  /\ scan = 0
  /\ leaked = {}

-----------------------------------------------------------------------------
(* Control: where a thread is in its call.                                 *)

Ended == status \in {"exited", "undefined"}

At(t, l) == ~Ended /\ pc[t] = l /\ t \notin dangling

Enter(t, l, o, a) ==
  /\ pc' = [pc EXCEPT ![t] = l]
  /\ op' = [op EXCEPT ![t] = o]
  /\ ptr' = [ptr EXCEPT ![t] = a]

Goto(t, l) ==
  /\ pc' = [pc EXCEPT ![t] = l]
  /\ UNCHANGED <<op, ptr>>

\* Leave the call: it returned ("idle") or it has a fault to report ("fatal").
Leave(t, l) == Enter(t, l, "none", NULL)

\* The lock a call on the block at a takes.
Mutex(a) == registry_mutexes[get_shard_idx(a)]

\* The memory of the blocks in S goes back to the allocator in a step of t: a
\* call another thread has under way on one of them now works on freed memory.
Returned(S, t) ==
  dangling' = dangling \cup {u \in Threads \ {t} : ptr[u] \in S \ {NULL}}

\* The client discipline: a call in ExclusiveOps is made on a live block that
\* no other thread is working on, and nobody starts another call meanwhile.
Permitted(t, o, a) ==
  /\ o \in ExclusiveOps =>
       Live(meta[a]) /\ \A u \in Threads \ dangling : ptr[u] # a
  /\ \A u \in Threads \ dangling : ptr[u] = a => op[u] \notin ExclusiveOps
  /\ o = "borrow" => meta[a].borrow_count < MaxBorrow

\* The clients keep the discipline for the calls that rely on it: claim and
\* share do not look whether the block was freed, realloc looks unlocked.
Disciplined == {"claim", "share", "realloc"} \subseteq ExclusiveOps

-----------------------------------------------------------------------------
(* The calls.                                                              *)

owner_malloc_internal(t, a) ==
  /\ At(t, "idle")
  /\ status # "joined"
  /\ a \notin heap
  /\ atexit_registered' = TRUE
  /\ heap' = heap \cup {a}
  /\ meta' = [meta EXCEPT ![a] = NewMeta(t)]
  /\ Enter(t, "insert", "malloc", a)
  /\ UNCHANGED <<lists, registry_mutexes, ring, dangling, exiting>>

\* global_malloc returns NULL: the handler is registered all the same.
owner_malloc_null(t) ==
  /\ At(t, "idle")
  /\ status # "joined"
  /\ atexit_registered' = TRUE
  /\ UNCHANGED <<blocks, lists, registry_mutexes, ring, control, exiting>>

insert_meta(t) ==
  LET a == ptr[t]
      idx == get_shard_idx(a)
      head == registry_heads[idx]
  IN  /\ At(t, "insert")
      /\ Mutex(a) = NoThread
      /\ prev' = [b \in Addrs |-> IF b = a THEN NULL
                                  ELSE IF b = head THEN a ELSE prev[b]]
      /\ next' = [next EXCEPT ![a] = head]
      /\ registry_heads' = [registry_heads EXCEPT ![idx] = a]
      /\ Leave(t, "idle")
      /\ UNCHANGED <<blocks, registry_mutexes, ring, atexit_registered, exiting>>

\* A call on a block the allocator has handed out: get_meta finds the header.
Call(t, o, a) ==
  /\ At(t, "idle")
  /\ status # "joined"
  /\ a \in heap
  /\ Permitted(t, o, a)
  /\ Enter(t, IF o = "realloc" THEN "check" ELSE "section", o, a)
  /\ UNCHANGED <<blocks, lists, registry_mutexes, ring, atexit_registered,
                 exiting>>

\* A call on a pointer that is no block's (any more): get_meta reads memory
\* that is not the runtime's and may find anything there, the old magic too.
CallUntracked(t) ==
  /\ At(t, "idle")
  /\ status # "joined"
  /\ \/ Leave(t, "fatal") /\ UNCHANGED status
     \/ status' = "undefined" /\ UNCHANGED control
  /\ UNCHANGED <<blocks, lists, registry_mutexes, ring, atexit_registered,
                 scan, leaked>>

\* Mutant: the section is entered whoever is in it.
SHARD_LOCK_no_wait(t) ==
  /\ At(t, "section")
  /\ registry_mutexes' = [registry_mutexes EXCEPT ![get_shard_idx(ptr[t])] = t]
  /\ Goto(t, "locked")
  /\ UNCHANGED <<blocks, lists, ring, atexit_registered, exiting>>

SHARD_LOCK(t) ==
  /\ At(t, "section")
  /\ Mutex(ptr[t]) = NoThread
  /\ registry_mutexes' = [registry_mutexes EXCEPT ![get_shard_idx(ptr[t])] = t]
  /\ Goto(t, "locked")
  /\ UNCHANGED <<blocks, lists, ring, atexit_registered, exiting>>

SHARD_UNLOCK(t) ==
  registry_mutexes' =
    [registry_mutexes EXCEPT ![get_shard_idx(ptr[t])] = NoThread]

\* Mutant: the fault is reported before the shard is unlocked.
Section_fault_locked(t, o, fault, m, l) ==
  /\ At(t, "locked")
  /\ op[t] = o
  /\ \/ fault /\ Leave(t, "fatal") /\ UNCHANGED <<meta, registry_mutexes>>
     \/ /\ ~fault
        /\ SHARD_UNLOCK(t)
        /\ meta' = [meta EXCEPT ![ptr[t]] = m]
        /\ IF l = "idle" THEN Leave(t, l) ELSE Goto(t, l)
  /\ UNCHANGED <<heap, dangling, lists, ring, atexit_registered, exiting>>

\* The locked section of a call: unlock and report the fault, or write the
\* header, unlock and go on to l.
Section(t, o, fault, m, l) ==
  /\ At(t, "locked")
  /\ op[t] = o
  /\ SHARD_UNLOCK(t)
  /\ \/ fault /\ Leave(t, "fatal") /\ UNCHANGED meta
     \/ /\ ~fault
        /\ meta' = [meta EXCEPT ![ptr[t]] = m]
        /\ IF l = "idle" THEN Leave(t, l) ELSE Goto(t, l)
  /\ UNCHANGED <<heap, dangling, lists, ring, atexit_registered, exiting>>

Header(t) == meta[ptr[t]]

owner_free_internal(t) ==
  Section(t, "free", free_fault(Header(t), t), Freed(Header(t)), "remove")

ownership_claim(t) ==
  Section(t, "claim", FALSE, Claimed(Header(t), t), "idle")

ownership_borrow(t) ==
  Section(t, "borrow", borrow_fault(Header(t), t), Borrowed(Header(t)), "idle")

ownership_release(t) ==
  Section(t, "release", release_fault(Header(t)), Released(Header(t)), "idle")

ownership_share(t) ==
  Section(t, "share", share_fault(Header(t), t), Shared(Header(t)), "idle")

\* owner_realloc_internal looks at the header without the lock.
owner_realloc_internal(t) ==
  /\ At(t, "check")
  /\ IF realloc_fault(Header(t), t) THEN Leave(t, "fatal") ELSE Goto(t, "remove")
  /\ UNCHANGED <<blocks, lists, registry_mutexes, ring, atexit_registered,
                 exiting>>

remove_meta(t) ==
  LET a == ptr[t]
      idx == get_shard_idx(a)
  IN  /\ At(t, "remove")
      /\ Mutex(a) = NoThread
      /\ registry_heads' =
           IF prev[a] = NULL /\ registry_heads[idx] = a
             THEN [registry_heads EXCEPT ![idx] = next[a]]
             ELSE registry_heads
      /\ next' = [b \in Addrs |-> IF b = a THEN NULL
                                  ELSE IF b = prev[a] THEN next[a] ELSE next[b]]
      /\ prev' = [b \in Addrs |-> IF b = a THEN NULL
                                  ELSE IF b = next[a] THEN prev[a] ELSE prev[b]]
      /\ Goto(t, IF op[t] = "free" THEN "quarantine" ELSE "realloc")
      /\ UNCHANGED <<blocks, registry_mutexes, ring, atexit_registered, exiting>>

\* global_realloc: it moves the block to b, or (b is where the block is) grows
\* it in place or fails; the header at b is then inserted again.
global_realloc(t, b) ==
  LET a == ptr[t]
  IN  /\ At(t, "realloc")
      /\ b = a \/ b \notin heap
      /\ heap' = (heap \ {a}) \cup {b}
      /\ meta' = [c \in Addrs |-> IF c = b THEN meta[a]
                                  ELSE IF c = a THEN NoMeta ELSE meta[c]]
      /\ IF b = a THEN UNCHANGED dangling ELSE Returned({a}, t)
      /\ Enter(t, "insert", "realloc", b)
      /\ UNCHANGED <<lists, registry_mutexes, ring, atexit_registered, exiting>>

\* The end of owner_free_internal: the block takes the oldest slot, and the
\* block that was there goes back to the allocator.
quarantine_block(t) ==
  LET old == quarantine[quarantine_tail]
  IN  /\ At(t, "quarantine")
      /\ heap' = heap \ {old}
      /\ meta' = [b \in Addrs |-> IF b = old THEN NoMeta ELSE meta[b]]
      /\ Returned({old}, t)
      /\ quarantine' = [quarantine EXCEPT ![quarantine_tail] = ptr[t]]
      /\ quarantine_tail' = (quarantine_tail + 1) % QUARANTINE_SIZE
      /\ Leave(t, "idle")
      /\ UNCHANGED <<lists, registry_mutexes, atexit_registered, exiting>>

-----------------------------------------------------------------------------
(* The end of the process.                                                 *)

\* exit() runs check_leaks if it was registered.
RunExit(t, s) ==
  /\ IF atexit_registered
       THEN status' = s /\ pc' = [pc EXCEPT ![t] = "leaks"]
       ELSE status' = "exited" /\ UNCHANGED pc
  /\ UNCHANGED <<op, ptr, scan, leaked, blocks, lists, registry_mutexes, ring,
                 atexit_registered>>

\* main returns, or exit is called, when no other thread is in a call.
Exit(t) ==
  /\ status = "running"
  /\ \A u \in Threads : pc[u] = "idle"
  /\ RunExit(t, "joined")

\* ownedc_diagnostics_fatal ends in exit(1), whatever other threads do.
ownedc_diagnostics_fatal(t) ==
  /\ At(t, "fatal")
  /\ status = "running"
  /\ RunExit(t, "aborting")

\* exit() while another thread is in exit(): the C library ends the process
\* (the handler is off its list already) or makes the caller wait.
ExitAgain(t) ==
  /\ At(t, "fatal")
  /\ status = "aborting"
  /\ \/ status' = "exited" /\ UNCHANGED pc
     \/ pc' = [pc EXCEPT ![t] = "blocked"] /\ UNCHANGED status
  /\ UNCHANGED <<op, ptr, scan, leaked, blocks, lists, registry_mutexes, ring,
                 atexit_registered>>

\* The headers a walk along next from the head of shard s passes: the least
\* set that has the head and, with a header, the one its next points to.
Walk(s) ==
  {a \in Addrs :
     \A S \in SUBSET Addrs :
       /\ registry_heads[s] \in S \cup {NULL}
       /\ \A b \in S : next[b] \in S \cup {NULL}
       => a \in S}

\* Mutant: the walk steps to next before it looks.
check_leaks_skips_head(t) ==
  /\ At(t, "leaks")
  /\ scan \in Shards
  /\ registry_mutexes[scan] = NoThread
  /\ leaked' = leaked \cup {a \in Walk(scan) \ {registry_heads[scan]} :
                              ReportedAsLeak(meta[a])}
  /\ scan' = scan + 1
  /\ UNCHANGED <<status, control, blocks, lists, registry_mutexes, ring,
                 atexit_registered>>

\* One iteration of the first loop of check_leaks.
check_leaks(t) ==
  /\ At(t, "leaks")
  /\ scan \in Shards
  /\ registry_mutexes[scan] = NoThread
  /\ leaked' = leaked \cup {a \in Walk(scan) : ReportedAsLeak(meta[a])}
  /\ scan' = scan + 1
  /\ UNCHANGED <<status, control, blocks, lists, registry_mutexes, ring,
                 atexit_registered>>

\* Mutant: the slots keep the pointers to the memory given back.
check_leaks_sweep_no_clear(t) ==
  LET old == {quarantine[i] : i \in Slots}
  IN  /\ At(t, "leaks")
      /\ scan = NUM_SHARDS
      /\ heap' = heap \ old
      /\ meta' = [b \in Addrs |-> IF b \in old THEN NoMeta ELSE meta[b]]
      /\ Returned(old, t)
      /\ scan' = scan + 1
      /\ UNCHANGED <<ring, status, leaked, control, lists, registry_mutexes,
                     atexit_registered>>

\* check_leaks empties the quarantine.
check_leaks_sweep(t) ==
  LET old == {quarantine[i] : i \in Slots}
  IN  /\ At(t, "leaks")
      /\ scan = NUM_SHARDS
      /\ heap' = heap \ old
      /\ meta' = [b \in Addrs |-> IF b \in old THEN NoMeta ELSE meta[b]]
      /\ Returned(old, t)
      /\ quarantine' = [i \in Slots |-> NULL]
      /\ scan' = scan + 1
      /\ UNCHANGED <<quarantine_tail, status, leaked, control, lists,
                     registry_mutexes, atexit_registered>>

\* check_leaks returns, or calls exit(1) itself: the process ends.
check_leaks_exit(t) ==
  /\ At(t, "leaks")
  /\ scan = NUM_SHARDS + 1
  /\ status' = "exited"
  /\ UNCHANGED <<scan, leaked, control, blocks, lists, registry_mutexes, ring,
                 atexit_registered>>

\* A call goes on with a header whose memory is the allocator's again.
UseAfterReturn(t) ==
  /\ ~Ended
  /\ t \in dangling
  /\ status' = "undefined"
  /\ UNCHANGED <<scan, leaked, control, blocks, lists, registry_mutexes, ring,
                 atexit_registered>>

Terminated == Ended /\ UNCHANGED vars
-----------------------------------------------------------------------------
\* The steps that need no lock of another thread once the call is under way.
Continue(t) ==
  \/ owner_free_internal(t) \/ ownership_claim(t) \/ ownership_borrow(t)
  \/ ownership_release(t) \/ ownership_share(t)
  \/ owner_realloc_internal(t)
  \/ \E b \in Addrs : global_realloc(t, b)
  \/ quarantine_block(t)
  \/ ownedc_diagnostics_fatal(t) \/ ExitAgain(t)
  \/ check_leaks_sweep(t) \/ check_leaks_exit(t)
  \/ UseAfterReturn(t)

\* The steps that wait for a shard's mutex.
Acquire(t) == SHARD_LOCK(t) \/ insert_meta(t) \/ remove_meta(t) \/ check_leaks(t)

\* What a client may do next.
Client(t) ==
  \/ owner_malloc_null(t) \/ CallUntracked(t) \/ Exit(t)
  \/ \E a \in Addrs :
       \/ owner_malloc_internal(t, a)
       \/ \E o \in ClientOps \ {"malloc"} : Call(t, o, a)

Next == (\E t \in Threads : Client(t) \/ Acquire(t) \/ Continue(t)) \/ Terminated

Spec == Init /\ [][Next]_vars

\* A thread inside a call is scheduled.  Nothing obliges a client to make a
\* call, and no waiter for a mutex is promised it ahead of the others.
FairSpec == Spec /\ \A t \in Threads : WF_vars(Continue(t) \/ Acquire(t))

-----------------------------------------------------------------------------
(* Properties.                                                             *)

\* The block is on its shard's list.
Linked(a) == prev[a] # NULL \/ registry_heads[get_shard_idx(a)] = a

Quarantined(a) == \E i \in Slots : quarantine[i] = a

(* insert_meta and remove_meta keep the lists chained: a head has no       *)
(* predecessor, next and prev undo each other and never leave the shard,   *)
(* no list closes on itself, a block off the lists points nowhere, and     *)
(* what is linked is mapped.                                               *)
ListsChained ==
  /\ \A s \in Shards : registry_heads[s] # NULL =>
       /\ get_shard_idx(registry_heads[s]) = s
       /\ prev[registry_heads[s]] = NULL
  /\ \A a \in Addrs :
       /\ prev[a] # NULL => /\ next[prev[a]] = a
                            /\ get_shard_idx(prev[a]) = get_shard_idx(a)
       /\ next[a] # NULL => prev[next[a]] = a
       /\ IF Linked(a) THEN a \in heap ELSE next[a] = NULL
  /\ \A S \in SUBSET Addrs : S # {} => \E a \in S : prev[a] \notin S

(* The walk check_leaks and the dumps make along a shard's list passes     *)
(* every linked block of that shard.                                       *)
WalkComplete ==
  \A s \in Shards : Walk(s) = {a \in Addrs : Linked(a) /\ get_shard_idx(a) = s}

(* The ring owner_free_internal fills holds each block once, and only      *)
(* blocks that are still mapped, freed and off the lists: what it evicts   *)
(* is never the memory of a block in use, nor memory the allocator has     *)
(* already been given back.                                                *)
QuarantineSound ==
  \A i \in Slots :
    quarantine[i] # NULL =>
      /\ quarantine[i] \in heap
      /\ meta[quarantine[i]].state = "FREED"
      /\ ~Linked(quarantine[i])
      /\ \A j \in Slots : quarantine[j] = quarantine[i] => j = i

\* The thread has taken its block out of the other threads' reach.
Holds(t) == pc[t] \in {"insert", "remove", "realloc", "quarantine"}

(* Between its lock sections owner_malloc_internal, owner_free_internal or *)
(* owner_realloc_internal has its block to itself: the block is mapped, in *)
(* no other such call's hands and not in the quarantine, on the list only  *)
(* until remove_meta, and its state is still the one the call left.        *)
HandsOK ==
  \A t \in Threads :
    Holds(t) =>
      /\ t \notin dangling
      /\ ptr[t] \in heap
      /\ ~Quarantined(ptr[t])
      /\ \A u \in Threads : Holds(u) /\ ptr[u] = ptr[t] => u = t
      /\ Linked(ptr[t]) <=> pc[t] = "remove"
      /\ IF op[t] = "free" THEN meta[ptr[t]].state = "FREED"
                           ELSE Live(meta[ptr[t]])
      /\ op[t] = "malloc" => meta[ptr[t]] = NewMeta(t)
      /\ op[t] = "realloc" => ~Foreign(meta[ptr[t]], t)

(* The runtime never loses a block: whatever is mapped is alive and on a   *)
(* list, or in the quarantine, or in the hands of a call.                  *)
Accounted ==
  \A a \in heap :
    \/ Linked(a) /\ Live(meta[a])
    \/ Quarantined(a)
    \/ \E t \in Threads : Holds(t) /\ ptr[t] = a

(* A shard's mutex is held by a thread exactly while it is in the locked   *)
(* section of a call on that shard, so no thread reaches                   *)
(* ownedc_diagnostics_fatal, whose exit handler locks every shard, with a  *)
(* lock in its hands.                                                      *)
LocksHeld ==
  \A s \in Shards, t \in Threads :
    registry_mutexes[s] = t <=> pc[t] = "locked" /\ get_shard_idx(ptr[t]) = s

(* The state and the borrow counter of a header agree, through any order   *)
(* of claims, shares, borrows and releases: a block is BORROWED only while *)
(* a borrow is outstanding, and is FREED only when none is.                *)
BorrowsAgree ==
  \A a \in Addrs :
    /\ meta[a].state = "BORROWED" => meta[a].borrow_count > 0
    /\ meta[a].state = "FREED" => meta[a].borrow_count = 0

-----------------------------------------------------------------------------
(* The inductive invariant.                                                *)

\* Where a thread is tells which call it is in and whether it has a block.
CallOK ==
  \A t \in Threads :
    /\ pc[t] \in {"idle", "fatal", "leaks", "blocked"} =>
         op[t] = "none" /\ ptr[t] = NULL
    /\ pc[t] \notin {"idle", "fatal", "leaks", "blocked"} => ptr[t] \in Addrs
    /\ pc[t] \in {"section", "locked"} =>
         op[t] \in {"free", "claim", "borrow", "release", "share"}
    /\ pc[t] \in {"check", "realloc"} => op[t] = "realloc"
    /\ pc[t] = "remove" => op[t] \in {"free", "realloc"}
    /\ pc[t] = "insert" => op[t] \in {"malloc", "realloc"}
    /\ pc[t] = "quarantine" => op[t] = "free"

\* A header means something exactly while its block is mapped.
HeadersOK ==
  \A a \in Addrs : IF a \in heap THEN meta[a].state # "INVALID"
                                 ELSE meta[a] = NoMeta

\* The client discipline lasts for the whole of an exclusive call.
ExclusiveOK ==
  \A t \in Threads \ dangling :
    op[t] \in ExclusiveOps =>
      /\ \A u \in Threads \ dangling : ptr[u] = ptr[t] => u = t
      /\ ~Holds(t) => Live(meta[ptr[t]])

\* A call works on a mapped block, unless it is one of the dangling ones.
MappedOK ==
  \A t \in Threads \ dangling : ptr[t] # NULL => ptr[t] \in heap

\* No exclusive call's block is ever recycled under it.
ExclusiveKept == \A t \in dangling : op[t] \notin ExclusiveOps

(* Every step of the registry, with clients that keep the discipline for   *)
(* claim, share and realloc, preserves this conjunction; the properties    *)
(* above follow from it.                                                   *)
IInv ==
  /\ TypeOK /\ CallOK /\ LocksHeld /\ BorrowsAgree /\ ListsChained
  /\ HeadersOK /\ HandsOK /\ MappedOK /\ ExclusiveOK /\ ExclusiveKept
  /\ QuarantineSound /\ Accounted

(* check_leaks at an orderly exit reports exactly the live blocks that are *)
(* not borrowed, whichever calls came before.                              *)
LeakReport ==
  [][status = "joined" /\ status' = "exited" =>
       leaked = {a \in heap : ReportedAsLeak(meta[a])}]_vars

(* A thread that meets a fault, or returns from main, brings the process   *)
(* to its end once the clients stop making new calls: the exit handler     *)
(* waits for the calls under way and never for a lock that is not given    *)
(* back.                                                                   *)
ExitCompletes ==
  <>[][\A t \in Threads : ~Client(t)]_vars =>
    ((\E t \in Threads : pc[t] \in {"fatal", "leaks"}) ~> Ended)

(* What the README says of double frees and of frees that race another     *)
(* call: "the runtime registry intercepts it immediately".  The memory     *)
(* waiting in the quarantine is then the runtime's to give back, once.     *)
InterceptsDoubleFree ==
  \A i, j \in Slots :
    quarantine[i] # NULL =>
      /\ quarantine[i] \in heap
      /\ quarantine[i] = quarantine[j] => i = j

(* The memory of a borrowed block is given back by nobody but a thread     *)
(* that reallocates it: not by a free, by the eviction of the block from   *)
(* the quarantine or by the exit handler, in whatever order borrows,       *)
(* claims and frees of several threads come.                               *)
BorrowedKeepsMemory ==
  [][\A a \in heap :
       meta[a].borrow_count > 0 /\ a \notin heap' =>
         \E t \in Threads : pc[t] = "realloc" /\ ptr[t] = a]_vars

\* The variables of Lifecycle; the lists, the locks and the quarantine are
\* hidden.
life == [a \in Addrs |-> LifeOf(meta[a])]
borrows == [a \in Addrs |-> meta[a].borrow_count]
owner == [a \in Addrs |-> meta[a].owner_thread]

Abstract == INSTANCE Lifecycle

(* Every step of the registry, in any interleaving, is a legal step of the *)
(* block's life or none at all; above all the memory the quarantine, the   *)
(* exit handler and owner_realloc give back is never that of a block alive.*)
ImplementsLifecycle == Abstract!Spec
=============================================================================
