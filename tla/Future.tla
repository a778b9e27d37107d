------------------------------- MODULE Future -------------------------------
(***************************************************************************)
(* The futures of src/src/ownedc_future.c: a caller spawns a worker thread *)
(* that runs a task on an argument; whoever awaits the future waits for    *)
(* the result on a condition variable, joins the worker, frees the future  *)
(* and claims the result.  Futures, arguments and results are blocks of    *)
(* the runtime, and each ownership call is one step, as in Channel.        *)
(*                                                                         *)
(* The task is the client's: it may allocate and free, and returns one of  *)
(* the blocks it has, or NULL.                                             *)
(***************************************************************************)
EXTENDS OwnershipOps, FiniteSets

CONSTANTS Callers, Workers,   \* thread ids; a worker's is used again after join
          Futures,            \* blocks that hold a future
          Blocks,             \* blocks for arguments and results
          NULL,
          CreateFails,        \* may pthread_create fail?
          SpawnerAwaits       \* do only the threads that spawned a future await
                              \* it?  The code relies on it, the header is silent

ASSUME FutureAssumption ==
  /\ Callers \cap Workers = {}
  /\ Threads = Callers \cup Workers
  /\ Futures \cap Blocks = {}
  /\ NULL \notin Blocks \cup Futures
  /\ {CreateFails, SpawnerAwaits} \subseteq BOOLEAN

VARIABLES
  meta,                    \* meta[b]: the header of the block b
  arg, result, is_ready,   \* the fields of each future
  thread,                  \* thread[f]: its worker, NoThread if there is none
  mutex,                   \* mutex[f]: the thread that holds its mutex
  pc, fut, ptr,            \* where each thread is, its future, its block
  hand,                    \* hand[t]: the pointers the client in t has
  status                   \* running or aborted

vars == <<meta, arg, result, is_ready, thread, mutex, pc, fut, ptr, hand, status>>

fields == <<arg, result, is_ready, thread>>

BlockOrNull == Blocks \cup {NULL}

\* An await is under way and has not freed the future yet.
Awaiting == {"await_lock", "test", "waiting", "join", "free"}

\* A worker is alive.
Working == {"start", "task", "worker_lock", "publish"}

Locations == {"idle", "none", "claim", "exited"} \cup Awaiting \cup Working

TypeOK ==
  /\ meta \in [Blocks \cup Futures -> Meta]
  /\ arg \in [Futures -> BlockOrNull]
  /\ result \in [Futures -> BlockOrNull]
  /\ is_ready \in [Futures -> BOOLEAN]
  /\ thread \in [Futures -> Workers \cup {NoThread}]
  /\ mutex \in [Futures -> Threads \cup {NoThread}]
  /\ pc \in [Threads -> Locations]
  /\ fut \in [Threads -> Futures \cup {NULL}]
  /\ ptr \in [Threads -> BlockOrNull]
  /\ hand \in [Threads -> SUBSET Blocks]
  /\ status \in {"running", "aborted"}

Init ==
  /\ meta = [b \in Blocks \cup Futures |-> NoMeta]
  /\ arg = [f \in Futures |-> NULL]
  /\ result = [f \in Futures |-> NULL]
  /\ is_ready = [f \in Futures |-> FALSE]
  /\ thread = [f \in Futures |-> NoThread]
  /\ mutex = [f \in Futures |-> NoThread]
  /\ pc = [t \in Threads |-> IF t \in Callers THEN "idle" ELSE "none"]
  /\ fut = [t \in Threads |-> NULL]
  /\ ptr = [t \in Threads |-> NULL]
  /\ hand = [t \in Threads |-> {}]
  /\ status = "running"

-----------------------------------------------------------------------------
At(t, l) == status = "running" /\ pc[t] = l

Goto(t, l) == pc' = [pc EXCEPT ![t] = l]

ownedc_diagnostics_fatal ==
  /\ status' = "aborted"
  /\ UNCHANGED <<meta, fields, mutex, pc, fut, ptr, hand>>

\* Client code runs in an idle caller and in a worker's task.
InClient(t) == At(t, "idle") \/ At(t, "task")

owner_malloc(t, b) ==
  /\ InClient(t)
  /\ meta[b].state = "INVALID"
  /\ meta' = [meta EXCEPT ![b] = NewMeta(t)]
  /\ hand' = [hand EXCEPT ![t] = @ \cup {b}]
  /\ UNCHANGED <<fields, mutex, pc, fut, ptr, status>>

owner_free(t, b) ==
  /\ InClient(t)
  /\ b \in hand[t]
  /\ IF free_fault(meta[b], t)
       THEN ownedc_diagnostics_fatal
       ELSE /\ meta' = [meta EXCEPT ![b] = Freed(@)]
            /\ hand' = [hand EXCEPT ![t] = @ \ {b}]
            /\ UNCHANGED <<fields, mutex, pc, fut, ptr, status>>

\* The quarantine gives freed memory back, once no pointer to it is left.
Recycle(b) ==
  /\ status = "running"
  /\ meta[b].state = "FREED"
  /\ \A t \in Threads : b # ptr[t] /\ b # fut[t] /\ b \notin hand[t]
  /\ \A f \in Futures : Live(meta[f]) => b # arg[f] /\ b # result[f]
  /\ meta' = [meta EXCEPT ![b] = NoMeta]
  /\ UNCHANGED <<fields, mutex, pc, fut, ptr, hand, status>>

\* The client hands its argument over: it does not use it after the spawn.
owned_future_spawn(t, f, p) ==
  /\ At(t, "idle")
  /\ p \in hand[t] \cup {NULL}
  /\ meta[f].state = "INVALID"
  /\ meta' = [meta EXCEPT ![f] = NewMeta(t)]
  /\ arg' = [arg EXCEPT ![f] = p]
  /\ result' = [result EXCEPT ![f] = NULL]
  /\ is_ready' = [is_ready EXCEPT ![f] = FALSE]
  /\ hand' = [hand EXCEPT ![t] = @ \ {p}]
  /\ mutex' = [mutex EXCEPT ![f] = NoThread]
  /\ \/ \E w \in Workers :
          /\ pc[w] = "none"
          /\ thread' = [thread EXCEPT ![f] = w]
          /\ pc' = [pc EXCEPT ![w] = "start"]
          /\ fut' = [fut EXCEPT ![w] = f]
     \/ /\ CreateFails
        /\ thread' = [thread EXCEPT ![f] = NoThread]
        /\ UNCHANGED <<pc, fut>>
  /\ UNCHANGED <<ptr, status>>

-----------------------------------------------------------------------------
(* The worker.                                                             *)

\* Mutant: the worker runs the task on an argument it does not own.
future_thread_worker_no_claim(w) ==
  LET p == arg[fut[w]]
  IN  /\ At(w, "start")
      /\ hand' = [hand EXCEPT ![w] = @ \cup ({p} \ {NULL})]
      /\ Goto(w, "task")
      /\ UNCHANGED <<meta, fields, mutex, fut, ptr, status>>

\* It claims the argument and enters the task.
future_thread_worker(w) ==
  LET p == arg[fut[w]]
  IN  /\ At(w, "start")
      /\ meta' = IF p = NULL THEN meta ELSE [meta EXCEPT ![p] = Claimed(@, w)]
      /\ hand' = [hand EXCEPT ![w] = @ \cup ({p} \ {NULL})]
      /\ Goto(w, "task")
      /\ UNCHANGED <<fields, mutex, fut, ptr, status>>

\* The task returns r and keeps nothing else.
task(w, r) ==
  /\ At(w, "task")
  /\ hand[w] = {r} \ {NULL}
  /\ ptr' = [ptr EXCEPT ![w] = r]
  /\ hand' = [hand EXCEPT ![w] = {}]
  /\ Goto(w, "worker_lock")
  /\ UNCHANGED <<meta, fields, mutex, fut, status>>

lock(t) ==
  /\ \/ At(t, "worker_lock") /\ Goto(t, "publish")
     \/ At(t, "await_lock") /\ Goto(t, "test")
  /\ mutex[fut[t]] = NoThread
  /\ mutex' = [mutex EXCEPT ![fut[t]] = t]
  /\ UNCHANGED <<meta, fields, fut, ptr, hand, status>>

Waiting(f) == {u \in Callers : pc[u] = "waiting" /\ fut[u] = f}

\* Mutant: no signal.
worker_publish_no_signal(w) ==
  LET f == fut[w]
  IN  /\ At(w, "publish")
      /\ result' = [result EXCEPT ![f] = ptr[w]]
      /\ is_ready' = [is_ready EXCEPT ![f] = TRUE]
      /\ Goto(w, "exited")
      /\ mutex' = [mutex EXCEPT ![f] = NoThread]
      /\ ptr' = [ptr EXCEPT ![w] = NULL]
      /\ fut' = [fut EXCEPT ![w] = NULL]
      /\ UNCHANGED <<meta, arg, thread, hand, status>>

\* Store the result, signal, unlock; the worker ends.
worker_publish(w) ==
  LET f == fut[w]
  IN  /\ At(w, "publish")
      /\ result' = [result EXCEPT ![f] = ptr[w]]
      /\ is_ready' = [is_ready EXCEPT ![f] = TRUE]
      /\ IF Waiting(f) = {}
           THEN Goto(w, "exited")
           ELSE \E u \in Waiting(f) :
                  pc' = [pc EXCEPT ![w] = "exited", ![u] = "await_lock"]
      /\ mutex' = [mutex EXCEPT ![f] = NoThread]
      /\ ptr' = [ptr EXCEPT ![w] = NULL]
      /\ fut' = [fut EXCEPT ![w] = NULL]
      /\ UNCHANGED <<meta, arg, thread, hand, status>>

-----------------------------------------------------------------------------
(* owned_future_await, once for each future.                               *)

owned_future_await(t, f) ==
  /\ At(t, "idle")
  /\ Live(meta[f])
  /\ \A u \in Callers : fut[u] # f
  /\ SpawnerAwaits => meta[f].owner_thread = t
  /\ fut' = [fut EXCEPT ![t] = f]
  /\ Goto(t, "await_lock")
  /\ UNCHANGED <<meta, fields, mutex, ptr, hand, status>>

await_wait(t) ==
  /\ At(t, "test")
  /\ ~is_ready[fut[t]]
  /\ mutex' = [mutex EXCEPT ![fut[t]] = NoThread]
  /\ Goto(t, "waiting")
  /\ UNCHANGED <<meta, fields, fut, ptr, hand, status>>

spurious_wakeup(t) ==
  /\ At(t, "waiting")
  /\ Goto(t, "await_lock")
  /\ UNCHANGED <<meta, fields, mutex, fut, ptr, hand, status>>

\* Mutant: the flag is tested once, and the wakeup taken for the result.
await_take_untested(t) ==
  /\ At(t, "test")
  /\ ptr' = [ptr EXCEPT ![t] = result[fut[t]]]
  /\ mutex' = [mutex EXCEPT ![fut[t]] = NoThread]
  /\ Goto(t, "join")
  /\ UNCHANGED <<meta, fields, fut, hand, status>>

\* Read the result and unlock.
await_take(t) ==
  /\ At(t, "test")
  /\ is_ready[fut[t]]
  /\ ptr' = [ptr EXCEPT ![t] = result[fut[t]]]
  /\ mutex' = [mutex EXCEPT ![fut[t]] = NoThread]
  /\ Goto(t, "join")
  /\ UNCHANGED <<meta, fields, fut, hand, status>>

\* Mutant: the worker is not joined.
await_join_skipped(t) ==
  /\ At(t, "join")
  /\ Goto(t, "free")
  /\ UNCHANGED <<meta, fields, mutex, fut, ptr, hand, status>>

\* pthread_join waits for the worker to end; its id may be used again.
await_join(t) ==
  LET w == thread[fut[t]]
  IN  /\ At(t, "join")
      /\ w \in Workers
      /\ pc[w] = "exited"
      /\ pc' = [pc EXCEPT ![t] = "free", ![w] = "none"]
      /\ UNCHANGED <<meta, fields, mutex, fut, ptr, hand, status>>

await_free(t) ==
  LET f == fut[t]
  IN  /\ At(t, "free")
      /\ IF free_fault(meta[f], t)
           THEN ownedc_diagnostics_fatal
           ELSE /\ meta' = [meta EXCEPT ![f] = Freed(@)]
                /\ fut' = [fut EXCEPT ![t] = NULL]
                /\ Goto(t, "claim")
                /\ UNCHANGED <<fields, mutex, ptr, hand, status>>

\* Mutant: the result is returned as the worker left it.
await_claim_skipped(t) ==
  LET r == ptr[t]
  IN  /\ At(t, "claim")
      /\ hand' = [hand EXCEPT ![t] = @ \cup ({r} \ {NULL})]
      /\ ptr' = [ptr EXCEPT ![t] = NULL]
      /\ Goto(t, "idle")
      /\ UNCHANGED <<meta, fields, mutex, fut, status>>

\* Claim the result, if it is a block, and return it.
await_claim(t) ==
  LET r == ptr[t]
  IN  /\ At(t, "claim")
      /\ meta' = IF r = NULL THEN meta ELSE [meta EXCEPT ![r] = Claimed(@, t)]
      /\ hand' = [hand EXCEPT ![t] = @ \cup ({r} \ {NULL})]
      /\ ptr' = [ptr EXCEPT ![t] = NULL]
      /\ Goto(t, "idle")
      /\ UNCHANGED <<fields, mutex, fut, status>>

-----------------------------------------------------------------------------
\* A thread goes on with the call it is in; a task comes to its end.
Continue(t) ==
  \/ future_thread_worker(t) \/ (\E r \in BlockOrNull : task(t, r))
  \/ lock(t) \/ worker_publish(t)
  \/ await_wait(t) \/ await_take(t) \/ await_join(t)
  \/ await_free(t) \/ await_claim(t)

Client(t) ==
  \/ \E b \in Blocks : owner_malloc(t, b) \/ owner_free(t, b)
  \/ \E f \in Futures :
       \/ owned_future_await(t, f)
       \/ \E p \in BlockOrNull : owned_future_spawn(t, f, p)

Next ==
  \/ \E t \in Threads : Client(t) \/ Continue(t) \/ spurious_wakeup(t)
  \/ \E b \in Blocks \cup Futures : Recycle(b)

Spec == Init /\ [][Next]_vars

\* A thread inside a call is scheduled, and every task returns: it frees
\* what it does not return, and then returns.
FairSpec ==
  /\ Spec
  /\ \A t \in Threads : WF_vars(Continue(t))
  /\ \A w \in Workers : SF_vars(\E r \in BlockOrNull : task(w, r))

-----------------------------------------------------------------------------
(* Properties.                                                             *)

(* The uses of the block b: a client has it, a thread is about to publish  *)
(* or to return it, it is the argument of a future whose worker has not    *)
(* claimed it yet, or the result of one that has not been awaited.         *)
InHand(b) == {t \in Threads : b \in hand[t]}
OnTheWay(b) == {t \in Threads : ptr[t] = b}
AsArg(b) == {f \in Futures :
              /\ arg[f] = b
              /\ \/ \E w \in Workers : pc[w] = "start" /\ fut[w] = f
                 \/ Live(meta[f]) /\ thread[f] = NoThread}
AsResult(b) == {f \in Futures :
                 /\ Live(meta[f]) /\ is_ready[f] /\ result[f] = b
                 /\ \A t \in Callers : fut[t] = f => pc[t] \notin {"join", "free"}}

Uses(b) == {<<"hand", t>> : t \in InHand(b)} \cup {<<"ptr", t>> : t \in OnTheWay(b)}
           \cup {<<"arg", f>> : f \in AsArg(b)} \cup {<<"result", f>> : f \in AsResult(b)}

(* A block that goes from the caller through the future and the task back  *)
(* to the caller is never lost, never in two places and never freed under  *)
(* way: alive it has exactly one use, freed it has none.                   *)
OnePlace ==
  \A b \in Blocks : Cardinality(Uses(b)) = IF Live(meta[b]) THEN 1 ELSE 0

(* Whatever a client has, as a fresh block, as the argument of its task or *)
(* as the result of its await, it owns, even though the ids of joined      *)
(* workers are used again; so it can free it.                              *)
ClientsOwn ==
  \A t \in Threads : \A b \in hand[t] :
    meta[b].state = "OWNED" /\ meta[b].owner_thread = t

(* No runtime fault is met by callers that await their own futures once.   *)
NoFault == status # "aborted"

(* The future outlives its users: a worker that has not ended and an await *)
(* that has not freed it find it alive, each future has one worker, and    *)
(* what it leaves behind when it is freed is an ended worker whose id is   *)
(* free again.                                                             *)
FutureOutlives ==
  /\ \A t \in Threads : pc[t] \in Awaiting \cup Working => Live(meta[fut[t]])
  /\ \A v, w \in Workers :
       pc[v] \in Working /\ pc[w] \in Working /\ fut[v] = fut[w] => v = w
  /\ \A w \in Workers : pc[w] = "exited" =>
       \E f \in Futures : Live(meta[f]) /\ thread[f] = w /\ is_ready[f]

-----------------------------------------------------------------------------
(* The inductive invariant.                                                *)

\* Nothing is borrowed or shared on the way.
HeadersOK ==
  \A b \in Blocks \cup Futures :
    meta[b].state \in {"INVALID", "OWNED", "FREED"} /\ meta[b].borrow_count = 0

\* Where a thread is tells whether it has a future, a block on its way, and
\* whether client code runs in it.
CallsOK ==
  /\ \A t \in Callers :
       /\ pc[t] \in {"idle", "claim"} \cup Awaiting
       /\ pc[t] \in Awaiting <=> fut[t] # NULL
       /\ ptr[t] # NULL => pc[t] \in {"join", "free", "claim"}
  /\ \A w \in Workers :
       /\ pc[w] \in {"none", "exited"} \cup Working
       /\ pc[w] \in Working <=> fut[w] # NULL
       /\ ptr[w] # NULL => pc[w] \in {"worker_lock", "publish"}
       /\ pc[w] # "task" => hand[w] = {}

\* A future is awaited by one thread, which finds it alive and its own, and goes
\* on to the join only when it is ready.
AwaitsOK ==
  \A t \in Callers :
    fut[t] # NULL =>
      /\ Live(meta[fut[t]])
      /\ SpawnerAwaits => meta[fut[t]].owner_thread = t
      /\ pc[t] \in {"join", "free"} => is_ready[fut[t]]
      /\ \A u \in Callers : fut[u] = fut[t] => u = t

\* The worker w is at work on f, or has ended and is not joined yet.
Joined(f) == \E t \in Callers : fut[t] = f /\ pc[t] = "free"
Attached(f, w) == Live(meta[f]) /\ thread[f] = w /\ ~Joined(f)

\* A worker has exactly one future from its creation to its join, which is ready
\* as soon as the worker has ended; an id that is free has none, although joined
\* futures may still bear it.
WorkersOK ==
  /\ \A f \in Futures : Live(meta[f]) /\ thread[f] = NoThread => ~is_ready[f]
  /\ \A w \in Workers, f \in Futures :
       Attached(f, w) => /\ pc[w] # "none"
                         /\ is_ready[f] <=> pc[w] = "exited"
                         /\ pc[w] \in Working => fut[w] = f
                         /\ \A g \in Futures : Attached(g, w) => g = f
  /\ \A w \in Workers : pc[w] # "none" => \E f \in Futures : Attached(f, w)

\* A block is alive while it has a use, and has one use.
UsedOnce ==
  \A b \in Blocks : /\ \A u, v \in Uses(b) : u = v
                    /\ Live(meta[b]) <=> Uses(b) # {}

(* Every step preserves this conjunction, also where the ids of joined     *)
(* workers come back and where pthread_create fails; the properties above  *)
(* follow from it.                                                         *)
IInv ==
  /\ TypeOK /\ HeadersOK /\ ClientsOwn
  /\ CallsOK /\ AwaitsOK /\ WorkersOK /\ UsedOnce

-----------------------------------------------------------------------------
\* For Promise: the moment an await takes effect is when it reads the result.
Answered(t) == pc[t] \in {"join", "free", "claim"}
Read(f) == \E t \in Callers : fut[t] = f /\ pc[t] \in {"join", "free"}

stage ==
  [f \in Futures |-> IF ~Live(meta[f]) \/ Read(f) THEN "absent"
                     ELSE IF is_ready[f] THEN "ready" ELSE "pending"]
value == [f \in Futures |-> IF stage[f] = "ready" THEN <<result[f]>> ELSE <<>>]
answer == [t \in Callers |-> IF Answered(t) THEN <<ptr[t]>> ELSE <<>>]

Promised == INSTANCE Promise WITH Results <- BlockOrNull

(* An await returns what the task returned, and each result is returned    *)
(* once.                                                                   *)
ImplementsPromise == Promised!Spec

\* Spurious wakeups do not go on forever.
Calm == <>[][\A t \in Callers : ~spurious_wakeup(t)]_vars

Returned(t) == pc[t] = "idle" \/ status # "running"

(* The await of a future whose worker was started ends: the result is      *)
(* always published and its signal is never missed.                        *)
StartedAwaitReturns ==
  Calm => \A t \in Callers :
            (pc[t] \in Awaiting /\ thread[fut[t]] # NoThread) ~> Returned(t)

(* "Await the completion of the future and retrieve the result": every     *)
(* await ends.                                                             *)
AwaitReturns == Calm => \A t \in Callers : pc[t] \in Awaiting ~> Returned(t)
=============================================================================
