# A TLA+ model of OwnedC

OwnedC is a C library that keeps an ownership record for every heap block and
stops the program when a call breaks the ownership rules. This directory holds
TLA+ modules for the parts of it that are hard to test, TLC configurations that
check them on small instances, and TLAPS proofs, for instances of any size, of what
the registry, the channel, the futures, the handles, the counted objects, the
regions, the strings, the vector, the array and the JSON parser promise.

Source paths below are relative to the repository root.

## Inventory

| Part | State it keeps | Operations | Interacts with |
|---|---|---|---|
| Runtime registry (`src/runtime.c`) | a header in front of every block (state, borrow count, owner thread); 64 doubly linked lists, each under a mutex; a ring of 1024 freed blocks under a mutex; whether the exit handler is registered | `owner_malloc/calloc/realloc/free`, `ownership_claim/borrow/release/share`, `check_leaks`, dumps and statistics | the C allocator, `exit()`, diagnostics; every other part allocates through it |
| Diagnostics (`src/diagnostics.c`) | none | `ownedc_diagnostics_fatal` (prints, `exit(1)`), `ownedc_diagnostics_report_leak` | the registry's exit handler runs inside `exit(1)` |
| Channel (`src/ownedc_channel.c`) | list of nodes, mutex, condition variable | create, send, recv, free | shares and claims messages, allocates nodes in one thread and frees them in another |
| Future (`src/ownedc_future.c`) | result, ready flag, mutex, condition variable, thread | spawn, worker, await | claims argument and result, joins the thread |
| Safe mutex, thread, file, socket (`src/ownedc_mutex.c`, `_thread.c`, `_file.c`, `_socket.c`) | a wrapper block with a flag | new/open/spawn, early close, cleanup at the end of the scope | the wrapper is a registry block |
| Reference counting (`src/ownedc_rc.c`) | counts, a bounded table of children, a list of all objects | new, clone, drop, register child, cycle collection | frees through the registry; used by one thread, no lock |
| Region and arena (`src/region.c`, `src/ownedc_arena.c`) | list of chunks, each with a capacity and an offset | create, alloc, free | chunks are registry blocks |
| String, array, vector (`src/ownedc_string.c`, `_array.c`, `collections.c`) | buffer, length, capacity | new, append, push, truncate, set, remove, free | grow with `owner_realloc`; the array frees the items it holds |
| JSON (`src/owned_json.c`) | parse tree | parse, free, getters | allocates nodes, has error paths that free them |
| Lint (`tools/ownedc_lint.c`) | comment, nesting and function it is in; a table of the variables of the function | read a line, report | none |
| Clang plugin, C++ header, CHERI shims, environment header | none of their own | | |

What is hard here:

* **Between lock sections.** `owner_free` marks the block, unlocks, unlinks it
  under the lock again, and only then puts it in the quarantine under a third
  lock. `owner_realloc` reads the header with no lock at all.
* **Recycling.** When the ring is full each free gives the oldest block back,
  while other threads may still be inside a call on it.
* **The end of the process.** A fault in one thread calls `exit(1)`; its handler
  locks every shard and empties the quarantine while other threads go on, and a
  second fault calls `exit` again.
* **Long legal sequences.** `claim` and `share` do not look at the state; any
  thread may release a borrow; the state and the counter could drift apart.
* **Hand-over between threads.** Channel and future move blocks between threads
  by share and claim; the nodes are allocated here and freed there; wakeups can
  be lost and tails can be stale.
* **Failure half-way.** `global_realloc` fails after the unlink, a node cannot
  be allocated after the message was shared, `pthread_create` fails unnoticed;
  a stream is open and there is no memory for its wrapper; the JSON parser frees
  half of a tree from every depth.
* **Handles.** The flag of a mutex wrapper is set after the lock and cleared after
  the unlock; a handle closed by hand is met again at the end of its scope;
  descriptors and thread ids are used again.
* **Shared structure.** Counts, tables of children and the collector's list have
  to agree on every graph, cycles and objects in several tables included.
* **Sizes.** Sums and products of `size_t` wrap around; a buffer is exactly full;
  a string is appended to itself.
* **Text.** The analyzer reads lines out of order, strings and comments nest badly,
  its table has an end.

`PROJECT.json` lists these hazards at the lines where they bite, with the
properties that cover them.

## Modules

| Module | What it is |
|---|---|
| `OwnershipOps` | the header of a block and what each ownership call checks and writes, as operators over one header |
| `Lifecycle` | abstract: what OwnedC promises about a block, with no registry |
| `Registry` | `src/runtime.c` and `src/diagnostics.c`, with the interleaving of the lock sections; shown to implement `Lifecycle` |
| `RegistryProofs` | the inductive invariant of `Registry`, the theorems that follow from it, the exactness of the leak report, and that `Registry` implements `Lifecycle` |
| `ChannelProofs` | the inductive invariant of `Channel`, the theorems that follow from it, and that `Channel` implements `Lifecycle` and `MessageQueue` |
| `FutureProofs` | the inductive invariant of `Future`, its theorems, and that it implements `Promise` |
| `HandlesProofs` | the inductive invariant of `Handles` and its theorems |
| `RcProofs` | the inductive invariant of `Rc`, and what a collection finds and frees |
| `RegionProofs` | the inductive invariant of `Region` and its theorem |
| `ContainerProofs` | the inductive invariants of `Collections` and `SafeString` and their theorems |
| `JsonProofs` | the inductive invariant of `Json`: who owns which block |
| `MessageQueue` | abstract: a first-in first-out queue with sends and receives in flight |
| `Channel` | `src/ownedc_channel.c`, with the ownership calls on messages and nodes; shown to implement `MessageQueue` and `Lifecycle` |
| `Promise` | abstract: a future gets one result and one await returns it |
| `Future` | `src/ownedc_future.c`, with the worker threads and the ownership of argument and result; shown to implement `Promise` |
| `Handles` | `src/ownedc_file.c`, `_socket.c`, `_thread.c`, `_mutex.c` and the cleanup functions of their headers, in nested scopes of several threads |
| `Rc` | `src/ownedc_rc.c`: counts, tables of children, the collector of cycles |
| `SafeString` | `src/ownedc_string.c`, against the text a string should hold |
| `Collections` | `src/collections.c` and `src/ownedc_array.c`, against the items they should hold |
| `Region` | `src/region.c` and `src/ownedc_arena.c` |
| `SizeT` | addition and multiplication of `size_t` |
| `Json` | `src/owned_json.c`, against a grammar |
| `Lint` | `tools/ownedc_lint.c`, against a reading of the same text as C |
| `MCRegistry`, `MCChannel`, `MCFuture`, `MCHandles` | constants and symmetry for TLC |
| `MCSequential` | the sequential parts side by side: a behaviour uses one of them, chosen by `part` |

Operators named `..._no_...`, `..._skipped` and the like, commented *Mutant*, are
the code with a plausible bug in it. They are used in no specification; putting
one in the place of the definition that follows it makes TLC report the property
that `PROJECT.json` names.

### Registry: state and actions

A user pointer is a number and stands for its header, 16 bytes apart so that
`get_shard_idx` does what the code does. `heap` is what the allocator regards as
in use, `meta[a]` the header (state, borrow count, owner), `prev`/`next`/
`registry_heads` the lists, `registry_mutexes` the holder of each shard's lock,
`quarantine`/`quarantine_tail` the ring. A thread is at a location `pc`, in a
call `op` on a block `ptr`. File names, sizes and the poison patterns are left
out.

Steps are cut exactly where the code unlocks. `free` is `Call`, `SHARD_LOCK`,
`owner_free_internal` (the checks, FREED, unlock), `remove_meta`,
`quarantine_block`. `insert_meta`, `remove_meta`, `quarantine_block` and one
iteration of the first loop of `check_leaks` are each one locked section, hence
one step that waits for the lock to be free. The sections of the five ownership
calls keep the lock in `registry_mutexes` from `SHARD_LOCK` to the unlock, so that
a fault path that forgot to unlock would show. `owner_realloc_internal` checks
with no lock, then `remove_meta`, `global_realloc` (in place, failed or moved to
another address) and `insert_meta`. `owner_realloc(NULL, n)` is `owner_malloc` and
`owner_realloc(p, 0)` is `owner_free`, as in the code. `get_meta` on a pointer that
is no block's reads foreign memory: `CallUntracked` either reports the fault or
ends in the status `undefined`.

When memory goes back to the allocator, other threads still inside a call on it
are `dangling`; the next thing such a thread does is `UseAfterReturn`, with the
status `undefined`. The quarantine makes this rare, not impossible: a thread
stalled for 1024 frees is enough. The model admits it and says nothing of what
happens afterwards.

`exit()` is the C library's: `Exit` when no thread is in a call, or the end of
`ownedc_diagnostics_fatal` at any time; a second `exit()` ends the process or
blocks (`ExitAgain`).

**Client discipline.** `ExclusiveOps` are the calls the clients make on a block
only while it is alive and no other call on it is in flight. `Disciplined` says
that `claim`, `share` and `realloc` are among them: these three do not look, under
the lock, whether the block was freed. `free`, `borrow` and `release` are under no
discipline at all: clients may free twice, free another thread's block, race two
frees of a shared block, use stale pointers.

### Channel: state and actions

`head`, `tail`, `data`, `next` and the mutex are the code's; `Waiting` are the
threads in `pthread_cond_wait`, which gives the mutex up in the same step, wakes
by a signal or spuriously, and takes the mutex again before the loop tests the
list again. Messages and nodes come from one pool `Blocks`. A runtime call is one
step on a header, with the fault paths; the theorem `RegistryImplements` is the
reason why that is enough. `hand[t]` are the pointers the client in thread `t` has;
`Careful` says which of the header's rules the clients keep: to give up what they
send (`detach`), to drain the channel before they free it (`drain`), and to free it
where it was created (`creator`). Freed blocks are
recycled once no pointer to them is left (the quarantine outlasts the pointers;
`Registry` has the case where it does not). `ownedc_channel_free` is called when
every other user is done, as in `examples/demo_channel.c`, since the code destroys
the mutex without a look at who uses it. Clients do not borrow messages here.

### Future: state and actions

`Callers` spawn and await, `Workers` are the ids of the threads `pthread_create`
starts; an id is used again after its join, since the runtime compares ids. A
worker claims the argument, runs the task, locks, publishes the result with a
signal, unlocks and ends. The task is the client's: it allocates and frees with the
runtime's calls and returns one block it has, or NULL, and keeps nothing. `await`
locks, waits for the flag in a loop, reads the result, unlocks, joins, frees the
future and claims the result. A caller gives its argument up at the spawn and awaits
a future once; `SpawnerAwaits` says whether only the spawner does. With `CreateFails`
`pthread_create` may fail, and the code goes on as if it had not.

### Handles: state and actions

`obj[w]` is a wrapper block with its kind, its raw resource and its flag
(`is_closed`, `is_active` or `is_locked`), `scope[t]` the handle variables of a
thread, innermost last. The library opens the raw resource and then allocates the
wrapper for files and sockets (`open_raw`, then `wrap_ok` or `wrap_fails`), and
the other way round for threads (`safe_thread_spawn`, then `create_ok` or
`create_fails`); `safe_socket_new` leaves the descriptor to its caller when it
fails. Locking and setting the flag are two steps, and so are unlocking and clearing
it. `scope_end` calls the cleanup of the innermost handle, `close_early` is the same
call made by hand. A closed descriptor's number and a joined or detached thread's id
are used again. Clients do not lock a mutex they hold, and unlock what they hold before
they join a thread (`MayClean`): either would deadlock by the client's own doing.
`Careful` names three more rules: a handle closed by hand is set to NULL (`once`), a
mutex wrapper is used by one thread (`private`), and it is not freed by hand while it is
locked (`unlocked`); the code tests none of them. Without `once` the cleanup at the end
of the scope meets a freed block, whose bytes are 0xEF: `cleanup_again` follows the code
through that.

### Rc, SafeString, Collections and Region

These parts have no lock and are used by one thread, so an operation is one step.

`Rc`: `ref_count`, `children` and `gc_list` are the code's, `ext` and `edge` say which
references there are; the references to an object are counted as the size of a set
(`Stored`, `EdgesFrom`). `unlinked` is the list without the objects that are freed.
`owned_rc_collect_cycles` takes the references out of the
tables off a copy of the counts (`gc_ref`), marks from what is left (`mark_alive`) and
frees the rest. A full table drops a child silently. Nothing drops what a freed object refers
to: a client that drops an object to zero takes these references first, and those of a
collected object are counted in `lost`.

`SafeString`: the buffer cell by cell, with its terminator, beside the text `ref` it
should hold. A string may be appended to itself; if the buffer has to grow for that, the
suffix is copied from memory that was given back, and `Copied` is any text of its length.
`SelfAppend` says whether clients do that without room.

`Collections`: the vector does not own its items and the array does. `Cells(n)` is how many
pointers fit in the product the code computes, modulo `SizeMax`.

`Region`: a chunk has the capacity the code believes in and the `room` there really
is, which differ when the size of the block wrapped around; `grants` are the
allocations made.

### Json

The calls of `parse_array` and `parse_object` under way are `stack`; one step is what
the code does between two looks at the text. The text is chosen as it is read, and
every allocation may fail. `Tree` are the blocks `json_free` finds from a node on. A
place that refers to a block is a triple: which field, of which node or call, at which
index; `Pointers(b)` are all the places that refer to `b`.
`Grammar` is the set of texts of the grammar, built by length and with no regard to
the parser. `RegrowFails` admits the failure of one of the two reallocations of an
object (see below). Where in the text an error is (`owned_json.c:236`) is left out: it is
a pointer into the client's text, and no property is about it.

### Lint

The analyzer's state is the code's. A line is a sequence of items: statements (an
allocation with or without a variable, `owner_realloc`, a free, a borrow, a return),
braces, the macro `OWNED`, calls of the raw allocator, comment signs, quotes, escaped
quotes, and the character literals of a quote and of a brace.

Beside the analyzer `c` is the same text read as C, item by item and in order. A function
is read as one without branches: a block in it is entered, the first return ends
it, and `owner_realloc` consumes its argument. The analyzer is a heuristic and does not
read C, so the two are compared as far as they speak of the same thing:

* `misread`, for the rest of the file: the analyzer takes the text itself for another.
  Character literals of a quote or a brace, an escape outside of a string, a string
  that does not end in its line, a closing brace too many, text behind the closing brace of a
  function in its line, or before the opening one. Nothing is said of such files.
* `gap`, for the rest of the function: a statement the analyzer does not follow.
  Statements of a line in another order than that of the search, two allocations or
  two returns in a line, anything behind a return, a function in one line, a
  full table, an allocation into a variable that still owns a block, and uses of
  variables with a cleanup, freed, returned or moved that it has no rule for. There only
  `ErrorsGrounded` is asked for, which compares the reports with the lines alone: what has
  been allocated by hand, freed and returned in them, whatever the order in a line.
* Where there is neither, `TableAgrees` and `ReportsExact` compare the table with the
  blocks of the variables and the reports with the errors. One report too many is
  part of the statement (`stray`): the variable that `owner_realloc` took a block from is
  still owned in the table and reported as a leak at the end of the function.

What the order of search does to a line is thus only bounded, not excluded: in `owner_free(p);
p = owner_malloc(n);` the new block is down as freed, and its free is reported as a
double free. `ErrorsGrounded` says that such a report needs a free of the variable before.

## Runs

| Run | Instance | Result |
|---|---|---|
| `registry_safety` | 2 threads, 2 blocks, 1 shard, ring of 1, every call, one borrow at a time, fairness | `LocksHeld`, `IInv`, `QuarantineSound`, `BorrowedKeepsMemory`, `LeakReport`, the refinement `ImplementsLifecycle` and `ExitCompletes` hold |
| `registry_claim_freed` | claims of any block allowed | `InterceptsDoubleFree` is violated |
| `registry_realloc_race` | realloc of a shared block may race other calls | `InterceptsDoubleFree` is violated |
| `channel_safety` | 3 threads, 1 receiver, 4 blocks, careful clients | `ChannelOK`, `OnePlace`, `NoFault`, `ImplementsQueue`, `ImplementsLifecycle` hold |
| `channel_wakeup` | 3 threads, 2 receivers, 3 blocks, the channel freed by anyone and at any length, fairness | `WakeupPending`, `OnlyRemainingLeak` and `NoLostWakeup` hold |
| `channel_free_messages` | 2 threads, 3 blocks, the creator frees the channel, drained or not | `RemainingItemsLeak` is violated |
| `future_safety` | 2 callers, 2 workers, 2 futures, 1 block, `pthread_create` may fail, fairness | `IInv`, `OnePlace`, `NoFault`, `FutureOutlives`, `ImplementsPromise`, `StartedAwaitReturns` hold |
| `future_create_fails` | 1 caller, 1 worker, `pthread_create` may fail, fairness | `AwaitReturns` is violated |
| `handles` | a main thread and one it spawns, 3 wrappers, a descriptor, a mutex, 2 scopes a thread, careful clients, fairness | `HandlesOwned`, `LocksOnRecord`, `NoWrapperLeaks`, `NoFault`, `ScopesEnd` hold |
| `handles_early_close` | the same without the rule `once` | `ClosedOnce` is violated |
| `sequential` | one part in each behaviour: 3 counted objects; 2 strings; a vector; an array; 3 chunks; texts of up to 9 tokens, every allocation failing or not but for the reallocations of an object's vectors; lines of up to 2 items with 2 variables, or of up to 4 comment signs, quotes and braces | `CountsAgree`, `NoDangling`, `CollectExact`; `StringsIntact`; `VectorIntact`, `ItemsOwnedOnce`, `OverrunOnlyByWrap`; `GrantsDisjoint`; `HeapOwned`, `NoFault`, `ParseCorrect`; `TableAgrees`, `ReportsExact`, `ErrorsGrounded` hold |
| `json_regrow` | one of an object's two reallocations may fail | `NoFault` is violated |

**Bounds.** Two threads are enough for every race of two calls on one block. Two
blocks and a ring of one slot make every second free evict the first, so that
eviction, reuse of the address and a stalled call meet. Lists longer than two, several
shards and rings with several slots are what the theorems are for. `MaxBorrow` stops
the borrow counter. In the channel four blocks are two messages with their nodes, so
that the list is empty, has one node and has two. Two futures, workers and callers
let a worker's id come back in another future while the first is still around. In
`handles` two scopes a thread put a mutex beside a file, or a thread inside of a
thread's scope, and the third wrapper is the one a failed call wants.

Three objects with tables of two give cycles of every length up to three, a child
in two tables, a child twice in one table and a table that is full. A first
capacity of one or two and up to three or four items make a buffer grow twice and be
exactly full at each size.
`SizeMax` is 64 and `PtrSize` 8, so that 8 and 9 pointers wrap to nothing and to
one; `Sizes` holds the numbers on both sides of each limit of a region: zero, below
and above a multiple of `Align`, a full chunk, larger than a chunk, more than
`MemLimit`, and those where the rounding, the chunk's header or the block's header
wraps around. Nine tokens hold an object with two members one of which is an object
again; with `FirstCap` 1 its vectors grow at the second member. The analyzer's files are
of any number of lines. Two items in a line are an allocation behind `OWNED`, two
statements in either order, a statement beside a brace, and two variables fill a table
of two. Four signs in a line are a string with an escaped quote, a comment sign or a
brace in it and code behind it, and a comment that begins or ends between two braces.

**Symmetry.** Threads (or senders) and the channel's blocks are used only through
equality, and so are the counted objects and the variables of the analyzer's text. The
registry's addresses are numbers, and not symmetric. The runs with
liveness properties use no symmetry.

**Deadlock** is checked, except in `sequential` and `json_regrow`: a client may
stop, a buffer reach its bound and a parse end.

**Fairness.** Weak fairness for a thread inside a call, and nothing else, in
`Registry` and `Channel`: the operating system runs runnable threads, but a client
need not make calls and a pthread mutex need not be fair. So `ExitCompletes` and
`NoLostWakeup` are about executions in which the clients make no new call from some
point on: a thread that hammers a lock forever could starve the exit handler.
`StartedAwaitReturns` and `AwaitReturns` are about executions whose spurious wakeups
come to an end, and assume that every task returns (strong fairness of its return,
since a task may allocate and free many times before). `ScopesEnd` assumes that the
code of a client reaches the end of its scopes and of its threads, and unlocks what it
holds where a scope ends with a join (`Finish`), and is about
executions in which no handle is opened and no mutex locked from some point on.

### What the violations say

* `ownership_claim` on a freed block revives it and the next free is accepted: the
  block is in the quarantine twice. The README says the registry "intercepts" double
  frees "immediately".
* `owner_realloc_internal` checks without the lock, so a free of a shared block may
  fall between the check and the reallocation.
* `ownedc_channel_free` frees the nodes that are left without a claim; they belong to the
  threads that sent them, and the runtime stops the program. The header says "The channel
  should be empty, otherwise remaining items leak." What leaks when the free does come to its
  end is exactly that, the messages (`OnlyRemainingLeak`).
* `owned_future_spawn` ignores the result of `pthread_create`; an await of such a
  future never ends. When the thread was started it does (`StartedAwaitReturns`).
* `safe_fclose`, `safe_socket_close` and `safe_thread_cleanup` free the wrapper, so
  that a handle closed by hand is freed again at the end of its scope and the runtime
  stops the program. The headers say "The macro will know not to close it again."
* When one of the two reallocations of a growing JSON object fails, the other's new
  vector is freed and the node keeps a pointer to memory that is gone, which
  `json_free` then goes through.

### What else the models record as it is

* `owner_realloc_internal` does not look at the borrow count and may move a borrowed
  block under the pointers of the borrowers. `BorrowedKeepsMemory` says that no other call
  gives up the memory of a borrowed block; of this one it says nothing.
* `check_leaks` reports `OWNED` and `SHARED` blocks, so a block that is still borrowed
  at exit is in no report (`LeakReport` states the set exactly).
* After `ownedc_channel_send` the message is `SHARED` and the sender may still free it,
  where the header says ownership "is formally detached"; the rule `detach` of
  `Channel` is the client's to keep.
* `ownedc_channel_free` by another thread than the creator is a fault too, which no doc
  mentions (`ChannelFaultsOnlyInFree`: these two are the only ones).
* A mutex wrapper that two threads share loses track of who holds the mutex: the flag
  is written outside the lock. The properties of `Handles` hold under the rule
  `private`, which excludes this; without it TLC finds `LocksOnRecord` violated. A wrapper
  freed by hand while it is locked leaves the mutex locked for ever (rule `unlocked`).
* The collector frees garbage without dropping its references to what survives, an
  object dropped to zero does not drop its children, and a child for which the
  table has no room keeps a cycle alive. `CollectExact` says what is kept.
* No size is tested for overflow: not in the region, the arena, the vector or
  `owner_calloc`. The models have the wraps, and memory is overrun behind them;
  `GrantsDisjoint` and `OverrunOnlyByWrap` say that nothing else goes wrong.
* A string without room appended to itself copies from the buffer it has given back, and
  the header (`ownedc_string.h:25-29`) does not except it. With `SelfAppend = TRUE` TLC finds
  `StringsIntact` violated in three states: a string that fills its buffer, appended to
  itself. The run and the theorem are about clients that do it only where there is room.
* The analyzer searches a line for allocations, frees, borrows and returns in this
  order, does not even set a variable back to owned when its table is full, and keeps the
  argument of `owner_realloc` as owned (see *Lint* above).

## Theorems

The sets of threads, blocks, wrappers, chunks, items, strings, shards and slots, and
`SizeMax`, are arbitrary; the assumptions
on them are `RegistryAssumption` (addresses are positive numbers, at least one shard
and one slot, the discipline is about calls that take a block), `NoThreadAssumption`,
`ChannelAssumption`, `FutureAssumption` and `HandlesAssumption` (NULL is no block, the
pools are disjoint, the channel's pool is finite), `SizeTAssumption`, `RegionAssumption`,
`CollectionsAssumption` and `StringAssumption` (requests and defaults are values of
`size_t`; defaults are not zero; `Align` divides `SizeMax`; a pointer has more than one
byte; literals have no terminator inside and are no longer than the bound),
`RcAssumption` (finitely many objects) and `JsonAssumption` (the tokens are those the
parser tells apart, the first capacity is not zero). What a theorem asks of the clients is
its hypothesis; where there is none it holds for any clients.

### Registry

* For any clients: `TypeCorrect` (`TypeOK`) and `LocksReleased` (`LocksHeld`: no
  fault is reported with a lock held).
* For clients that keep `Disciplined`: `RegistryInvariant` (`IInv`), and from it
  `ListsSafe`, `QuarantineSafe`, `HandsSafe`, `NothingLost`, `BorrowedSafe`
  (`BorrowedKeepsMemory`), `WalksComplete`, `LeakReportExact` and `RegistryImplements`
  (`Spec => ImplementsLifecycle`).

The argument. `QuarantineSound` alone is not inductive: a free puts in the ring a
block it marked two lock sections ago, so one has to know that nobody revived,
moved, unlinked or quarantined it since. That is `HandsOK`, which says what a call
knows of its block at each location. It needs `CallOK` (a location tells the call),
`Accounted` (a live block on a list is in nobody's hands, so a second call that
finds it alive is the first to take it), `ExclusiveOK` (the discipline lasts to the
end of the call, for the three calls that do not look), `MappedOK` and `ExclusiveKept`
(a recycled block is never that of such a call), and `HeadersOK`. `ListsChained`
states acyclicity as well-foundedness (every non-empty set of blocks has one
whose predecessor is outside), which is what the proof of `WalkLinked` uses: the
blocks a walk misses would be closed under `prev`. The leak report follows with
`ScanInv`: at an orderly exit no thread is in a call, so what is live is linked,
and the report is exact for the shards already walked. The refinement goes by
kind of step: a locked section is `Free`, `Claim`, `Borrow`, `Release` or `Share`, or a
fault and no step; eviction and the sweep are `Recycle`, because the ring holds
only freed blocks; a moving realloc is `Move`. `BorrowedSafe` is an action property:
a block leaves the heap by eviction, by the sweep of the exit handler or by a
realloc, and what the first two take is `FREED`, which `HeadersOK` says is not borrowed.

### Channel

* For clients that give up what they send (`"detach" \in Careful`): `ChannelInvariant`,
  `ChannelStaysOK` (`ChannelOK`), `ChannelFaultsOnlyInFree` (`FaultsOnlyInFree`: send and
  recv never meet a fault), `ChannelOnlyRemainingLeak` (`OnlyRemainingLeak`),
  `ChannelImplementsLifecycle` and `ChannelImplementsQueue`; with finitely many threads
  also `ChannelWakeup` (`WakeupPending`, which counts them).
* For clients that also drain the channel before they free it: `ChannelOnePlace`
  (`OnePlace`; without it the blocks of a program that `ownedc_channel_free` stopped
  are left over).
* For clients that keep all three rules: `ChannelNoFault` (`NoFault`).

A client that frees what it has sent breaks the receiver, so nothing can be said without
`detach`. The invariant is about a sequence `q` that the list stands for:
`IInv == \E q \in Seq(Blocks) : Inv(q)`. `ListOK` says that `head` and `next`
run through `q`, that `tail` is its last node, and what the headers of nodes and messages
are; `CallOK` what a thread has at each location, from the share of the message to its claim;
`UsedOnce` that every block is in one place: a client's hand, a call's pointer or node, a
node of `q`, the message in one; the messages of a channel that was freed, and nothing
else, may be in none (`Left`). A send appends to `q`, a recv takes its head, and the
other steps leave it. That replaces reasoning about the walk `Chain`, a recursive
function, which is shown once (`ChainIs`) to be `q` followed by `NULL`; with it `queue` of
the refinement is the sequence of the messages in `q`, and `Queued` has as many elements as
`q`. `WakeupPending` is kept by counting: a send adds a message and, if someone waits, moves a
waiting receiver to the way; a recv takes one of each; a receiver begins to wait only
with `q` empty, and a bijection between receivers and messages is repaired in each
case.

### Future

* For any callers, and whether or not `pthread_create` fails: `FutureInvariant` (`IInv`),
  `FutureOnePlace`, `FutureClientsOwn`, `FutureOutlivesUsers` and `FutureImplementsPromise`.
* For callers that await what they spawned (`SpawnerAwaits`): `FutureNoFault`. Another
  thread may not free the future, whose header names the spawner.

The ids of joined workers come back, and the futures they ran for bear them still. So it
is not enough that `thread[f] = w`: `WorkersOK` speaks of `Attached(f, w)`, which ends at the
join and not at the free, and says that a worker not joined has exactly one such future,
ready exactly when the worker has ended. `AwaitsOK` has one await per future, and at
`join` and `free` the future ready. From the two follows that the join ends the worker of
this very future, and that the future may be freed after it.

### Handles

* For clients that use a mutex wrapper from one thread and do not free it by hand while it
  is locked (`{"private", "unlocked"} \subseteq Careful`; they may close handles by hand and
  again): `HandlesInvariant` (`IInv`), `HandlesAreOwned`
  (`HandlesOwned`), `LocksAreOnRecord` (`LocksOnRecord`), `NoWrapperIsLost` (`NoWrapperLeaks`).
* For clients that also set a handle closed by hand to NULL (`once`): `HandlesNoFault`.

`IInv` speaks of what a thread `Has`: the wrappers of its scopes and the one of its
call. A wrapper is in the hands of one thread (`HandsOK`), so that a step of a thread
can change only its own `ThreadOK`; `RawOK` and `JoinOK` say that a raw resource and a
thread have one wrapper, or one call that carries them, exactly while they are open or to
be joined; `LockOK` that a mutex is held exactly where a flag, or the location of the call
that changes it, says so. The cleanup of a handle that was closed by hand meets a freed
wrapper; the invariant allows that, and `OnceInv` (no scope holds a freed wrapper or one
twice) is what excludes it for careful clients.

### Region

`RegionGrantsDisjoint` (`GrantsDisjoint`), for any requests. The list of chunks is a
sequence `q` again: `RegInv == \E q : Inv(q)` says that `head` and `next`
run through `q`, that it has each chunk of the heap once, and where in it `current` may be.
`Sound` is what makes the grants disjoint: every grant ends before the `used` of its
chunk, where the next one begins. `used` only stays below `room` while `capacity` and
`room` agree, and these part when a size wraps around; so all of it is under `~wrapped`, and
the lemmas on `Plus`, `rounded` and `block_bytes` say that a computation that does not set
`wrapped` is exact. That `held = Walk` holds whether or not something wrapped: no chunk is
lost by the free.

### String, vector and array

* `VectorStaysIntact` (`VectorIntact`), `ArrayItemsOwnedOnce` (`ItemsOwnedOnce`) and
  `OnlyWrapsOverrun` (`OverrunOnlyByWrap`), for any requests and any clients that give an
  item to one slot.
* `StringsStayIntact` (`StringsIntact`), for clients that append a string to itself only
  where there is room (`~SelfAppend`).

`ColInv` ties the buffers to the capacities: while nothing was overrun `Len(data)` is
`Cells(capacity)`, so that an index between the two exists only where the product wrapped.
The vector's capacity may have wrapped already when it is doubled; that the doubling itself
does not come out too small rests on `CellsFacts`: a full buffer has at most
`SizeMax \div PtrSize` cells, so twice as many fit `size_t` if a pointer has at least two
bytes. With pointers of one byte the theorem would be false. For the array the count in
`ItemsOwnedOnce` is at most one because `ArrOK` has the slots of live items distinct.

A string's buffer `Holds` its text, with a terminator behind it; `safe_string_grow` and
`Write` keep that (`GrowFacts`, `WriteHolds`). The text another call reads from a string is the
C string up to the first terminator, which may have been pushed into it: `CStrOfText` says that
it is the same for the buffer and for the text it holds, since the first terminator of the
buffer is the first of the text, or the one behind it.

### Reference counting

`CountsStayRight` (`CountsAgree`), `NothingDangles` (`NoDangling`) and `CollectsExactly`
(`CollectExact`), for any finite set of objects, any size of the tables and any bound on
the counts.

`RcInv` says that the list has every live object once, that a count is positive and
equal to the references to its object, from variables, from data and lost ones; that
nothing refers to a freed object and a freed object has nothing; and that a table has no
more entries for a child than its owner stores references to it, so that the entries of
all tables are at most the stored references. Taking the entries off the
counts thus leaves for each object the number of references no table knows of. That is a
count over entries, and the proof (`EntriesOf`) maps entries to references one to one.
So the roots of the marking are exactly the objects that `CollectExact` calls held, and
what is marked is closed under the tables and within every closed set that has the
roots: it is the closure. An object that is not marked is referred to only by objects
that are not marked either, and can go.

### JSON

* `OneOwner` (`HeapOwned`), for texts of any length, whichever token is wrong and whichever
  allocation fails, a failing reallocation of an object's vectors included.
* `NoFreedVectorRead` (`NoFault`), unless these reallocations may fail (`~RegrowFails`).
  The run `json_regrow` shows that the hypothesis is needed.

`Owned` says that there are three functions, `kd`, `ix` and `no`, from the blocks to
places, such that each block is found at its place and each place that is not NULL
refers to a block with that place: one pointer to a block and no other. `Shaped` has the
nodes of a vector younger than the node that has it, which makes the recursion of `json_free`
well founded, so that `Tree` satisfies the equation it is defined by (`TreeIs`);
`Stacked` says where a call has a key. The steps that free things go by one notion:
`Cut(kd, ix, G, R)`, a set `G` that has all that its nodes own, and is owned from
inside except for its roots `R`. A key alone can be cut out, so can the tree of a node
(`TreeCut`), and so can two such sets together (`CutBoth`); what is left has its owners
(`CutOut`). A call that gives up cuts out its node, its key and the value it was given. That
json_free does not find a vector among what was freed before is a consequence: the
vector is owned by the node of the call, and that is in no such set. The last conjunct of
`HeapOwned` follows from the order: if a node were left with the stack empty and nothing
returned, the oldest would have no owner.

Each of the invariants is checked with TLC too: `IInv` of `Registry` and of `Future` in
their runs, and the conjuncts of the others by the properties of theirs.

### Only model-checked

* Liveness (`ExitCompletes`, `NoLostWakeup`, `StartedAwaitReturns`, `ScopesEnd`), which is
  out of the prover's reach.
* `ParseCorrect` of `Json`: the parser is compared with a grammar built by length, and a tree
  with the text it stands for; what these recursive definitions give for texts of every
  length needs induction over data, which the installed backends cannot do.
* `TableAgrees`, `ReportsExact` and `ErrorsGrounded` of `Lint`: the analyzer and the reading as C both fold over
  the items of a line, in different orders; that they agree on lines of any length is again
  an induction over data.

## State of the project

All parts named above are modelled, and every safety property that a run checks is a theorem
too, except for those just listed. What could be added is a line as a
sequence of steps in `Lint`, one item at a time, whose invariant would relate the analyzer's
table to the text read so far.

## Not modelled

The dumps, `ownership_inspect`, the statistics of the registry and the getters of
strings, JSON nodes and handles (they read and print); the contents of blocks and the
poison patterns, except where a property is about them; `ownedc_set_allocators` (the
allocator is any function that hands out memory not in use); the `OWNEDC_NO_STDLIB`
build (one thread, no locks: a special case of the steps here); the depth of the
C stack in the recursive JSON parser, for which the code has no limit; white space,
escapes, digits and the position of an error in JSON; identifiers, columns, the name of
the function and branches in the analyzer's text.

`owner_realloc_internal` reads the header twice without the lock (`runtime.c:221`, `224`);
the model reads it once. A free between the two reads is not noticed, as one after both
is not, or it is reported as a violation of thread ownership, where one before both is
reported as a use after free: but for the message the outcomes are those of the model.

The clang plugin is a stub, the C++ header and the CHERI shims keep no state of their
own, the environment, generic and result headers are macros resolved at compile
time. The examples, benchmarks and vendored showcases are clients of the library;
they were read for how calls are used together.
