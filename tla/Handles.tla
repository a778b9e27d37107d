------------------------------- MODULE Handles ------------------------------
(***************************************************************************)
(* The scoped handles of ownedc_file.c, ownedc_socket.c, ownedc_thread.c   *)
(* and ownedc_mutex.c, with the cleanup functions of their headers.  A     *)
(* handle is a wrapper block around a raw resource: a stream, a            *)
(* descriptor, a thread or a mutex.  A thread declares handles in nested   *)
(* scopes; the end of a scope cleans its handle up.  Numbers of closed     *)
(* descriptors are used again, and a spawned thread runs client code too.  *)
(*                                                                         *)
(* Clients keep two rules the headers do not state: they do not join a     *)
(* thread while they hold a mutex, and do not lock a mutex twice.          *)
(***************************************************************************)
EXTENDS Naturals, FiniteSets, SequencesExt

CONSTANTS Mains, Threads,      \* Mains: the threads nobody spawned
          Wrappers,            \* blocks that hold a wrapper
          Raws,                \* streams and descriptors
          Mutexes,             \* pthread mutexes
          NULL,
          MaxScopes,           \* bound: handles in scope per thread
          Careful              \* rules that clients keep besides:
                               \*  "once"     a handle closed early is set to NULL
                               \*  "private"  a mutex wrapper is used by one thread
                               \*  "unlocked" none is freed by hand while locked

ASSUME HandlesAssumption ==
  /\ Mains \subseteq Threads
  /\ MaxScopes \in Nat
  /\ Careful \subseteq {"once", "private", "unlocked"}
  /\ NULL \notin Wrappers \cup Raws \cup Threads \cup Mutexes

VARIABLES
  obj,                 \* obj[w]: the block w, a wrapper unless its life is "none"
  scope,               \* scope[t]: the handle variables of t, innermost last
  open,                \* the raw streams and descriptors that are open
  thr,                 \* thr[t]: what the system knows of the thread t
  holder,              \* holder[m]: the thread that holds the mutex m
  pc, cur, raw,        \* where each thread is, its wrapper and its raw resource
  status               \* running, aborted by the runtime, or undefined

vars == <<obj, scope, open, thr, holder, pc, cur, raw, status>>

\* flag is is_closed, is_active or is_locked, by kind.
Wrapper == [life : {"none", "live", "freed"},
            kind : {"file", "socket", "thread", "mutex"},
            raw : Raws \cup Threads \cup Mutexes \cup {NULL},
            flag : BOOLEAN,
            policy : {"JOIN", "DETACH"}]

Locations == {"idle", "wrap_file", "wrap_socket", "wrap_fd", "has_fd", "create",
              "lock", "locked", "unlocked", "cleanup", "cleanup_unlocked", "free"}

TypeOK ==
  /\ obj \in [Wrappers -> Wrapper]
  /\ scope \in [Threads -> Seq(Wrappers \cup {NULL})]
  /\ \A t \in Threads : Len(scope[t]) <= MaxScopes
  /\ open \subseteq Raws
  /\ thr \in [Threads -> {"none", "running", "ended", "detached"}]
  /\ holder \in [Mutexes -> Threads \cup {NULL}]
  /\ pc \in [Threads -> Locations]
  /\ cur \in [Threads -> Wrappers \cup {NULL}]
  /\ raw \in [Threads -> Raws \cup {NULL}]
  /\ status \in {"running", "aborted", "undefined"}

\* A block that holds no wrapper.
Unused ==
  [life |-> "none", kind |-> "file", raw |-> NULL, flag |-> FALSE, policy |-> "JOIN"]

Init ==
  /\ obj = [w \in Wrappers |-> Unused]
  /\ scope = [t \in Threads |-> <<>>]
  /\ open = {}
  /\ thr = [t \in Threads |-> IF t \in Mains THEN "running" ELSE "none"]
  /\ holder = [m \in Mutexes |-> NULL]
  /\ pc = [t \in Threads |-> "idle"]
  /\ cur = [t \in Threads |-> NULL]
  /\ raw = [t \in Threads |-> NULL]
  /\ status = "running"

-----------------------------------------------------------------------------
At(t, l) == status = "running" /\ thr[t] \in {"running", "detached"} /\ pc[t] = l

Goto(t, l) == pc' = [pc EXCEPT ![t] = l]

Live(w) == w # NULL /\ obj[w].life = "live"

New(k, r, flag) ==
  [life |-> "live", kind |-> k, raw |-> r, flag |-> flag, policy |-> "JOIN"]

\* owner_free fills a block with 0xEF; its kind is the type of the variables.
Freed(o) == [o EXCEPT !.life = "freed", !.raw = NULL, !.flag = TRUE]

Declare(t, w) == scope' = [scope EXCEPT ![t] = Append(@, w)]

Opening(t) == At(t, "idle") /\ Len(scope[t]) < MaxScopes

\* The mutexes t has locked, and the wrappers it may lock and unlock by hand.
Held(t) == {m \in Mutexes : holder[m] = t}

Lockable(t) == {w \in Wrappers : /\ Live(w) /\ obj[w].kind = "mutex"
                                 /\ "private" \in Careful => w \in Range(scope[t])}

\* Blocks leave the quarantine when no pointer to them is left.
Recycle(w) ==
  /\ status = "running"
  /\ obj[w].life = "freed"
  /\ \A t \in Threads : w # cur[t] /\ w \notin Range(scope[t])
  /\ obj' = [obj EXCEPT ![w] = Unused]
  /\ UNCHANGED <<scope, open, thr, holder, pc, cur, raw, status>>

-----------------------------------------------------------------------------
(* Files and sockets: the raw resource first, then the wrapper.            *)

\* fopen and socket in the library (at = "wrap_file", "wrap_socket"), or a
\* socket the client gets from accept and wraps itself ("wrap_fd").
open_raw(t, r, at) ==
  /\ Opening(t)
  /\ r \notin open
  /\ open' = open \cup {r}
  /\ raw' = [raw EXCEPT ![t] = r]
  /\ Goto(t, at)
  /\ UNCHANGED <<obj, scope, thr, holder, cur, status>>

wrap_ok(t, w) ==
  /\ \E l \in {"wrap_file", "wrap_socket", "wrap_fd"} :
       /\ At(t, l)
       /\ obj[w].life = "none"
       /\ obj' = [obj EXCEPT ![w] =
                    New(IF l = "wrap_file" THEN "file" ELSE "socket", raw[t], FALSE)]
  /\ Declare(t, w)
  /\ raw' = [raw EXCEPT ![t] = NULL]
  /\ Goto(t, "idle")
  /\ UNCHANGED <<open, thr, holder, cur, status>>

\* Mutant: the raw stream is forgotten when there is no memory for its wrapper.
wrap_fails_no_close(t) ==
  /\ At(t, "wrap_file") \/ At(t, "wrap_socket")
  /\ raw' = [raw EXCEPT ![t] = NULL]
  /\ Goto(t, "idle")
  /\ UNCHANGED <<obj, scope, open, thr, holder, cur, status>>

\* safe_fopen and safe_socket_create close what they opened ...
wrap_fails(t) ==
  /\ At(t, "wrap_file") \/ At(t, "wrap_socket")
  /\ open' = open \ {raw[t]}
  /\ raw' = [raw EXCEPT ![t] = NULL]
  /\ Goto(t, "idle")
  /\ UNCHANGED <<obj, scope, thr, holder, cur, status>>

\* ... safe_socket_new does not: the descriptor stays its caller's.
safe_socket_new_fails(t) ==
  /\ At(t, "wrap_fd")
  /\ Goto(t, "has_fd")
  /\ UNCHANGED <<obj, scope, open, thr, holder, cur, raw, status>>

client_close(t) ==
  /\ At(t, "has_fd")
  /\ open' = open \ {raw[t]}
  /\ raw' = [raw EXCEPT ![t] = NULL]
  /\ Goto(t, "idle")
  /\ UNCHANGED <<obj, scope, thr, holder, cur, status>>

-----------------------------------------------------------------------------
(* Threads: the wrapper first, then the thread.                            *)

safe_thread_spawn(t, w) ==
  /\ Opening(t)
  /\ obj[w].life = "none"
  /\ obj' = [obj EXCEPT ![w] = New("thread", NULL, TRUE)]
  /\ cur' = [cur EXCEPT ![t] = w]
  /\ Goto(t, "create")
  /\ UNCHANGED <<scope, open, thr, holder, raw, status>>

create_ok(t, u) ==
  /\ At(t, "create")
  /\ thr[u] = "none"
  /\ thr' = [thr EXCEPT ![u] = "running"]
  /\ obj' = [obj EXCEPT ![cur[t]].raw = u]
  /\ Declare(t, cur[t])
  /\ cur' = [cur EXCEPT ![t] = NULL]
  /\ Goto(t, "idle")
  /\ UNCHANGED <<open, holder, raw, status>>

\* Mutant: the wrapper is not freed when the thread cannot be created.
create_fails_no_free(t) ==
  /\ At(t, "create")
  /\ cur' = [cur EXCEPT ![t] = NULL]
  /\ Goto(t, "idle")
  /\ UNCHANGED <<obj, scope, open, thr, holder, raw, status>>

create_fails(t) ==
  /\ At(t, "create")
  /\ obj' = [obj EXCEPT ![cur[t]] = Freed(@)]
  /\ cur' = [cur EXCEPT ![t] = NULL]
  /\ Goto(t, "idle")
  /\ UNCHANGED <<scope, open, thr, holder, raw, status>>

safe_thread_set_policy(t, w, p) ==
  /\ At(t, "idle")
  /\ w \in Range(scope[t]) /\ Live(w) /\ obj[w].kind = "thread"
  /\ obj' = [obj EXCEPT ![w].policy = p]
  /\ UNCHANGED <<scope, open, thr, holder, pc, cur, raw, status>>

\* The start routine of a spawned thread returns, all of its scopes ended.
thread_exit(u) ==
  /\ u \notin Mains
  /\ At(u, "idle")
  /\ scope[u] = <<>>
  /\ thr' = [thr EXCEPT ![u] = IF @ = "detached" THEN "none" ELSE "ended"]
  /\ UNCHANGED <<obj, scope, open, holder, pc, cur, raw, status>>

-----------------------------------------------------------------------------
(* Mutexes.                                                                *)

safe_mutex_new(t, w, m) ==
  /\ Opening(t)
  /\ obj[w].life = "none"
  /\ obj' = [obj EXCEPT ![w] = New("mutex", m, FALSE)]
  /\ Declare(t, w)
  /\ UNCHANGED <<open, thr, holder, pc, cur, raw, status>>

safe_mutex_lock(t, w) ==
  /\ At(t, "idle")
  /\ w \in Lockable(t)
  /\ obj[w].raw \notin Held(t)
  /\ cur' = [cur EXCEPT ![t] = w]
  /\ Goto(t, "lock")
  /\ UNCHANGED <<obj, scope, open, thr, holder, raw, status>>

pthread_mutex_lock(t) ==
  /\ At(t, "lock")
  /\ holder[obj[cur[t]].raw] = NULL
  /\ holder' = [holder EXCEPT ![obj[cur[t]].raw] = t]
  /\ Goto(t, "locked")
  /\ UNCHANGED <<obj, scope, open, thr, cur, raw, status>>

\* Mutant: the flag stays set after the mutex is unlocked.
set_is_locked_kept(t) ==
  /\ \/ At(t, "locked") /\ Goto(t, "idle")
     \/ At(t, "unlocked") /\ Goto(t, "idle")
     \/ At(t, "cleanup_unlocked") /\ Goto(t, "free")
  /\ obj' = [obj EXCEPT ![cur[t]].flag = TRUE]
  /\ cur' = [cur EXCEPT ![t] = IF pc'[t] = "idle" THEN NULL ELSE @]
  /\ UNCHANGED <<scope, open, thr, holder, raw, status>>

\* The flag is set after the mutex is locked, and cleared after it is unlocked.
set_is_locked(t) ==
  /\ \/ At(t, "locked") /\ Goto(t, "idle")
     \/ At(t, "unlocked") /\ Goto(t, "idle")
     \/ At(t, "cleanup_unlocked") /\ Goto(t, "free")
  /\ obj' = [obj EXCEPT ![cur[t]].flag = (pc[t] = "locked")]
  /\ cur' = [cur EXCEPT ![t] = IF pc'[t] = "idle" THEN NULL ELSE @]
  /\ UNCHANGED <<scope, open, thr, holder, raw, status>>

\* pthread_mutex_unlock of a mutex the caller does not hold is undefined.
pthread_mutex_unlock(t, m) ==
  IF holder[m] = t
    THEN holder' = [holder EXCEPT ![m] = NULL] /\ UNCHANGED status
    ELSE status' = "undefined" /\ UNCHANGED holder

\* Unlocked by hand.  Nothing happens if the flag is not set.
safe_mutex_unlock(t, w) ==
  /\ At(t, "idle")
  /\ w \in Lockable(t)
  /\ obj[w].flag
  /\ pthread_mutex_unlock(t, obj[w].raw)
  /\ cur' = [cur EXCEPT ![t] = w]
  /\ Goto(t, "unlocked")
  /\ UNCHANGED <<obj, scope, open, thr, raw>>

-----------------------------------------------------------------------------
(* Cleanup.                                                                *)

\* The cleanup of w joins a thread.  A client that holds a mutex, which that
\* thread may be waiting for, unlocks it first.
Joins(w) == /\ Live(w) /\ obj[w].kind = "thread"
            /\ obj[w].flag /\ obj[w].policy = "JOIN"

MayClean(t, w) == Joins(w) => Held(t) = {}

\* A scope ends: the cleanup function gets its handle, unless that is NULL.
scope_end(t) ==
  /\ At(t, "idle")
  /\ scope[t] # <<>>
  /\ MayClean(t, Last(scope[t]))
  /\ scope' = [scope EXCEPT ![t] = Front(@)]
  /\ cur' = [cur EXCEPT ![t] = Last(scope[t])]
  /\ Goto(t, IF Last(scope[t]) = NULL THEN "idle" ELSE "cleanup")
  /\ UNCHANGED <<obj, open, thr, holder, raw, status>>

\* safe_fclose, safe_socket_close, safe_thread_cleanup or safe_mutex_free
\* called by hand.  Only safe_mutex_free does not release the raw resource.
close_early(t, i) ==
  LET w == scope[t][i] IN
  /\ At(t, "idle")
  /\ Live(w)
  /\ "unlocked" \in Careful /\ obj[w].kind = "mutex" => ~obj[w].flag
  /\ MayClean(t, w)
  /\ scope' = IF "once" \in Careful THEN [scope EXCEPT ![t][i] = NULL] ELSE scope
  /\ cur' = [cur EXCEPT ![t] = w]
  /\ Goto(t, IF obj[w].kind = "mutex" THEN "free" ELSE "cleanup")
  /\ UNCHANGED <<obj, open, thr, holder, raw, status>>

close_raw(t, w) ==
  /\ obj[w].kind \in {"file", "socket"}
  /\ open' = IF obj[w].flag THEN open ELSE open \ {obj[w].raw}
  /\ obj' = [obj EXCEPT ![w].flag = TRUE]
  /\ Goto(t, "free")
  /\ UNCHANGED <<thr, holder, status>>

\* Mutant: the thread is neither joined nor detached.
join_or_detach_none(t, w) ==
  /\ obj[w].kind = "thread"
  /\ obj' = [obj EXCEPT ![w].flag = FALSE]
  /\ Goto(t, "free")
  /\ UNCHANGED <<open, thr, holder, status>>

\* pthread_join waits for the end of the thread.
join_or_detach(t, w) ==
  LET u == obj[w].raw IN
  /\ obj[w].kind = "thread"
  /\ \/ ~obj[w].flag /\ UNCHANGED thr
     \/ /\ obj[w].flag /\ obj[w].policy = "JOIN"
        /\ thr[u] = "ended"
        /\ thr' = [thr EXCEPT ![u] = "none"]
     \/ /\ obj[w].flag /\ obj[w].policy = "DETACH"
        /\ thr' = [thr EXCEPT ![u] = IF @ = "ended" THEN "none" ELSE "detached"]
  /\ obj' = [obj EXCEPT ![w].flag = FALSE]
  /\ Goto(t, "free")
  /\ UNCHANGED <<open, holder, status>>

\* Mutant: the wrapper is freed with the mutex locked.
unlock_raw_skipped(t, w) ==
  /\ obj[w].kind = "mutex"
  /\ Goto(t, "free")
  /\ UNCHANGED <<obj, open, thr, holder, status>>

unlock_raw(t, w) ==
  /\ obj[w].kind = "mutex"
  /\ IF obj[w].flag
       THEN pthread_mutex_unlock(t, obj[w].raw) /\ Goto(t, "cleanup_unlocked")
       ELSE Goto(t, "free") /\ UNCHANGED <<holder, status>>
  /\ UNCHANGED <<obj, open, thr>>

\* The wrapper was freed before: its flag reads TRUE and its policy as neither
\* value, so owner_free reports a double free; a mutex is unlocked first, through
\* a pointer read from freed memory.
cleanup_again(t, w) ==
  /\ status' = IF obj[w].kind = "mutex" THEN "undefined" ELSE "aborted"
  /\ UNCHANGED <<obj, open, thr, holder, pc>>

cleanup(t) ==
  /\ At(t, "cleanup")
  /\ IF Live(cur[t])
       THEN \/ close_raw(t, cur[t])
            \/ join_or_detach(t, cur[t])
            \/ unlock_raw(t, cur[t])
       ELSE cleanup_again(t, cur[t])
  /\ UNCHANGED <<scope, cur, raw>>

owner_free(t) ==
  /\ At(t, "free")
  /\ obj' = [obj EXCEPT ![cur[t]] = Freed(@)]
  /\ cur' = [cur EXCEPT ![t] = NULL]
  /\ Goto(t, "idle")
  /\ UNCHANGED <<scope, open, thr, holder, raw, status>>

-----------------------------------------------------------------------------
\* The calls by which a client gets something new to clean up.
Call(t) ==
  \/ \E r \in Raws, at \in {"wrap_file", "wrap_socket", "wrap_fd"} : open_raw(t, r, at)
  \/ \E w \in Wrappers : safe_thread_spawn(t, w)
  \/ \E w \in Wrappers, m \in Mutexes : safe_mutex_new(t, w, m)
  \/ \E w \in Wrappers : safe_mutex_lock(t, w)

\* What the client does with the handles it has.
Use(t) ==
  \/ \E w \in Wrappers, p \in {"JOIN", "DETACH"} : safe_thread_set_policy(t, w, p)
  \/ \E w \in Wrappers : safe_mutex_unlock(t, w)
  \/ \E i \in DOMAIN scope[t] : close_early(t, i)

\* The steps of a call under way.
Step(t) ==
  \/ \E w \in Wrappers : wrap_ok(t, w)
  \/ wrap_fails(t) \/ safe_socket_new_fails(t) \/ client_close(t)
  \/ \E u \in Threads : create_ok(t, u)
  \/ create_fails(t)
  \/ pthread_mutex_lock(t) \/ set_is_locked(t)
  \/ cleanup(t) \/ owner_free(t)

Next ==
  \/ \E t \in Threads : Call(t) \/ Use(t) \/ Step(t) \/ scope_end(t) \/ thread_exit(t)
  \/ \E w \in Wrappers : Recycle(w)

Spec == Init /\ [][Next]_vars

\* Client code reaches the end of its scope and of its thread.  Where a scope ends
\* with a join it unlocks what it holds.
Finish(t) ==
  \/ scope_end(t) \/ thread_exit(t)
  \/ /\ scope[t] # <<>> /\ ~MayClean(t, Last(scope[t]))
     /\ \E w \in Wrappers : safe_mutex_unlock(t, w)

\* A thread inside a call goes on, and client code finishes.
FairSpec == Spec /\ \A t \in Threads : WF_vars(Step(t)) /\ WF_vars(Finish(t))

-----------------------------------------------------------------------------
(* Properties.                                                             *)

Owners(r) == {w \in Wrappers : Live(w) /\ obj[w].kind \in {"file", "socket"}
                               /\ obj[w].raw = r /\ ~obj[w].flag}
Carriers(r) == {t \in Threads : raw[t] = r}

Joiners(u) == {w \in Wrappers : Live(w) /\ obj[w].kind = "thread"
                                /\ obj[w].raw = u /\ obj[w].flag}

\* Every open stream and descriptor belongs to one live wrapper that is not
\* closed, or to one thread on its way to wrap it or to close it; and no wrapper
\* that is not closed has lost its descriptor to another close.
RawsOwned ==
  \A r \in Raws :
    Cardinality(Owners(r)) + Cardinality(Carriers(r)) = IF r \in open THEN 1 ELSE 0

\* Every thread that still has to be joined is the thread of one live wrapper
\* whose cleanup is to come, and no wrapper waits for a thread already given up.
ThreadsOwned ==
  \A u \in Threads \ Mains :
    Cardinality(Joiners(u)) = IF thr[u] \in {"running", "ended"} THEN 1 ELSE 0

\* The variables keep their types, and streams, descriptors and threads have one
\* wrapper each to close or to join them, whichever call fails on the way.
HandlesOwned == TypeOK /\ RawsOwned /\ ThreadsOwned

\* The wrappers a thread has: in its scopes, or in the call under way.
Has(t) == (Range(scope[t]) \cup {cur[t]}) \ {NULL}

Flagged(t, m) == {w \in Has(t) : /\ Live(w) /\ obj[w].kind = "mutex"
                                  /\ obj[w].raw = m /\ obj[w].flag}

Late(t, m) ==
  pc[t] \in {"locked", "unlocked", "cleanup_unlocked"} /\ obj[cur[t]].raw = m

\* The mutex a thread holds is on record in the flag of one wrapper the thread
\* still has to clean up, and a wrapper's flag is not set without its thread
\* holding the mutex: no cleanup leaves a mutex locked, none unlocks another's.
\* In between, the thread is inside the call that is to set or clear the flag.
LocksOnRecord ==
  \A t \in Threads, m \in Mutexes :
    IF Late(t, m) THEN Flagged(t, m) = IF pc[t] = "locked" THEN {} ELSE {cur[t]}
                  ELSE Cardinality(Flagged(t, m)) = IF holder[m] = t THEN 1 ELSE 0

\* No wrapper leaks: each live one is in a scope to come, or in the hands of the
\* call that makes it or cleans it up, on the paths where an allocation or
\* pthread_create fails too.
NoWrapperLeaks ==
  \A w \in Wrappers :
    Live(w) => \E t \in Threads : w \in Has(t)

\* No handle is cleaned up twice and no mutex is unlocked by a thread that does
\* not hold it: the program is not stopped by the runtime.
NoFault == status = "running"

\* The comments of the headers on a handle closed early: "The macro will know not
\* to close it again." (ownedc_file.h, ownedc_socket.h, ownedc_thread.h)
ClosedOnce == status # "aborted"

\* Once clients make no new calls, every scope ends, every mutex is unlocked and
\* every thread that was spawned has ended: no cleanup waits for ever, for a
\* mutex or for a thread to join.
ScopesEnd ==
  <>[][\A t \in Threads : ~Call(t)]_vars =>
    <>[](/\ \A t \in Threads : scope[t] = <<>> /\ Held(t) = {}
         /\ \A t \in Threads \ Mains : thr[t] = "none")

-----------------------------------------------------------------------------
(* The inductive invariant, for clients that keep "private", "unlocked".   *)

Carrying == {"wrap_file", "wrap_socket", "wrap_fd", "has_fd"}
Locking == {"lock", "locked", "unlocked"}
Cleaning == {"cleanup", "cleanup_unlocked", "free"}

\* Where a thread is tells what it has in hand, and how far its cleanup has come.
CallOK(t) ==
  /\ cur[t] # NULL <=> pc[t] \in {"create"} \cup Locking \cup Cleaning
  /\ raw[t] # NULL <=> pc[t] \in Carrying
  /\ thr[t] \in {"none", "ended"} => pc[t] = "idle" /\ scope[t] = <<>>
  /\ pc[t] \in Carrying \cup {"create"} => Len(scope[t]) < MaxScopes
  /\ cur[t] # NULL /\ pc[t] # "cleanup" => Live(cur[t])
  /\ pc[t] = "create" =>
       obj[cur[t]].kind = "thread" /\ obj[cur[t]].raw = NULL /\ obj[cur[t]].flag
  /\ pc[t] \in Locking => cur[t] \in Range(scope[t])
  /\ pc[t] \in Locking \cup {"cleanup_unlocked"} => obj[cur[t]].kind = "mutex"
  /\ pc[t] = "free" => (obj[cur[t]].flag <=> obj[cur[t]].kind \in {"file", "socket"})

\* What a wrapper wraps is of its kind; only a thread wrapper under construction
\* has nothing yet.
KindOK(t) ==
  \A w \in Has(t) :
    /\ obj[w].life # "none"
    /\ Live(w) =>
         /\ obj[w].kind \in {"file", "socket"} => obj[w].raw \in Raws
         /\ obj[w].kind = "mutex" => obj[w].raw \in Mutexes
         /\ obj[w].kind = "thread" => \/ obj[w].raw \in Threads \ Mains
                                      \/ pc[t] = "create" /\ cur[t] = w

\* One or none: LocksOnRecord, RawsOwned and ThreadsOwned without counting.
One(S) == \A x, y \in S : x = y

LockOK(t, m) ==
  /\ Late(t, m) => /\ Flagged(t, m) = IF pc[t] = "locked" THEN {} ELSE {cur[t]}
                   /\ holder[m] = t <=> pc[t] = "locked"
  /\ ~Late(t, m) => One(Flagged(t, m)) /\ (holder[m] = t <=> Flagged(t, m) # {})
  /\ pc[t] = "lock" /\ obj[cur[t]].raw = m => holder[m] # t

ThreadOK(t) == CallOK(t) /\ KindOK(t) /\ \A m \in Mutexes : LockOK(t, m)

RawOK(r) == /\ One(Owners(r)) /\ One(Carriers(r))
            /\ Owners(r) = {} \/ Carriers(r) = {}
            /\ r \in open <=> Owners(r) # {} \/ Carriers(r) # {}

JoinOK(u) == One(Joiners(u)) /\ (thr[u] \in {"running", "ended"} <=> Joiners(u) # {})

\* Each wrapper is in the hands of one thread.
HandsOK == \A t, u \in Threads : t # u => Has(t) \cap Has(u) = {}

IInv ==
  /\ TypeOK /\ HandsOK /\ NoWrapperLeaks
  /\ \A t \in Threads : ThreadOK(t)
  /\ \A r \in Raws : RawOK(r)
  /\ \A u \in Threads \ Mains : JoinOK(u)
  /\ \A t \in Mains : thr[t] = "running"

\* And for those that keep "once": the variables in scope are NULL or name live
\* wrappers, each once, and none names the wrapper that is cleaned up.
Distinct(s) == \A i, j \in DOMAIN s : s[i] = s[j] /\ s[i] # NULL => i = j

OnceOK(t) ==
  /\ Distinct(scope[t])
  /\ \A w \in Has(t) : Live(w)
  /\ cur[t] \in Range(scope[t]) => cur[t] = NULL \/ pc[t] \in Locking

OnceInv == NoFault /\ \A t \in Threads : OnceOK(t)
=============================================================================
