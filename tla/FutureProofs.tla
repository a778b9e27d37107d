---------------------------- MODULE FutureProofs ----------------------------
(***************************************************************************)
(* Proofs about Future for any callers, worker ids, futures and blocks,    *)
(* with and without failures of pthread_create.                            *)
(***************************************************************************)
EXTENDS Future, FiniteSetTheorems, TLAPS

(* What the steps write in a header is a header, with no borrows.          *)
LEMMA FreshHeader ==
  /\ NoMeta \in Meta /\ NoMeta.state = "INVALID" /\ NoMeta.borrow_count = 0
  /\ \A t \in Threads : /\ NewMeta(t) \in Meta /\ NewMeta(t).state = "OWNED"
                         /\ NewMeta(t).borrow_count = 0 /\ NewMeta(t).owner_thread = t
  BY DEF Meta, State, NewMeta, NoMeta

(* A free keeps the borrow count of a header, a claim also makes the       *)
(* thread its owner.                                                       *)
LEMMA HeaderFacts ==
  ASSUME NEW m \in Meta, NEW t \in Threads
  PROVE  /\ Freed(m) \in Meta /\ Freed(m).state = "FREED"
         /\ Freed(m).borrow_count = m.borrow_count
         /\ Claimed(m, t) \in Meta /\ Claimed(m, t).state = "OWNED"
         /\ Claimed(m, t).owner_thread = t
         /\ Claimed(m, t).borrow_count = m.borrow_count
  BY DEF Meta, State, Freed, Claimed

(* At most one use, in four kinds of places.                               *)
AtMostOne(H, P, A, R) ==
  /\ \A x, y \in H : x = y
  /\ \A x, y \in P : x = y
  /\ \A x, y \in A : x = y
  /\ \A x, y \in R : x = y
  /\ H # {} => P = {} /\ A = {} /\ R = {}
  /\ P # {} => A = {} /\ R = {}
  /\ A # {} => R = {}

AtLeastOne(H, P, A, R) == H # {} \/ P # {} \/ A # {} \/ R # {}

All(H, P, A, R) ==
  {<<"hand", t>> : t \in H} \cup {<<"ptr", t>> : t \in P}
  \cup {<<"arg", f>> : f \in A} \cup {<<"result", f>> : f \in R}

(* The uses of a block are told apart by the kind of place and the place.  *)
LEMMA UsesByKind ==
  ASSUME NEW H, NEW P, NEW A, NEW R
  PROVE  /\ (\A u, v \in All(H, P, A, R) : u = v) <=> AtMostOne(H, P, A, R)
         /\ All(H, P, A, R) # {} <=> AtLeastOne(H, P, A, R)
<1> DEFINE U == All(H, P, A, R)
<1>1. /\ \A x \in H : <<"hand", x>> \in U
      /\ \A x \in P : <<"ptr", x>> \in U
      /\ \A x \in A : <<"arg", x>> \in U
      /\ \A x \in R : <<"result", x>> \in U
  BY DEF All
<1>2. \A u \in U : \/ \E x \in H : u = <<"hand", x>>
                   \/ \E x \in P : u = <<"ptr", x>>
                   \/ \E x \in A : u = <<"arg", x>>
                   \/ \E x \in R : u = <<"result", x>>
  BY DEF All
<1> HIDE DEF U
<1>3. AtMostOne(H, P, A, R) => \A u, v \in U : u = v
  BY <1>1, <1>2 DEF AtMostOne
<1>4. ASSUME \A u, v \in U : u = v
      PROVE  AtMostOne(H, P, A, R)
  <2>1. /\ \A x, y \in H : x = y
        /\ \A x, y \in P : x = y
    BY <1>1, <1>4
  <2>2. /\ \A x, y \in A : x = y
        /\ \A x, y \in R : x = y
    BY <1>1, <1>4
  <2>3. H # {} => P = {} /\ A = {} /\ R = {}
    BY <1>1, <1>4
  <2>4. P # {} => A = {} /\ R = {}
    BY <1>1, <1>4
  <2>5. A # {} => R = {}
    BY <1>1, <1>4
  <2> QED
    BY <2>1, <2>2, <2>3, <2>4, <2>5 DEF AtMostOne
<1>5. U # {} <=> AtLeastOne(H, P, A, R)
  BY <1>1, <1>2 DEF AtLeastOne
<1> QED
  BY <1>3, <1>4, <1>5 DEF U

(* One use is a set of one element.                                        *)
LEMMA OneOfCardinality ==
  ASSUME NEW U, \A u, v \in U : u = v
  PROVE  Cardinality(U) = IF U # {} THEN 1 ELSE 0
<1>1. CASE U = {}
  BY <1>1, FS_EmptySet
<1>2. CASE U # {}
  <2>1. PICK u \in U : TRUE
    BY <1>2
  <2>2. U = {u}
    BY <2>1
  <2> QED
    BY <1>2, <2>2, FS_Singleton
<1> QED
  BY <1>1, <1>2

(* UsedOnce, with the kinds of uses kept apart.                            *)
Places ==
  \A b \in Blocks :
    /\ AtMostOne(InHand(b), OnTheWay(b), AsArg(b), AsResult(b))
    /\ Live(meta[b]) <=> AtLeastOne(InHand(b), OnTheWay(b), AsArg(b), AsResult(b))

(* The uses of a block counted kind by kind are the uses counted together. *)
LEMMA PlacesUsed == UsedOnce <=> Places
<1>1. ASSUME NEW b \in Blocks
      PROVE  /\ (\A u, v \in Uses(b) : u = v)
                <=> AtMostOne(InHand(b), OnTheWay(b), AsArg(b), AsResult(b))
             /\ Uses(b) # {}
                <=> AtLeastOne(InHand(b), OnTheWay(b), AsArg(b), AsResult(b))
  <2>1. Uses(b) = All(InHand(b), OnTheWay(b), AsArg(b), AsResult(b))
    BY DEF Uses, All
  <2> QED
    BY <2>1, UsesByKind
<1>2. ASSUME UsedOnce, NEW b \in Blocks
      PROVE  /\ AtMostOne(InHand(b), OnTheWay(b), AsArg(b), AsResult(b))
             /\ Live(meta[b])
                <=> AtLeastOne(InHand(b), OnTheWay(b), AsArg(b), AsResult(b))
  <2>1. (\A u, v \in Uses(b) : u = v) /\ (Live(meta[b]) <=> Uses(b) # {})
    BY <1>2 DEF UsedOnce
  <2> QED
    BY <1>1, <2>1
<1>3. ASSUME Places, NEW b \in Blocks
      PROVE  /\ \A u, v \in Uses(b) : u = v
             /\ Live(meta[b]) <=> Uses(b) # {}
  <2>1. /\ AtMostOne(InHand(b), OnTheWay(b), AsArg(b), AsResult(b))
        /\ Live(meta[b])
           <=> AtLeastOne(InHand(b), OnTheWay(b), AsArg(b), AsResult(b))
    BY <1>3 DEF Places
  <2> QED
    BY <1>1, <2>1
<1>4. UsedOnce => Places
  BY <1>2 DEF Places
<1>5. Places => UsedOnce
  BY <1>3 DEF UsedOnce
<1> QED
  BY <1>4, <1>5

(* The same for the state after a step.                                    *)
LEMMA PlacesUsedNext == UsedOnce' <=> Places'
  BY PlacesUsed, PTL

-----------------------------------------------------------------------------
(* What the invariant says of a thread in a call.                          *)

(* A worker at work has its future, alive and not ready, to itself.        *)
LEMMA WorkerFuture ==
  ASSUME IInv, NEW w \in Workers, pc[w] \in Working
  PROVE  /\ w \in Threads /\ w \notin Callers
         /\ fut[w] \in Futures /\ Live(meta[fut[w]]) /\ thread[fut[w]] = w
         /\ ~is_ready[fut[w]] /\ Attached(fut[w], w)
         /\ \A v \in Workers : fut[v] = fut[w] => v = w
         /\ \A t \in Callers : fut[t] = fut[w] => pc[t] \notin {"join", "free"}
<1>1. w \in Threads /\ w \notin Callers
  BY FutureAssumption
<1>2. PICK f \in Futures : Attached(f, w)
  BY DEF IInv, WorkersOK, Working
<1>3. f = fut[w] /\ ~is_ready[f]
  BY <1>2 DEF IInv, WorkersOK, Working
<1>4. Live(meta[f]) /\ thread[f] = w
  BY <1>2 DEF Attached
<1>5. ASSUME NEW v \in Workers, fut[v] = fut[w]
      PROVE  v = w
  <2>1. pc[v] \in Working
    BY <1>3, <1>5, FutureAssumption DEF IInv, CallsOK
  <2>2. PICK g \in Futures : Attached(g, v)
    BY <2>1 DEF IInv, WorkersOK, Working
  <2>3. g = f
    BY <1>3, <1>5, <2>1, <2>2 DEF IInv, WorkersOK
  <2> QED
    BY <1>4, <2>2, <2>3 DEF Attached
<1>6. \A t \in Callers : fut[t] = f => pc[t] \notin {"join", "free"}
  BY <1>3, FutureAssumption DEF IInv, AwaitsOK
<1> QED
  BY <1>1, <1>2, <1>3, <1>4, <1>5, <1>6

(* An awaiting caller finds its future alive, and nobody else awaits it.   *)
LEMMA CallerFuture ==
  ASSUME IInv, NEW t \in Callers, pc[t] \in Awaiting
  PROVE  /\ t \in Threads /\ t \notin Workers
         /\ fut[t] \in Futures /\ Live(meta[fut[t]])
         /\ \A u \in Callers : fut[u] = fut[t] => u = t
         /\ pc[t] \in {"join", "free"} =>
              is_ready[fut[t]] /\ thread[fut[t]] \in Workers
<1>1. t \in Threads /\ t \notin Workers
  BY FutureAssumption
<1>2. fut[t] # NULL /\ fut[t] \in Futures
  BY <1>1 DEF IInv, CallsOK, TypeOK
<1>3. /\ Live(meta[fut[t]])
      /\ \A u \in Callers : fut[u] = fut[t] => u = t
      /\ pc[t] \in {"join", "free"} => is_ready[fut[t]]
  BY <1>2 DEF IInv, AwaitsOK
<1>4. pc[t] \in {"join", "free"} => thread[fut[t]] \in Workers
  BY <1>2, <1>3 DEF IInv, WorkersOK, TypeOK
<1> QED
  BY <1>1, <1>2, <1>3, <1>4

(* Only callers are at the locations of an await, only workers at those of *)
(* a worker.                                                               *)
LEMMA CallerLocations ==
  ASSUME IInv, NEW t \in Threads
  PROVE  /\ pc[t] \in {"idle", "claim"} \cup Awaiting => t \in Callers
         /\ pc[t] \in {"none", "exited"} \cup Working => t \in Workers
<1>1. /\ t \in Callers => pc[t] \in {"idle", "claim"} \cup Awaiting
      /\ t \in Workers => pc[t] \in {"none", "exited"} \cup Working
  BY DEF IInv, CallsOK
<1> QED
  BY <1>1, FutureAssumption DEF Awaiting, Working

-----------------------------------------------------------------------------
(* Every action preserves the invariant, one lemma for each.               *)

(* The steps that only move a thread inside its wait or to its publish.    *)
LEMMA MovesPreserve ==
  ASSUME IInv, NEW t \in Threads, NEW l \in Locations,
         pc' = [pc EXCEPT ![t] = l],
         UNCHANGED <<meta, fields, fut, ptr, hand, status>>,
         mutex' \in [Futures -> Threads \cup {NoThread}],
         \/ {pc[t], l} \subseteq {"await_lock", "test", "waiting"}
         \/ pc[t] = "worker_lock" /\ l = "publish"
  PROVE  IInv'
<1>1. TypeOK'
  BY DEF IInv, TypeOK, fields
<1>2. HeadersOK' /\ ClientsOwn'
  BY DEF IInv, HeadersOK, ClientsOwn
<1>3. \A u \in Threads :
        /\ pc'[u] \in Awaiting <=> pc[u] \in Awaiting
        /\ pc'[u] \in Working <=> pc[u] \in Working
        /\ \A k \in Locations \ {"await_lock", "test", "waiting", "worker_lock", "publish"} :
             pc'[u] = k <=> pc[u] = k
        /\ pc'[u] \in {"worker_lock", "publish"} <=> pc[u] \in {"worker_lock", "publish"}
  BY DEF IInv, TypeOK, Awaiting, Working, Locations
<1>4. \A u \in Threads :
        /\ pc'[u] = "idle" <=> pc[u] = "idle"
        /\ pc'[u] = "claim" <=> pc[u] = "claim"
        /\ pc'[u] = "join" <=> pc[u] = "join"
        /\ pc'[u] = "free" <=> pc[u] = "free"
        /\ pc'[u] = "none" <=> pc[u] = "none"
        /\ pc'[u] = "exited" <=> pc[u] = "exited"
        /\ pc'[u] = "task" <=> pc[u] = "task"
        /\ pc'[u] = "start" <=> pc[u] = "start"
  BY <1>3 DEF Locations, Awaiting, Working
<1>5. CallsOK'
  BY <1>3, <1>4, FutureAssumption DEF IInv, CallsOK
<1>6. AwaitsOK'
  BY <1>4, FutureAssumption DEF IInv, AwaitsOK, fields
<1>7. \A f \in Futures, w \in Workers : Attached(f, w)' <=> Attached(f, w)
  BY <1>4, FutureAssumption DEF Attached, Joined, fields
<1>8. WorkersOK'
  BY <1>3, <1>4, <1>7, FutureAssumption DEF IInv, WorkersOK, fields
<1>9. \A b \in Blocks : /\ InHand(b)' = InHand(b) /\ OnTheWay(b)' = OnTheWay(b)
                        /\ AsArg(b)' = AsArg(b) /\ AsResult(b)' = AsResult(b)
  BY <1>4, FutureAssumption DEF InHand, OnTheWay, AsArg, AsResult, fields
<1>10. Places'
  BY <1>9, PlacesUsed DEF IInv, Places
<1> QED
  BY <1>1, <1>2, <1>5, <1>6, <1>8, <1>10, PlacesUsedNext DEF IInv

(* Taking the mutex, waiting and waking up move one thread and nothing     *)
(* else.                                                                   *)
LEMMA LockPreserves ==
  ASSUME IInv, NEW t \in Threads, lock(t) \/ await_wait(t) \/ spurious_wakeup(t)
  PROVE  IInv'
<1>1. CASE lock(t)
  BY <1>1, MovesPreserve DEF lock, At, Goto, IInv, TypeOK, Locations, Awaiting, Working
<1>2. CASE await_wait(t)
  BY <1>2, MovesPreserve DEF await_wait, At, Goto, IInv, TypeOK, Locations, Awaiting
<1>3. CASE spurious_wakeup(t)
  BY <1>3, MovesPreserve DEF spurious_wakeup, At, Goto, IInv, TypeOK, Locations, Awaiting
<1> QED
  BY <1>1, <1>2, <1>3

(* A fatal error changes nothing but the status.                           *)
LEMMA FatalPreserves ==
  ASSUME IInv, ownedc_diagnostics_fatal
  PROVE  IInv'
<1>1. TypeOK'
  BY DEF IInv, TypeOK, ownedc_diagnostics_fatal, fields
<1>2. HeadersOK' /\ ClientsOwn' /\ CallsOK' /\ AwaitsOK' /\ WorkersOK'
  BY DEF IInv, HeadersOK, ClientsOwn, CallsOK, AwaitsOK, WorkersOK, Attached, Joined,
         ownedc_diagnostics_fatal, fields
<1>3. \A b \in Blocks : /\ InHand(b)' = InHand(b) /\ OnTheWay(b)' = OnTheWay(b)
                        /\ AsArg(b)' = AsArg(b) /\ AsResult(b)' = AsResult(b)
  BY DEF InHand, OnTheWay, AsArg, AsResult, ownedc_diagnostics_fatal, fields
<1>4. Places'
  BY <1>3, PlacesUsed DEF IInv, Places, ownedc_diagnostics_fatal
<1> QED
  BY <1>1, <1>2, <1>4, PlacesUsedNext DEF IInv

(* The futures are left alone: what the invariant says of them and of the  *)
(* threads that use them is kept.                                          *)
LEMMA FuturesKept ==
  ASSUME IInv, UNCHANGED <<fields, pc, fut>>,
         \A f \in Futures : /\ Live(meta[f])' <=> Live(meta[f])
                            /\ meta'[f].owner_thread = meta[f].owner_thread
                               \/ ~Live(meta[f])
  PROVE  /\ AwaitsOK' /\ WorkersOK'
         /\ \A b \in Blocks : AsArg(b)' = AsArg(b) /\ AsResult(b)' = AsResult(b)
<1>1. AwaitsOK'
  BY FutureAssumption DEF IInv, AwaitsOK, TypeOK, fields
<1>2. \A f \in Futures, w \in Workers : Attached(f, w)' <=> Attached(f, w)
  BY DEF Attached, Joined, fields
<1>3. WorkersOK'
  BY <1>2 DEF IInv, WorkersOK, fields
<1>4. \A b \in Blocks : AsArg(b)' = AsArg(b) /\ AsResult(b)' = AsResult(b)
  BY DEF AsArg, AsResult, fields
<1> QED
  BY <1>1, <1>3, <1>4

(* owner_malloc gives a client a block nobody has.                         *)
LEMMA MallocPreserves ==
  ASSUME IInv, NEW t \in Threads, NEW b \in Blocks, owner_malloc(t, b)
  PROVE  IInv'
<1>1. b \notin Futures /\ b # NULL
  BY FutureAssumption
<1>2. meta' = [meta EXCEPT ![b] = NewMeta(t)] /\ meta[b] \in Meta
  BY DEF owner_malloc, IInv, TypeOK
<1>3. TypeOK'
  BY <1>2, FreshHeader DEF owner_malloc, IInv, TypeOK, fields
<1>4. HeadersOK'
  BY <1>2, FreshHeader DEF IInv, TypeOK, HeadersOK
<1>5. Live(meta[b])' /\ ~Live(meta[b])
  BY <1>2, FreshHeader DEF owner_malloc, IInv, TypeOK, Live
<1>6. /\ InHand(b) = {} /\ OnTheWay(b) = {}
      /\ AsArg(b) = {} /\ AsResult(b) = {}
  BY <1>5, PlacesUsed DEF IInv, Places, AtLeastOne
<1>7. ClientsOwn'
  BY <1>2, FreshHeader DEF owner_malloc, IInv, TypeOK, ClientsOwn
<1>8. CallsOK'
  BY FutureAssumption DEF owner_malloc, InClient, At, IInv, CallsOK, TypeOK, Awaiting, Working
<1>9. /\ AwaitsOK' /\ WorkersOK'
      /\ \A c \in Blocks : AsArg(c)' = AsArg(c) /\ AsResult(c)' = AsResult(c)
  <2>1. \A f \in Futures : meta'[f] = meta[f]
    BY <1>1, <1>2 DEF IInv, TypeOK
  <2> QED
    BY <2>1, FuturesKept DEF owner_malloc
<1>10. /\ InHand(b)' = {t}
       /\ \A c \in Blocks \ {b} : InHand(c)' = InHand(c)
       /\ \A c \in Blocks : OnTheWay(c)' = OnTheWay(c)
  BY <1>6 DEF owner_malloc, InHand, OnTheWay, IInv, TypeOK
<1>11. Places'
  <2>1. \A c \in Blocks \ {b} : Live(meta[c])' <=> Live(meta[c])
    BY <1>2 DEF IInv, TypeOK
  <2> QED
    BY <1>5, <1>6, <1>9, <1>10, <2>1, PlacesUsed DEF IInv, Places, AtMostOne, AtLeastOne
<1> QED
  BY <1>3, <1>4, <1>7, <1>8, <1>9, <1>11, PlacesUsedNext DEF IInv

(* owner_free takes a block from the client that has it, or stops the      *)
(* program.                                                                *)
LEMMA FreePreserves ==
  ASSUME IInv, NEW t \in Threads, NEW b \in Blocks, owner_free(t, b)
  PROVE  IInv'
<1>1. CASE free_fault(meta[b], t)
  BY <1>1, FatalPreserves DEF owner_free
<1>2. CASE ~free_fault(meta[b], t)
  <2>1. b \notin Futures /\ b # NULL
    BY FutureAssumption
  <2>2. meta' = [meta EXCEPT ![b] = Freed(meta[b])] /\ meta[b] \in Meta
    BY <1>2 DEF owner_free, IInv, TypeOK
  <2>3. /\ hand' = [hand EXCEPT ![t] = @ \ {b}] /\ b \in hand[t]
        /\ UNCHANGED <<fields, mutex, pc, fut, ptr, status>>
    BY <1>2 DEF owner_free
  <2>4. TypeOK'
    BY <2>2, <2>3, HeaderFacts DEF IInv, TypeOK, fields
  <2>5. HeadersOK'
    BY <2>2, HeaderFacts DEF IInv, TypeOK, HeadersOK
  <2>6. ~Live(meta[b])'
    BY <2>2, HeaderFacts DEF IInv, TypeOK, Live
  <2>7. /\ InHand(b) = {t} /\ OnTheWay(b) = {}
        /\ AsArg(b) = {} /\ AsResult(b) = {}
    <3>1. t \in InHand(b)
      BY <2>3 DEF InHand
    <3> QED
      BY <3>1, PlacesUsed DEF IInv, Places, AtMostOne
  <2>8. /\ InHand(b)' = {}
        /\ \A c \in Blocks \ {b} : InHand(c)' = InHand(c)
        /\ \A c \in Blocks : OnTheWay(c)' = OnTheWay(c)
    <3>1. \A u \in Threads : b \in hand[u] => u = t
      BY <2>7 DEF InHand
    <3> QED
      BY <2>3, <3>1 DEF InHand, OnTheWay, IInv, TypeOK
  <2>9. ClientsOwn'
    <3> SUFFICES ASSUME NEW u \in Threads, NEW c \in hand'[u]
                 PROVE  meta'[c].state = "OWNED" /\ meta'[c].owner_thread = u
      BY DEF ClientsOwn
    <3>1. c \in hand[u] /\ c # b /\ c \in Blocks
      BY <2>3, <2>8 DEF InHand, IInv, TypeOK
    <3> QED
      BY <2>2, <3>1 DEF IInv, TypeOK, ClientsOwn
  <2>10. CallsOK'
    BY <2>3, FutureAssumption DEF IInv, CallsOK, TypeOK
  <2>11. /\ AwaitsOK' /\ WorkersOK'
         /\ \A c \in Blocks : AsArg(c)' = AsArg(c) /\ AsResult(c)' = AsResult(c)
    <3>1. \A f \in Futures : meta'[f] = meta[f]
      BY <2>1, <2>2 DEF IInv, TypeOK
    <3> QED
      BY <2>3, <3>1, FuturesKept
  <2>12. Places'
    <3>1. \A c \in Blocks \ {b} : Live(meta[c])' <=> Live(meta[c])
      BY <2>2 DEF IInv, TypeOK
    <3> QED
      BY <2>6, <2>7, <2>8, <2>11, <3>1, PlacesUsed DEF IInv, Places, AtMostOne, AtLeastOne
  <2> QED
    BY <2>4, <2>5, <2>9, <2>10, <2>11, <2>12, PlacesUsedNext DEF IInv
<1> QED
  BY <1>1, <1>2

(* A freed block without a use, or a freed future, goes back to the        *)
(* allocator.                                                              *)
LEMMA RecyclePreserves ==
  ASSUME IInv, NEW b \in Blocks \cup Futures, Recycle(b)
  PROVE  IInv'
<1>1. /\ meta' = [meta EXCEPT ![b] = NoMeta] /\ meta[b] \in Meta
      /\ UNCHANGED <<fields, mutex, pc, fut, ptr, hand, status>>
  BY DEF Recycle, IInv, TypeOK
<1>2. \A c \in Blocks \cup Futures : /\ Live(meta[c])' <=> Live(meta[c])
                                     /\ c # b => meta'[c] = meta[c]
  BY <1>1, FreshHeader DEF Recycle, IInv, TypeOK, Live
<1>3. ~Live(meta[b]) /\ \A t \in Threads : b \notin hand[t]
  BY DEF Recycle, Live
<1>4. TypeOK' /\ HeadersOK'
  BY <1>1, FreshHeader DEF IInv, TypeOK, HeadersOK, fields
<1>5. ClientsOwn'
  BY <1>1, <1>2, <1>3 DEF IInv, TypeOK, ClientsOwn
<1>6. CallsOK'
  BY <1>1 DEF IInv, CallsOK
<1>7. /\ AwaitsOK' /\ WorkersOK'
      /\ \A c \in Blocks : AsArg(c)' = AsArg(c) /\ AsResult(c)' = AsResult(c)
  BY <1>1, <1>2, <1>3, FuturesKept
<1>8. \A c \in Blocks : InHand(c)' = InHand(c) /\ OnTheWay(c)' = OnTheWay(c)
  BY <1>1 DEF InHand, OnTheWay
<1>9. Places'
  BY <1>2, <1>7, <1>8, PlacesUsed DEF IInv, Places
<1> QED
  BY <1>4, <1>5, <1>6, <1>7, <1>9, PlacesUsedNext DEF IInv

(* The spawn: the argument goes from the caller's hand to the future, with *)
(* a worker or, when pthread_create fails, without one.                    *)
LEMMA SpawnPreserves ==
  ASSUME IInv, NEW t \in Threads, NEW f \in Futures, NEW p \in BlockOrNull,
         owned_future_spawn(t, f, p)
  PROVE  IInv'
<1>1. /\ t \in Callers /\ t \notin Workers /\ pc[t] = "idle"
      /\ f \notin Blocks /\ NULL \notin Blocks /\ NULL \notin Futures
      /\ NoThread \notin Workers
  BY CallerLocations, FutureAssumption, NoThreadAssumption
     DEF owned_future_spawn, At
<1>2. /\ meta' = [meta EXCEPT ![f] = NewMeta(t)] /\ meta[f].state = "INVALID"
      /\ arg' = [arg EXCEPT ![f] = p] /\ result' = [result EXCEPT ![f] = NULL]
      /\ is_ready' = [is_ready EXCEPT ![f] = FALSE]
      /\ hand' = [hand EXCEPT ![t] = @ \ {p}] /\ p \in hand[t] \cup {NULL}
      /\ mutex' = [mutex EXCEPT ![f] = NoThread]
      /\ UNCHANGED <<ptr, status>>
  BY DEF owned_future_spawn
<1>3. PICK w \in Workers \cup {NoThread} :
        /\ thread' = [thread EXCEPT ![f] = w]
        /\ \/ /\ w \in Workers /\ pc[w] = "none"
              /\ pc' = [pc EXCEPT ![w] = "start"] /\ fut' = [fut EXCEPT ![w] = f]
           \/ w = NoThread /\ pc' = pc /\ fut' = fut
  BY DEF owned_future_spawn
<1>4. /\ Live(meta[f])' /\ ~Live(meta[f]) /\ meta'[f].owner_thread = t
      /\ \A c \in Blocks \cup Futures : c # f => meta'[c] = meta[c]
  BY <1>2, FreshHeader DEF IInv, TypeOK, Live
<1>5. \A u \in Threads : fut[u] # f
  <2>1. \A u \in Callers : fut[u] # f
    BY <1>1, <1>4 DEF IInv, AwaitsOK
  <2>2. ASSUME NEW u \in Workers
        PROVE  fut[u] # f
    BY <1>1, <1>4, WorkerFuture DEF IInv, CallsOK
  <2> QED
    BY <2>1, <2>2, FutureAssumption
<1>6. w \in Workers => fut[w] = NULL /\ w \in Threads
  BY <1>1, <1>3, FutureAssumption DEF IInv, CallsOK, Working
<1>7. /\ \A u \in Callers : pc'[u] = pc[u] /\ fut'[u] = fut[u]
      /\ \A u \in Workers : u # w => pc'[u] = pc[u] /\ fut'[u] = fut[u]
      /\ w \in Workers => pc'[w] = "start" /\ fut'[w] = f
  BY <1>1, <1>3, <1>6, FutureAssumption DEF IInv, TypeOK
<1>8. TypeOK'
  <2>1. /\ pc' \in [Threads -> Locations]
        /\ fut' \in [Threads -> Futures \cup {NULL}]
    BY <1>3, <1>6 DEF IInv, TypeOK, Locations, Working
  <2> QED
    BY <1>2, <1>3, <2>1, FreshHeader DEF IInv, TypeOK, BlockOrNull
<1>9. HeadersOK'
  BY <1>2, FreshHeader DEF IInv, TypeOK, HeadersOK
<1>10. ClientsOwn'
  BY <1>1, <1>2, <1>4 DEF IInv, TypeOK, ClientsOwn
<1>11. CallsOK'
  <2>1. ASSUME NEW u \in Callers
        PROVE  /\ pc'[u] \in {"idle", "claim"} \cup Awaiting
               /\ pc'[u] \in Awaiting <=> fut'[u] # NULL
               /\ ptr'[u] # NULL => pc'[u] \in {"join", "free", "claim"}
    BY <1>2, <1>7 DEF IInv, CallsOK
  <2>2. ASSUME NEW u \in Workers
        PROVE  /\ pc'[u] \in {"none", "exited"} \cup Working
               /\ pc'[u] \in Working <=> fut'[u] # NULL
               /\ ptr'[u] # NULL => pc'[u] \in {"worker_lock", "publish"}
               /\ pc'[u] # "task" => hand'[u] = {}
    <3>1. hand'[u] = hand[u] /\ ptr'[u] = ptr[u]
      BY <1>1, <1>2, FutureAssumption DEF IInv, TypeOK
    <3>2. CASE u = w
      BY <1>1, <1>3, <1>7, <3>1, <3>2 DEF IInv, CallsOK, Working
    <3>3. CASE u # w
      BY <1>7, <3>1, <3>3 DEF IInv, CallsOK
    <3> QED
      BY <3>2, <3>3
  <2> QED
    BY <2>1, <2>2 DEF CallsOK
<1>12. AwaitsOK'
  BY <1>2, <1>4, <1>5, <1>7, FutureAssumption DEF IInv, TypeOK, AwaitsOK
<1>13. /\ \A g \in Futures \ {f}, v \in Workers : Attached(g, v)' <=> Attached(g, v)
       /\ \A v \in Workers : ~Attached(f, v)
       /\ \A v \in Workers : Attached(f, v)' <=> v = w
  <2>1. \A g \in Futures : Joined(g)' <=> Joined(g)
    BY <1>7 DEF Joined
  <2>2. ~Joined(f)
    BY <1>5, FutureAssumption DEF Joined
  <2> QED
    BY <1>3, <1>4, <2>1, <2>2 DEF Attached, IInv, TypeOK
<1>14. \A g \in Futures : w \in Workers => ~Attached(g, w)
  BY <1>1, <1>3 DEF IInv, WorkersOK
<1>15. WorkersOK'
  <2>1. ASSUME NEW g \in Futures, Live(meta[g])', thread'[g] = NoThread
        PROVE  ~is_ready'[g]
    BY <1>2, <1>3, <1>4, <2>1 DEF IInv, TypeOK, WorkersOK
  <2>2. ASSUME NEW v \in Workers, NEW g \in Futures, Attached(g, v)'
        PROVE  /\ pc'[v] # "none"
               /\ is_ready'[g] <=> pc'[v] = "exited"
               /\ pc'[v] \in Working => fut'[v] = g
               /\ \A h \in Futures : Attached(h, v)' => h = g
    <3>1. CASE v = w
      <4>1. g = f
        BY <1>13, <1>14, <2>2, <3>1
      <4> QED
        BY <1>2, <1>7, <1>13, <1>14, <3>1, <4>1 DEF IInv, TypeOK
    <3>2. CASE v # w
      <4>1. g # f /\ Attached(g, v) /\ is_ready'[g] = is_ready[g]
        BY <1>2, <1>13, <2>2, <3>2 DEF IInv, TypeOK
      <4> QED
        BY <1>7, <1>13, <3>2, <4>1 DEF IInv, WorkersOK
    <3> QED
      BY <3>1, <3>2
  <2>3. ASSUME NEW v \in Workers, pc'[v] # "none"
        PROVE  \E g \in Futures : Attached(g, v)'
    BY <1>7, <1>13, <2>3 DEF IInv, WorkersOK
  <2> QED
    BY <2>1, <2>2, <2>3 DEF WorkersOK
<1>16. /\ \A c \in Blocks : OnTheWay(c)' = OnTheWay(c)
       /\ \A c \in Blocks \ {p} : InHand(c)' = InHand(c)
       /\ p \in Blocks => t \in InHand(p) /\ InHand(p)' = InHand(p) \ {t}
  BY <1>1, <1>2 DEF InHand, OnTheWay, IInv, TypeOK
<1>17. /\ \A c \in Blocks : f \notin AsArg(c) /\ f \notin AsResult(c)
       /\ \A c \in Blocks : f \notin AsResult(c)'
       /\ \A c \in Blocks : f \in AsArg(c)' <=> c = p
  <2>1. \A c \in Blocks : f \notin AsArg(c) /\ f \notin AsResult(c)
    BY <1>4, <1>5, FutureAssumption DEF AsArg, AsResult
  <2>2. \A c \in Blocks : f \notin AsResult(c)'
    BY <1>2 DEF AsResult, IInv, TypeOK
  <2>3. arg'[f] = p
    BY <1>2 DEF IInv, TypeOK
  <2>4. \/ \E v \in Workers : pc'[v] = "start" /\ fut'[v] = f
        \/ Live(meta[f])' /\ thread'[f] = NoThread
    BY <1>3, <1>4, <1>7 DEF IInv, TypeOK
  <2>5. \A c \in Blocks : f \in AsArg(c)' <=> c = p
    BY <2>3, <2>4 DEF AsArg
  <2> QED
    BY <2>1, <2>2, <2>5
<1>18. \A c \in Blocks, g \in Futures \ {f} :
         /\ g \in AsArg(c)' <=> g \in AsArg(c)
         /\ g \in AsResult(c)' <=> g \in AsResult(c)
  <2>1. \A g \in Futures \ {f} : /\ arg'[g] = arg[g] /\ result'[g] = result[g]
                                 /\ thread'[g] = thread[g] /\ is_ready'[g] = is_ready[g]
                                 /\ meta'[g] = meta[g]
    BY <1>2, <1>3, <1>4 DEF IInv, TypeOK
  <2>2. \A g \in Futures \ {f} :
          (\E v \in Workers : pc'[v] = "start" /\ fut'[v] = g)
          <=> (\E v \in Workers : pc[v] = "start" /\ fut[v] = g)
    BY <1>1, <1>3, <1>6, <1>7
  <2>3. \A c \in Blocks, g \in Futures \ {f} : g \in AsArg(c)' <=> g \in AsArg(c)
    BY <2>1, <2>2 DEF AsArg
  <2>4. \A c \in Blocks, g \in Futures \ {f} : g \in AsResult(c)' <=> g \in AsResult(c)
    BY <1>7, <2>1 DEF AsResult
  <2> QED
    BY <2>3, <2>4
<1>19. \A c \in Blocks : /\ AsArg(c)' = IF c = p THEN AsArg(c) \cup {f} ELSE AsArg(c)
                         /\ AsResult(c)' = AsResult(c)
  <2>1. \A c \in Blocks : /\ AsArg(c) \subseteq Futures /\ AsArg(c)' \subseteq Futures
                          /\ AsResult(c) \subseteq Futures /\ AsResult(c)' \subseteq Futures
    BY DEF AsArg, AsResult
  <2>2. ASSUME NEW c \in Blocks
        PROVE  /\ AsArg(c)' = IF c = p THEN AsArg(c) \cup {f} ELSE AsArg(c)
               /\ AsResult(c)' = AsResult(c)
    <3>1. \A g : g \in AsResult(c)' <=> g \in AsResult(c)
      BY <1>17, <1>18, <2>1
    <3>2. CASE c = p
      BY <1>17, <1>18, <2>1, <3>1, <3>2
    <3>3. CASE c # p
      <4>1. \A g : g \in AsArg(c)' <=> g \in AsArg(c)
        BY <1>17, <1>18, <2>1, <3>3
      <4> QED
        BY <3>1, <3>3, <4>1
    <3> QED
      BY <3>2, <3>3
  <2> QED
    BY <2>2
<1>20. Places'
  <2> SUFFICES ASSUME NEW c \in Blocks
               PROVE  /\ AtMostOne(InHand(c)', OnTheWay(c)', AsArg(c)', AsResult(c)')
                      /\ Live(meta[c])' <=>
                           AtLeastOne(InHand(c)', OnTheWay(c)', AsArg(c)', AsResult(c)')
    BY DEF Places, AtMostOne, AtLeastOne
  <2>1. /\ AtMostOne(InHand(c), OnTheWay(c), AsArg(c), AsResult(c))
        /\ Live(meta[c]) <=> AtLeastOne(InHand(c), OnTheWay(c), AsArg(c), AsResult(c))
    BY PlacesUsed DEF IInv, Places
  <2>2. Live(meta[c])' <=> Live(meta[c])
    BY <1>1, <1>4
  <2> QED
    BY <1>16, <1>19, <2>1, <2>2 DEF AtMostOne, AtLeastOne
<1> QED
  BY <1>8, <1>9, <1>10, <1>11, <1>12, <1>15, <1>20, PlacesUsedNext DEF IInv

(* The worker takes its argument from the future to its task.              *)
LEMMA WorkerPreserves ==
  ASSUME IInv, NEW w \in Threads, future_thread_worker(w)
  PROVE  IInv'
<1>1. w \in Workers /\ pc[w] = "start" /\ pc[w] \in Working /\ status = "running"
  BY CallerLocations DEF future_thread_worker, At, Working
<1>2. PICK f \in Futures, p \in BlockOrNull :
        /\ f = fut[w] /\ p = arg[f] /\ w \notin Callers
        /\ thread[f] = w /\ Live(meta[f])
        /\ \A v \in Workers : fut[v] = f => v = w
  BY <1>1, WorkerFuture DEF IInv, TypeOK
<1>3. /\ NULL \notin Blocks /\ NULL \notin Futures /\ f \notin Blocks
      /\ Blocks \cap Futures = {} /\ w # NoThread
  BY FutureAssumption, NoThreadAssumption
<1>4. /\ meta' = IF p = NULL THEN meta ELSE [meta EXCEPT ![p] = Claimed(meta[p], w)]
      /\ hand' = [hand EXCEPT ![w] = @ \cup ({p} \ {NULL})]
      /\ pc' = [pc EXCEPT ![w] = "task"]
      /\ UNCHANGED <<fields, mutex, fut, ptr, status>>
  BY <1>2 DEF future_thread_worker, Goto
<1>5. p \in Blocks => f \in AsArg(p)
  BY <1>1, <1>2 DEF AsArg
<1>6. p \in Blocks => /\ InHand(p) = {} /\ OnTheWay(p) = {} /\ Live(meta[p])
                      /\ AsArg(p) = {f} /\ AsResult(p) = {}
  BY <1>5, PlacesUsed DEF IInv, Places, AtMostOne, AtLeastOne
<1>7. /\ \A c \in Blocks \cup Futures : c # p => meta'[c] = meta[c]
      /\ p \in Blocks => meta[p] \in Meta /\ meta'[p] = Claimed(meta[p], w)
  BY <1>3, <1>4 DEF IInv, TypeOK, BlockOrNull
<1>8. /\ \A u \in Threads : u # w => pc'[u] = pc[u] /\ hand'[u] = hand[u]
      /\ pc'[w] = "task" /\ hand'[w] = hand[w] \cup ({p} \ {NULL})
  BY <1>4 DEF IInv, TypeOK
<1>9. \A c \in Blocks \cup Futures : Live(meta[c])' <=> Live(meta[c])
  BY <1>3, <1>6, <1>7, HeaderFacts DEF Live, BlockOrNull
<1>10. TypeOK'
  BY <1>3, <1>4, <1>7, HeaderFacts, ZenonT(40) DEF IInv, TypeOK, Locations, Working, BlockOrNull, fields
<1>11. HeadersOK'
  BY <1>3, <1>7, HeaderFacts DEF IInv, HeadersOK, BlockOrNull
<1>12. ClientsOwn'
  <2> SUFFICES ASSUME NEW u \in Threads, NEW c \in hand'[u]
               PROVE  meta'[c].state = "OWNED" /\ meta'[c].owner_thread = u
    BY DEF ClientsOwn
  <2>1. CASE u = w /\ c = p /\ p # NULL
    BY <1>3, <1>7, <2>1, HeaderFacts DEF BlockOrNull
  <2>2. CASE ~(u = w /\ c = p /\ p # NULL)
    <3>1. c \in hand[u] /\ c \in Blocks
      BY <1>8, <2>2 DEF IInv, TypeOK
    <3>2. c # p
      BY <1>6, <3>1 DEF InHand
    <3> QED
      BY <1>7, <3>1, <3>2 DEF IInv, ClientsOwn
  <2> QED
    BY <2>1, <2>2
<1>13. CallsOK'
  BY <1>1, <1>2, <1>4, <1>8, FutureAssumption DEF IInv, CallsOK, Working
<1>14. AwaitsOK'
  <2>1. \A u \in Callers : pc'[u] = pc[u]
    BY <1>2, <1>8, FutureAssumption
  <2>2. \A g \in Futures : meta'[g] = meta[g]
    BY <1>3, <1>7, FutureAssumption DEF BlockOrNull
  <2> QED
    BY <1>4, <2>1, <2>2, FutureAssumption DEF IInv, TypeOK, AwaitsOK, fields
<1>15. \A g \in Futures, v \in Workers : Attached(g, v)' <=> Attached(g, v)
  BY <1>2, <1>4, <1>8, <1>9, FutureAssumption DEF Attached, Joined, fields
<1>16. WorkersOK'
  BY <1>1, <1>4, <1>8, <1>9, <1>15, FutureAssumption DEF IInv, WorkersOK, Working, fields
<1>17. /\ \A c \in Blocks : OnTheWay(c)' = OnTheWay(c)
       /\ \A c \in Blocks : InHand(c)' = IF c = p THEN InHand(c) \cup {w} ELSE InHand(c)
  BY <1>3, <1>4, <1>8 DEF InHand, OnTheWay
<1>18. \A c \in Blocks : AsArg(c)' = IF c = p THEN AsArg(c) \ {f} ELSE AsArg(c)
  <2>1. f \notin AsArg(p)'
    BY <1>2, <1>3, <1>4, <1>8, FutureAssumption DEF AsArg, fields
  <2>2. \A c \in Blocks : c # p => f \notin AsArg(c) /\ f \notin AsArg(c)'
    BY <1>2, <1>4 DEF AsArg, fields
  <2>3. \A g \in Futures \ {f} :
          (\E v \in Workers : pc'[v] = "start" /\ fut'[v] = g)
          <=> (\E v \in Workers : pc[v] = "start" /\ fut[v] = g)
    BY <1>1, <1>2, <1>4, <1>8, FutureAssumption
  <2>4. \A c \in Blocks, g \in Futures \ {f} : g \in AsArg(c)' <=> g \in AsArg(c)
    BY <1>4, <1>9, <2>3 DEF AsArg, fields
  <2>5. \A c \in Blocks : AsArg(c) \subseteq Futures /\ AsArg(c)' \subseteq Futures
    BY DEF AsArg
  <2>6. ASSUME NEW c \in Blocks, c # p
        PROVE  AsArg(c)' = AsArg(c)
    <3>1. \A g : g \in AsArg(c)' <=> g \in AsArg(c)
      BY <2>2, <2>4, <2>5, <2>6
    <3> QED
      BY <3>1
  <2>7. ASSUME p \in Blocks
        PROVE  AsArg(p)' = AsArg(p) \ {f}
    BY <2>1, <2>4, <2>5, <2>7
  <2> QED
    BY <2>6, <2>7
<1>19. \A c \in Blocks : AsResult(c)' = AsResult(c)
  <2>1. \A u \in Callers : pc'[u] = pc[u]
    BY <1>2, <1>8, FutureAssumption
  <2> QED
    BY <1>4, <1>9, <2>1 DEF AsResult, fields
<1>20. Places'
  <2> SUFFICES ASSUME NEW c \in Blocks
               PROVE  /\ AtMostOne(InHand(c)', OnTheWay(c)', AsArg(c)', AsResult(c)')
                      /\ Live(meta[c])' <=>
                           AtLeastOne(InHand(c)', OnTheWay(c)', AsArg(c)', AsResult(c)')
    BY DEF Places, AtMostOne, AtLeastOne
  <2>1. /\ AtMostOne(InHand(c), OnTheWay(c), AsArg(c), AsResult(c))
        /\ Live(meta[c]) <=> AtLeastOne(InHand(c), OnTheWay(c), AsArg(c), AsResult(c))
    BY PlacesUsed DEF IInv, Places
  <2> QED
    BY <1>6, <1>9, <1>17, <1>18, <1>19, <2>1 DEF AtMostOne, AtLeastOne
<1> QED
  BY <1>10, <1>11, <1>12, <1>13, <1>14, <1>16, <1>20, PlacesUsedNext DEF IInv

(* The task returns: its block is on its way to the future.                *)
LEMMA TaskPreserves ==
  ASSUME IInv, NEW w \in Threads, NEW r \in BlockOrNull, task(w, r)
  PROVE  IInv'
<1>1. w \in Workers /\ pc[w] = "task" /\ pc[w] \in Working
  BY CallerLocations DEF task, At, Working
<1>2. w \notin Callers /\ NULL \notin Blocks /\ ptr[w] = NULL
  BY <1>1, FutureAssumption DEF IInv, CallsOK
<1>3. /\ hand[w] = {r} \ {NULL}
      /\ ptr' = [ptr EXCEPT ![w] = r] /\ hand' = [hand EXCEPT ![w] = {}]
      /\ pc' = [pc EXCEPT ![w] = "worker_lock"]
      /\ UNCHANGED <<meta, fields, mutex, fut, status>>
  BY DEF task, Goto
<1>4. /\ \A u \in Threads : u # w => /\ pc'[u] = pc[u] /\ hand'[u] = hand[u]
                                     /\ ptr'[u] = ptr[u]
      /\ pc'[w] = "worker_lock" /\ hand'[w] = {} /\ ptr'[w] = r
      /\ \A u \in Callers : u \in Threads /\ u # w
  BY <1>2, <1>3, FutureAssumption DEF IInv, TypeOK
<1>5. TypeOK'
  BY <1>3 DEF IInv, TypeOK, Locations, Working, fields
<1>6. HeadersOK' /\ ClientsOwn'
  BY <1>3, <1>4 DEF IInv, HeadersOK, ClientsOwn
<1>7. CallsOK'
  BY <1>1, <1>3, <1>4, FutureAssumption DEF IInv, CallsOK, Working
<1>8. AwaitsOK'
  BY <1>3, <1>4 DEF IInv, AwaitsOK, fields
<1>9. \A g \in Futures, v \in Workers : Attached(g, v)' <=> Attached(g, v)
  BY <1>3, <1>4 DEF Attached, Joined, fields
<1>10. WorkersOK'
  BY <1>1, <1>3, <1>4, <1>9, FutureAssumption DEF IInv, WorkersOK, Working, fields
<1>11. \A c \in Blocks :
         /\ InHand(c)' = IF c = r THEN InHand(c) \ {w} ELSE InHand(c)
         /\ OnTheWay(c)' = IF c = r THEN OnTheWay(c) \cup {w} ELSE OnTheWay(c)
  BY <1>2, <1>3, <1>4 DEF InHand, OnTheWay
<1>12. \A v \in Workers : pc'[v] = "start" <=> pc[v] = "start"
  BY <1>1, <1>4, FutureAssumption
<1>13. \A c \in Blocks : AsArg(c)' = AsArg(c) /\ AsResult(c)' = AsResult(c)
  BY <1>3, <1>4, <1>12 DEF AsArg, AsResult, fields
<1>14. r \in Blocks => /\ InHand(r) = {w} /\ OnTheWay(r) = {} /\ AsArg(r) = {}
                       /\ AsResult(r) = {}
  <2>1. r \in Blocks => w \in InHand(r)
    BY <1>2, <1>3 DEF InHand
  <2> QED
    BY <2>1, PlacesUsed DEF IInv, Places, AtMostOne
<1>15. Places'
  <2> SUFFICES ASSUME NEW c \in Blocks
               PROVE  /\ AtMostOne(InHand(c)', OnTheWay(c)', AsArg(c)', AsResult(c)')
                      /\ Live(meta[c])' <=>
                           AtLeastOne(InHand(c)', OnTheWay(c)', AsArg(c)', AsResult(c)')
    BY DEF Places, AtMostOne, AtLeastOne
  <2>1. /\ AtMostOne(InHand(c), OnTheWay(c), AsArg(c), AsResult(c))
        /\ Live(meta[c]) <=> AtLeastOne(InHand(c), OnTheWay(c), AsArg(c), AsResult(c))
    BY PlacesUsed DEF IInv, Places
  <2> QED
    BY <1>3, <1>11, <1>13, <1>14, <2>1 DEF AtMostOne, AtLeastOne
<1> QED
  BY <1>5, <1>6, <1>7, <1>8, <1>10, <1>15, PlacesUsedNext DEF IInv

(* The worker publishes the result, wakes an awaiting caller and ends.     *)
LEMMA PublishPreserves ==
  ASSUME IInv, NEW w \in Threads, worker_publish(w)
  PROVE  IInv'
<1>1. w \in Workers /\ pc[w] = "publish" /\ pc[w] \in Working
  BY CallerLocations DEF worker_publish, At, Working
<1>2. PICK f \in Futures, r \in BlockOrNull :
        /\ f = fut[w] /\ r = ptr[w] /\ w \notin Callers
        /\ thread[f] = w /\ Live(meta[f]) /\ ~is_ready[f] /\ Attached(f, w)
        /\ \A v \in Workers : fut[v] = f => v = w
        /\ \A t \in Callers : fut[t] = f => pc[t] \notin {"join", "free"}
  BY <1>1, WorkerFuture DEF IInv, TypeOK
<1>3. NULL \notin Blocks /\ NULL \notin Futures /\ w # NoThread
  BY FutureAssumption, NoThreadAssumption
<1>4. /\ result' = [result EXCEPT ![f] = r] /\ is_ready' = [is_ready EXCEPT ![f] = TRUE]
      /\ mutex' = [mutex EXCEPT ![f] = NoThread] /\ ptr' = [ptr EXCEPT ![w] = NULL]
      /\ fut' = [fut EXCEPT ![w] = NULL] /\ UNCHANGED <<meta, arg, thread, hand, status>>
  BY <1>2 DEF worker_publish
<1>5. PICK S \in SUBSET Callers :
        /\ \A u \in S : pc[u] = "waiting" /\ fut[u] = f
        /\ pc' = [u \in Threads |-> IF u = w THEN "exited"
                                    ELSE IF u \in S THEN "await_lock" ELSE pc[u]]
  <2>1. CASE Waiting(f) = {}
    <3>1. pc' = [pc EXCEPT ![w] = "exited"]
      BY <1>2, <2>1 DEF worker_publish, Goto
    <3>2. pc' = [u \in Threads |-> IF u = w THEN "exited"
                                   ELSE IF u \in {} THEN "await_lock" ELSE pc[u]]
      BY <3>1 DEF IInv, TypeOK
    <3> WITNESS {} \in SUBSET Callers
    <3> QED
      BY <3>2
  <2>2. CASE Waiting(f) # {}
    <3>1. PICK u \in Waiting(f) : pc' = [pc EXCEPT ![w] = "exited", ![u] = "await_lock"]
      BY <1>2, <2>2 DEF worker_publish
    <3>2. u \in Callers /\ pc[u] = "waiting" /\ fut[u] = f /\ u \in Threads /\ u # w
      BY <1>2, FutureAssumption DEF Waiting
    <3>3. pc' = [v \in Threads |-> IF v = w THEN "exited"
                                   ELSE IF v \in {u} THEN "await_lock" ELSE pc[v]]
      BY <3>1, <3>2 DEF IInv, TypeOK
    <3> QED
      BY <3>2, <3>3
  <2> QED
    BY <2>1, <2>2
<1>6. /\ pc'[w] = "exited" /\ fut'[w] = NULL /\ ptr'[w] = NULL
      /\ \A u \in Workers : u # w => pc'[u] = pc[u] /\ fut'[u] = fut[u] /\ ptr'[u] = ptr[u]
      /\ \A u \in Callers : /\ fut'[u] = fut[u] /\ ptr'[u] = ptr[u]
                            /\ pc'[u] # pc[u] => /\ fut[u] = f /\ pc[u] = "waiting"
                                                 /\ pc'[u] = "await_lock"
  BY <1>2, <1>4, <1>5, FutureAssumption DEF IInv, TypeOK
<1>7. \A u \in Callers :
        /\ pc'[u] \in Awaiting <=> pc[u] \in Awaiting
        /\ pc'[u] = "idle" <=> pc[u] = "idle"
        /\ pc'[u] = "claim" <=> pc[u] = "claim"
        /\ pc'[u] = "join" <=> pc[u] = "join"
        /\ pc'[u] = "free" <=> pc[u] = "free"
  BY <1>6 DEF Awaiting
<1>8. /\ is_ready'[f] = TRUE /\ result'[f] = r
      /\ \A g \in Futures \ {f} : is_ready'[g] = is_ready[g] /\ result'[g] = result[g]
  BY <1>4 DEF IInv, TypeOK
<1>9. TypeOK'
  <2>1. pc' \in [Threads -> Locations]
    BY <1>5 DEF IInv, TypeOK, Locations, Awaiting
  <2> QED
    BY <1>4, <2>1 DEF IInv, TypeOK, BlockOrNull
<1>10. HeadersOK' /\ ClientsOwn'
  BY <1>4 DEF IInv, HeadersOK, ClientsOwn
<1>11. CallsOK'
  <2>1. hand'[w] = {}
    BY <1>1, <1>4 DEF IInv, CallsOK
  <2>2. ASSUME NEW u \in Callers
        PROVE  /\ pc'[u] \in {"idle", "claim"} \cup Awaiting
               /\ pc'[u] \in Awaiting <=> fut'[u] # NULL
               /\ ptr'[u] # NULL => pc'[u] \in {"join", "free", "claim"}
    BY <1>6, <1>7 DEF IInv, CallsOK
  <2>3. ASSUME NEW u \in Workers
        PROVE  /\ pc'[u] \in {"none", "exited"} \cup Working
               /\ pc'[u] \in Working <=> fut'[u] # NULL
               /\ ptr'[u] # NULL => pc'[u] \in {"worker_lock", "publish"}
               /\ pc'[u] # "task" => hand'[u] = {}
    BY <1>4, <1>6, <2>1 DEF IInv, CallsOK, Working
  <2> QED
    BY <2>2, <2>3 DEF CallsOK
<1>12. AwaitsOK'
  BY <1>4, <1>6, <1>7, <1>8, FutureAssumption DEF IInv, AwaitsOK, TypeOK
<1>13. \A g \in Futures, v \in Workers : Attached(g, v)' <=> Attached(g, v)
  BY <1>4, <1>6, <1>7 DEF Attached, Joined
<1>14. \A v \in Workers : Attached(f, v) <=> v = w
  BY <1>2 DEF Attached
<1>15. \A g \in Futures : Attached(g, w) <=> g = f
  BY <1>1, <1>2 DEF IInv, WorkersOK
<1>16. WorkersOK'
  <2>1. ASSUME NEW g \in Futures, Live(meta[g])', thread'[g] = NoThread
        PROVE  ~is_ready'[g]
    BY <1>2, <1>3, <1>4, <1>8, <2>1 DEF IInv, WorkersOK
  <2>2. ASSUME NEW v \in Workers, NEW g \in Futures, Attached(g, v)'
        PROVE  /\ pc'[v] # "none"
               /\ is_ready'[g] <=> pc'[v] = "exited"
               /\ pc'[v] \in Working => fut'[v] = g
               /\ \A h \in Futures : Attached(h, v)' => h = g
    <3>1. Attached(g, v)
      BY <1>13, <2>2
    <3>2. CASE v = w
      BY <1>6, <1>8, <1>13, <1>15, <3>1, <3>2 DEF Working
    <3>3. CASE v # w
      BY <1>6, <1>8, <1>13, <1>14, <3>1, <3>3 DEF IInv, WorkersOK
    <3> QED
      BY <3>2, <3>3
  <2>3. ASSUME NEW v \in Workers, pc'[v] # "none"
        PROVE  \E g \in Futures : Attached(g, v)'
    BY <1>2, <1>6, <1>13, <2>3 DEF IInv, WorkersOK
  <2> QED
    BY <2>1, <2>2, <2>3 DEF WorkersOK
<1>17. \A c \in Blocks :
         /\ InHand(c)' = InHand(c)
         /\ OnTheWay(c)' = IF c = r THEN OnTheWay(c) \ {w} ELSE OnTheWay(c)
  BY <1>2, <1>3, <1>4 DEF InHand, OnTheWay, IInv, TypeOK
<1>18. \A c \in Blocks : AsArg(c)' = AsArg(c)
  <2>1. \A g \in Futures, v \in Workers :
          pc'[v] = "start" /\ fut'[v] = g <=> pc[v] = "start" /\ fut[v] = g
    BY <1>1, <1>6
  <2> QED
    BY <1>4, <2>1 DEF AsArg
<1>19. \A c \in Blocks : AsResult(c)' = IF c = r THEN AsResult(c) \cup {f} ELSE AsResult(c)
  BY <1>2, <1>4, <1>6, <1>7, <1>8 DEF AsResult
<1>20. r \in Blocks => /\ InHand(r) = {} /\ OnTheWay(r) = {w} /\ AsArg(r) = {}
                       /\ AsResult(r) = {}
  <2>1. r \in Blocks => w \in OnTheWay(r)
    BY <1>2 DEF OnTheWay
  <2> QED
    BY <2>1, PlacesUsed DEF IInv, Places, AtMostOne
<1>21. Places'
  <2> SUFFICES ASSUME NEW c \in Blocks
               PROVE  /\ AtMostOne(InHand(c)', OnTheWay(c)', AsArg(c)', AsResult(c)')
                      /\ Live(meta[c])' <=>
                           AtLeastOne(InHand(c)', OnTheWay(c)', AsArg(c)', AsResult(c)')
    BY DEF Places, AtMostOne, AtLeastOne
  <2>1. /\ AtMostOne(InHand(c), OnTheWay(c), AsArg(c), AsResult(c))
        /\ Live(meta[c]) <=> AtLeastOne(InHand(c), OnTheWay(c), AsArg(c), AsResult(c))
    BY PlacesUsed DEF IInv, Places
  <2> QED
    BY <1>4, <1>17, <1>18, <1>19, <1>20, <2>1 DEF AtMostOne, AtLeastOne
<1> QED
  BY <1>9, <1>10, <1>11, <1>12, <1>16, <1>21, PlacesUsedNext DEF IInv

(* An await begins.                                                        *)
LEMMA AwaitPreserves ==
  ASSUME IInv, NEW t \in Threads, NEW f \in Futures, owned_future_await(t, f)
  PROVE  IInv'
<1>1. /\ t \in Callers /\ t \notin Workers /\ pc[t] = "idle" /\ fut[t] = NULL
      /\ ptr[t] = NULL /\ f # NULL
  BY CallerLocations, FutureAssumption DEF owned_future_await, At, IInv, CallsOK, Awaiting
<1>2. /\ Live(meta[f]) /\ \A u \in Callers : fut[u] # f
      /\ SpawnerAwaits => meta[f].owner_thread = t
      /\ fut' = [fut EXCEPT ![t] = f] /\ pc' = [pc EXCEPT ![t] = "await_lock"]
      /\ UNCHANGED <<meta, fields, mutex, ptr, hand, status>>
  BY DEF owned_future_await, Goto
<1>3. /\ pc'[t] = "await_lock" /\ fut'[t] = f
      /\ \A u \in Threads : u # t => pc'[u] = pc[u] /\ fut'[u] = fut[u]
      /\ \A w \in Workers : pc'[w] = pc[w] /\ fut'[w] = fut[w]
  BY <1>1, <1>2, FutureAssumption DEF IInv, TypeOK
<1>4. TypeOK'
  BY <1>2 DEF IInv, TypeOK, Locations, Awaiting, fields
<1>5. HeadersOK' /\ ClientsOwn'
  BY <1>2 DEF IInv, HeadersOK, ClientsOwn
<1>6. CallsOK'
  BY <1>1, <1>2, <1>3, FutureAssumption DEF IInv, CallsOK, Awaiting
<1>7. AwaitsOK'
  BY <1>1, <1>2, <1>3, FutureAssumption DEF IInv, AwaitsOK, fields
<1>8. \A g \in Futures, v \in Workers : Attached(g, v)' <=> Attached(g, v)
  <2>1. \A g \in Futures : Joined(g)' <=> Joined(g)
    BY <1>1, <1>3, FutureAssumption DEF Joined
  <2> QED
    BY <1>2, <2>1 DEF Attached, fields
<1>9. WorkersOK'
  BY <1>2, <1>3, <1>8 DEF IInv, WorkersOK, fields
<1>10. \A c \in Blocks : /\ InHand(c)' = InHand(c) /\ OnTheWay(c)' = OnTheWay(c)
                         /\ AsArg(c)' = AsArg(c)
  BY <1>2, <1>3 DEF InHand, OnTheWay, AsArg, fields
<1>11. \A c \in Blocks : AsResult(c)' = AsResult(c)
  <2>1. \A g \in Futures : (\A u \in Callers : fut'[u] = g => pc'[u] \notin {"join", "free"})
                       <=> (\A u \in Callers : fut[u] = g => pc[u] \notin {"join", "free"})
    BY <1>1, <1>3, FutureAssumption
  <2> QED
    BY <1>2, <2>1 DEF AsResult, fields
<1>12. Places'
  BY <1>2, <1>10, <1>11, PlacesUsed DEF IInv, Places
<1> QED
  BY <1>4, <1>5, <1>6, <1>7, <1>9, <1>12, PlacesUsedNext DEF IInv

(* An await reads the result: it is now on its way to the caller.          *)
LEMMA TakePreserves ==
  ASSUME IInv, NEW t \in Threads, await_take(t)
  PROVE  IInv'
<1>1. t \in Callers /\ pc[t] = "test" /\ pc[t] \in Awaiting
  BY CallerLocations DEF await_take, At, Awaiting
<1>2. PICK f \in Futures, r \in BlockOrNull :
        /\ f = fut[t] /\ r = result[f] /\ t \notin Workers
        /\ Live(meta[f]) /\ is_ready[f]
        /\ \A u \in Callers : fut[u] = f => u = t
  BY <1>1, CallerFuture DEF IInv, TypeOK, await_take
<1>3. /\ ptr' = [ptr EXCEPT ![t] = r] /\ mutex' = [mutex EXCEPT ![f] = NoThread]
      /\ pc' = [pc EXCEPT ![t] = "join"] /\ UNCHANGED <<meta, fields, fut, hand, status>>
  BY <1>2 DEF await_take, Goto
<1>4. NULL \notin Blocks /\ ptr[t] = NULL
  BY <1>1, FutureAssumption DEF IInv, CallsOK
<1>5. /\ pc'[t] = "join" /\ ptr'[t] = r
      /\ \A u \in Threads : u # t => pc'[u] = pc[u] /\ ptr'[u] = ptr[u]
      /\ \A w \in Workers : pc'[w] = pc[w] /\ ptr'[w] = ptr[w]
  BY <1>2, <1>3, FutureAssumption DEF IInv, TypeOK
<1>6. TypeOK'
  BY <1>3 DEF IInv, TypeOK, Locations, Awaiting, fields
<1>7. HeadersOK' /\ ClientsOwn'
  BY <1>3 DEF IInv, HeadersOK, ClientsOwn
<1>8. CallsOK'
  BY <1>1, <1>3, <1>5, FutureAssumption DEF IInv, CallsOK, Awaiting
<1>9. AwaitsOK'
  BY <1>1, <1>2, <1>3, <1>5, FutureAssumption DEF IInv, AwaitsOK, fields
<1>10. \A g \in Futures, v \in Workers : Attached(g, v)' <=> Attached(g, v)
  <2>1. \A g \in Futures : Joined(g)' <=> Joined(g)
    BY <1>1, <1>3, <1>5, FutureAssumption DEF Joined
  <2> QED
    BY <1>3, <2>1 DEF Attached, fields
<1>11. WorkersOK'
  BY <1>3, <1>5, <1>10 DEF IInv, WorkersOK, fields
<1>12. \A c \in Blocks :
         /\ InHand(c)' = InHand(c) /\ AsArg(c)' = AsArg(c)
         /\ OnTheWay(c)' = IF c = r THEN OnTheWay(c) \cup {t} ELSE OnTheWay(c)
  BY <1>3, <1>4, <1>5 DEF InHand, OnTheWay, AsArg, fields
<1>13. \A c \in Blocks : AsResult(c)' = IF c = r THEN AsResult(c) \ {f} ELSE AsResult(c)
  <2>1. \A g \in Futures \ {f} :
              (\A u \in Callers : fut'[u] = g => pc'[u] \notin {"join", "free"})
          <=> (\A u \in Callers : fut[u] = g => pc[u] \notin {"join", "free"})
    BY <1>1, <1>2, <1>3, <1>5, FutureAssumption
  <2>2. ~\A u \in Callers : fut'[u] = f => pc'[u] \notin {"join", "free"}
    BY <1>1, <1>2, <1>3, <1>5
  <2>3. /\ \A c \in Blocks : f \notin AsResult(c)'
        /\ \A c \in Blocks : c # r => f \notin AsResult(c)
    BY <1>2, <2>2 DEF AsResult
  <2>4. \A c \in Blocks, g \in Futures \ {f} : g \in AsResult(c)' <=> g \in AsResult(c)
    BY <1>3, <2>1 DEF AsResult, fields
  <2>5. \A c \in Blocks : AsResult(c) \subseteq Futures /\ AsResult(c)' \subseteq Futures
    BY DEF AsResult
  <2>6. ASSUME NEW c \in Blocks, c # r
        PROVE  AsResult(c)' = AsResult(c)
    <3>1. \A g : g \in AsResult(c)' <=> g \in AsResult(c)
      BY <2>3, <2>4, <2>5, <2>6
    <3> QED
      BY <3>1
  <2>7. ASSUME r \in Blocks
        PROVE  AsResult(r)' = AsResult(r) \ {f}
    BY <2>3, <2>4, <2>5, <2>7
  <2> QED
    BY <2>6, <2>7
<1>14. r \in Blocks => /\ InHand(r) = {} /\ OnTheWay(r) = {} /\ AsArg(r) = {}
                       /\ AsResult(r) = {f}
  <2>1. r \in Blocks => f \in AsResult(r)
    BY <1>1, <1>2 DEF AsResult
  <2> QED
    BY <2>1, PlacesUsed DEF IInv, Places, AtMostOne
<1>15. Places'
  <2> SUFFICES ASSUME NEW c \in Blocks
               PROVE  /\ AtMostOne(InHand(c)', OnTheWay(c)', AsArg(c)', AsResult(c)')
                      /\ Live(meta[c])' <=>
                           AtLeastOne(InHand(c)', OnTheWay(c)', AsArg(c)', AsResult(c)')
    BY DEF Places, AtMostOne, AtLeastOne
  <2>1. /\ AtMostOne(InHand(c), OnTheWay(c), AsArg(c), AsResult(c))
        /\ Live(meta[c]) <=> AtLeastOne(InHand(c), OnTheWay(c), AsArg(c), AsResult(c))
    BY PlacesUsed DEF IInv, Places
  <2> QED
    BY <1>3, <1>12, <1>13, <1>14, <2>1 DEF AtMostOne, AtLeastOne
<1> QED
  BY <1>6, <1>7, <1>8, <1>9, <1>11, <1>15, PlacesUsedNext DEF IInv

(* The join: the worker's id is free again.                                *)
LEMMA JoinPreserves ==
  ASSUME IInv, NEW t \in Threads, await_join(t)
  PROVE  IInv'
<1>1. t \in Callers /\ pc[t] = "join" /\ pc[t] \in Awaiting
  BY CallerLocations DEF await_join, At, Awaiting
<1>2. PICK f \in Futures, w \in Workers :
        /\ f = fut[t] /\ w = thread[f] /\ t \notin Workers /\ pc[w] = "exited"
        /\ Live(meta[f]) /\ is_ready[f] /\ w \in Threads /\ w \notin Callers
        /\ \A u \in Callers : fut[u] = f => u = t
  BY <1>1, CallerFuture, FutureAssumption DEF IInv, TypeOK, await_join
<1>3. /\ pc' = [pc EXCEPT ![t] = "free", ![w] = "none"]
      /\ UNCHANGED <<meta, fields, mutex, fut, ptr, hand, status>>
  BY <1>2 DEF await_join
<1>4. /\ pc'[t] = "free" /\ pc'[w] = "none" /\ t # w
      /\ \A u \in Threads : u # t /\ u # w => pc'[u] = pc[u]
  BY <1>1, <1>2, <1>3 DEF IInv, TypeOK
<1>5. TypeOK'
  BY <1>3 DEF IInv, TypeOK, Locations, Awaiting, fields
<1>6. HeadersOK' /\ ClientsOwn'
  BY <1>3 DEF IInv, HeadersOK, ClientsOwn
<1>7. CallsOK'
  BY <1>1, <1>2, <1>3, <1>4, FutureAssumption, ZenonT(40) DEF IInv, CallsOK, Awaiting, Working
<1>8. AwaitsOK'
  BY <1>1, <1>2, <1>3, <1>4, FutureAssumption DEF IInv, AwaitsOK, fields
<1>9. Attached(f, w)
  BY <1>1, <1>2 DEF Attached, Joined
<1>10. /\ \A g \in Futures \ {f}, v \in Workers : Attached(g, v)' <=> Attached(g, v)
       /\ \A v \in Workers : ~Attached(f, v)'
  <2>1. \A g \in Futures \ {f} : Joined(g)' <=> Joined(g)
    BY <1>1, <1>2, <1>3, <1>4, FutureAssumption, ZenonT(40) DEF Joined
  <2>2. Joined(f)'
    BY <1>1, <1>2, <1>3, <1>4 DEF Joined
  <2> QED
    BY <1>3, <2>1, <2>2 DEF Attached, fields
<1>11. \A g \in Futures : ~Attached(g, w)'
  BY <1>9, <1>10 DEF IInv, WorkersOK
<1>12. WorkersOK'
  <2>1. ASSUME NEW g \in Futures, Live(meta[g])', thread'[g] = NoThread
        PROVE  ~is_ready'[g]
    BY <1>3, <2>1 DEF IInv, WorkersOK, fields
  <2>2. ASSUME NEW v \in Workers, NEW g \in Futures, Attached(g, v)'
        PROVE  /\ pc'[v] # "none"
               /\ is_ready'[g] <=> pc'[v] = "exited"
               /\ pc'[v] \in Working => fut'[v] = g
               /\ \A h \in Futures : Attached(h, v)' => h = g
    <3>1. v # w /\ v # t /\ g # f /\ Attached(g, v)
      BY <1>2, <1>10, <1>11, <2>2
    <3>2. pc'[v] = pc[v]
      BY <1>4, <3>1, FutureAssumption
    <3> QED
      BY <1>3, <1>10, <3>1, <3>2 DEF IInv, WorkersOK, fields
  <2>3. ASSUME NEW v \in Workers, pc'[v] # "none"
        PROVE  \E g \in Futures : Attached(g, v)'
    <3>1. v # w /\ v # t /\ pc'[v] = pc[v]
      BY <1>2, <1>4, <2>3, FutureAssumption
    <3>2. PICK g \in Futures : Attached(g, v)
      BY <2>3, <3>1 DEF IInv, WorkersOK
    <3>3. g # f
      BY <1>2, <3>1, <3>2 DEF Attached
    <3> QED
      BY <1>10, <3>2, <3>3
  <2> QED
    BY <2>1, <2>2, <2>3 DEF WorkersOK
<1>13. \A c \in Blocks : InHand(c)' = InHand(c) /\ OnTheWay(c)' = OnTheWay(c)
  BY <1>3 DEF InHand, OnTheWay
<1>14. \A c \in Blocks : AsArg(c)' = AsArg(c)
  <2>1. \A v \in Workers : pc'[v] = "start" <=> pc[v] = "start"
    BY <1>2, <1>4, FutureAssumption
  <2> QED
    BY <1>3, <2>1 DEF AsArg, fields
<1>15. \A c \in Blocks : AsResult(c)' = AsResult(c)
  <2>1. \A u \in Callers : pc'[u] \in {"join", "free"} <=> pc[u] \in {"join", "free"}
    BY <1>1, <1>2, <1>4, FutureAssumption
  <2> QED
    BY <1>3, <2>1 DEF AsResult, fields
<1>16. Places'
  BY <1>3, <1>13, <1>14, <1>15, PlacesUsed DEF IInv, Places
<1> QED
  BY <1>5, <1>6, <1>7, <1>8, <1>12, <1>16, PlacesUsedNext DEF IInv

(* The future is freed, once its worker is joined.                         *)
LEMMA AwaitFreePreserves ==
  ASSUME IInv, NEW t \in Threads, await_free(t)
  PROVE  IInv'
<1>1. CASE free_fault(meta[fut[t]], t)
  BY <1>1, FatalPreserves DEF await_free
<1>2. CASE ~free_fault(meta[fut[t]], t)
  <2>1. t \in Callers /\ pc[t] = "free" /\ pc[t] \in Awaiting
    BY CallerLocations DEF await_free, At, Awaiting
  <2>2. PICK f \in Futures :
          /\ f = fut[t] /\ thread[f] \in Workers /\ t \notin Workers
          /\ Live(meta[f]) /\ is_ready[f] /\ \A u \in Callers : fut[u] = f => u = t
    BY <2>1, CallerFuture
  <2>3. f \notin Blocks /\ NULL \notin Futures /\ NoThread \notin Workers
    BY FutureAssumption, NoThreadAssumption
  <2>4. /\ meta' = [meta EXCEPT ![f] = Freed(meta[f])] /\ meta[f] \in Meta
        /\ fut' = [fut EXCEPT ![t] = NULL] /\ pc' = [pc EXCEPT ![t] = "claim"]
        /\ UNCHANGED <<fields, mutex, ptr, hand, status>>
    BY <1>2, <2>2 DEF await_free, Goto, IInv, TypeOK
  <2>5. /\ pc'[t] = "claim" /\ fut'[t] = NULL
        /\ \A u \in Threads : u # t => pc'[u] = pc[u] /\ fut'[u] = fut[u]
        /\ \A w \in Workers : pc'[w] = pc[w] /\ fut'[w] = fut[w]
    BY <2>2, <2>4, FutureAssumption DEF IInv, TypeOK
  <2>6. /\ ~Live(meta[f])'
        /\ \A c \in Blocks \cup Futures : c # f => meta'[c] = meta[c]
    BY <2>4, HeaderFacts DEF IInv, TypeOK, Live
  <2>7. TypeOK'
    BY <2>4, HeaderFacts DEF IInv, TypeOK, Locations, fields
  <2>8. HeadersOK'
    BY <2>4, <2>6, HeaderFacts DEF IInv, TypeOK, HeadersOK
  <2>9. ClientsOwn'
    BY <2>3, <2>4, <2>6 DEF IInv, TypeOK, ClientsOwn
  <2>10. CallsOK'
    BY <2>1, <2>4, <2>5, FutureAssumption DEF IInv, CallsOK, Awaiting
  <2>11. AwaitsOK'
    BY <2>2, <2>4, <2>5, <2>6, FutureAssumption DEF IInv, AwaitsOK, TypeOK, fields
  <2>12. \A v \in Workers : ~Attached(f, v)
    BY <2>1, <2>2 DEF Attached, Joined
  <2>13. \A g \in Futures, v \in Workers : Attached(g, v)' <=> Attached(g, v)
    <3>1. \A v \in Workers : ~Attached(f, v)'
      BY <2>6 DEF Attached
    <3>2. \A g \in Futures \ {f} : Joined(g)' <=> Joined(g)
      BY <2>2, <2>3, <2>5, FutureAssumption DEF Joined
    <3>3. \A g \in Futures \ {f}, v \in Workers : Attached(g, v)' <=> Attached(g, v)
      BY <2>4, <2>6, <3>2 DEF Attached, fields
    <3> QED
      BY <2>12, <3>1, <3>3
  <2>14. WorkersOK'
    BY <2>4, <2>5, <2>6, <2>13 DEF IInv, WorkersOK, fields
  <2>15. \A c \in Blocks : InHand(c)' = InHand(c) /\ OnTheWay(c)' = OnTheWay(c)
    BY <2>4 DEF InHand, OnTheWay
  <2>16. ~\E w \in Workers : pc[w] = "start" /\ fut[w] = f
    BY <2>12, WorkerFuture DEF Working
  <2>17. \A c \in Blocks : AsArg(c)' = AsArg(c)
    <3>1. \A c \in Blocks : f \notin AsArg(c) /\ f \notin AsArg(c)'
      BY <2>2, <2>3, <2>4, <2>5, <2>6, <2>16 DEF AsArg, fields
    <3>2. \A c \in Blocks, g \in Futures \ {f} : g \in AsArg(c)' <=> g \in AsArg(c)
      BY <2>4, <2>5, <2>6 DEF AsArg, fields
    <3>3. \A c \in Blocks : AsArg(c) \subseteq Futures /\ AsArg(c)' \subseteq Futures
      BY DEF AsArg
    <3>4. ASSUME NEW c \in Blocks
          PROVE  AsArg(c)' = AsArg(c)
      <4>1. \A g : g \in AsArg(c)' <=> g \in AsArg(c)
        BY <3>1, <3>2, <3>3
      <4> QED
        BY <4>1
    <3> QED
      BY <3>4
  <2>18. \A c \in Blocks : AsResult(c)' = AsResult(c)
    <3>1. \A c \in Blocks : f \notin AsResult(c) /\ f \notin AsResult(c)'
      BY <2>1, <2>2, <2>6 DEF AsResult
    <3>2. \A g \in Futures \ {f} :
                (\A u \in Callers : fut'[u] = g => pc'[u] \notin {"join", "free"})
            <=> (\A u \in Callers : fut[u] = g => pc[u] \notin {"join", "free"})
      BY <2>2, <2>3, <2>5, FutureAssumption
    <3>3. \A c \in Blocks, g \in Futures \ {f} : g \in AsResult(c)' <=> g \in AsResult(c)
      BY <2>4, <2>6, <3>2 DEF AsResult, fields
    <3>4. \A c \in Blocks : AsResult(c) \subseteq Futures /\ AsResult(c)' \subseteq Futures
      BY DEF AsResult
    <3>5. ASSUME NEW c \in Blocks
          PROVE  AsResult(c)' = AsResult(c)
      <4>1. \A g : g \in AsResult(c)' <=> g \in AsResult(c)
        BY <3>1, <3>3, <3>4
      <4> QED
        BY <4>1
    <3> QED
      BY <3>5
  <2>19. \A c \in Blocks : meta'[c] = meta[c]
    BY <2>3, <2>6
  <2>20. Places'
    BY <2>15, <2>17, <2>18, <2>19, PlacesUsed DEF IInv, Places
  <2> QED
    BY <2>7, <2>8, <2>9, <2>10, <2>11, <2>14, <2>20, PlacesUsedNext DEF IInv
<1> QED
  BY <1>1, <1>2

(* The caller claims the result and has it.                                *)
LEMMA ClaimPreserves ==
  ASSUME IInv, NEW t \in Threads, await_claim(t)
  PROVE  IInv'
<1>1. t \in Callers /\ pc[t] = "claim"
  BY CallerLocations DEF await_claim, At
<1>2. PICK r \in BlockOrNull : r = ptr[t]
  BY DEF IInv, TypeOK
<1>3. /\ NULL \notin Blocks /\ NULL \notin Futures /\ Blocks \cap Futures = {}
      /\ t \notin Workers /\ fut[t] = NULL
  BY <1>1, FutureAssumption DEF IInv, CallsOK, Awaiting
<1>4. /\ meta' = IF r = NULL THEN meta ELSE [meta EXCEPT ![r] = Claimed(meta[r], t)]
      /\ hand' = [hand EXCEPT ![t] = @ \cup ({r} \ {NULL})]
      /\ ptr' = [ptr EXCEPT ![t] = NULL] /\ pc' = [pc EXCEPT ![t] = "idle"]
      /\ UNCHANGED <<fields, mutex, fut, status>>
  BY <1>2 DEF await_claim, Goto
<1>5. r \in Blocks => t \in OnTheWay(r)
  BY <1>2 DEF OnTheWay
<1>6. r \in Blocks => /\ InHand(r) = {} /\ OnTheWay(r) = {t} /\ Live(meta[r])
                      /\ AsArg(r) = {} /\ AsResult(r) = {}
  BY <1>5, PlacesUsed DEF IInv, Places, AtMostOne, AtLeastOne
<1>7. /\ \A c \in Blocks \cup Futures : c # r => meta'[c] = meta[c]
      /\ r \in Blocks => meta[r] \in Meta /\ meta'[r] = Claimed(meta[r], t)
  BY <1>3, <1>4 DEF IInv, TypeOK, BlockOrNull
<1>8. /\ \A u \in Threads : u # t => /\ pc'[u] = pc[u] /\ hand'[u] = hand[u]
                                     /\ ptr'[u] = ptr[u]
      /\ pc'[t] = "idle" /\ ptr'[t] = NULL /\ hand'[t] = hand[t] \cup ({r} \ {NULL})
      /\ \A w \in Workers : /\ pc'[w] = pc[w] /\ hand'[w] = hand[w]
                            /\ ptr'[w] = ptr[w]
  BY <1>3, <1>4, FutureAssumption DEF IInv, TypeOK
<1>9. \A c \in Blocks \cup Futures : Live(meta[c])' <=> Live(meta[c])
  BY <1>3, <1>6, <1>7, HeaderFacts DEF Live, BlockOrNull
<1>10. TypeOK'
  <2>1. meta' \in [Blocks \cup Futures -> Meta]
    BY <1>3, <1>4, <1>7, HeaderFacts DEF IInv, TypeOK, BlockOrNull
  <2> QED
    BY <1>4, <2>1 DEF IInv, TypeOK, Locations, BlockOrNull, fields
<1>11. HeadersOK'
  BY <1>3, <1>7, HeaderFacts DEF IInv, HeadersOK, BlockOrNull
<1>12. ClientsOwn'
  <2> SUFFICES ASSUME NEW u \in Threads, NEW c \in hand'[u]
               PROVE  meta'[c].state = "OWNED" /\ meta'[c].owner_thread = u
    BY DEF ClientsOwn
  <2>1. CASE u = t /\ c = r /\ r # NULL
    BY <1>3, <1>7, <2>1, HeaderFacts DEF BlockOrNull
  <2>2. CASE ~(u = t /\ c = r /\ r # NULL)
    <3>1. c \in hand[u] /\ c \in Blocks
      BY <1>8, <2>2 DEF IInv, TypeOK
    <3>2. c # r
      BY <1>6, <3>1 DEF InHand
    <3> QED
      BY <1>7, <3>1, <3>2 DEF IInv, ClientsOwn
  <2> QED
    BY <2>1, <2>2
<1>13. CallsOK'
  BY <1>1, <1>3, <1>4, <1>8, FutureAssumption DEF IInv, CallsOK, Awaiting
<1>14. \A g \in Futures : meta'[g] = meta[g]
  BY <1>3, <1>7, FutureAssumption DEF BlockOrNull
<1>15. AwaitsOK'
  BY <1>3, <1>4, <1>8, <1>14, FutureAssumption DEF IInv, TypeOK, AwaitsOK, fields
<1>16. \A g \in Futures, v \in Workers : Attached(g, v)' <=> Attached(g, v)
  <2>1. \A g \in Futures : Joined(g)' <=> Joined(g)
    BY <1>3, <1>4, <1>8, FutureAssumption DEF Joined
  <2> QED
    BY <1>4, <1>14, <2>1 DEF Attached, fields
<1>17. WorkersOK'
  BY <1>4, <1>8, <1>14, <1>16 DEF IInv, WorkersOK, fields
<1>18. \A c \in Blocks :
         /\ OnTheWay(c)' = IF c = r THEN OnTheWay(c) \ {t} ELSE OnTheWay(c)
         /\ InHand(c)' = IF c = r THEN InHand(c) \cup {t} ELSE InHand(c)
  BY <1>2, <1>3, <1>8 DEF InHand, OnTheWay
<1>19. \A c \in Blocks : AsArg(c)' = AsArg(c)
  BY <1>4, <1>8, <1>14 DEF AsArg, fields
<1>20. \A c \in Blocks : AsResult(c)' = AsResult(c)
  <2>1. \A g \in Futures : (\A u \in Callers : fut'[u] = g => pc'[u] \notin {"join", "free"})
                       <=> (\A u \in Callers : fut[u] = g => pc[u] \notin {"join", "free"})
    BY <1>3, <1>4, <1>8, FutureAssumption
  <2> QED
    BY <1>4, <1>14, <2>1 DEF AsResult, fields
<1>21. Places'
  <2> SUFFICES ASSUME NEW c \in Blocks
               PROVE  /\ AtMostOne(InHand(c)', OnTheWay(c)', AsArg(c)', AsResult(c)')
                      /\ Live(meta[c])' <=>
                           AtLeastOne(InHand(c)', OnTheWay(c)', AsArg(c)', AsResult(c)')
    BY DEF Places, AtMostOne, AtLeastOne
  <2>1. /\ AtMostOne(InHand(c), OnTheWay(c), AsArg(c), AsResult(c))
        /\ Live(meta[c]) <=> AtLeastOne(InHand(c), OnTheWay(c), AsArg(c), AsResult(c))
    BY PlacesUsed DEF IInv, Places
  <2> QED
    BY <1>6, <1>9, <1>18, <1>19, <1>20, <2>1 DEF AtMostOne, AtLeastOne
<1> QED
  BY <1>10, <1>11, <1>12, <1>13, <1>15, <1>17, <1>21, PlacesUsedNext DEF IInv

-----------------------------------------------------------------------------
(* The theorems.                                                           *)

(* The invariant holds before any future is spawned.                       *)
LEMMA InitOK == Init => IInv
<1> SUFFICES ASSUME Init PROVE IInv
  OBVIOUS
<1>1. \A b \in Blocks \cup Futures : meta[b] = NoMeta
  BY DEF Init
<1>2. \A b \in Blocks \cup Futures : ~Live(meta[b])
  BY <1>1, FreshHeader DEF Live
<1>3. TypeOK
  BY FreshHeader DEF Init, TypeOK, Locations, BlockOrNull
<1>4. HeadersOK /\ ClientsOwn
  BY <1>1, FreshHeader DEF Init, HeadersOK, ClientsOwn
<1>5. CallsOK
  BY FutureAssumption DEF Init, CallsOK, Awaiting, Working
<1>6. AwaitsOK
  BY FutureAssumption DEF Init, AwaitsOK
<1>7. WorkersOK
  BY <1>2, FutureAssumption DEF Init, WorkersOK, Attached
<1>8. ASSUME NEW b \in Blocks
      PROVE  /\ InHand(b) = {} /\ OnTheWay(b) = {} /\ AsArg(b) = {} /\ AsResult(b) = {}
             /\ ~Live(meta[b])
  BY <1>2, FutureAssumption DEF Init, InHand, OnTheWay, AsArg, AsResult
<1>9. Places
  BY <1>8 DEF Places, AtMostOne, AtLeastOne
<1> QED
  BY <1>3, <1>4, <1>5, <1>6, <1>7, <1>9, PlacesUsed DEF IInv

(* A step of something else does not disturb the invariant.                *)
LEMMA StutterPreserves ==
  ASSUME IInv, UNCHANGED vars
  PROVE  IInv'
<1>1. TypeOK' /\ HeadersOK' /\ ClientsOwn' /\ CallsOK'
  BY DEF vars, IInv, TypeOK, HeadersOK, ClientsOwn, CallsOK
<1>2. /\ AwaitsOK' /\ WorkersOK'
      /\ \A b \in Blocks : AsArg(b)' = AsArg(b) /\ AsResult(b)' = AsResult(b)
  BY FuturesKept DEF vars, fields
<1>3. \A b \in Blocks : InHand(b)' = InHand(b) /\ OnTheWay(b)' = OnTheWay(b)
  BY DEF InHand, OnTheWay, vars
<1>4. Places'
  BY <1>2, <1>3, PlacesUsed DEF IInv, Places, vars
<1> QED
  BY <1>1, <1>2, <1>4, PlacesUsedNext DEF IInv

(* Every call, every section of a call and every worker preserves the      *)
(* invariant.                                                              *)
LEMMA NextPreserves ==
  ASSUME IInv, [Next]_vars
  PROVE  IInv'
<1>1. ASSUME NEW t \in Threads, Client(t)
      PROVE  IInv'
  BY <1>1, MallocPreserves, FreePreserves, AwaitPreserves, SpawnPreserves DEF Client
<1>2. ASSUME NEW t \in Threads, Continue(t)
      PROVE  IInv'
  BY <1>2, WorkerPreserves, TaskPreserves, LockPreserves, PublishPreserves, TakePreserves,
     JoinPreserves, AwaitFreePreserves, ClaimPreserves DEF Continue
<1>3. ASSUME NEW t \in Threads, spurious_wakeup(t)
      PROVE  IInv'
  BY <1>3, LockPreserves
<1>4. ASSUME NEW b \in Blocks \cup Futures, Recycle(b)
      PROVE  IInv'
  BY <1>4, RecyclePreserves
<1>5. CASE UNCHANGED vars
  BY <1>5, StutterPreserves
<1> QED
  BY <1>1, <1>2, <1>3, <1>4, <1>5 DEF Next

(* The inductive invariant holds throughout, also with failing             *)
(* pthread_create and with worker ids used again after the join.           *)
THEOREM FutureInvariant == Spec => []IInv
<1>1. Init => IInv
  BY InitOK
<1>2. IInv /\ [Next]_vars => IInv'
  BY NextPreserves
<1> QED
  BY <1>1, <1>2, PTL DEF Spec

(* A block handed through a future is in exactly one place while it is     *)
(* alive and in none once it is freed.                                     *)
THEOREM FutureOnePlace == Spec => []OnePlace
<1>1. IInv => OnePlace
  BY OneOfCardinality DEF IInv, UsedOnce, OnePlace
<1> QED
  BY <1>1, FutureInvariant, PTL

(* Whatever a client has from an allocation, a task or an await it owns.   *)
THEOREM FutureClientsOwn == Spec => []ClientsOwn
<1>1. IInv => ClientsOwn
  BY DEF IInv
<1> QED
  BY <1>1, FutureInvariant, PTL

(* The future outlives its worker and its await; it is freed only with its *)
(* worker ended and joined.                                                *)
THEOREM FutureOutlivesUsers == Spec => []FutureOutlives
<1>1. ASSUME IInv
      PROVE  FutureOutlives
  <2>1. ASSUME NEW t \in Threads, pc[t] \in Awaiting \cup Working
        PROVE  Live(meta[fut[t]])
    BY <1>1, <2>1, CallerLocations, CallerFuture, WorkerFuture
  <2>2. ASSUME NEW v \in Workers, NEW w \in Workers,
               pc[v] \in Working, pc[w] \in Working, fut[v] = fut[w]
        PROVE  v = w
    BY <1>1, <2>2, WorkerFuture
  <2>3. ASSUME NEW w \in Workers, pc[w] = "exited"
        PROVE  \E f \in Futures : Live(meta[f]) /\ thread[f] = w /\ is_ready[f]
    <3>1. PICK f \in Futures : Attached(f, w)
      BY <1>1, <2>3 DEF IInv, WorkersOK
    <3>2. is_ready[f]
      BY <1>1, <2>3, <3>1 DEF IInv, WorkersOK
    <3> QED
      BY <3>1, <3>2 DEF Attached
  <2> QED
    BY <2>1, <2>2, <2>3 DEF FutureOutlives
<1> QED
  BY <1>1, FutureInvariant, PTL

(* Callers that await the futures they spawned meet no runtime fault.      *)
THEOREM FutureNoFault ==
  ASSUME SpawnerAwaits
  PROVE  Spec => []NoFault
<1>1. Init => NoFault
  BY DEF Init, NoFault
<1>2. ASSUME IInv, NoFault, [Next]_vars
      PROVE  NoFault'
  <2>1. ASSUME NEW t \in Threads, NEW b \in Blocks, owner_free(t, b)
        PROVE  status' = status
    <3>1. /\ meta[b].state = "OWNED" /\ meta[b].owner_thread = t
          /\ meta[b].borrow_count = 0
      BY <1>2, <2>1 DEF owner_free, IInv, ClientsOwn, HeadersOK
    <3> QED
      BY <2>1, <3>1 DEF owner_free, free_fault, Foreign
  <2>2. ASSUME NEW t \in Threads, await_free(t)
        PROVE  status' = status
    <3>1. t \in Callers /\ pc[t] \in Awaiting
      BY <1>2, <2>2, CallerLocations DEF await_free, At, Awaiting
    <3>2. fut[t] \in Futures /\ Live(meta[fut[t]]) /\ meta[fut[t]].owner_thread = t
      BY <1>2, <3>1, CallerFuture, FutureAssumption DEF IInv, AwaitsOK
    <3>3. meta[fut[t]].state = "OWNED" /\ meta[fut[t]].borrow_count = 0
      BY <1>2, <3>2 DEF IInv, HeadersOK, Live
    <3> QED
      BY <2>2, <3>2, <3>3 DEF await_free, free_fault, Foreign
  <2>3. ASSUME NEW t \in Threads, Client(t)
        PROVE  status' = status
    BY <2>1, <2>3 DEF Client, owner_malloc, owned_future_await, owned_future_spawn
  <2>4. ASSUME NEW t \in Threads, Continue(t)
        PROVE  status' = status
    BY <2>2, <2>4 DEF Continue, future_thread_worker, task, lock, worker_publish, await_wait,
                      await_take, await_join, await_claim
  <2>5. UNCHANGED vars => status' = status
    BY DEF vars
  <2>6. status' = status
    BY <1>2, <2>3, <2>4, <2>5 DEF Next, spurious_wakeup, Recycle
  <2> QED
    BY <1>2, <2>6 DEF NoFault
<1> QED
  BY <1>1, <1>2, FutureInvariant, PTL DEF Spec

-----------------------------------------------------------------------------
(* Future implements Promise: the spawn is Spawn, the worker's publication *)
(* is Fulfil, the read of the result is Await, the caller's claim is       *)
(* Return, and the other steps change nothing that Promise sees.           *)

(* No future is there to begin with, so no promise is.                     *)
LEMMA MappingInit == Init => Promised!Init
<1> SUFFICES ASSUME Init PROVE Promised!Init
  OBVIOUS
<1>1. \A f \in Futures : ~Live(meta[f])
  BY FreshHeader DEF Init, Live
<1>2. stage = [f \in Futures |-> "absent"]
  BY <1>1 DEF stage
<1>3. value = [f \in Futures |-> <<>>]
  BY <1>2 DEF value
<1>4. answer = [t \in Callers |-> <<>>]
  BY FutureAssumption DEF Init, answer, Answered
<1> QED
  BY <1>2, <1>3, <1>4 DEF Promised!Init

(* A step that leaves the stages, the results and the answers alone.       *)
LEMMA Stutters ==
  ASSUME \A f \in Futures : /\ Live(meta[f])' <=> Live(meta[f])
                            /\ Read(f)' <=> Read(f)
                            /\ is_ready'[f] = is_ready[f] /\ result'[f] = result[f],
         \A t \in Callers : /\ Answered(t)' <=> Answered(t)
                            /\ Answered(t) => ptr'[t] = ptr[t]
  PROVE  UNCHANGED <<stage, value, answer>>
<1>1. stage' = stage
  BY DEF stage
<1>2. value' = value
  BY <1>1 DEF value
<1>3. answer' = answer
  BY DEF answer
<1> QED
  BY <1>1, <1>2, <1>3

(* A step of the client's blocks, of the mutex or inside a wait.           *)
LEMMA OutOfSight ==
  ASSUME IInv, UNCHANGED <<fields, fut>>,
         \A f \in Futures : Live(meta[f])' <=> Live(meta[f]),
         \A t \in Callers : /\ pc'[t] \in {"join", "free"} <=> pc[t] \in {"join", "free"}
                            /\ pc'[t] = "claim" <=> pc[t] = "claim"
                            /\ ptr'[t] = ptr[t]
  PROVE  UNCHANGED <<stage, value, answer>>
<1>1. \A f \in Futures : Read(f)' <=> Read(f)
  BY DEF Read
<1>2. \A t \in Callers : Answered(t)' <=> Answered(t)
  BY DEF Answered
<1> QED
  BY <1>1, <1>2, Stutters DEF fields

(* owned_future_spawn makes a promise, whether or not its thread was       *)
(* created.                                                                *)
LEMMA SpawnRefines ==
  ASSUME IInv, NEW t \in Threads, NEW f \in Futures, NEW p \in BlockOrNull,
         owned_future_spawn(t, f, p)
  PROVE  Promised!Spawn(f)
<1>1. /\ t \in Callers /\ NoThread \notin Workers /\ NULL \notin Futures
      /\ Workers \cap Callers = {}
  BY CallerLocations, FutureAssumption, NoThreadAssumption DEF owned_future_spawn, At
<1>2. /\ meta' = [meta EXCEPT ![f] = NewMeta(t)] /\ meta[f].state = "INVALID"
      /\ is_ready' = [is_ready EXCEPT ![f] = FALSE]
      /\ result' = [result EXCEPT ![f] = NULL] /\ ptr' = ptr
  BY DEF owned_future_spawn
<1>3. \A u \in Callers : pc'[u] = pc[u] /\ fut'[u] = fut[u]
  BY <1>1, FutureAssumption DEF owned_future_spawn, IInv, TypeOK
<1>4. /\ Live(meta[f])' /\ ~Live(meta[f]) /\ ~is_ready'[f]
      /\ \A g \in Futures \ {f} : /\ meta'[g] = meta[g] /\ is_ready'[g] = is_ready[g]
                                  /\ result'[g] = result[g]
  BY <1>2, FreshHeader DEF IInv, TypeOK, Live
<1>5. \A u \in Callers : fut[u] # f
  BY <1>1, <1>4 DEF IInv, AwaitsOK
<1>6. ~Read(f)' /\ \A g \in Futures : Read(g)' <=> Read(g)
  BY <1>3, <1>5 DEF Read
<1>7. stage[f] = "absent" /\ stage' = [stage EXCEPT ![f] = "pending"]
  BY <1>4, <1>6 DEF stage
<1>8. value' = value
  <2>1. \A g \in Futures : stage'[g] = "ready" <=> stage[g] = "ready"
    BY <1>7 DEF stage
  <2>2. \A g \in Futures : stage'[g] = "ready" => g # f
    BY <1>7 DEF stage
  <2> QED
    BY <1>4, <2>1, <2>2 DEF value
<1>9. answer' = answer
  BY <1>2, <1>3 DEF answer, Answered
<1> QED
  BY <1>7, <1>8, <1>9 DEF Promised!Spawn

(* The worker that sets is_ready fulfils the promise of its future.        *)
LEMMA PublishRefines ==
  ASSUME IInv, NEW w \in Threads, worker_publish(w)
  PROVE  \E f \in Futures, r \in BlockOrNull : Promised!Fulfil(f, r)
<1>1. w \in Workers /\ pc[w] \in Working
  BY CallerLocations DEF worker_publish, At, Working
<1>2. PICK f \in Futures, r \in BlockOrNull :
        /\ f = fut[w] /\ r = ptr[w] /\ w \notin Callers /\ Live(meta[f]) /\ ~is_ready[f]
        /\ \A t \in Callers : fut[t] = f => pc[t] \notin {"join", "free"}
  BY <1>1, WorkerFuture DEF IInv, TypeOK
<1>3. /\ result' = [result EXCEPT ![f] = r] /\ is_ready' = [is_ready EXCEPT ![f] = TRUE]
      /\ ptr' = [ptr EXCEPT ![w] = NULL] /\ fut' = [fut EXCEPT ![w] = NULL] /\ meta' = meta
  BY <1>2 DEF worker_publish
<1>4. \A u \in Callers : u \in Threads /\ u # w
  BY <1>2, FutureAssumption
<1>5. \A u \in Callers : pc'[u] = pc[u] \/ (pc[u] = "waiting" /\ pc'[u] = "await_lock")
  <2>1. CASE Waiting(f) = {}
    BY <1>2, <1>4, <2>1 DEF worker_publish, Goto, IInv, TypeOK
  <2>2. CASE Waiting(f) # {}
    <3>1. PICK v \in Waiting(f) : pc' = [pc EXCEPT ![w] = "exited", ![v] = "await_lock"]
      BY <1>2, <2>2 DEF worker_publish
    <3> QED
      BY <1>4, <3>1 DEF Waiting, IInv, TypeOK
  <2> QED
    BY <2>1, <2>2
<1>6. \A u \in Callers : fut'[u] = fut[u] /\ ptr'[u] = ptr[u]
  BY <1>3, <1>4 DEF IInv, TypeOK
<1>7. ~Read(f) /\ \A g \in Futures : Read(g)' <=> Read(g)
  BY <1>2, <1>5, <1>6 DEF Read
<1>8. /\ is_ready'[f] /\ result'[f] = r
      /\ \A g \in Futures \ {f} : is_ready'[g] = is_ready[g] /\ result'[g] = result[g]
  BY <1>3 DEF IInv, TypeOK
<1>9. stage[f] = "pending" /\ stage' = [stage EXCEPT ![f] = "ready"]
  BY <1>2, <1>3, <1>7, <1>8 DEF stage
<1>10. value' = [value EXCEPT ![f] = <<r>>]
  <2>1. stage'[f] = "ready" /\ \A g \in Futures \ {f} : stage'[g] = stage[g]
    BY <1>9 DEF stage
  <2> QED
    BY <1>8, <2>1 DEF value
<1>11. answer' = answer
  BY <1>5, <1>6 DEF answer, Answered
<1> QED
  BY <1>9, <1>10, <1>11 DEF Promised!Fulfil

(* The await that reads the result takes the promise it waited for.        *)
LEMMA TakeRefines ==
  ASSUME IInv, NEW t \in Threads, await_take(t)
  PROVE  \E u \in Callers, f \in Futures : Promised!Await(u, f)
<1>1. t \in Callers /\ pc[t] = "test" /\ pc[t] \in Awaiting
  BY CallerLocations DEF await_take, At, Awaiting
<1>2. PICK f \in Futures :
        /\ f = fut[t] /\ Live(meta[f]) /\ is_ready[f]
        /\ \A u \in Callers : fut[u] = f => u = t
  BY <1>1, CallerFuture DEF await_take
<1>3. /\ ptr' = [ptr EXCEPT ![t] = result[f]] /\ pc' = [pc EXCEPT ![t] = "join"]
      /\ UNCHANGED <<meta, fields, fut>>
  BY <1>2 DEF await_take, Goto
<1>4. /\ pc'[t] = "join" /\ ptr'[t] = result[f]
      /\ \A u \in Callers : u # t => pc'[u] = pc[u] /\ ptr'[u] = ptr[u]
  BY <1>3, FutureAssumption DEF IInv, TypeOK
<1>5. ~Read(f) /\ Read(f)' /\ \A g \in Futures \ {f} : Read(g)' <=> Read(g)
  BY <1>1, <1>2, <1>3, <1>4 DEF Read
<1>6. stage[f] = "ready" /\ stage' = [stage EXCEPT ![f] = "absent"]
  BY <1>2, <1>3, <1>5 DEF stage, fields
<1>7. value[f] = <<result[f]>> /\ value' = [value EXCEPT ![f] = <<>>]
  <2>1. stage'[f] = "absent" /\ \A g \in Futures \ {f} : stage'[g] = stage[g]
    BY <1>6 DEF stage
  <2> QED
    BY <1>3, <1>6, <2>1 DEF value, fields
<1>8. answer[t] = <<>> /\ answer' = [answer EXCEPT ![t] = <<result[f]>>]
  BY <1>1, <1>4 DEF answer, Answered
<1> QED
  BY <1>1, <1>6, <1>7, <1>8 DEF Promised!Await

(* The end of an await returns what it read, and no longer has it.         *)
LEMMA ClaimRefines ==
  ASSUME IInv, NEW t \in Threads, await_claim(t)
  PROVE  t \in Callers /\ Promised!Return(t)
<1>1. t \in Callers /\ pc[t] = "claim" /\ fut[t] = NULL /\ NULL \notin Futures
      /\ NULL \notin Blocks
  BY CallerLocations, FutureAssumption DEF await_claim, At, IInv, CallsOK, Awaiting
<1>2. /\ ptr' = [ptr EXCEPT ![t] = NULL] /\ pc' = [pc EXCEPT ![t] = "idle"]
      /\ UNCHANGED <<fields, fut>>
  BY DEF await_claim, Goto
<1>3. /\ pc'[t] = "idle"
      /\ \A u \in Callers : u # t => pc'[u] = pc[u] /\ ptr'[u] = ptr[u]
  BY <1>2, FutureAssumption DEF IInv, TypeOK
<1>4. \A f \in Futures : meta'[f] = meta[f]
  BY FutureAssumption DEF await_claim, IInv, TypeOK, BlockOrNull
<1>5. \A f \in Futures : Read(f)' <=> Read(f)
  BY <1>1, <1>2, <1>3 DEF Read
<1>6. stage' = stage
  BY <1>2, <1>4, <1>5 DEF stage, fields
<1>7. value' = value
  BY <1>2, <1>6 DEF value, fields
<1>8. answer[t] # <<>> /\ answer' = [answer EXCEPT ![t] = <<>>]
  BY <1>1, <1>3 DEF answer, Answered
<1> QED
  BY <1>1, <1>6, <1>7, <1>8 DEF Promised!Return

(* The other sections of workers and awaits change no promise: what is     *)
(* read stays read through the join and the free of the future.            *)
LEMMA OtherCallsStutter ==
  ASSUME IInv, NEW t \in Threads,
         \/ future_thread_worker(t) \/ (\E r \in BlockOrNull : task(t, r))
         \/ lock(t) \/ await_wait(t) \/ spurious_wakeup(t)
         \/ await_join(t) \/ await_free(t)
  PROVE  UNCHANGED <<stage, value, answer>>
<1>1. CASE future_thread_worker(t)
  <2>1. t \in Workers /\ pc[t] \in Working
    BY <1>1, CallerLocations DEF future_thread_worker, At, Working
  <2>2. arg[fut[t]] \in BlockOrNull /\ t \notin Callers
    BY <2>1, WorkerFuture DEF IInv, TypeOK
  <2>3. \A f \in Futures : meta'[f] = meta[f]
    BY <1>1, <2>2, FutureAssumption DEF future_thread_worker, IInv, TypeOK, BlockOrNull
  <2>4. \A u \in Callers : pc'[u] = pc[u]
    BY <1>1, <2>2, FutureAssumption DEF future_thread_worker, Goto, IInv, TypeOK
  <2> QED
    BY <1>1, <2>3, <2>4, OutOfSight DEF future_thread_worker
<1>2. ASSUME NEW r \in BlockOrNull, task(t, r)
      PROVE  UNCHANGED <<stage, value, answer>>
  <2>1. t \in Workers /\ t \notin Callers
    BY <1>2, CallerLocations, FutureAssumption DEF task, At, Working
  <2>2. \A u \in Callers : pc'[u] = pc[u] /\ ptr'[u] = ptr[u]
    BY <1>2, <2>1, FutureAssumption DEF task, Goto, IInv, TypeOK
  <2> QED
    BY <1>2, <2>2, OutOfSight DEF task
<1>3. CASE lock(t)
  <2>1. \A u \in Callers : \/ pc'[u] = pc[u]
                         \/ /\ pc[u] \in {"worker_lock", "await_lock"}
                            /\ pc'[u] \in {"publish", "test"}
    BY <1>3, FutureAssumption DEF lock, At, Goto, IInv, TypeOK
  <2> QED
    BY <1>3, <2>1, OutOfSight DEF lock
<1>4. CASE await_wait(t)
  <2>1. \A u \in Callers : pc'[u] = pc[u] \/ (pc[u] = "test" /\ pc'[u] = "waiting")
    BY <1>4, FutureAssumption DEF await_wait, At, Goto, IInv, TypeOK
  <2> QED
    BY <1>4, <2>1, OutOfSight DEF await_wait
<1>5. CASE spurious_wakeup(t)
  <2>1. \A u \in Callers : pc'[u] = pc[u] \/ (pc[u] = "waiting" /\ pc'[u] = "await_lock")
    BY <1>5, FutureAssumption DEF spurious_wakeup, At, Goto, IInv, TypeOK
  <2> QED
    BY <1>5, <2>1, OutOfSight DEF spurious_wakeup
<1>6. CASE await_join(t)
  <2>1. \A u \in Callers : pc'[u] = pc[u] \/ (pc[u] = "join" /\ pc'[u] = "free")
    BY <1>6, FutureAssumption DEF await_join, At, IInv, TypeOK
  <2> QED
    BY <1>6, <2>1, OutOfSight DEF await_join
<1>7. CASE await_free(t)
  <2>1. CASE free_fault(meta[fut[t]], t)
    BY <1>7, <2>1, OutOfSight DEF await_free, ownedc_diagnostics_fatal
  <2>2. CASE ~free_fault(meta[fut[t]], t)
    <3>1. t \in Callers /\ pc[t] = "free" /\ pc[t] \in Awaiting
      BY <1>7, CallerLocations DEF await_free, At, Awaiting
    <3>2. PICK f \in Futures : f = fut[t] /\ \A u \in Callers : fut[u] = f => u = t
      BY <3>1, CallerFuture
    <3>3. /\ meta' = [meta EXCEPT ![f] = Freed(meta[f])] /\ meta[f] \in Meta
          /\ fut' = [fut EXCEPT ![t] = NULL] /\ pc' = [pc EXCEPT ![t] = "claim"]
          /\ UNCHANGED <<fields, ptr>>
      BY <1>7, <2>2, <3>2 DEF await_free, Goto, IInv, TypeOK
    <3>4. /\ pc'[t] = "claim" /\ fut'[t] = NULL /\ NULL \notin Futures
          /\ \A u \in Callers : u # t => pc'[u] = pc[u] /\ fut'[u] = fut[u]
      BY <3>3, FutureAssumption DEF IInv, TypeOK
    <3>5. ~Live(meta[f])' /\ Read(f)
      BY <3>1, <3>2, <3>3, HeaderFacts DEF IInv, TypeOK, Live, Read
    <3>6. \A g \in Futures \ {f} : meta'[g] = meta[g] /\ (Read(g)' <=> Read(g))
      BY <3>2, <3>3, <3>4 DEF Read, IInv, TypeOK
    <3>7. stage' = stage
      BY <3>3, <3>5, <3>6 DEF stage, fields
    <3>8. value' = value
      BY <3>3, <3>7 DEF value, fields
    <3>9. \A u \in Callers : Answered(u)' <=> Answered(u)
      BY <3>1, <3>4 DEF Answered
    <3>10. answer' = answer
      BY <3>3, <3>9 DEF answer
    <3> QED
      BY <3>7, <3>8, <3>10
  <2> QED
    BY <2>1, <2>2
<1> QED
  BY <1>1, <1>2, <1>3, <1>4, <1>5, <1>6, <1>7

(* What clients do with blocks changes no promise.                         *)
LEMMA ClientStutters ==
  ASSUME IInv,
         \/ \E t \in Threads, b \in Blocks : owner_malloc(t, b) \/ owner_free(t, b)
         \/ \E t \in Threads, f \in Futures : owned_future_await(t, f)
         \/ \E b \in Blocks \cup Futures : Recycle(b)
         \/ UNCHANGED vars
  PROVE  UNCHANGED <<stage, value, answer>>
<1>1. ASSUME NEW t \in Threads, NEW b \in Blocks, owner_malloc(t, b) \/ owner_free(t, b)
      PROVE  UNCHANGED <<stage, value, answer>>
  <2>1. \A f \in Futures : meta'[f] = meta[f]
    BY <1>1, FutureAssumption
       DEF owner_malloc, owner_free, ownedc_diagnostics_fatal, IInv, TypeOK
  <2> QED
    BY <1>1, <2>1, OutOfSight DEF owner_malloc, owner_free, ownedc_diagnostics_fatal
<1>2. ASSUME NEW t \in Threads, NEW f \in Futures, owned_future_await(t, f)
      PROVE  UNCHANGED <<stage, value, answer>>
  <2>1. t \in Callers /\ pc[t] = "idle" /\ fut[t] = NULL /\ NULL \notin Futures
    BY <1>2, CallerLocations, FutureAssumption
       DEF owned_future_await, At, IInv, CallsOK, Awaiting
  <2>2. /\ pc'[t] = "await_lock"
        /\ \A u \in Callers : u # t => pc'[u] = pc[u] /\ fut'[u] = fut[u]
        /\ UNCHANGED <<meta, fields, ptr>>
    BY <1>2, FutureAssumption DEF owned_future_await, Goto, IInv, TypeOK
  <2>3. \A g \in Futures : Read(g)' <=> Read(g)
    BY <2>1, <2>2 DEF Read
  <2>4. \A u \in Callers : Answered(u)' <=> Answered(u)
    BY <2>1, <2>2 DEF Answered
  <2> QED
    BY <2>2, <2>3, <2>4, Stutters DEF fields
<1>3. ASSUME NEW b \in Blocks \cup Futures, Recycle(b)
      PROVE  UNCHANGED <<stage, value, answer>>
  <2>1. \A f \in Futures : Live(meta[f])' <=> Live(meta[f])
    BY <1>3, FreshHeader DEF Recycle, IInv, TypeOK, Live
  <2> QED
    BY <1>3, <2>1, OutOfSight DEF Recycle
<1>4. CASE UNCHANGED vars
  BY <1>4, OutOfSight DEF vars, fields
<1> QED
  BY <1>1, <1>2, <1>3, <1>4

(* An await returns what the task returned, and each result is returned    *)
(* once: every behaviour of the futures is one of the promise's.           *)
THEOREM FutureImplementsPromise == Spec => ImplementsPromise
<1>1. Init => Promised!Init
  BY MappingInit
<1>2. ASSUME IInv, [Next]_vars
      PROVE  [Promised!Next]_<<stage, value, answer>>
  <2>1. ASSUME NEW t \in Threads, Client(t)
        PROVE  [Promised!Next]_<<stage, value, answer>>
    BY <1>2, <2>1, SpawnRefines, ClientStutters DEF Client, Promised!Next
  <2>2. ASSUME NEW t \in Threads, Continue(t) \/ spurious_wakeup(t)
        PROVE  [Promised!Next]_<<stage, value, answer>>
    BY <1>2, <2>2, PublishRefines, TakeRefines, ClaimRefines, OtherCallsStutter
       DEF Continue, Promised!Next
  <2> QED
    BY <1>2, <2>1, <2>2, ClientStutters DEF Next
<1> QED
  BY <1>1, <1>2, FutureInvariant, PTL
     DEF Spec, ImplementsPromise, Promised!Spec, Promised!vars

=============================================================================
