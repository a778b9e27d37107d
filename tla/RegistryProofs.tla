--------------------------- MODULE RegistryProofs ---------------------------
(***************************************************************************)
(* Proofs about Registry for any threads, addresses, number of shards and  *)
(* quarantine size: its inductive invariant, what follows from it, and     *)
(* that it implements Lifecycle.                                           *)
(***************************************************************************)
EXTENDS Registry, TLAPS

(* get_shard_idx always names a shard.                                     *)
LEMMA ShardIdx ==
  ASSUME NEW a \in AddrOrNull
  PROVE  get_shard_idx(a) \in Shards
<1>1. a \in Nat
  BY RegistryAssumption DEF AddrOrNull, NULL
<1>2. a \div 16 \in Nat
  BY <1>1, SMT
<1> DEFINE q == a \div 16
<1>3. q \in Nat
  BY <1>2
<1> HIDE DEF q
<1>4. NUM_SHARDS \in Nat \ {0}
  BY RegistryAssumption
<1>5. q % NUM_SHARDS \in 0 .. NUM_SHARDS - 1
  BY <1>3, <1>4, SMT
<1> QED
  BY <1>5 DEF get_shard_idx, Shards, q

(* What each call writes in a header is a header.                          *)
LEMMA HeaderTypes ==
  ASSUME NEW m \in Meta, NEW t \in Threads
  PROVE  /\ NewMeta(t) \in Meta
         /\ NoMeta \in Meta
         /\ Freed(m) \in Meta
         /\ Claimed(m, t) \in Meta
         /\ Borrowed(m) \in Meta
         /\ ~release_fault(m) => Released(m) \in Meta
         /\ Shared(m) \in Meta
<1>1. /\ m = [state |-> m.state, borrow_count |-> m.borrow_count,
              owner_thread |-> m.owner_thread]
      /\ m.state \in State
      /\ m.borrow_count \in Nat
      /\ m.owner_thread \in Threads \cup {NoThread}
  BY DEF Meta
<1>2. NewMeta(t) \in Meta /\ NoMeta \in Meta
  BY DEF Meta, State, NewMeta, NoMeta
<1>3. Freed(m) \in Meta /\ Claimed(m, t) \in Meta /\ Shared(m) \in Meta
  BY <1>1 DEF Meta, State, Freed, Claimed, Shared
<1>4. Borrowed(m) \in Meta
  <2> DEFINE s == IF m.state = "SHARED" THEN "SHARED" ELSE "BORROWED"
             n == m.borrow_count + 1
  <2>1. s \in State /\ n \in Nat
    BY <1>1 DEF State
  <2>2. Borrowed(m) = [[m EXCEPT !.borrow_count = n] EXCEPT !.state = s]
    BY DEF Borrowed, Meta
  <2> HIDE DEF s, n
  <2> QED
    BY <2>1, <2>2 DEF Meta
<1>5. ~release_fault(m) => Released(m) \in Meta
  <2> DEFINE s == IF m.borrow_count = 1 /\ m.state = "BORROWED"
                    THEN "OWNED" ELSE m.state
             n == m.borrow_count - 1
  <2>1. s \in State
    BY <1>1 DEF State
  <2>2. ~release_fault(m) => n \in Nat
    BY <1>1 DEF release_fault
  <2>3. Released(m) = [[m EXCEPT !.borrow_count = n] EXCEPT !.state = s]
    BY DEF Released, Meta
  <2> HIDE DEF s, n
  <2> QED
    BY <2>1, <2>2, <2>3 DEF Meta
<1> QED
  BY <1>2, <1>3, <1>4, <1>5

TypeInv == TypeOK /\ CallOK

(* The locked section of any call keeps the types, if what it writes is a  *)
(* header and only a free goes on to remove_meta.                          *)
LEMMA SectionTypes ==
  ASSUME TypeInv, NEW t \in Threads,
         NEW o, NEW fault \in BOOLEAN, NEW m, NEW l \in {"idle", "remove"},
         ~fault => m \in Meta,
         l = "remove" => o = "free",
         Section(t, o, fault, m, l)
  PROVE  TypeInv'
<1>1. registry_mutexes' \in [Shards -> Threads \cup {NoThread}]
  BY DEF TypeInv, TypeOK, Section, SHARD_UNLOCK
<1>2. meta' \in [Addrs -> Meta]
  BY DEF TypeInv, TypeOK, Section
<1>3. /\ pc' \in [Threads -> Locations]
      /\ op' \in [Threads -> Ops \cup {"none"}]
      /\ ptr' \in [Threads -> AddrOrNull]
  BY DEF TypeInv, TypeOK, Section, Leave, Enter, Goto, Locations, AddrOrNull
<1>4. CallOK'
  BY DEF TypeInv, TypeOK, CallOK, Section, Leave, Enter, Goto, At
<1> QED
  BY <1>1, <1>2, <1>3, <1>4
     DEF TypeInv, TypeOK, Section, lists, ring, exiting

(* Every step keeps the types and the shape of the calls.                  *)
LEMMA TypeStep ==
  ASSUME TypeInv, [Next]_vars
  PROVE  TypeInv'
<1>1. CASE UNCHANGED vars
  BY <1>1 DEF vars, TypeInv, TypeOK, CallOK
<1>2. CASE Terminated
  BY <1>2 DEF Terminated, vars, TypeInv, TypeOK, CallOK
<1>3. ASSUME NEW t \in Threads, Client(t)
      PROVE  TypeInv'
  <2>1. CASE owner_malloc_null(t)
    BY <2>1 DEF owner_malloc_null, TypeInv, TypeOK, CallOK, blocks, lists, ring,
                control, exiting
  <2>2. CASE CallUntracked(t)
    BY <2>2 DEF CallUntracked, TypeInv, TypeOK, CallOK, blocks, lists, ring,
                control, Leave, Enter, Locations, AddrOrNull
  <2>3. CASE Exit(t)
    BY <2>3 DEF Exit, RunExit, TypeInv, TypeOK, CallOK, blocks, lists, ring,
                Locations
  <2>4. ASSUME NEW a \in Addrs, owner_malloc_internal(t, a)
        PROVE  TypeInv'
    <3>1. meta' \in [Addrs -> Meta]
      BY <2>4, HeaderTypes DEF owner_malloc_internal, TypeInv, TypeOK
    <3> QED
      BY <2>4, <3>1 DEF owner_malloc_internal, TypeInv, TypeOK, CallOK, lists,
                        ring, exiting, Enter, Locations, AddrOrNull, Ops
  <2>5. ASSUME NEW a \in Addrs, NEW o \in ClientOps \ {"malloc"}, Call(t, o, a)
        PROVE  TypeInv'
    <3>1. o \in Ops \ {"malloc"}
      BY RegistryAssumption
    <3> QED
      BY <2>5, <3>1 DEF Call, TypeInv, TypeOK, CallOK, blocks, lists, ring,
                        exiting, Enter, Locations, AddrOrNull, Ops
  <2> QED
    BY <1>3, <2>1, <2>2, <2>3, <2>4, <2>5 DEF Client
<1>4. ASSUME NEW t \in Threads, Acquire(t)
      PROVE  TypeInv'
  <2>1. CASE SHARD_LOCK(t)
    BY <2>1 DEF SHARD_LOCK, TypeInv, TypeOK, CallOK, blocks, lists, ring,
                exiting, Goto, At, Locations
  <2>2. CASE insert_meta(t)
    <3> DEFINE idx == get_shard_idx(ptr[t])
    <3>1. ptr[t] \in Addrs
      BY <2>2 DEF insert_meta, At, TypeInv, CallOK
    <3>2. idx \in Shards
      BY <3>1, ShardIdx DEF AddrOrNull
    <3> HIDE DEF idx
    <3>3. registry_heads[idx] \in AddrOrNull
      BY <3>2 DEF TypeInv, TypeOK
    <3>4. /\ prev' \in [Addrs -> AddrOrNull]
          /\ next' \in [Addrs -> AddrOrNull]
          /\ registry_heads' \in [Shards -> AddrOrNull]
      BY <2>2, <3>1, <3>2, <3>3
         DEF insert_meta, TypeInv, TypeOK, AddrOrNull, idx
    <3> QED
      BY <2>2, <3>4 DEF insert_meta, TypeInv, TypeOK, CallOK, blocks, ring,
                        exiting, Leave, Enter, Locations, AddrOrNull
  <2>3. CASE remove_meta(t)
    <3> DEFINE idx == get_shard_idx(ptr[t])
    <3>1. ptr[t] \in Addrs
      BY <2>3 DEF remove_meta, At, TypeInv, CallOK
    <3>2. /\ prev[ptr[t]] \in AddrOrNull
          /\ next[ptr[t]] \in AddrOrNull
      BY <3>1 DEF TypeInv, TypeOK
    <3>3. /\ prev' \in [Addrs -> AddrOrNull]
          /\ next' \in [Addrs -> AddrOrNull]
          /\ registry_heads' \in [Shards -> AddrOrNull]
      BY <2>3, <3>1, <3>2 DEF remove_meta, TypeInv, TypeOK, AddrOrNull
    <3> QED
      BY <2>3, <3>1, <3>3 DEF remove_meta, TypeInv, TypeOK, CallOK, blocks,
                              ring, exiting, Goto, Locations, At
  <2>4. CASE check_leaks(t)
    <3>1. leaked' \subseteq Addrs
      BY <2>4 DEF check_leaks, Walk, TypeInv, TypeOK
    <3>2. scan' \in 0 .. NUM_SHARDS + 1
      BY <2>4, RegistryAssumption DEF check_leaks, Shards
    <3> QED
      BY <2>4, <3>1, <3>2 DEF check_leaks, TypeInv, TypeOK, CallOK, blocks,
                              lists, ring, control
  <2> QED
    BY <1>4, <2>1, <2>2, <2>3, <2>4 DEF Acquire
<1>5. ASSUME NEW t \in Threads, Continue(t)
      PROVE  TypeInv'
  <2>1. CASE owner_realloc_internal(t)
    BY <2>1 DEF owner_realloc_internal, TypeInv, TypeOK, CallOK, blocks, lists,
                ring, exiting, Leave, Enter, Goto, At, Locations, AddrOrNull
  <2>2. ASSUME NEW b \in Addrs, global_realloc(t, b)
        PROVE  TypeInv'
    <3>1. ptr[t] \in Addrs
      BY <2>2 DEF global_realloc, At, TypeInv, CallOK
    <3>2. meta' \in [Addrs -> Meta]
      BY <2>2, <3>1, HeaderTypes DEF global_realloc, TypeInv, TypeOK
    <3> QED
      BY <2>2, <3>1, <3>2 DEF global_realloc, Returned, TypeInv, TypeOK, CallOK,
           lists, ring, exiting, Enter, Locations, AddrOrNull, Ops
  <2>3. CASE quarantine_block(t)
    <3>1. ptr[t] \in Addrs
      BY <2>3 DEF quarantine_block, At, TypeInv, CallOK
    <3>2. meta' \in [Addrs -> Meta]
      BY <2>3, HeaderTypes DEF quarantine_block, TypeInv, TypeOK
    <3>3. quarantine_tail' \in Slots
      BY <2>3, RegistryAssumption DEF quarantine_block, TypeInv, TypeOK, Slots
    <3> QED
      BY <2>3, <3>1, <3>2, <3>3 DEF quarantine_block, Returned, TypeInv, TypeOK,
           CallOK, lists, exiting, Leave, Enter, Locations, AddrOrNull
  <2>4. CASE ownedc_diagnostics_fatal(t)
    BY <2>4 DEF ownedc_diagnostics_fatal, RunExit, TypeInv, TypeOK, CallOK,
                blocks, lists, ring, Locations, At
  <2>5. CASE ExitAgain(t)
    BY <2>5 DEF ExitAgain, TypeInv, TypeOK, CallOK, blocks, lists, ring,
                Locations, At
  <2>6. CASE check_leaks_sweep(t)
    <3>1. meta' \in [Addrs -> Meta]
      BY <2>6, HeaderTypes DEF check_leaks_sweep, TypeInv, TypeOK
    <3>2. scan' \in 0 .. NUM_SHARDS + 1
      BY <2>6, RegistryAssumption DEF check_leaks_sweep
    <3> QED
      BY <2>6, <3>1, <3>2 DEF check_leaks_sweep, Returned, TypeInv, TypeOK,
           CallOK, lists, control, AddrOrNull
  <2>7. CASE check_leaks_exit(t)
    BY <2>7 DEF check_leaks_exit, TypeInv, TypeOK, CallOK, blocks, lists, ring,
                control
  <2>8. CASE UseAfterReturn(t)
    BY <2>8 DEF UseAfterReturn, TypeInv, TypeOK, CallOK, blocks, lists, ring,
                control
  <2>9. CASE \/ owner_free_internal(t) \/ ownership_claim(t)
             \/ ownership_borrow(t) \/ ownership_release(t)
             \/ ownership_share(t)
    <3>1. Header(t) \in Meta
      BY <2>9 DEF TypeInv, TypeOK, CallOK, Header, Section, At,
           owner_free_internal, ownership_claim, ownership_borrow,
           ownership_release, ownership_share
    <3>2. CASE owner_free_internal(t)
      BY <3>1, <3>2, HeaderTypes, SectionTypes, free_fault(Header(t), t) \in BOOLEAN
         DEF owner_free_internal, free_fault, Foreign
    <3>3. CASE ownership_claim(t)
      BY <3>1, <3>3, HeaderTypes, SectionTypes DEF ownership_claim
    <3>4. CASE ownership_borrow(t)
      BY <3>1, <3>4, HeaderTypes, SectionTypes, borrow_fault(Header(t), t) \in BOOLEAN
         DEF ownership_borrow, borrow_fault, Foreign
    <3>5. CASE ownership_release(t)
      BY <3>1, <3>5, HeaderTypes, SectionTypes, release_fault(Header(t)) \in BOOLEAN
         DEF ownership_release, release_fault
    <3>6. CASE ownership_share(t)
      BY <3>1, <3>6, HeaderTypes, SectionTypes, share_fault(Header(t), t) \in BOOLEAN
         DEF ownership_share, share_fault
    <3> QED
      BY <2>9, <3>2, <3>3, <3>4, <3>5, <3>6
  <2> QED
    BY <1>5, <2>1, <2>2, <2>3, <2>4, <2>5, <2>6, <2>7, <2>8, <2>9 DEF Continue
<1> QED
  BY <1>1, <1>2, <1>3, <1>4, <1>5 DEF Next

(* The initial state has the types.                                        *)
LEMMA TypeInit == Init => TypeInv
<1>1. NoMeta \in Meta
  BY DEF NoMeta, Meta, State
<1>2. 0 \in Slots /\ 0 \in 0 .. NUM_SHARDS + 1
  BY RegistryAssumption DEF Slots
<1>3. Init => CallOK
  BY DEF Init, CallOK
<1>4. Init => atexit_registered \in BOOLEAN
  BY Zenon DEF Init
<1>5. Init => /\ prev \in [Addrs -> AddrOrNull]
              /\ next \in [Addrs -> AddrOrNull]
              /\ registry_heads \in [Shards -> AddrOrNull]
              /\ quarantine \in [Slots -> AddrOrNull]
              /\ ptr \in [Threads -> AddrOrNull]
  BY DEF Init, AddrOrNull
<1>6. Init => TypeOK
  BY <1>1, <1>2, <1>4, <1>5 DEF Init, TypeOK, Locations
<1> QED
  BY <1>3, <1>6 DEF TypeInv

(* TypeOK holds in every reachable state.                                  *)
THEOREM TypeCorrect == Spec => []TypeOK
<1>1. Init => TypeInv
  BY TypeInit
<1>2. TypeInv /\ [Next]_vars => TypeInv'
  BY TypeStep
<1>3. TypeInv => TypeOK
  BY DEF TypeInv
<1> QED
  BY <1>1, <1>2, <1>3, PTL DEF Spec
-----------------------------------------------------------------------------
(* The lists.                                                              *)

(* insert_meta links the block and no other, and keeps the lists chained.  *)
LEMMA InsertChained ==
  ASSUME TypeInv, ListsChained, NEW t \in Threads, insert_meta(t),
         ptr[t] \in heap, ~Linked(ptr[t])
  PROVE  /\ ListsChained'
         /\ \A b \in Addrs : Linked(b)' <=> Linked(b) \/ b = ptr[t]
<1> DEFINE a == ptr[t]
           idx == get_shard_idx(a)
           head == registry_heads[idx]
<1>1. a \in Addrs /\ NULL \notin Addrs
  BY RegistryAssumption DEF TypeInv, TypeOK
<1>2. idx \in Shards
  BY <1>1, ShardIdx DEF AddrOrNull
<1>3. head \in AddrOrNull
  BY <1>2 DEF TypeInv, TypeOK
<1>4. /\ prev' = [b \in Addrs |-> IF b = a THEN NULL
                                   ELSE IF b = head THEN a ELSE prev[b]]
      /\ next' = [next EXCEPT ![a] = head]
      /\ registry_heads' = [registry_heads EXCEPT ![idx] = a]
      /\ heap' = heap
  BY DEF insert_meta, blocks
<1>5. /\ prev \in [Addrs -> AddrOrNull]
      /\ next \in [Addrs -> AddrOrNull]
      /\ registry_heads \in [Shards -> AddrOrNull]
  BY DEF TypeInv, TypeOK
<1>6. prev[a] = NULL /\ head # a /\ a \in heap /\ next[a] = NULL
  BY <1>1 DEF Linked, ListsChained
<1>7. \A b \in Addrs : get_shard_idx(b) \in Shards
  BY ShardIdx DEF AddrOrNull
<1>8. \A s \in Shards : registry_heads[s] # NULL =>
         get_shard_idx(registry_heads[s]) = s /\ prev[registry_heads[s]] = NULL
  BY DEF ListsChained
<1>9. \A b \in Addrs :
         /\ prev[b] # NULL => /\ next[prev[b]] = b
                              /\ get_shard_idx(prev[b]) = get_shard_idx(b)
         /\ next[b] # NULL => prev[next[b]] = b
  BY DEF ListsChained
<1>10. \A b \in Addrs : IF Linked(b) THEN b \in heap ELSE next[b] = NULL
  BY DEF ListsChained
<1> HIDE DEF a, head, idx
<1>11. \A b \in Addrs : Linked(b)' <=> Linked(b) \/ b = a
  BY <1>1, <1>2, <1>3, <1>4, <1>5, <1>6, <1>7, <1>8
     DEF Linked, AddrOrNull, head, idx
<1>12. \A s \in Shards : registry_heads'[s] # NULL =>
          get_shard_idx(registry_heads'[s]) = s /\ prev'[registry_heads'[s]] = NULL
  BY <1>1, <1>2, <1>3, <1>4, <1>5, <1>8 DEF AddrOrNull, head, idx
<1>13. ASSUME NEW b \in Addrs
       PROVE  /\ prev'[b] # NULL => /\ next'[prev'[b]] = b
                                    /\ get_shard_idx(prev'[b]) = get_shard_idx(b)
              /\ next'[b] # NULL => prev'[next'[b]] = b
  <2>1. head # NULL => get_shard_idx(head) = idx /\ prev[head] = NULL
    BY <1>2, <1>8 DEF head
  <2>2. prev[b] # a
    BY <1>1, <1>6, <1>9
  <2>3. next[b] # a /\ (next[b] = head => head = NULL)
    BY <1>1, <1>3, <1>5, <1>6, <1>9, <2>1 DEF AddrOrNull
  <2> QED
    BY <1>1, <1>3, <1>4, <1>5, <1>6, <1>9, <2>1, <2>2, <2>3 DEF AddrOrNull, idx
<1>14. \A b \in Addrs : IF Linked(b)' THEN b \in heap' ELSE next'[b] = NULL
  BY <1>1, <1>4, <1>5, <1>6, <1>10, <1>11
<1>15. ASSUME NEW S \in SUBSET Addrs, S # {}
       PROVE  \E b \in S : prev'[b] \notin S
  <2>1. CASE a \in S
    BY <1>1, <1>4, <2>1
  <2>2. CASE a \notin S
    <3>1. PICK b \in S : prev[b] \notin S
      BY <1>15 DEF ListsChained
    <3> QED
      BY <1>4, <2>2, <3>1
  <2> QED
    BY <2>1, <2>2
<1>16. ListsChained'
  BY <1>12, <1>13, <1>14, <1>15 DEF ListsChained
<1> QED
  BY <1>11, <1>16 DEF a

(* remove_meta unlinks the block and no other, and keeps the lists chained.*)
LEMMA RemoveChained ==
  ASSUME TypeInv, ListsChained, NEW t \in Threads, remove_meta(t),
         Linked(ptr[t]), ptr[t] \in Addrs
  PROVE  /\ ListsChained'
         /\ \A b \in Addrs : Linked(b)' <=> Linked(b) /\ b # ptr[t]
<1> DEFINE a == ptr[t]
           idx == get_shard_idx(a)
<1>1. a \in Addrs /\ NULL \notin Addrs
  BY RegistryAssumption
<1>2. idx \in Shards
  BY <1>1, ShardIdx DEF AddrOrNull
<1>4. /\ registry_heads' = IF prev[a] = NULL /\ registry_heads[idx] = a
                             THEN [registry_heads EXCEPT ![idx] = next[a]]
                             ELSE registry_heads
      /\ next' = [b \in Addrs |-> IF b = a THEN NULL
                                   ELSE IF b = prev[a] THEN next[a] ELSE next[b]]
      /\ prev' = [b \in Addrs |-> IF b = a THEN NULL
                                   ELSE IF b = next[a] THEN prev[a] ELSE prev[b]]
      /\ heap' = heap
  BY DEF remove_meta, blocks
<1>5. /\ prev \in [Addrs -> AddrOrNull]
      /\ next \in [Addrs -> AddrOrNull]
      /\ registry_heads \in [Shards -> AddrOrNull]
  BY DEF TypeInv, TypeOK
<1>6. prev[a] # NULL \/ registry_heads[idx] = a
  BY DEF Linked
<1>7. \A b \in Addrs : get_shard_idx(b) \in Shards
  BY ShardIdx DEF AddrOrNull
<1>8. \A s \in Shards : registry_heads[s] # NULL =>
         get_shard_idx(registry_heads[s]) = s /\ prev[registry_heads[s]] = NULL
  BY DEF ListsChained
<1>9. \A b \in Addrs :
         /\ prev[b] # NULL => /\ next[prev[b]] = b
                              /\ get_shard_idx(prev[b]) = get_shard_idx(b)
         /\ next[b] # NULL => prev[next[b]] = b
  BY DEF ListsChained
<1>10. \A b \in Addrs : IF Linked(b) THEN b \in heap ELSE next[b] = NULL
  BY DEF ListsChained
<1> HIDE DEF a, idx
<1>3. next[a] # a /\ prev[a] # a
  <2>1. prev[a] # a
    BY <1>1, {a} \in SUBSET Addrs, {a} # {}, ZenonT(40) DEF ListsChained
  <2> QED
    BY <1>1, <1>9, <2>1
<1>11. ASSUME NEW b \in Addrs
       PROVE  Linked(b)' <=> Linked(b) /\ b # a
  <2>1. get_shard_idx(b) \in Shards
    BY <1>7
  <2>2. next[a] # NULL => get_shard_idx(next[a]) = idx
    BY <1>1, <1>5, <1>9 DEF AddrOrNull, idx
  <2> QED
    BY <1>1, <1>2, <1>3, <1>4, <1>5, <1>6, <1>8, <1>9, <2>1, <2>2
       DEF Linked, AddrOrNull, idx
<1>12. \A s \in Shards : registry_heads'[s] # NULL =>
          get_shard_idx(registry_heads'[s]) = s /\ prev'[registry_heads'[s]] = NULL
  BY <1>1, <1>2, <1>3, <1>4, <1>5, <1>8, <1>9 DEF AddrOrNull, idx
<1>13. ASSUME NEW b \in Addrs
       PROVE  /\ prev'[b] # NULL => /\ next'[prev'[b]] = b
                                    /\ get_shard_idx(prev'[b]) = get_shard_idx(b)
              /\ next'[b] # NULL => prev'[next'[b]] = b
  BY <1>1, <1>3, <1>4, <1>5, <1>9 DEF AddrOrNull
<1>14. \A b \in Addrs : IF Linked(b)' THEN b \in heap' ELSE next'[b] = NULL
  BY <1>1, <1>4, <1>5, <1>9, <1>10, <1>11 DEF AddrOrNull, Linked
<1>15. ASSUME NEW S \in SUBSET Addrs, S # {}
       PROVE  \E b \in S : prev'[b] \notin S
  <2>1. CASE a \in S
    BY <1>1, <1>4, <2>1
  <2>2. CASE a \notin S /\ next[a] \in S /\ prev[a] \in S
    <3>1. PICK b \in S \cup {a} : prev[b] \notin S \cup {a}
      BY <1>1, S \cup {a} \in SUBSET Addrs, S \cup {a} # {} DEF ListsChained
    <3>2. b # a /\ b # next[a]
      BY <1>1, <1>9, <2>2, <3>1
    <3> QED
      BY <1>4, <2>2, <3>1, <3>2
  <2>3. CASE a \notin S /\ next[a] \in S /\ prev[a] \notin S
    BY <1>4, <2>3
  <2>4. CASE a \notin S /\ next[a] \notin S
    <3>1. PICK b \in S : prev[b] \notin S
      BY <1>15 DEF ListsChained
    <3> QED
      BY <1>4, <2>4, <3>1
  <2> QED
    BY <2>1, <2>2, <2>3, <2>4
<1>16. ListsChained'
  BY <1>12, <1>13, <1>14, <1>15 DEF ListsChained
<1> QED
  BY <1>11, <1>16 DEF a

-----------------------------------------------------------------------------
(* The blocks: who has them, in which state.                               *)

BlockInv ==
  /\ HeadersOK /\ HandsOK /\ MappedOK /\ ExclusiveOK /\ ExclusiveKept
  /\ QuarantineSound /\ Accounted

BlockVars == <<heap, meta, prev, next, registry_heads, quarantine, dangling>>

\* No thread takes a block in hand or lets go of one; a call may end.
Settled ==
  /\ UNCHANGED BlockVars
  /\ \A u \in Threads :
       /\ \/ op'[u] = op[u] /\ ptr'[u] = ptr[u]
          \/ op'[u] = "none" /\ ptr'[u] = NULL /\ ~Holds(u)
       /\ pc'[u] = pc[u] \/ (~Holds(u) /\ ~Holds(u)')

(* A step that only moves threads that hold nothing keeps the invariant.   *)
LEMMA SettledStep ==
  ASSUME TypeInv, BlockInv, Settled
  PROVE  BlockInv'
<1>1. /\ UNCHANGED <<heap, meta, prev, next, registry_heads, quarantine, dangling>>
      /\ \A u \in Threads : Holds(u)' <=> Holds(u)
      /\ \A u \in Threads : Holds(u) =>
           pc'[u] = pc[u] /\ op'[u] = op[u] /\ ptr'[u] = ptr[u]
  BY DEF Settled, BlockVars, Holds
<1>2. HeadersOK' /\ QuarantineSound'
  BY <1>1 DEF BlockInv, HeadersOK, QuarantineSound, Linked
<1>3. HandsOK'
  BY <1>1 DEF BlockInv, HandsOK, Linked, Quarantined
<1>4. "none" \notin ExclusiveOps
  BY RegistryAssumption DEF Ops
<1>5. \A u \in Threads : op[u] \in ExclusiveOps => ptr[u] # NULL
  BY <1>4, RegistryAssumption DEF TypeInv, TypeOK, CallOK
<1>6. \A u \in Threads :
        \/ op'[u] = op[u] /\ ptr'[u] = ptr[u]
        \/ op'[u] \notin ExclusiveOps /\ ptr'[u] = NULL
  BY <1>4 DEF Settled
<1>8. ExclusiveOK'
  BY <1>1, <1>5, <1>6 DEF BlockInv, ExclusiveOK
<1>9. ExclusiveKept'
  BY <1>1, <1>6 DEF BlockInv, ExclusiveKept, TypeInv, TypeOK
<1>7. Accounted'
  BY <1>1 DEF BlockInv, Accounted, Linked, Quarantined
<1>10. MappedOK'
  BY <1>1, <1>6 DEF BlockInv, MappedOK
<1> QED
  BY <1>2, <1>3, <1>7, <1>8, <1>9, <1>10 DEF BlockInv

(* The start of a call keeps the invariant: the client discipline begins.  *)
LEMMA CallStep ==
  ASSUME TypeInv, BlockInv, NEW t \in Threads, NEW a \in Addrs, NEW o \in Ops,
         Call(t, o, a)
  PROVE  BlockInv'
<1>1. /\ UNCHANGED <<heap, meta, prev, next, registry_heads, quarantine, dangling>>
      /\ pc' = [pc EXCEPT ![t] = IF o = "realloc" THEN "check" ELSE "section"]
      /\ op' = [op EXCEPT ![t] = o]
      /\ ptr' = [ptr EXCEPT ![t] = a]
      /\ pc[t] = "idle"
      /\ t \notin dangling
      /\ Permitted(t, o, a)
  BY DEF Call, blocks, lists, ring, Enter, At
<1>2. /\ \A u \in Threads : Holds(u)' <=> Holds(u)
      /\ \A u \in Threads : Holds(u) =>
           u # t /\ pc'[u] = pc[u] /\ op'[u] = op[u] /\ ptr'[u] = ptr[u]
  BY <1>1 DEF Holds, TypeInv, TypeOK
<1>3. HeadersOK' /\ QuarantineSound'
  BY <1>1 DEF BlockInv, HeadersOK, QuarantineSound, Linked
<1>4. HandsOK'
  BY <1>1, <1>2 DEF BlockInv, HandsOK, Linked, Quarantined
<1>5. ExclusiveOK' /\ ExclusiveKept'
  BY <1>1, <1>2
     DEF BlockInv, ExclusiveOK, ExclusiveKept, Permitted, TypeInv, TypeOK
<1>6. Accounted'
  BY <1>1, <1>2 DEF BlockInv, Accounted, Linked, Quarantined
<1>7. MappedOK'
  BY <1>1 DEF BlockInv, MappedOK, Call, TypeInv, TypeOK
<1> QED
  BY <1>3, <1>4, <1>5, <1>6, <1>7 DEF BlockInv

(* A live block that is in nobody's hands is on its list.                  *)
LEMMA LiveUnheld ==
  ASSUME TypeInv, BlockInv, NEW a \in Addrs, Live(meta[a]),
         \A u \in Threads : Holds(u) => ptr[u] # a
  PROVE  /\ a \in heap
         /\ Linked(a)
         /\ ~Quarantined(a)
<1>1. a \in heap
  BY DEF BlockInv, HeadersOK, Live, NoMeta
<1>2. ~Quarantined(a)
  BY RegistryAssumption
     DEF BlockInv, QuarantineSound, Quarantined, Live
<1> QED
  BY <1>1, <1>2 DEF BlockInv, Accounted

(* A block some exclusive call works on is in no other call's hands.       *)
LEMMA ExclusiveUnheld ==
  ASSUME TypeInv, BlockInv, NEW t \in Threads, t \notin dangling,
         op[t] \in ExclusiveOps, ~Holds(t),
         NEW u \in Threads, Holds(u)
  PROVE  ptr[u] # ptr[t]
  BY DEF BlockInv, ExclusiveOK, HandsOK

(* owner_realloc_internal takes its block in hand, or reports a fault.     *)
LEMMA ReallocStep ==
  ASSUME TypeInv, BlockInv, Disciplined, NEW t \in Threads,
         owner_realloc_internal(t)
  PROVE  BlockInv'
<1>1. CASE realloc_fault(Header(t), t)
  <2>1. Settled
    BY <1>1 DEF owner_realloc_internal, Settled, BlockVars, Holds, At, blocks,
                lists, ring, Leave, Enter, TypeInv, TypeOK
  <2> QED
    BY <2>1, SettledStep
<1>2. CASE ~realloc_fault(Header(t), t)
  <2>1. /\ UNCHANGED <<heap, meta, prev, next, registry_heads, quarantine, dangling>>
        /\ pc' = [pc EXCEPT ![t] = "remove"]
        /\ op' = op /\ ptr' = ptr
        /\ pc[t] = "check" /\ op[t] = "realloc" /\ ptr[t] \in Addrs
        /\ t \notin dangling
    BY <1>2 DEF owner_realloc_internal, blocks, lists, ring, Goto, At, TypeInv,
                CallOK
  <2>2. op[t] \in ExclusiveOps /\ ~Holds(t)
    BY <2>1 DEF Disciplined, Holds
  <2>3. \A u \in Threads : Holds(u) => ptr[u] # ptr[t]
    BY <2>1, <2>2, ExclusiveUnheld
  <2>4. Live(meta[ptr[t]]) /\ ~Foreign(meta[ptr[t]], t)
    BY <1>2, <2>1, <2>2 DEF BlockInv, ExclusiveOK, realloc_fault, Header
  <2>5. ptr[t] \in heap /\ Linked(ptr[t]) /\ ~Quarantined(ptr[t])
    BY <2>1, <2>3, <2>4, LiveUnheld
  <2>6. \A u \in Threads : Holds(u)' <=> Holds(u) \/ u = t
    BY <2>1 DEF Holds, TypeInv, TypeOK
  <2>7. \A u \in Threads : u # t => pc'[u] = pc[u]
    BY <2>1 DEF TypeInv, TypeOK
  <2>8. pc'[t] = "remove"
    BY <2>1 DEF TypeInv, TypeOK
  <2>9. HeadersOK' /\ QuarantineSound'
    BY <2>1 DEF BlockInv, HeadersOK, QuarantineSound, Linked
  <2>10. HandsOK'
    BY <2>1, <2>3, <2>4, <2>5, <2>6, <2>7, <2>8
       DEF BlockInv, HandsOK, Linked, Quarantined
  <2>11. ExclusiveOK' /\ ExclusiveKept'
    BY <2>1, <2>6 DEF BlockInv, ExclusiveOK, ExclusiveKept
  <2>12. Accounted'
    BY <2>1, <2>6 DEF BlockInv, Accounted, Linked, Quarantined
  <2>13. MappedOK'
    BY <2>1 DEF BlockInv, MappedOK
  <2> QED
    BY <2>9, <2>10, <2>11, <2>12, <2>13 DEF BlockInv
<1> QED
  BY <1>1, <1>2

(* The locked section of a call on a live block nobody holds.              *)
LEMMA SectionStep ==
  ASSUME TypeInv, BlockInv, NEW t \in Threads,
         NEW o, NEW fault \in BOOLEAN, NEW m, NEW l \in {"idle", "remove"},
         Section(t, o, fault, m, l),
         ~fault => /\ Live(meta[ptr[t]])
                   /\ \A u \in Threads : Holds(u) => ptr[u] # ptr[t]
                   /\ IF l = "idle" THEN Live(m)
                                    ELSE m.state = "FREED" /\ o = "free"
  PROVE  BlockInv'
<1>1. CASE fault
  <2>1. Settled
    BY <1>1 DEF Section, Settled, BlockVars, Holds, At, lists, ring, Leave,
                Enter, TypeInv, TypeOK
  <2> QED
    BY <2>1, SettledStep
<1>2. CASE ~fault
  <2> DEFINE a == ptr[t]
  <2>1. /\ UNCHANGED <<heap, prev, next, registry_heads, quarantine, dangling>>
        /\ meta' = [meta EXCEPT ![a] = m]
        /\ pc[t] = "locked" /\ op[t] = o /\ t \notin dangling
        /\ a \in Addrs
    BY <1>2 DEF Section, At, lists, ring, TypeInv, CallOK
  <2>2. /\ pc' = [pc EXCEPT ![t] = l]
        /\ op' = [op EXCEPT ![t] = IF l = "idle" THEN "none" ELSE op[t]]
        /\ ptr' = [ptr EXCEPT ![t] = IF l = "idle" THEN NULL ELSE ptr[t]]
    BY <1>2 DEF Section, Leave, Enter, Goto, TypeInv, TypeOK
  <2>3. a \in heap /\ Linked(a) /\ ~Quarantined(a)
    BY <1>2, <2>1, LiveUnheld
  <2>4. \A u \in Threads : Holds(u)' <=> Holds(u) \/ (u = t /\ l = "remove")
    BY <2>1, <2>2 DEF Holds, TypeInv, TypeOK
  <2>5. \A u \in Threads : u # t =>
           pc'[u] = pc[u] /\ op'[u] = op[u] /\ ptr'[u] = ptr[u]
    BY <2>2 DEF TypeInv, TypeOK
  <2>6. /\ pc'[t] = l
        /\ l = "remove" => op'[t] = "free" /\ ptr'[t] = a
        /\ l = "idle" => op'[t] = "none" /\ ptr'[t] = NULL
    BY <1>2, <2>1, <2>2 DEF TypeInv, TypeOK
  <2>7. \A b \in Addrs : meta'[b] = IF b = a THEN m ELSE meta[b]
    BY <2>1 DEF TypeInv, TypeOK
  <2>8. m.state \notin {"INVALID"} /\ (l = "idle" => Live(m))
    BY <1>2 DEF Live
  <2>9. "none" \notin ExclusiveOps
    BY RegistryAssumption DEF Ops
  <2>10. ~Holds(t) /\ \A u \in Threads : Holds(u) => ptr[u] # a
    BY <1>2, <2>1 DEF Holds
  <2>11. \A u \in Threads \ dangling :
            op[u] \in ExclusiveOps => ptr[u] \in Addrs /\ (ptr[u] = a => u = t)
    BY <2>1, <2>9, RegistryAssumption DEF BlockInv, ExclusiveOK, TypeInv, TypeOK, CallOK
  <2> HIDE DEF a
  <2>12. HeadersOK'
    BY <2>1, <2>3, <2>7, <2>8 DEF BlockInv, HeadersOK
  <2>13. HandsOK'
    <3> SUFFICES ASSUME NEW u \in Threads, Holds(u)'
                 PROVE  HandsOK!(u)!2'
      BY DEF HandsOK
    <3>1. CASE u = t
      BY <1>2, <2>1, <2>3, <2>4, <2>5, <2>6, <2>7, <2>10, <3>1
         DEF HandsOK, Linked, Quarantined
    <3>2. CASE u # t
      <4>1. Holds(u) /\ ptr[u] # a /\ ptr'[u] = ptr[u] /\ ptr[u] \in Addrs
        BY <2>4, <2>5, <2>10, <3>2 DEF BlockInv, HandsOK, TypeInv, TypeOK
      <4>2. meta'[ptr[u]] = meta[ptr[u]]
        BY <2>7, <4>1
      <4> QED
        BY <2>1, <2>3, <2>4, <2>5, <2>6, <2>10, <3>2, <4>1, <4>2
           DEF BlockInv, HandsOK, Linked, Quarantined
    <3> QED
      BY <3>1, <3>2
  <2>14. MappedOK'
    BY <2>1, <2>3, <2>5, <2>6 DEF BlockInv, MappedOK
  <2>15. ExclusiveOK'
    <3> SUFFICES ASSUME NEW u \in Threads, u \notin dangling,
                        op'[u] \in ExclusiveOps
                 PROVE  /\ \A v \in Threads \ dangling : ptr'[v] = ptr'[u] => v = u
                        /\ ~Holds(u)' => Live(meta'[ptr'[u]])
      BY <2>1 DEF ExclusiveOK
    <3>1. op[u] = op'[u] /\ ptr[u] = ptr'[u] /\ ptr[u] \in Addrs
      BY <1>2, <2>1, <2>5, <2>6, <2>9, <2>11 DEF a
    <3>2. \A v \in Threads \ dangling : ptr[v] = ptr[u] => v = u
      BY <3>1 DEF BlockInv, ExclusiveOK
    <3>3. \A v \in Threads : ptr'[v] = ptr[v] \/ ptr'[v] = NULL
      BY <2>5, <2>6 DEF a
    <3>4. NULL \notin Addrs
      BY RegistryAssumption
    <3>5. ASSUME ~Holds(u)'
          PROVE  Live(meta'[ptr[u]])
      <4>1. u # t
        BY <2>4, <2>6, <2>9, <3>5
      <4> QED
        BY <2>4, <2>7, <2>11, <3>1, <3>5, <4>1 DEF BlockInv, ExclusiveOK
    <3> QED
      BY <3>1, <3>2, <3>3, <3>4, <3>5
  <2>16. ExclusiveKept'
    BY <2>1, <2>5, <2>6 DEF BlockInv, ExclusiveKept, TypeInv, TypeOK
  <2>17. QuarantineSound'
    BY <2>1, <2>3, <2>7
       DEF BlockInv, QuarantineSound, Quarantined, Linked, TypeInv, TypeOK, AddrOrNull
  <2>18. Accounted'
    <3> SUFFICES ASSUME NEW b \in heap
                 PROVE  Accounted!(b)'
      BY <2>1 DEF Accounted
    <3>1. b \in Addrs
      BY DEF TypeInv, TypeOK
    <3>2. CASE b = a /\ l = "idle"
      BY <2>1, <2>3, <2>7, <2>8, <3>1, <3>2 DEF Linked
    <3>3. CASE b = a /\ l = "remove"
      BY <2>4, <2>6, <3>3
    <3>4. CASE b # a
      BY <2>1, <2>4, <2>5, <2>7, <2>10, <3>1, <3>4
         DEF BlockInv, Accounted, Linked, Quarantined
    <3> QED
      BY <3>2, <3>3, <3>4
  <2> QED
    BY <2>12, <2>13, <2>14, <2>15, <2>16, <2>17, <2>18 DEF BlockInv
<1> QED
  BY <1>1, <1>2

(* A thread in a locked section finds its block in another call's hands    *)
(* only while that call is a free, or an allocation it knows nothing of.   *)
LEMMA HeldByOther ==
  ASSUME TypeInv, BlockInv, Disciplined, NEW t \in Threads, t \notin dangling,
         pc[t] = "locked", Live(meta[ptr[t]]),
         NEW u \in Threads, Holds(u), ptr[u] = ptr[t]
  PROVE  u # t /\ meta[ptr[t]] = NewMeta(u)
<1>1. u # t
  BY DEF Holds
<1>2. u \notin dangling /\ ptr[u] # NULL
  BY RegistryAssumption DEF BlockInv, HandsOK, TypeInv, TypeOK
<1>3. op[u] # "realloc"
  BY <1>1, <1>2 DEF BlockInv, ExclusiveOK, Disciplined
<1>4. op[u] # "free"
  BY DEF BlockInv, HandsOK, Live
<1>5. op[u] = "malloc"
  BY <1>3, <1>4 DEF Holds, TypeInv, CallOK
<1> QED
  BY <1>1, <1>5 DEF BlockInv, HandsOK

\* The calls made of one locked section, free up to its end.
SectionCall(t) ==
  \/ owner_free_internal(t) \/ ownership_claim(t) \/ ownership_borrow(t)
  \/ ownership_release(t) \/ ownership_share(t)

(* The locked sections of free, claim, borrow, release and share.          *)
LEMMA SectionsStep ==
  ASSUME TypeInv, BlockInv, BorrowsAgree, Disciplined, NEW t \in Threads,
         SectionCall(t)
  PROVE  BlockInv'
<1> DEFINE a == ptr[t]
           m == meta[a]
<1>1. pc[t] = "locked" /\ t \notin dangling /\ a \in Addrs
  BY DEF SectionCall, owner_free_internal, ownership_claim, ownership_borrow,
         ownership_release, ownership_share, Section, At, TypeInv, CallOK
<1>2. /\ m.state \in State
      /\ m.borrow_count \in Nat
  BY <1>1 DEF TypeInv, TypeOK, Meta
<1>3. m.state = "INVALID" => m = NoMeta
  BY <1>1 DEF BlockInv, HeadersOK
<1>4. NoThread # t
  BY NoThreadAssumption
<1>5. ~Foreign(m, t) /\ m.state # "FREED" =>
        Live(m) /\ \A u \in Threads : Holds(u) => ptr[u] # a
  <2> SUFFICES ASSUME ~Foreign(m, t), m.state # "FREED"
               PROVE  Live(m) /\ \A u \in Threads : Holds(u) => ptr[u] # a
    OBVIOUS
  <2>1. Live(m)
    BY <1>2, <1>3, <1>4 DEF Live, Foreign, NoMeta, State
  <2>2. \A u \in Threads : u # t => Foreign(NewMeta(u), t)
    BY DEF Foreign, NewMeta
  <2> QED
    BY <1>1, <2>1, <2>2, HeldByOther
<1>6. op[t] \in ExclusiveOps =>
        Live(m) /\ \A u \in Threads : Holds(u) => ptr[u] # a
  BY <1>1, ExclusiveUnheld DEF BlockInv, ExclusiveOK, Holds
<1>7. CASE owner_free_internal(t)
  <2>1. free_fault(m, t) \in BOOLEAN
    BY DEF free_fault, Foreign
  <2>2. Freed(m).state = "FREED"
    BY <1>1 DEF Freed, TypeInv, TypeOK, Meta
  <2>3. Section(t, "free", free_fault(m, t), Freed(m), "remove")
    BY <1>7 DEF owner_free_internal, Header
  <2>4. ~free_fault(m, t) => ~Foreign(m, t) /\ m.state # "FREED"
    BY DEF free_fault
  <2> HIDE DEF m, a
  <2> QED
    BY <1>5, <2>1, <2>2, <2>3, <2>4, SectionStep DEF a, m
<1>8. CASE ownership_claim(t)
  <2>1. Live(Claimed(m, t))
    BY <1>1 DEF Claimed, Live, TypeInv, TypeOK, Meta
  <2>2. Section(t, "claim", FALSE, Claimed(m, t), "idle")
    BY <1>8 DEF ownership_claim, Header
  <2>3. op[t] \in ExclusiveOps
    BY <1>8 DEF ownership_claim, Section, Disciplined
  <2> QED
    BY <1>6, <2>1, <2>2, <2>3, SectionStep
<1>9. CASE ownership_borrow(t)
  <2>1. borrow_fault(m, t) \in BOOLEAN
    BY DEF borrow_fault, Foreign
  <2>2. Live(Borrowed(m))
    BY <1>1 DEF Borrowed, Live, TypeInv, TypeOK, Meta
  <2>3. Section(t, "borrow", borrow_fault(m, t), Borrowed(m), "idle")
    BY <1>9 DEF ownership_borrow, Header
  <2>4. ~borrow_fault(m, t) => ~Foreign(m, t) /\ m.state # "FREED"
    BY DEF borrow_fault
  <2> HIDE DEF m, a
  <2> QED
    BY <1>5, <2>1, <2>2, <2>3, <2>4, SectionStep DEF a, m
<1>10. CASE ownership_release(t)
  <2>1. release_fault(m) \in BOOLEAN
    BY DEF release_fault
  <2>2. Section(t, "release", release_fault(m), Released(m), "idle")
    BY <1>10 DEF ownership_release, Header
  <2>3. ASSUME ~release_fault(m)
        PROVE  /\ Live(m)
               /\ Live(Released(m))
               /\ \A u \in Threads : Holds(u) => ptr[u] # a
    <3>1. m.borrow_count > 0
      BY <1>2, <2>3 DEF release_fault
    <3>2. Live(m)
      BY <1>1, <1>2, <1>3, <3>1 DEF Live, NoMeta, State, BorrowsAgree
    <3>3. Live(Released(m))
      BY <1>1, <3>2 DEF Released, Live, TypeInv, TypeOK, Meta
    <3>4. \A u \in Threads : m # NewMeta(u)
      BY <3>1 DEF NewMeta
    <3> QED
      BY <1>1, <3>2, <3>3, <3>4, HeldByOther
  <2> HIDE DEF m, a
  <2> QED
    BY <2>1, <2>2, <2>3, SectionStep DEF a, m
<1>11. CASE ownership_share(t)
  <2>1. share_fault(m, t) \in BOOLEAN
    BY DEF share_fault
  <2>2. Live(Shared(m))
    BY <1>1 DEF Shared, Live, TypeInv, TypeOK, Meta
  <2>3. Section(t, "share", share_fault(m, t), Shared(m), "idle")
    BY <1>11 DEF ownership_share, Header
  <2>4. op[t] \in ExclusiveOps
    BY <1>11 DEF ownership_share, Section, Disciplined
  <2> QED
    BY <1>6, <2>1, <2>2, <2>3, <2>4, SectionStep
<1> QED
  BY <1>7, <1>8, <1>9, <1>10, <1>11 DEF SectionCall

(* A block of an exclusive call that is not recycled is mapped.            *)
LEMMA ExclusivePtr ==
  ASSUME TypeInv, BlockInv, NEW u \in Threads, op[u] \in ExclusiveOps
  PROVE  u \notin dangling /\ ptr[u] \in heap /\ ptr[u] \in Addrs
<1>1. "none" \notin ExclusiveOps
  BY RegistryAssumption DEF Ops
<1>2. ptr[u] \in Addrs
  BY <1>1 DEF TypeInv, TypeOK, CallOK
<1>3. u \notin dangling
  BY DEF BlockInv, ExclusiveKept
<1> QED
  BY <1>2, <1>3, RegistryAssumption DEF BlockInv, MappedOK

(* A new block is in the hands of the thread that asked for it.            *)
LEMMA MallocStep ==
  ASSUME TypeInv, ListsChained, BlockInv, NEW t \in Threads, NEW a \in Addrs,
         owner_malloc_internal(t, a)
  PROVE  BlockInv'
<1>1. /\ UNCHANGED <<prev, next, registry_heads, quarantine, dangling>>
      /\ heap' = heap \cup {a}
      /\ meta' = [meta EXCEPT ![a] = NewMeta(t)]
      /\ pc[t] = "idle" /\ t \notin dangling /\ a \notin heap
      /\ pc' = [pc EXCEPT ![t] = "insert"]
      /\ op' = [op EXCEPT ![t] = "malloc"]
      /\ ptr' = [ptr EXCEPT ![t] = a]
  BY DEF owner_malloc_internal, At, lists, ring, Enter
<1>2. /\ pc'[t] = "insert" /\ op'[t] = "malloc" /\ ptr'[t] = a
      /\ \A u \in Threads : u # t =>
           pc'[u] = pc[u] /\ op'[u] = op[u] /\ ptr'[u] = ptr[u]
      /\ \A u \in Threads : Holds(u)' <=> Holds(u) \/ u = t
      /\ ~Holds(t)
  BY <1>1 DEF Holds, TypeInv, TypeOK
<1>3. \A b \in Addrs : meta'[b] = IF b = a THEN NewMeta(t) ELSE meta[b]
  BY <1>1 DEF TypeInv, TypeOK
<1>4. ~Linked(a) /\ ~Quarantined(a)
  BY <1>1, RegistryAssumption
     DEF ListsChained, BlockInv, QuarantineSound, Quarantined
<1>5. \A u \in Threads : Holds(u) => ptr[u] \in heap /\ ptr[u] # a
  BY <1>1 DEF BlockInv, HandsOK
<1>6. "malloc" \notin ExclusiveOps
  BY RegistryAssumption
<1>7. Live(NewMeta(t)) /\ NewMeta(t).state # "INVALID"
  BY DEF Live, NewMeta
<1>8. HeadersOK'
  BY <1>1, <1>3, <1>7 DEF BlockInv, HeadersOK
<1>9. HandsOK'
  <2> SUFFICES ASSUME NEW u \in Threads, Holds(u)'
               PROVE  HandsOK!(u)!2'
    BY DEF HandsOK
  <2>1. CASE u = t
    BY <1>1, <1>2, <1>3, <1>4, <1>5, <1>7, <2>1 DEF Linked, Quarantined
  <2>2. CASE u # t
    <3>1. Holds(u) /\ ptr[u] \in heap /\ ptr[u] # a /\ ptr[u] \in Addrs
      BY <1>2, <1>5, <2>2 DEF TypeInv, TypeOK
    <3>2. meta'[ptr[u]] = meta[ptr[u]]
      BY <1>3, <3>1
    <3> QED
      BY <1>1, <1>2, <2>2, <3>1, <3>2 DEF BlockInv, HandsOK, Linked, Quarantined
  <2> QED
    BY <2>1, <2>2
<1>10. MappedOK'
  BY <1>1, <1>2 DEF BlockInv, MappedOK
<1>11. ExclusiveOK'
  <2> SUFFICES ASSUME NEW u \in Threads, op'[u] \in ExclusiveOps
               PROVE  /\ \A v \in Threads \ dangling : ptr'[v] = ptr'[u] => v = u
                      /\ ~Holds(u)' => Live(meta'[ptr'[u]])
    BY <1>1 DEF ExclusiveOK
  <2>1. u # t /\ op[u] \in ExclusiveOps /\ ptr'[u] = ptr[u]
    BY <1>2, <1>6
  <2>2. u \notin dangling /\ ptr[u] \in heap /\ ptr[u] \in Addrs
    BY <2>1, ExclusivePtr
  <2> QED
    BY <1>1, <1>2, <1>3, <2>1, <2>2 DEF BlockInv, ExclusiveOK
<1>12. ExclusiveKept'
  BY <1>1, <1>2 DEF BlockInv, ExclusiveKept, TypeInv, TypeOK
<1>13. QuarantineSound'
  BY <1>1, <1>3, <1>4
     DEF BlockInv, QuarantineSound, Quarantined, Linked, TypeInv, TypeOK, AddrOrNull
<1>14. Accounted'
  BY <1>1, <1>2, <1>3 DEF BlockInv, Accounted, Linked, Quarantined, TypeInv, TypeOK
<1> QED
  BY <1>8, <1>9, <1>10, <1>11, <1>12, <1>13, <1>14 DEF BlockInv

(* insert_meta lets go of a live block by putting it on its list.          *)
LEMMA InsertStep ==
  ASSUME TypeInv, ListsChained, BlockInv, NEW t \in Threads, insert_meta(t)
  PROVE  BlockInv' /\ ListsChained'
<1> DEFINE a == ptr[t]
<1>1. /\ UNCHANGED <<heap, meta, quarantine, dangling>>
      /\ pc[t] = "insert" /\ t \notin dangling
      /\ pc' = [pc EXCEPT ![t] = "idle"]
      /\ op' = [op EXCEPT ![t] = "none"]
      /\ ptr' = [ptr EXCEPT ![t] = NULL]
  BY DEF insert_meta, At, blocks, ring, Leave, Enter
<1>2. /\ Holds(t)
      /\ pc'[t] = "idle" /\ op'[t] = "none" /\ ptr'[t] = NULL
      /\ \A u \in Threads : u # t =>
           pc'[u] = pc[u] /\ op'[u] = op[u] /\ ptr'[u] = ptr[u]
      /\ \A u \in Threads : Holds(u)' <=> Holds(u) /\ u # t
  BY <1>1 DEF Holds, TypeInv, TypeOK
<1>3. a \in heap /\ ~Linked(a) /\ ~Quarantined(a) /\ Live(meta[a])
  BY <1>1, <1>2 DEF BlockInv, HandsOK, TypeInv, CallOK
<1>4. /\ ListsChained'
      /\ \A b \in Addrs : Linked(b)' <=> Linked(b) \/ b = a
  BY <1>3, InsertChained
<1>5. \A u \in Threads : Holds(u) /\ u # t => ptr[u] # a
  BY <1>2 DEF BlockInv, HandsOK
<1>6. "none" \notin ExclusiveOps /\ NULL \notin Addrs
  BY RegistryAssumption DEF Ops
<1>7. HeadersOK'
  BY <1>1 DEF BlockInv, HeadersOK
<1> HIDE DEF a
<1>8. HandsOK'
  <2> SUFFICES ASSUME NEW u \in Threads, Holds(u)'
               PROVE  HandsOK!(u)!2'
    BY DEF HandsOK
  <2>1. Holds(u) /\ u # t /\ ptr[u] # a /\ ptr'[u] = ptr[u]
    BY <1>2, <1>5
  <2>2. ptr[u] \in Addrs
    BY <2>1 DEF BlockInv, HandsOK, TypeInv, TypeOK
  <2>3. Linked(ptr[u])' <=> Linked(ptr[u])
    BY <1>4, <2>1, <2>2 DEF Linked
  <2> QED
    BY <1>1, <1>2, <2>1, <2>3 DEF BlockInv, HandsOK, Quarantined
<1>9. MappedOK'
  BY <1>1, <1>2 DEF BlockInv, MappedOK
<1>10. ExclusiveOK'
  <2> SUFFICES ASSUME NEW u \in Threads, op'[u] \in ExclusiveOps
               PROVE  /\ \A v \in Threads \ dangling : ptr'[v] = ptr'[u] => v = u
                      /\ ~Holds(u)' => Live(meta'[ptr'[u]])
    BY <1>1 DEF ExclusiveOK
  <2>1. u # t /\ op[u] \in ExclusiveOps /\ ptr'[u] = ptr[u]
    BY <1>2, <1>6
  <2>2. u \notin dangling /\ ptr[u] \in Addrs
    BY <2>1, ExclusivePtr
  <2> QED
    BY <1>1, <1>2, <1>6, <2>1, <2>2 DEF BlockInv, ExclusiveOK
<1>11. ExclusiveKept'
  BY <1>1, <1>2 DEF BlockInv, ExclusiveKept, TypeInv, TypeOK
<1>12. QuarantineSound'
  <2> SUFFICES ASSUME NEW i \in Slots, quarantine[i] # NULL
               PROVE  /\ quarantine[i] \in heap
                      /\ meta[quarantine[i]].state = "FREED"
                      /\ ~Linked(quarantine[i])'
                      /\ \A j \in Slots : quarantine[j] = quarantine[i] => j = i
    BY <1>1 DEF QuarantineSound, Linked
  <2>1. quarantine[i] \in Addrs /\ quarantine[i] # a
    BY <1>3 DEF Quarantined, TypeInv, TypeOK, AddrOrNull
  <2>2. ~Linked(quarantine[i])
    BY DEF BlockInv, QuarantineSound
  <2>3. ~Linked(quarantine[i])'
    BY <1>1, <1>4, <2>1, <2>2 DEF Linked
  <2> QED
    BY <2>3 DEF BlockInv, QuarantineSound
<1>13. Accounted'
  <2> SUFFICES ASSUME NEW b \in heap
               PROVE  Accounted!(b)'
    BY <1>1 DEF Accounted
  <2>1. b \in Addrs
    BY DEF TypeInv, TypeOK
  <2> QED
    BY <1>1, <1>2, <1>3, <1>4, <2>1 DEF BlockInv, Accounted, Quarantined, a
<1> QED
  BY <1>4, <1>7, <1>8, <1>9, <1>10, <1>11, <1>12, <1>13 DEF BlockInv

(* remove_meta takes the block in hand off its list.                       *)
LEMMA RemoveStep ==
  ASSUME TypeInv, ListsChained, BlockInv, NEW t \in Threads, remove_meta(t)
  PROVE  BlockInv' /\ ListsChained'
<1> DEFINE a == ptr[t]
<1>1. /\ UNCHANGED <<heap, meta, quarantine, dangling, op, ptr>>
      /\ pc[t] = "remove" /\ t \notin dangling
      /\ pc' = [pc EXCEPT ![t] = IF op[t] = "free" THEN "quarantine"
                                                   ELSE "realloc"]
  BY DEF remove_meta, At, blocks, ring, Goto
<1>2. /\ Holds(t)
      /\ pc'[t] # "remove"
      /\ \A u \in Threads : u # t => pc'[u] = pc[u]
      /\ \A u \in Threads : Holds(u)' <=> Holds(u)
  BY <1>1 DEF Holds, TypeInv, TypeOK
<1>3. a \in heap /\ a \in Addrs /\ Linked(a)
  BY <1>1, <1>2 DEF BlockInv, HandsOK, TypeInv, TypeOK
<1>4. /\ ListsChained'
      /\ \A b \in Addrs : Linked(b)' <=> Linked(b) /\ b # a
  BY <1>3, RemoveChained
<1>5. \A u \in Threads : Holds(u) /\ u # t => ptr[u] # a
  BY <1>2 DEF BlockInv, HandsOK
<1>6. HeadersOK'
  BY <1>1 DEF BlockInv, HeadersOK
<1> HIDE DEF a
<1>7. HandsOK'
  <2> SUFFICES ASSUME NEW u \in Threads, Holds(u)'
               PROVE  HandsOK!(u)!2'
    BY DEF HandsOK
  <2>1. Holds(u) /\ ptr[u] \in Addrs
    BY <1>2 DEF BlockInv, HandsOK, TypeInv, TypeOK
  <2>2. Linked(ptr[u])' <=> Linked(ptr[u]) /\ ptr[u] # a
    BY <1>1, <1>4, <2>1 DEF Linked
  <2>3. Linked(ptr[u])' <=> pc'[u] = "remove"
    BY <1>2, <1>5, <2>1, <2>2 DEF BlockInv, HandsOK, a
  <2> QED
    BY <1>1, <1>2, <2>1, <2>3 DEF BlockInv, HandsOK, Quarantined
<1>8. MappedOK' /\ ExclusiveOK' /\ ExclusiveKept'
  BY <1>1, <1>2 DEF BlockInv, MappedOK, ExclusiveOK, ExclusiveKept
<1>9. QuarantineSound'
  <2> SUFFICES ASSUME NEW i \in Slots, quarantine[i] # NULL
               PROVE  /\ quarantine[i] \in heap
                      /\ meta[quarantine[i]].state = "FREED"
                      /\ ~Linked(quarantine[i])'
                      /\ \A j \in Slots : quarantine[j] = quarantine[i] => j = i
    BY <1>1 DEF QuarantineSound, Linked
  <2>1. quarantine[i] \in Addrs
    BY DEF TypeInv, TypeOK, AddrOrNull
  <2>2. ~Linked(quarantine[i])
    BY DEF BlockInv, QuarantineSound
  <2>3. ~Linked(quarantine[i])'
    BY <1>1, <1>4, <2>1, <2>2 DEF Linked
  <2> QED
    BY <2>3 DEF BlockInv, QuarantineSound
<1>10. Accounted'
  <2> SUFFICES ASSUME NEW b \in heap
               PROVE  Accounted!(b)'
    BY <1>1 DEF Accounted
  <2>1. b \in Addrs
    BY DEF TypeInv, TypeOK
  <2> QED
    BY <1>1, <1>2, <1>4, <2>1 DEF BlockInv, Accounted, Quarantined, a
<1> QED
  BY <1>4, <1>6, <1>7, <1>8, <1>9, <1>10 DEF BlockInv

(* global_realloc keeps the block in hand, wherever it is now.             *)
LEMMA GlobalReallocStep ==
  ASSUME TypeInv, ListsChained, BlockInv, Disciplined, NEW t \in Threads,
         NEW b \in Addrs, global_realloc(t, b)
  PROVE  BlockInv' /\ ListsChained'
<1> DEFINE a == ptr[t]
<1>1. /\ UNCHANGED <<prev, next, registry_heads, quarantine>>
      /\ heap' = (heap \ {a}) \cup {b}
      /\ b = a \/ b \notin heap
      /\ \A c \in Addrs : meta'[c] = IF c = b THEN meta[a]
                                     ELSE IF c = a THEN NoMeta ELSE meta[c]
      /\ dangling' = IF b = a THEN dangling
                     ELSE dangling \cup {u \in Threads \ {t} : ptr[u] \in {a} \ {NULL}}
      /\ pc[t] = "realloc" /\ t \notin dangling
      /\ pc' = [pc EXCEPT ![t] = "insert"]
      /\ op' = [op EXCEPT ![t] = "realloc"]
      /\ ptr' = [ptr EXCEPT ![t] = b]
  BY DEF global_realloc, Returned, At, lists, ring, Enter
<1>2. /\ Holds(t) /\ op[t] = "realloc"
      /\ pc'[t] = "insert" /\ op'[t] = "realloc" /\ ptr'[t] = b
      /\ \A u \in Threads : u # t =>
           pc'[u] = pc[u] /\ op'[u] = op[u] /\ ptr'[u] = ptr[u]
      /\ \A u \in Threads : Holds(u)' <=> Holds(u)
  BY <1>1 DEF Holds, TypeInv, TypeOK, CallOK
<1>3. /\ a \in heap /\ a \in Addrs
      /\ ~Linked(a) /\ ~Quarantined(a) /\ Live(meta[a])
      /\ ~Foreign(meta[a], t)
  BY <1>1, <1>2 DEF BlockInv, HandsOK, TypeInv, TypeOK
<1>4. ~Linked(b) /\ ~Quarantined(b)
  BY <1>1, <1>3, RegistryAssumption
     DEF ListsChained, BlockInv, QuarantineSound, Quarantined
<1>5. op[t] \in ExclusiveOps /\ "realloc" \in ExclusiveOps
  BY <1>2 DEF Disciplined
<1>6. \A u \in Threads \ dangling : u # t => ptr[u] # a /\ ptr[u] # b
  BY <1>1, <1>3, <1>5, RegistryAssumption DEF BlockInv, ExclusiveOK, MappedOK
<1>7. dangling' = dangling
  <2>1. \A u \in Threads : ptr[u] = a => u = t \/ u \in dangling
    BY <1>6
  <2> QED
    BY <1>1, <2>1
<1>8. \A u \in Threads : u # t /\ Holds(u) =>
        /\ u \notin dangling
        /\ ptr[u] \in heap /\ ptr[u] \in Addrs
        /\ ptr[u] # a /\ ptr[u] # b
  BY <1>6 DEF BlockInv, HandsOK, TypeInv, TypeOK
<1>9. heap \subseteq Addrs /\ NULL \notin Addrs
  BY RegistryAssumption DEF TypeInv, TypeOK
<1> HIDE DEF a
<1>10. HeadersOK'
  BY <1>1, <1>3, <1>9 DEF BlockInv, HeadersOK
<1>11. HandsOK'
  <2> SUFFICES ASSUME NEW u \in Threads, Holds(u)'
               PROVE  HandsOK!(u)!2'
    BY DEF HandsOK
  <2>1. CASE u = t
    <3>1. meta'[ptr'[t]] = meta[a]
      BY <1>1, <1>2
    <3> QED
      BY <1>1, <1>2, <1>3, <1>4, <1>7, <1>8, <2>1, <3>1 DEF Linked, Quarantined
  <2>2. CASE u # t
    <3>1. meta'[ptr[u]] = meta[ptr[u]]
      BY <1>1, <1>2, <1>8, <2>2
    <3> QED
      BY <1>1, <1>2, <1>7, <1>8, <2>2, <3>1
         DEF BlockInv, HandsOK, Linked, Quarantined
  <2> QED
    BY <2>1, <2>2
<1>12. MappedOK'
  BY <1>1, <1>2, <1>6, <1>7 DEF BlockInv, MappedOK
<1>13. ExclusiveOK'
  <2> SUFFICES ASSUME NEW u \in Threads, op'[u] \in ExclusiveOps, u \notin dangling
               PROVE  /\ \A v \in Threads \ dangling : ptr'[v] = ptr'[u] => v = u
                      /\ ~Holds(u)' => Live(meta'[ptr'[u]])
    BY <1>7 DEF ExclusiveOK
  <2>1. CASE u = t
    BY <1>2, <1>6, <2>1
  <2>2. CASE u # t
    <3>1. op[u] \in ExclusiveOps /\ ptr'[u] = ptr[u] /\ ptr[u] # a /\ ptr[u] # b
      BY <1>2, <1>6, <2>2
    <3>2. ptr[u] \in Addrs
      BY <3>1, ExclusivePtr
    <3>3. meta'[ptr[u]] = meta[ptr[u]]
      BY <1>1, <3>1, <3>2
    <3> QED
      BY <1>2, <2>2, <3>1, <3>3 DEF BlockInv, ExclusiveOK
  <2> QED
    BY <2>1, <2>2
<1>14. ExclusiveKept'
  BY <1>1, <1>2, <1>7 DEF BlockInv, ExclusiveKept, TypeInv, TypeOK
<1>15. QuarantineSound'
  BY <1>1, <1>3, <1>4, <1>9
     DEF BlockInv, QuarantineSound, Quarantined, Linked, TypeInv, TypeOK, AddrOrNull
<1>16. Accounted'
  <2> SUFFICES ASSUME NEW c \in heap'
               PROVE  Accounted!(c)'
    BY DEF Accounted
  <2>1. CASE c = b
    BY <1>2, <2>1
  <2>2. CASE c # b
    <3>1. c \in heap /\ c # a /\ c \in Addrs
      BY <1>1, <1>9, <2>2
    <3>2. meta'[c] = meta[c]
      BY <1>1, <2>2, <3>1
    <3> QED
      BY <1>1, <1>2, <2>2, <3>1, <3>2
         DEF BlockInv, Accounted, Linked, Quarantined, a
  <2> QED
    BY <2>1, <2>2
<1>17. ListsChained'
  BY <1>1, <1>3 DEF ListsChained, Linked
<1> QED
  BY <1>10, <1>11, <1>12, <1>13, <1>14, <1>15, <1>16, <1>17 DEF BlockInv

(* Blocks that are freed and quarantined, and no others, go back to the    *)
(* allocator: nothing anybody holds or exclusively works on is among them. *)
LEMMA RecycledUnused ==
  ASSUME TypeInv, BlockInv, NEW i \in Slots, quarantine[i] # NULL,
         NEW u \in Threads
  PROVE  /\ Holds(u) => ptr[u] # quarantine[i]
         /\ op[u] \in ExclusiveOps => ptr[u] # quarantine[i]
<1>1. Holds(u) => ptr[u] # quarantine[i]
  BY DEF BlockInv, HandsOK, Quarantined
<1>2. ASSUME op[u] \in ExclusiveOps, ~Holds(u)
      PROVE  ptr[u] # quarantine[i]
  <2>1. u \notin dangling
    BY <1>2, ExclusivePtr
  <2> QED
    BY <1>2, <2>1 DEF BlockInv, ExclusiveOK, QuarantineSound, Live
<1> QED
  BY <1>1, <1>2

(* The block in hand takes the oldest slot of the ring; the block that was *)
(* there goes back to the allocator.                                       *)
LEMMA QuarantineStep ==
  ASSUME TypeInv, ListsChained, BlockInv, NEW t \in Threads, quarantine_block(t)
  PROVE  BlockInv' /\ ListsChained'
<1> DEFINE a == ptr[t]
           old == quarantine[quarantine_tail]
<1>1. /\ UNCHANGED <<prev, next, registry_heads>>
      /\ heap' = heap \ {old}
      /\ \A c \in Addrs : meta'[c] = IF c = old THEN NoMeta ELSE meta[c]
      /\ dangling' = dangling \cup {u \in Threads \ {t} : ptr[u] \in {old} \ {NULL}}
      /\ quarantine' = [quarantine EXCEPT ![quarantine_tail] = a]
      /\ pc[t] = "quarantine" /\ t \notin dangling
      /\ pc' = [pc EXCEPT ![t] = "idle"]
      /\ op' = [op EXCEPT ![t] = "none"]
      /\ ptr' = [ptr EXCEPT ![t] = NULL]
  BY DEF quarantine_block, Returned, At, lists, Leave, Enter
<1>2. /\ Holds(t) /\ op[t] = "free"
      /\ pc'[t] = "idle" /\ op'[t] = "none" /\ ptr'[t] = NULL
      /\ \A u \in Threads : u # t =>
           pc'[u] = pc[u] /\ op'[u] = op[u] /\ ptr'[u] = ptr[u]
      /\ \A u \in Threads : Holds(u)' <=> Holds(u) /\ u # t
  BY <1>1 DEF Holds, TypeInv, TypeOK, CallOK
<1>3. /\ a \in heap /\ a \in Addrs
      /\ ~Linked(a) /\ ~Quarantined(a) /\ meta[a].state = "FREED"
  BY <1>1, <1>2 DEF BlockInv, HandsOK, TypeInv, TypeOK
<1>4. quarantine_tail \in Slots /\ old \in AddrOrNull /\ old # a
  BY <1>3 DEF TypeInv, TypeOK, Quarantined
<1>5. old # NULL => ~Linked(old) /\ old \in heap
  BY <1>4 DEF BlockInv, QuarantineSound
<1>6. \A u \in Threads : /\ Holds(u) => ptr[u] # old
                         /\ op[u] \in ExclusiveOps => ptr[u] # old
  BY <1>4, ExclusivePtr, RecycledUnused, RegistryAssumption
     DEF BlockInv, HandsOK, TypeInv, TypeOK
<1>7. \A u \in Threads : u # t /\ Holds(u) =>
        /\ u \notin dangling'
        /\ ptr[u] \in heap' /\ ptr[u] \in Addrs /\ ptr[u] # a
        /\ meta'[ptr[u]] = meta[ptr[u]]
  BY <1>1, <1>2, <1>6 DEF BlockInv, HandsOK, TypeInv, TypeOK
<1>8. heap \subseteq Addrs /\ NULL \notin Addrs /\ "none" \notin ExclusiveOps
  BY RegistryAssumption DEF TypeInv, TypeOK, Ops
<1>9. \A i \in Slots : quarantine'[i] = IF i = quarantine_tail THEN a ELSE quarantine[i]
  BY <1>1 DEF TypeInv, TypeOK
<1> HIDE DEF a, old
<1>10. HeadersOK'
  BY <1>1, <1>4, <1>8 DEF BlockInv, HeadersOK
<1>11. HandsOK'
  <2> SUFFICES ASSUME NEW u \in Threads, Holds(u)'
               PROVE  HandsOK!(u)!2'
    BY DEF HandsOK
  <2>1. Holds(u) /\ u # t
    BY <1>2
  <2>2. ~Quarantined(ptr[u])
    BY <2>1 DEF BlockInv, HandsOK
  <2>3. \A i \in Slots : quarantine'[i] # ptr[u]
    BY <1>7, <1>9, <2>1, <2>2 DEF Quarantined
  <2> QED
    BY <1>1, <1>2, <1>7, <2>1, <2>3 DEF BlockInv, HandsOK, Linked, Quarantined
<1>12. MappedOK'
  BY <1>1, <1>2, <1>8 DEF BlockInv, MappedOK
<1>13. ExclusiveOK'
  <2> SUFFICES ASSUME NEW u \in Threads, op'[u] \in ExclusiveOps, u \notin dangling'
               PROVE  /\ \A v \in Threads \ dangling' : ptr'[v] = ptr'[u] => v = u
                      /\ ~Holds(u)' => Live(meta'[ptr'[u]])
    BY DEF ExclusiveOK
  <2>1. /\ u # t /\ op[u] \in ExclusiveOps /\ ptr'[u] = ptr[u]
        /\ u \notin dangling
    BY <1>1, <1>2, <1>8
  <2>2. ptr[u] \in Addrs /\ ptr[u] # old
    BY <1>6, <2>1, ExclusivePtr
  <2>3. meta'[ptr[u]] = meta[ptr[u]]
    BY <1>1, <2>2
  <2> QED
    BY <1>1, <1>2, <1>8, <2>1, <2>2, <2>3 DEF BlockInv, ExclusiveOK
<1>14. ExclusiveKept'
  BY <1>1, <1>2, <1>6, <1>8 DEF BlockInv, ExclusiveKept, TypeInv, TypeOK
<1>15. QuarantineSound'
  <2> SUFFICES ASSUME NEW i \in Slots, quarantine'[i] # NULL
               PROVE  /\ quarantine'[i] \in heap'
                      /\ meta'[quarantine'[i]].state = "FREED"
                      /\ ~Linked(quarantine'[i])
                      /\ \A j \in Slots : quarantine'[j] = quarantine'[i] => j = i
    BY <1>1 DEF QuarantineSound, Linked
  <2>1. CASE i = quarantine_tail
    BY <1>1, <1>3, <1>4, <1>9, <2>1 DEF Quarantined
  <2>2. CASE i # quarantine_tail
    <3>1. quarantine'[i] = quarantine[i] /\ quarantine[i] # a
      BY <1>3, <1>9, <2>2 DEF Quarantined
    <3>2. quarantine[i] # old
      BY <1>4, <2>2, <3>1 DEF BlockInv, QuarantineSound, old
    <3>3. quarantine[i] \in Addrs
      BY <3>1 DEF TypeInv, TypeOK, AddrOrNull
    <3> QED
      BY <1>1, <1>9, <3>1, <3>2, <3>3 DEF BlockInv, QuarantineSound
  <2> QED
    BY <2>1, <2>2
<1>16. Accounted'
  <2> SUFFICES ASSUME NEW c \in heap'
               PROVE  Accounted!(c)'
    BY DEF Accounted
  <2>1. c \in heap /\ c # old /\ c \in Addrs /\ meta'[c] = meta[c]
    BY <1>1, <1>8
  <2>2. CASE c = a
    BY <1>4, <1>9, <2>2 DEF Quarantined
  <2>3. CASE c # a
    <3>1. Quarantined(c) => \E i \in Slots : quarantine'[i] = c
      BY <1>4, <1>9, <2>1 DEF Quarantined, old
    <3> QED
      BY <1>1, <1>2, <2>1, <2>3, <3>1
         DEF BlockInv, Accounted, Linked, Quarantined, a
  <2> QED
    BY <2>2, <2>3
<1>17. ListsChained'
  BY <1>1, <1>5, <1>8 DEF ListsChained, Linked
<1> QED
  BY <1>10, <1>11, <1>12, <1>13, <1>14, <1>15, <1>16, <1>17 DEF BlockInv

(* The exit handler empties the ring while other threads may be at work.   *)
LEMMA SweepStep ==
  ASSUME TypeInv, ListsChained, BlockInv, NEW t \in Threads, check_leaks_sweep(t)
  PROVE  BlockInv' /\ ListsChained'
<1> DEFINE old == {quarantine[i] : i \in Slots}
<1>1. /\ UNCHANGED <<prev, next, registry_heads, pc, op, ptr>>
      /\ heap' = heap \ old
      /\ \A c \in Addrs : meta'[c] = IF c \in old THEN NoMeta ELSE meta[c]
      /\ dangling' = dangling \cup {u \in Threads \ {t} : ptr[u] \in old \ {NULL}}
      /\ \A i \in Slots : quarantine'[i] = NULL
      /\ pc[t] = "leaks"
  BY DEF check_leaks_sweep, Returned, At, lists, control
<1>2. \A c \in Addrs : c \in old <=> Quarantined(c)
  BY DEF Quarantined
<1>3. \A c \in Addrs : c \in old => ~Linked(c)
  BY <1>2, RegistryAssumption DEF Quarantined, BlockInv, QuarantineSound
<1>4. \A u \in Threads : Holds(u)' <=> Holds(u)
  BY <1>1 DEF Holds
<1>5. ptr[t] = NULL
  BY <1>1 DEF TypeInv, CallOK
<1>6. \A u \in Threads : Holds(u) \/ op[u] \in ExclusiveOps =>
        ptr[u] \in Addrs /\ ptr[u] \notin old
  BY ExclusivePtr, RecycledUnused, RegistryAssumption
     DEF BlockInv, HandsOK, TypeInv, TypeOK
<1>7. heap \subseteq Addrs /\ NULL \notin Addrs
  BY RegistryAssumption DEF TypeInv, TypeOK
<1> HIDE DEF old
<1>8. HeadersOK'
  BY <1>1, <1>7 DEF BlockInv, HeadersOK
<1>9. HandsOK'
  <2> SUFFICES ASSUME NEW u \in Threads, Holds(u)'
               PROVE  HandsOK!(u)!2'
    BY DEF HandsOK
  <2>1. Holds(u) /\ ptr[u] \in Addrs /\ ptr[u] \notin old
    BY <1>4, <1>6
  <2>2. meta'[ptr[u]] = meta[ptr[u]] /\ u \notin dangling'
    BY <1>1, <2>1 DEF BlockInv, HandsOK
  <2> QED
    BY <1>1, <1>4, <1>7, <2>1, <2>2 DEF BlockInv, HandsOK, Linked, Quarantined
<1>10. MappedOK'
  BY <1>1, <1>5, <1>7 DEF BlockInv, MappedOK
<1>11. ExclusiveOK'
  <2> SUFFICES ASSUME NEW u \in Threads, op[u] \in ExclusiveOps, u \notin dangling'
               PROVE  /\ \A v \in Threads \ dangling' : ptr[v] = ptr[u] => v = u
                      /\ ~Holds(u) => Live(meta'[ptr[u]])
    BY <1>1, <1>4 DEF ExclusiveOK
  <2>1. meta'[ptr[u]] = meta[ptr[u]] /\ u \notin dangling
    BY <1>1, <1>6
  <2> QED
    BY <1>1, <2>1 DEF BlockInv, ExclusiveOK
<1>12. ExclusiveKept'
  BY <1>1, <1>6 DEF BlockInv, ExclusiveKept, TypeInv, TypeOK
<1>13. QuarantineSound'
  BY <1>1 DEF QuarantineSound
<1>14. Accounted'
  <2> SUFFICES ASSUME NEW c \in heap'
               PROVE  Accounted!(c)'
    BY DEF Accounted
  <2>1. c \in heap /\ c \notin old /\ c \in Addrs /\ meta'[c] = meta[c]
    BY <1>1, <1>7
  <2>2. ~Quarantined(c)
    BY <1>2, <2>1
  <2> QED
    BY <1>1, <1>4, <2>1, <2>2 DEF BlockInv, Accounted, Linked
<1>15. ListsChained'
  BY <1>1, <1>3 DEF ListsChained, Linked
<1> QED
  BY <1>8, <1>9, <1>10, <1>11, <1>12, <1>13, <1>14, <1>15 DEF BlockInv

-----------------------------------------------------------------------------
(* Every step is one of the kinds the lemmas above treat.                  *)
LEMMA StepKinds ==
  ASSUME TypeInv, [Next]_vars
  PROVE  \/ Settled
         \/ \E t \in Threads :
              \/ insert_meta(t) \/ remove_meta(t) \/ quarantine_block(t)
              \/ check_leaks_sweep(t) \/ SectionCall(t) \/ owner_realloc_internal(t)
              \/ \E a \in Addrs :
                   \/ owner_malloc_internal(t, a) \/ global_realloc(t, a)
                   \/ \E o \in Ops : Call(t, o, a)
<1>1. CASE UNCHANGED vars
  BY <1>1 DEF vars, Settled, BlockVars
<1>2. CASE Terminated
  BY <1>2 DEF Terminated, vars, Settled, BlockVars
<1>3. ASSUME NEW t \in Threads,
             \/ owner_malloc_null(t) \/ CallUntracked(t) \/ Exit(t)
             \/ SHARD_LOCK(t) \/ check_leaks(t) \/ ownedc_diagnostics_fatal(t)
             \/ ExitAgain(t) \/ check_leaks_exit(t) \/ UseAfterReturn(t)
      PROVE  Settled
  <2>1. CASE owner_malloc_null(t)
    BY <2>1 DEF owner_malloc_null, Settled, BlockVars, blocks, lists, ring, control
  <2>2. CASE CallUntracked(t)
    BY <2>2 DEF CallUntracked, Settled, BlockVars, blocks, lists, ring, control,
         Leave, Enter, At, Holds, TypeInv, TypeOK
  <2>3. CASE Exit(t) \/ ownedc_diagnostics_fatal(t)
    BY <2>3 DEF Exit, ownedc_diagnostics_fatal, RunExit, Settled, BlockVars,
         blocks, lists, ring, At, Holds, TypeInv, TypeOK
  <2>4. CASE SHARD_LOCK(t)
    BY <2>4 DEF SHARD_LOCK, Settled, BlockVars, blocks, lists, ring, Goto, At,
         Holds, TypeInv, TypeOK
  <2>5. CASE ExitAgain(t)
    BY <2>5 DEF ExitAgain, Settled, BlockVars, blocks, lists, ring, At, Holds,
         TypeInv, TypeOK
  <2>6. CASE check_leaks(t) \/ check_leaks_exit(t) \/ UseAfterReturn(t)
    BY <2>6 DEF check_leaks, check_leaks_exit, UseAfterReturn, Settled,
         BlockVars, blocks, lists, ring, control
  <2> QED
    BY <1>3, <2>1, <2>2, <2>3, <2>4, <2>5, <2>6
<1>4. \A o \in ClientOps : o \in Ops
  BY RegistryAssumption
<1> QED
  BY <1>1, <1>2, <1>3, <1>4
     DEF Next, Client, Acquire, Continue, SectionCall

(* The header and the borrow counter go on agreeing.                       *)
LEMMA BorrowsStep ==
  ASSUME TypeInv, BlockInv, BorrowsAgree, [Next]_vars
  PROVE  BorrowsAgree'
<1>1. CASE Settled
  BY <1>1 DEF Settled, BlockVars, BorrowsAgree
<1>2. ASSUME NEW t \in Threads,
             \/ insert_meta(t) \/ remove_meta(t) \/ owner_realloc_internal(t)
             \/ \E a \in Addrs, o \in Ops : Call(t, o, a)
      PROVE  BorrowsAgree'
  BY <1>2 DEF insert_meta, remove_meta, owner_realloc_internal, Call, blocks,
              BorrowsAgree
<1>3. ASSUME NEW t \in Threads,
             quarantine_block(t) \/ check_leaks_sweep(t)
      PROVE  BorrowsAgree'
  BY <1>3 DEF quarantine_block, check_leaks_sweep, BorrowsAgree, NoMeta
<1>4. ASSUME NEW t \in Threads, NEW a \in Addrs,
             owner_malloc_internal(t, a) \/ global_realloc(t, a)
      PROVE  BorrowsAgree'
  <2>1. CASE owner_malloc_internal(t, a)
    BY <2>1 DEF owner_malloc_internal, BorrowsAgree, NewMeta, TypeInv, TypeOK
  <2>2. CASE global_realloc(t, a)
    <3>1. ptr[t] \in Addrs
      BY <2>2 DEF global_realloc, At, TypeInv, CallOK
    <3> QED
      BY <2>2, <3>1 DEF global_realloc, BorrowsAgree, NoMeta
  <2> QED
    BY <1>4, <2>1, <2>2
<1>5. ASSUME NEW t \in Threads, SectionCall(t)
      PROVE  BorrowsAgree'
  <2> DEFINE a == ptr[t]
             m == meta[a]
  <2>1. a \in Addrs /\ m \in Meta
    BY <1>5 DEF SectionCall, owner_free_internal, ownership_claim,
         ownership_borrow, ownership_release, ownership_share, Section, At,
         TypeInv, TypeOK, CallOK
  <2>2. /\ m.borrow_count \in Nat
        /\ m.state = "BORROWED" => m.borrow_count > 0
        /\ m.state = "FREED" => m.borrow_count = 0
    BY <2>1 DEF BorrowsAgree, Meta
  <2> SUFFICES
        \/ meta' = meta
        \/ \E n : /\ meta' = [meta EXCEPT ![a] = n]
                  /\ n.state = "BORROWED" => n.borrow_count > 0
                  /\ n.state = "FREED" => n.borrow_count = 0
    BY <2>1 DEF BorrowsAgree, TypeInv, TypeOK
  <2>3. CASE owner_free_internal(t)
    <3>1. meta' = meta \/ (~free_fault(m, t) /\ meta' = [meta EXCEPT ![a] = Freed(m)])
      BY <2>3 DEF owner_free_internal, Section, Header
    <3>2. ~free_fault(m, t) => Freed(m).state = "FREED" /\ Freed(m).borrow_count = 0
      BY <2>1, <2>2 DEF free_fault, Freed, Meta
    <3> QED
      BY <3>1, <3>2
  <2>4. CASE ownership_claim(t)
    <3>1. meta' = [meta EXCEPT ![a] = Claimed(m, t)]
      BY <2>4 DEF ownership_claim, Section, Header
    <3>2. Claimed(m, t).state = "OWNED"
      BY <2>1 DEF Claimed, Meta
    <3> QED
      BY <3>1, <3>2
  <2>5. CASE ownership_borrow(t)
    <3>1. meta' = meta \/ meta' = [meta EXCEPT ![a] = Borrowed(m)]
      BY <2>5 DEF ownership_borrow, Section, Header
    <3>2. Borrowed(m).state # "FREED" /\ Borrowed(m).borrow_count > 0
      BY <2>1, <2>2 DEF Borrowed, Meta
    <3> QED
      BY <3>1, <3>2
  <2>6. CASE ownership_release(t)
    <3>1. meta' = meta \/ (~release_fault(m) /\ meta' = [meta EXCEPT ![a] = Released(m)])
      BY <2>6 DEF ownership_release, Section, Header
    <3>2. ASSUME ~release_fault(m)
          PROVE  /\ Released(m).state = "BORROWED" => Released(m).borrow_count > 0
                 /\ Released(m).state # "FREED"
      BY <2>1, <2>2, <3>2 DEF Released, release_fault, Meta
    <3> QED
      BY <3>1, <3>2
  <2>7. CASE ownership_share(t)
    <3>1. meta' = meta \/ meta' = [meta EXCEPT ![a] = Shared(m)]
      BY <2>7 DEF ownership_share, Section, Header
    <3>2. Shared(m).state = "SHARED"
      BY <2>1 DEF Shared, Meta
    <3> QED
      BY <3>1, <3>2
  <2> QED
    BY <1>5, <2>3, <2>4, <2>5, <2>6, <2>7 DEF SectionCall
<1> QED
  BY <1>1, <1>2, <1>3, <1>4, <1>5, StepKinds

(* Locks are held through locked sections and no longer.                   *)
LEMMA LocksStep ==
  ASSUME TypeInv, LocksHeld, [Next]_vars
  PROVE  LocksHeld'
<1> DEFINE Quiet == /\ registry_mutexes' = registry_mutexes
                    /\ \A u \in Threads :
                         /\ pc'[u] = "locked" <=> pc[u] = "locked"
                         /\ pc[u] = "locked" => ptr'[u] = ptr[u]
<1>1. Quiet => LocksHeld'
  BY DEF LocksHeld
<1>2. CASE UNCHANGED vars \/ Terminated
  <2>1. Quiet
    BY <1>2 DEF Terminated, vars
  <2> QED
    BY <1>1, <2>1
<1>3. ASSUME NEW t \in Threads, Client(t)
      PROVE  Quiet
  <2>1. CASE owner_malloc_null(t) \/ CallUntracked(t) \/ Exit(t)
    BY <2>1 DEF owner_malloc_null, CallUntracked, Exit, RunExit, control, Leave,
         Enter, At, TypeInv, TypeOK
  <2>2. ASSUME NEW a \in Addrs, owner_malloc_internal(t, a)
        PROVE  Quiet
    BY <2>2 DEF owner_malloc_internal, Enter, At, TypeInv, TypeOK
  <2>3. ASSUME NEW a \in Addrs, NEW o, Call(t, o, a)
        PROVE  Quiet
    BY <2>3 DEF Call, Enter, At, TypeInv, TypeOK
  <2> QED
    BY <1>3, <2>1, <2>2, <2>3 DEF Client
<1>4. ASSUME NEW t \in Threads, insert_meta(t) \/ remove_meta(t) \/ check_leaks(t)
      PROVE  Quiet
  BY <1>4 DEF insert_meta, remove_meta, check_leaks, control, Leave, Enter, Goto,
              At, TypeInv, TypeOK
<1>5. ASSUME NEW t \in Threads, SHARD_LOCK(t)
      PROVE  LocksHeld'
  <2>1. /\ pc[t] = "section" /\ ptr' = ptr
        /\ pc' = [pc EXCEPT ![t] = "locked"]
        /\ registry_mutexes' =
             [registry_mutexes EXCEPT ![get_shard_idx(ptr[t])] = t]
        /\ registry_mutexes[get_shard_idx(ptr[t])] = NoThread
    BY <1>5 DEF SHARD_LOCK, Goto, At, Mutex
  <2>2. get_shard_idx(ptr[t]) \in Shards
    BY ShardIdx DEF TypeInv, TypeOK
  <2> QED
    BY <2>1, <2>2, NoThreadAssumption DEF LocksHeld, TypeInv, TypeOK
<1>6. ASSUME NEW t \in Threads, SectionCall(t)
      PROVE  LocksHeld'
  <2>1. ASSUME NEW o, NEW fault, NEW m, NEW l \in {"idle", "remove"},
               Section(t, o, fault, m, l)
        PROVE  /\ pc[t] = "locked"
               /\ SHARD_UNLOCK(t)
               /\ \/ Leave(t, "fatal") \/ Leave(t, "idle") \/ Goto(t, "remove")
    BY <2>1 DEF Section, At
  <2>2. /\ pc[t] = "locked"
        /\ registry_mutexes' =
             [registry_mutexes EXCEPT ![get_shard_idx(ptr[t])] = NoThread]
        /\ pc'[t] # "locked"
        /\ \A u \in Threads : u # t => pc'[u] = pc[u] /\ ptr'[u] = ptr[u]
    BY <1>6, <2>1 DEF SectionCall, owner_free_internal, ownership_claim,
         ownership_borrow, ownership_release, ownership_share, SHARD_UNLOCK,
         Leave, Enter, Goto, TypeInv, TypeOK
  <2>3. get_shard_idx(ptr[t]) \in Shards
    BY ShardIdx DEF TypeInv, TypeOK
  <2>4. registry_mutexes[get_shard_idx(ptr[t])] = t
    BY <2>2, <2>3 DEF LocksHeld
  <2> QED
    BY <2>2, <2>3, <2>4, NoThreadAssumption DEF LocksHeld, TypeInv, TypeOK
<1>7. ASSUME NEW t \in Threads,
             \/ owner_realloc_internal(t) \/ quarantine_block(t)
             \/ ownedc_diagnostics_fatal(t) \/ ExitAgain(t)
             \/ check_leaks_sweep(t) \/ check_leaks_exit(t) \/ UseAfterReturn(t)
             \/ \E b \in Addrs : global_realloc(t, b)
      PROVE  Quiet
  <2>1. CASE owner_realloc_internal(t) \/ quarantine_block(t)
    BY <2>1 DEF owner_realloc_internal, quarantine_block, Leave, Enter, Goto, At,
                TypeInv, TypeOK
  <2>2. CASE ownedc_diagnostics_fatal(t) \/ ExitAgain(t)
    BY <2>2 DEF ownedc_diagnostics_fatal, RunExit, ExitAgain, At, TypeInv, TypeOK
  <2>3. CASE check_leaks_sweep(t) \/ check_leaks_exit(t) \/ UseAfterReturn(t)
    BY <2>3 DEF check_leaks_sweep, check_leaks_exit, UseAfterReturn, control
  <2>4. CASE \E b \in Addrs : global_realloc(t, b)
    BY <2>4 DEF global_realloc, Enter, At, TypeInv, TypeOK
  <2> QED
    BY <1>7, <2>1, <2>2, <2>3, <2>4
<1> QED
  BY <1>1, <1>2, <1>3, <1>4, <1>5, <1>6, <1>7
     DEF Next, Acquire, Continue, SectionCall

(* The invariant is inductive.                                             *)
LEMMA IInvStep ==
  ASSUME IInv, Disciplined, [Next]_vars
  PROVE  IInv'
<1>1. TypeInv /\ BlockInv /\ ListsChained /\ BorrowsAgree /\ LocksHeld
  BY DEF IInv, TypeInv, BlockInv
<1>2. TypeInv' /\ LocksHeld' /\ BorrowsAgree'
  BY <1>1, TypeStep, LocksStep, BorrowsStep
<1>3. BlockInv' /\ ListsChained'
  <2>1. CASE Settled
    <3>1. ListsChained'
      BY <1>1, <2>1 DEF Settled, BlockVars, ListsChained, Linked
    <3> QED
      BY <1>1, <2>1, <3>1, SettledStep
  <2>2. ASSUME NEW t \in Threads,
               insert_meta(t) \/ remove_meta(t) \/ quarantine_block(t)
               \/ check_leaks_sweep(t)
        PROVE  BlockInv' /\ ListsChained'
    BY <1>1, <2>2, InsertStep, RemoveStep, QuarantineStep, SweepStep
  <2>3. ASSUME NEW t \in Threads, SectionCall(t)
        PROVE  BlockInv' /\ ListsChained'
    <3>1. UNCHANGED <<heap, prev, next, registry_heads>>
      BY <2>3 DEF SectionCall, owner_free_internal, ownership_claim,
           ownership_borrow, ownership_release, ownership_share, Section, lists
    <3>2. ListsChained'
      BY <1>1, <3>1 DEF ListsChained, Linked
    <3> QED
      BY <1>1, <2>3, <3>2, SectionsStep
  <2>4. ASSUME NEW t \in Threads, owner_realloc_internal(t)
        PROVE  BlockInv' /\ ListsChained'
    <3>1. ListsChained'
      BY <1>1, <2>4 DEF owner_realloc_internal, blocks, lists, ListsChained, Linked
    <3> QED
      BY <1>1, <2>4, <3>1, ReallocStep
  <2>5. ASSUME NEW t \in Threads, NEW a \in Addrs, owner_malloc_internal(t, a)
        PROVE  BlockInv' /\ ListsChained'
    <3>1. ListsChained'
      BY <1>1, <2>5 DEF owner_malloc_internal, lists, ListsChained, Linked
    <3> QED
      BY <1>1, <2>5, <3>1, MallocStep
  <2>6. ASSUME NEW t \in Threads, NEW a \in Addrs, global_realloc(t, a)
        PROVE  BlockInv' /\ ListsChained'
    BY <1>1, <2>6, GlobalReallocStep
  <2>7. ASSUME NEW t \in Threads, NEW a \in Addrs, NEW o \in Ops, Call(t, o, a)
        PROVE  BlockInv' /\ ListsChained'
    <3>1. ListsChained'
      BY <1>1, <2>7 DEF Call, blocks, lists, ListsChained, Linked
    <3> QED
      BY <1>1, <2>7, <3>1, CallStep
  <2> QED
    BY <1>1, <2>1, <2>2, <2>3, <2>4, <2>5, <2>6, <2>7, StepKinds
<1> QED
  BY <1>2, <1>3 DEF IInv, TypeInv, BlockInv

(* The invariant holds in every reachable state.                           *)
THEOREM RegistryInvariant ==
  ASSUME Disciplined
  PROVE  Spec => []IInv
<1>1. Init => IInv
  <2> SUFFICES ASSUME Init PROVE IInv
    OBVIOUS
  <2>1. TypeInv
    BY TypeInit
  <2>2. LocksHeld
    BY NoThreadAssumption DEF Init, LocksHeld
  <2>3. BorrowsAgree /\ HeadersOK /\ HandsOK /\ MappedOK /\ QuarantineSound
    BY DEF Init, BorrowsAgree, HeadersOK, HandsOK, Holds, MappedOK,
           QuarantineSound, NoMeta
  <2>4. \A a \in Addrs : ~Linked(a) /\ next[a] = NULL /\ prev[a] = NULL
    BY ShardIdx, RegistryAssumption DEF Init, Linked, AddrOrNull
  <2>5. ListsChained
    BY <2>4, RegistryAssumption DEF Init, ListsChained
  <2>6. "none" \notin ExclusiveOps
    BY RegistryAssumption DEF Ops
  <2>7. ExclusiveOK /\ ExclusiveKept /\ Accounted
    BY <2>6 DEF Init, ExclusiveOK, ExclusiveKept, Accounted
  <2> QED
    BY <2>1, <2>2, <2>3, <2>5, <2>7 DEF IInv, TypeInv
<1>2. IInv /\ [Next]_vars => IInv'
  BY IInvStep
<1> QED
  BY <1>1, <1>2, PTL DEF Spec

(* QuarantineSound: what the quarantine evicts is freed, mapped memory     *)
(* that nobody uses, evicted once.                                         *)
THEOREM QuarantineSafe ==
  ASSUME Disciplined
  PROVE  Spec => []QuarantineSound
<1>1. IInv => QuarantineSound
  BY DEF IInv
<1> QED
  BY <1>1, RegistryInvariant, PTL

(* HandsOK: between its lock sections a call has its block to itself.      *)
THEOREM HandsSafe ==
  ASSUME Disciplined
  PROVE  Spec => []HandsOK
<1>1. IInv => HandsOK
  BY DEF IInv
<1> QED
  BY <1>1, RegistryInvariant, PTL

(* Accounted: the runtime never loses a block.                             *)
THEOREM NothingLost ==
  ASSUME Disciplined
  PROVE  Spec => []Accounted
<1>1. IInv => Accounted
  BY DEF IInv
<1> QED
  BY <1>1, RegistryInvariant, PTL

(* ListsChained: the shards' lists stay doubly linked and acyclic.         *)
THEOREM ListsSafe ==
  ASSUME Disciplined
  PROVE  Spec => []ListsChained
<1>1. IInv => ListsChained
  BY DEF IInv
<1> QED
  BY <1>1, RegistryInvariant, PTL

(* LocksHeld: no thread leaves a locked section, least of all for the exit *)
(* handler, with the lock; this needs no discipline of the clients.        *)
THEOREM LocksReleased == Spec => []LocksHeld
<1>1. Init => TypeInv /\ LocksHeld
  BY TypeInit, NoThreadAssumption DEF Init, LocksHeld
<1>2. TypeInv /\ LocksHeld /\ [Next]_vars => TypeInv' /\ LocksHeld'
  BY TypeStep, LocksStep
<1> QED
  BY <1>1, <1>2, PTL DEF Spec

(* BorrowedKeepsMemory: whatever the order of borrows, claims and frees,   *)
(* the memory of a borrowed block is given back by a realloc of it or not  *)
(* at all.  Memory goes back at three places; the quarantine, from which   *)
(* two of them take it, holds freed blocks, and these have no borrows.     *)
THEOREM BorrowedSafe ==
  ASSUME Disciplined
  PROVE  Spec => BorrowedKeepsMemory
<1> DEFINE Kept == \A a \in heap :
                     meta[a].borrow_count > 0 /\ a \notin heap' =>
                       \E t \in Threads : pc[t] = "realloc" /\ ptr[t] = a
<1>1. ASSUME IInv, [Next]_vars PROVE Kept
  <2>1. TypeInv /\ TypeOK /\ QuarantineSound /\ BorrowsAgree
    BY <1>1 DEF IInv, TypeInv
  <2> SUFFICES ASSUME NEW a \in heap, meta[a].borrow_count > 0, a \notin heap'
               PROVE  \E t \in Threads : pc[t] = "realloc" /\ ptr[t] = a
    OBVIOUS
  <2>2. a \in Addrs /\ meta[a].borrow_count # 0 /\ a # NULL
    BY <2>1, RegistryAssumption DEF TypeOK, NULL
  <2>3. \A i \in Slots : quarantine[i] # a
    BY <2>1, <2>2 DEF QuarantineSound, BorrowsAgree
  <2>4. quarantine_tail \in Slots
    BY <2>1 DEF TypeOK
  <2>5. CASE Settled
    BY <2>5 DEF Settled, BlockVars
  <2>6. ASSUME NEW t \in Threads,
               \/ insert_meta(t) \/ remove_meta(t) \/ SectionCall(t)
               \/ owner_realloc_internal(t)
               \/ \E b \in Addrs : \/ owner_malloc_internal(t, b)
                                  \/ \E o \in Ops : Call(t, o, b)
        PROVE  a \in heap'
    BY <2>6 DEF insert_meta, remove_meta, SectionCall, owner_free_internal,
         ownership_claim, ownership_borrow, ownership_release, ownership_share,
         Section, owner_realloc_internal, owner_malloc_internal, Call, blocks
  <2>7. ASSUME NEW t \in Threads, quarantine_block(t) \/ check_leaks_sweep(t)
        PROVE  a \in heap'
    BY <2>3, <2>4, <2>7 DEF quarantine_block, check_leaks_sweep
  <2>8. ASSUME NEW t \in Threads, NEW b \in Addrs, global_realloc(t, b)
        PROVE  pc[t] = "realloc" /\ ptr[t] = a
    BY <2>8 DEF global_realloc, At
  <2> QED
    BY <1>1, <2>1, <2>5, <2>6, <2>7, <2>8, StepKinds
<1>2. IInv /\ [Next]_vars => [Kept]_vars
  BY <1>1
<1> QED
  BY <1>2, RegistryInvariant, PTL DEF Spec, BorrowedKeepsMemory

-----------------------------------------------------------------------------
(* From the invariant: the walk of the exit handler misses nothing, its leak
   report is exact, and the registry implements the life cycle of a block. *)

(* A walk from the head passes exactly the linked blocks of the shard: the *)
(* linked blocks are closed under next, and blocks the walk missed would   *)
(* be a set closed under prev, which an acyclic list does not have.        *)
LEMMA WalkLinked ==
  ASSUME TypeOK, ListsChained
  PROVE  WalkComplete
<1> SUFFICES ASSUME NEW s \in Shards
             PROVE  Walk(s) = {a \in Addrs : Linked(a) /\ get_shard_idx(a) = s}
  BY DEF WalkComplete
<1> DEFINE L == {a \in Addrs : Linked(a) /\ get_shard_idx(a) = s}
<1>1. NULL \notin Addrs
  BY RegistryAssumption
<1>2. registry_heads[s] \in L \cup {NULL}
  BY DEF TypeOK, ListsChained, Linked, AddrOrNull
<1>3. \A b \in L : next[b] \in L \cup {NULL}
  BY <1>1 DEF TypeOK, ListsChained, Linked, AddrOrNull
<1>4. Walk(s) \subseteq L
  BY <1>2, <1>3 DEF Walk
<1>5. ASSUME NEW a \in L, NEW S \in SUBSET Addrs,
             registry_heads[s] \in S \cup {NULL},
             \A b \in S : next[b] \in S \cup {NULL}
      PROVE  a \in S
  <2>1. SUFFICES ASSUME L \ S # {} PROVE FALSE
    BY <1>5
  <2>2. PICK b \in L \ S : prev[b] \notin L \ S
    BY <2>1, L \ S \in SUBSET Addrs DEF ListsChained
  <2>3. b \in Addrs /\ Linked(b) /\ get_shard_idx(b) = s /\ b \notin S
    BY <2>2
  <2>4. prev[b] # NULL
    BY <1>1, <1>5, <2>3 DEF Linked
  <2>5. prev[b] \in Addrs /\ next[prev[b]] = b /\ get_shard_idx(prev[b]) = s
    BY <2>3, <2>4 DEF TypeOK, ListsChained, AddrOrNull
  <2>6. Linked(prev[b])
    BY <1>1, <2>3, <2>5 DEF ListsChained
  <2> QED
    BY <1>1, <1>5, <2>2, <2>3, <2>5, <2>6
<1> QED
  BY <1>4, <1>5 DEF Walk

(* WalkComplete holds in every reachable state.                            *)
THEOREM WalksComplete ==
  ASSUME Disciplined
  PROVE  Spec => []WalkComplete
<1>1. IInv => WalkComplete
  BY WalkLinked DEF IInv
<1> QED
  BY <1>1, RegistryInvariant, PTL

-----------------------------------------------------------------------------
(* The leak report.                                                        *)

\* At an orderly exit the other threads stay out of the runtime, and the
\* report is exact for the shards already walked.
ScanInv ==
  /\ status = "running" =>
       scan = 0 /\ leaked = {} /\ \A t \in Threads : pc[t] # "leaks"
  /\ status = "joined" =>
       /\ \A t \in Threads : pc[t] \in {"idle", "leaks"}
       /\ leaked = {a \in heap : get_shard_idx(a) < scan /\ ReportedAsLeak(meta[a])}

(* Every step keeps the report exact.                                      *)
LEMMA ScanStep ==
  ASSUME IInv, ScanInv, [Next]_vars
  PROVE  ScanInv'
<1>1. CASE UNCHANGED vars \/ Terminated
  BY <1>1 DEF vars, Terminated, ScanInv
<1>2. ASSUME NEW t \in Threads, Client(t)
      PROVE  ScanInv'
  <2>1. CASE owner_malloc_null(t)
    BY <2>1 DEF owner_malloc_null, ScanInv, exiting, control
  <2>2. CASE CallUntracked(t)
    BY <2>2 DEF CallUntracked, ScanInv, control, Leave, Enter, IInv, TypeOK
  <2>3. CASE Exit(t)
    <3>1. scan = 0 /\ leaked = {}
      BY <2>3 DEF Exit, ScanInv
    <3>2. \A a \in heap : get_shard_idx(a) \in Nat
      BY ShardIdx, RegistryAssumption DEF Shards, IInv, TypeOK, AddrOrNull
    <3>3. {a \in heap : get_shard_idx(a) < 0 /\ ReportedAsLeak(meta[a])} = {}
      BY <3>2
    <3>4. CASE atexit_registered
      BY <2>3, <3>1, <3>3, <3>4 DEF Exit, RunExit, ScanInv, blocks, IInv, TypeOK
    <3>5. CASE ~atexit_registered
      BY <2>3, <3>5 DEF Exit, RunExit, ScanInv
    <3> QED
      BY <3>4, <3>5
  <2>4. ASSUME NEW a \in Addrs, owner_malloc_internal(t, a)
        PROVE  ScanInv'
    BY <2>4 DEF owner_malloc_internal, ScanInv, exiting, Enter, IInv, TypeOK
  <2>5. ASSUME NEW a \in Addrs, NEW o, Call(t, o, a)
        PROVE  ScanInv'
    BY <2>5 DEF Call, ScanInv, exiting, Enter, IInv, TypeOK
  <2> QED
    BY <1>2, <2>1, <2>2, <2>3, <2>4, <2>5 DEF Client
<1>3. ASSUME NEW t \in Threads, check_leaks(t)
      PROVE  ScanInv'
  <2>1. /\ UNCHANGED <<status, pc, heap, meta>>
        /\ scan \in Shards /\ scan' = scan + 1
        /\ leaked' = leaked \cup {a \in Walk(scan) : ReportedAsLeak(meta[a])}
        /\ pc[t] = "leaks"
    BY <1>3 DEF check_leaks, control, blocks, At
  <2>2. status # "running"
    BY <2>1 DEF ScanInv
  <2>3. ASSUME status = "joined"
        PROVE  leaked' = {a \in heap :
                 get_shard_idx(a) < scan + 1 /\ ReportedAsLeak(meta[a])}
    <3>1. Walk(scan) = {a \in Addrs : Linked(a) /\ get_shard_idx(a) = scan}
      BY <2>1, WalkLinked DEF IInv, WalkComplete
    <3>2. \A a \in Addrs : Linked(a) => a \in heap
      BY DEF IInv, ListsChained
    <3>3. \A u \in Threads : ~Holds(u)
      BY <2>3 DEF ScanInv, Holds
    <3>4. \A a \in heap : ReportedAsLeak(meta[a]) => Linked(a)
      BY <3>3, RegistryAssumption DEF IInv, Accounted, QuarantineSound,
           Quarantined, ReportedAsLeak, TypeOK
    <3>5. \A a \in heap : a \in Addrs /\ get_shard_idx(a) \in Nat
      BY ShardIdx, RegistryAssumption DEF Shards, IInv, TypeOK, AddrOrNull
    <3>6. scan \in Nat
      BY <2>1 DEF Shards
    <3>7. \A a \in heap : get_shard_idx(a) < scan + 1 <=>
                            get_shard_idx(a) < scan \/ get_shard_idx(a) = scan
      BY <3>5, <3>6
    <3>8. leaked = {a \in heap : get_shard_idx(a) < scan /\ ReportedAsLeak(meta[a])}
      BY <2>3 DEF ScanInv
    <3> QED
      BY <2>1, <3>1, <3>2, <3>4, <3>5, <3>7, <3>8
  <2> QED
    BY <2>1, <2>2, <2>3 DEF ScanInv
<1>4. ASSUME NEW t \in Threads, SHARD_LOCK(t) \/ insert_meta(t) \/ remove_meta(t)
      PROVE  ScanInv'
  <2>1. status # "joined"
    BY <1>4 DEF SHARD_LOCK, insert_meta, remove_meta, At, ScanInv
  <2> QED
    BY <1>4, <2>1 DEF SHARD_LOCK, insert_meta, remove_meta, exiting, Goto, Leave,
         Enter, ScanInv, IInv, TypeOK
<1>5. ASSUME NEW t \in Threads, check_leaks_sweep(t)
      PROVE  ScanInv'
  <2> DEFINE old == {quarantine[i] : i \in Slots}
  <2>1. /\ UNCHANGED <<status, leaked, pc>>
        /\ heap' = heap \ old
        /\ \A a \in Addrs : meta'[a] = IF a \in old THEN NoMeta ELSE meta[a]
        /\ scan = NUM_SHARDS /\ scan' = scan + 1
        /\ pc[t] = "leaks"
    BY <1>5 DEF check_leaks_sweep, control, At
  <2>2. status # "running"
    BY <2>1 DEF ScanInv
  <2>3. heap \subseteq Addrs
    BY DEF IInv, TypeOK
  <2>4. \A a \in heap : a \in old => ~ReportedAsLeak(meta[a])
    BY <2>3, RegistryAssumption DEF IInv, QuarantineSound, ReportedAsLeak
  <2>5. \A a \in heap : get_shard_idx(a) < NUM_SHARDS /\ get_shard_idx(a) < NUM_SHARDS + 1
    BY <2>3, ShardIdx, RegistryAssumption DEF Shards, AddrOrNull
  <2> HIDE DEF old
  <2> QED
    BY <2>1, <2>2, <2>3, <2>4, <2>5 DEF ScanInv
<1>6. ASSUME NEW t \in Threads, SectionCall(t)
      PROVE  ScanInv'
  <2>1. /\ pc[t] = "locked" /\ UNCHANGED <<status, scan, leaked>>
        /\ ~Ended
    BY <1>6 DEF SectionCall, owner_free_internal, ownership_claim,
         ownership_borrow, ownership_release, ownership_share, Section, exiting, At
  <2>2. status # "joined"
    BY <2>1 DEF ScanInv
  <2>3. \A u \in Threads : pc'[u] = "leaks" => pc[u] = "leaks"
    BY <1>6 DEF SectionCall, owner_free_internal, ownership_claim,
         ownership_borrow, ownership_release, ownership_share, Section, Leave,
         Enter, Goto, IInv, TypeOK
  <2> QED
    BY <2>1, <2>2, <2>3 DEF ScanInv, IInv, TypeOK
<1>7. ASSUME NEW t \in Threads, owner_realloc_internal(t) \/ quarantine_block(t)
      PROVE  ScanInv'
  <2>1. status # "joined"
    BY <1>7 DEF owner_realloc_internal, quarantine_block, At, ScanInv
  <2> QED
    BY <1>7, <2>1 DEF owner_realloc_internal, quarantine_block, exiting, Goto,
         Leave, Enter, ScanInv, IInv, TypeOK
<1>8. ASSUME NEW t \in Threads, NEW b \in Addrs, global_realloc(t, b)
      PROVE  ScanInv'
  <2>1. status # "joined"
    BY <1>8 DEF global_realloc, At, ScanInv
  <2> QED
    BY <1>8, <2>1 DEF global_realloc, exiting, Enter, ScanInv, IInv, TypeOK
<1>9. ASSUME NEW t \in Threads,
             \/ ownedc_diagnostics_fatal(t) \/ ExitAgain(t)
             \/ check_leaks_exit(t) \/ UseAfterReturn(t)
      PROVE  ScanInv'
  BY <1>9 DEF ownedc_diagnostics_fatal, RunExit, ExitAgain, check_leaks_exit,
              UseAfterReturn, ScanInv, At, control, blocks
<1> QED
  BY <1>1, <1>2, <1>3, <1>4, <1>5, <1>6, <1>7, <1>8, <1>9
     DEF Next, Acquire, Continue, SectionCall

(* LeakReport: the report of an orderly exit is exact.                     *)
THEOREM LeakReportExact ==
  ASSUME Disciplined
  PROVE  Spec => LeakReport
<1>1. Init => ScanInv
  BY DEF Init, ScanInv
<1>2. IInv /\ ScanInv /\ [Next]_vars => ScanInv'
  BY ScanStep
<1>3. IInv /\ ScanInv /\ [Next]_vars =>
        [status = "joined" /\ status' = "exited" =>
           leaked = {a \in heap : ReportedAsLeak(meta[a])}]_vars
  <2> SUFFICES ASSUME IInv, ScanInv, Next, status = "joined", status' = "exited"
               PROVE  leaked = {a \in heap : ReportedAsLeak(meta[a])}
    BY DEF vars
  <2>1. scan = NUM_SHARDS + 1
    <3>1. ASSUME NEW t \in Threads, Client(t)
          PROVE  FALSE
      BY <3>1 DEF Client, owner_malloc_null, CallUntracked, Exit,
           owner_malloc_internal, Call, exiting
    <3>2. ASSUME NEW t \in Threads, Acquire(t)
          PROVE  FALSE
      BY <3>2 DEF Acquire, SHARD_LOCK, insert_meta, remove_meta, check_leaks,
           exiting
    <3>3. ASSUME NEW t \in Threads, Continue(t)
          PROVE  check_leaks_exit(t)
      BY <3>3 DEF Continue, owner_free_internal, ownership_claim,
           ownership_borrow, ownership_release, ownership_share, Section,
           owner_realloc_internal, global_realloc, quarantine_block,
           ownedc_diagnostics_fatal, ExitAgain, check_leaks_sweep,
           UseAfterReturn, exiting
    <3>4. ~Terminated
      BY DEF Terminated, vars
    <3> QED
      BY <3>1, <3>2, <3>3, <3>4 DEF Next, check_leaks_exit
  <2>2. \A a \in heap : get_shard_idx(a) < NUM_SHARDS + 1
    BY ShardIdx, RegistryAssumption DEF Shards, AddrOrNull, IInv, TypeOK
  <2> QED
    BY <2>1, <2>2 DEF ScanInv
<1> QED
  BY <1>1, <1>2, <1>3, RegistryInvariant, PTL DEF Spec, LeakReport

-----------------------------------------------------------------------------
(* The refinement of Lifecycle.                                            *)

(* Writing one header is writing one entry of each abstract variable.      *)
LEMMA OneHeader ==
  ASSUME TypeOK, NEW a \in Addrs, NEW n \in Meta, meta' = [meta EXCEPT ![a] = n]
  PROVE  /\ life' = [life EXCEPT ![a] = LifeOf(n)]
         /\ borrows' = [borrows EXCEPT ![a] = n.borrow_count]
         /\ owner' = [owner EXCEPT ![a] = n.owner_thread]
<1>1. \A b \in Addrs : meta'[b] = IF b = a THEN n ELSE meta[b]
  BY DEF TypeOK
<1>2. \A b \in Addrs :
        /\ LifeOf(meta'[b]) = IF b = a THEN LifeOf(n) ELSE LifeOf(meta[b])
        /\ meta'[b].borrow_count = IF b = a THEN n.borrow_count ELSE meta[b].borrow_count
        /\ meta'[b].owner_thread = IF b = a THEN n.owner_thread ELSE meta[b].owner_thread
  BY <1>1
<1>3. life' = [life EXCEPT ![a] = LifeOf(n)]
  BY <1>2 DEF life
<1>4. borrows' = [borrows EXCEPT ![a] = n.borrow_count]
  BY <1>2, Zenon DEF borrows
<1>5. owner' = [owner EXCEPT ![a] = n.owner_thread]
  BY <1>2, Zenon DEF owner
<1> QED
  BY <1>3, <1>4, <1>5

(* An entry that gets its old value again leaves the function as it is.    *)
LEMMA SameEntries ==
  ASSUME NEW a \in Addrs
  PROVE  /\ [life EXCEPT ![a] = life[a]] = life
         /\ [borrows EXCEPT ![a] = borrows[a]] = borrows
         /\ [owner EXCEPT ![a] = owner[a]] = owner
  BY DEF life, borrows, owner

(* What the abstract variables say of a header.                            *)
LEMMA LifeFacts ==
  ASSUME TypeOK, NEW a \in Addrs, NEW t \in Threads
  PROVE  /\ borrows[a] = meta[a].borrow_count
         /\ owner[a] = meta[a].owner_thread
         /\ life[a] = LifeOf(meta[a])
         /\ Live(meta[a]) => life[a] \in {"owned", "shared"}
         /\ Live(meta[a]) /\ ~Foreign(meta[a], t) =>
              life[a] = "shared" \/ (life[a] = "owned" /\ owner[a] = t)
  BY DEF life, borrows, owner, LifeOf, Live, Foreign

(* A locked section is a step of the block's life, or a fault and no step. *)
LEMMA SectionLife ==
  ASSUME IInv, Disciplined, NEW t \in Threads, SectionCall(t)
  PROVE  UNCHANGED meta \/ Abstract!Next
<1> DEFINE a == ptr[t]
           m == meta[a]
<1>1. pc[t] = "locked" /\ t \notin dangling /\ a \in Addrs
  BY DEF SectionCall, owner_free_internal, ownership_claim, ownership_borrow,
         ownership_release, ownership_share, Section, At, IInv, CallOK
<1>2. m \in Meta /\ m.state \in State /\ m.borrow_count \in Nat
  BY <1>1 DEF IInv, TypeOK, Meta
<1>3. m.state = "INVALID" => m = NoMeta
  BY <1>1 DEF IInv, HeadersOK
<1>4. ~Foreign(m, t) /\ m.state # "FREED" => Live(m)
  BY <1>2, <1>3, NoThreadAssumption DEF Foreign, Live, State, NoMeta
<1>5. op[t] \in ExclusiveOps => Live(m)
  BY <1>1 DEF IInv, ExclusiveOK, Holds
<1>6. /\ borrows[a] = m.borrow_count
      /\ owner[a] = m.owner_thread
      /\ life[a] = LifeOf(m)
      /\ Live(m) => life[a] \in {"owned", "shared"}
      /\ Live(m) /\ ~Foreign(m, t) =>
           life[a] = "shared" \/ (life[a] = "owned" /\ owner[a] = t)
  BY <1>1, LifeFacts DEF IInv
<1>7. /\ [life EXCEPT ![a] = life[a]] = life
      /\ [borrows EXCEPT ![a] = borrows[a]] = borrows
      /\ [owner EXCEPT ![a] = owner[a]] = owner
  BY <1>1, SameEntries
<1>h. /\ Freed(m) \in Meta /\ Claimed(m, t) \in Meta /\ Borrowed(m) \in Meta
      /\ Shared(m) \in Meta /\ (~release_fault(m) => Released(m) \in Meta)
  BY <1>2, HeaderTypes
<1>8. \A n \in Meta : meta' = [meta EXCEPT ![a] = n] =>
        /\ life' = [life EXCEPT ![a] = LifeOf(n)]
        /\ borrows' = [borrows EXCEPT ![a] = n.borrow_count]
        /\ owner' = [owner EXCEPT ![a] = n.owner_thread]
  BY <1>1, OneHeader DEF IInv
<1>9. CASE owner_free_internal(t)
  <2>1. UNCHANGED meta \/ (~free_fault(m, t) /\ meta' = [meta EXCEPT ![a] = Freed(m)])
    BY <1>9 DEF owner_free_internal, Section, Header
  <2>2. /\ LifeOf(Freed(m)) = "freed"
        /\ Freed(m).borrow_count = m.borrow_count
        /\ Freed(m).owner_thread = m.owner_thread
    BY <1>2 DEF Freed, LifeOf, Meta
  <2>3. ~free_fault(m, t) => ~Foreign(m, t) /\ Live(m) /\ m.borrow_count = 0
    BY <1>2, <1>4 DEF free_fault
  <2> HIDE DEF m, a
  <2>4. UNCHANGED meta \/ Abstract!Free(t, a)
    BY <1>h, <1>6, <1>7, <1>8, <2>1, <2>2, <2>3
       DEF Abstract!Free, Abstract!Entitled
  <2> QED
    BY <1>1, <2>4 DEF Abstract!Next
<1>10. CASE ownership_claim(t)
  <2>1. meta' = [meta EXCEPT ![a] = Claimed(m, t)] /\ Live(m)
    BY <1>5, <1>10 DEF ownership_claim, Section, Header, Disciplined
  <2>2. /\ LifeOf(Claimed(m, t)) = "owned"
        /\ Claimed(m, t).borrow_count = m.borrow_count
        /\ Claimed(m, t).owner_thread = t
    BY <1>2 DEF Claimed, LifeOf, Meta
  <2> HIDE DEF m, a
  <2>3. Abstract!Claim(t, a)
    BY <1>h, <1>6, <1>7, <1>8, <2>1, <2>2, ZenonT(40)
       DEF Abstract!Claim, Abstract!Alive
  <2> QED
    BY <1>1, <2>3 DEF Abstract!Next
<1>11. CASE ownership_borrow(t)
  <2>1. UNCHANGED meta \/ (~borrow_fault(m, t) /\ meta' = [meta EXCEPT ![a] = Borrowed(m)])
    BY <1>11 DEF ownership_borrow, Section, Header
  <2>2. Live(m) => /\ LifeOf(Borrowed(m)) = LifeOf(m)
                   /\ Borrowed(m).borrow_count = m.borrow_count + 1
                   /\ Borrowed(m).owner_thread = m.owner_thread
    BY <1>2 DEF Borrowed, LifeOf, Live, Meta
  <2>3. ~borrow_fault(m, t) => ~Foreign(m, t) /\ Live(m)
    BY <1>4 DEF borrow_fault
  <2> HIDE DEF m, a
  <2>4. UNCHANGED meta \/ Abstract!Borrow(t, a)
    BY <1>h, <1>6, <1>7, <1>8, <2>1, <2>2, <2>3
       DEF Abstract!Borrow, Abstract!Entitled
  <2> QED
    BY <1>1, <2>4 DEF Abstract!Next
<1>12. CASE ownership_release(t)
  <2>1. UNCHANGED meta \/ (~release_fault(m) /\ meta' = [meta EXCEPT ![a] = Released(m)])
    BY <1>12 DEF ownership_release, Section, Header
  <2>2. /\ LifeOf(Released(m)) = LifeOf(m)
        /\ Released(m).borrow_count = m.borrow_count - 1
        /\ Released(m).owner_thread = m.owner_thread
    BY <1>2 DEF Released, LifeOf, Meta
  <2>3. ~release_fault(m) => m.borrow_count > 0
    BY <1>2 DEF release_fault
  <2> HIDE DEF m, a
  <2>4. UNCHANGED meta \/ Abstract!Release(a)
    BY <1>h, <1>6, <1>7, <1>8, <2>1, <2>2, <2>3
       DEF Abstract!Release
  <2> QED
    BY <1>1, <2>4 DEF Abstract!Next
<1>13. CASE ownership_share(t)
  <2>1. UNCHANGED meta \/ (~share_fault(m, t) /\ meta' = [meta EXCEPT ![a] = Shared(m)])
    BY <1>13 DEF ownership_share, Section, Header
  <2>2. /\ LifeOf(Shared(m)) = "shared"
        /\ Shared(m).borrow_count = m.borrow_count
        /\ Shared(m).owner_thread = m.owner_thread
    BY <1>2 DEF Shared, LifeOf, Meta
  <2>3. Live(m) /\ (~share_fault(m, t) => m.owner_thread = t)
    BY <1>5, <1>13 DEF ownership_share, Section, share_fault, Disciplined
  <2> HIDE DEF m, a
  <2>4. UNCHANGED meta \/ Abstract!Share(t, a)
    BY <1>h, <1>6, <1>7, <1>8, <2>1, <2>2, <2>3
       DEF Abstract!Share, Abstract!Alive
  <2> QED
    BY <1>1, <2>4 DEF Abstract!Next
<1> QED
  BY <1>9, <1>10, <1>11, <1>12, <1>13 DEF SectionCall

(* Giving back the memory of freed blocks, and of no other, is Recycle.    *)
LEMMA RecycleLife ==
  ASSUME IInv, NEW S,
         \A b \in Addrs : b \in S => meta[b].state = "FREED",
         meta' = [b \in Addrs |-> IF b \in S THEN NoMeta ELSE meta[b]]
  PROVE  Abstract!Next
<1>1. \A b \in Addrs : b \in S => life[b] = "freed" /\ borrows[b] = 0
  BY DEF IInv, BorrowsAgree, life, borrows, LifeOf
<1>2. \A b \in Addrs :
        LifeOf(meta'[b]) = IF b \in S THEN "absent" ELSE LifeOf(meta[b])
  BY DEF LifeOf, NoMeta
<1>3. \A b \in Addrs :
        /\ meta'[b].borrow_count = IF b \in S THEN 0 ELSE meta[b].borrow_count
        /\ meta'[b].owner_thread = IF b \in S THEN NoThread ELSE meta[b].owner_thread
  BY DEF NoMeta
<1>4. life' = [b \in Addrs |-> IF b \in S \cap Addrs THEN "absent" ELSE life[b]]
  BY <1>2 DEF life
<1>5. owner' = [b \in Addrs |-> IF b \in S \cap Addrs THEN NoThread ELSE owner[b]]
  BY <1>3 DEF owner
<1>6. borrows' = borrows
  BY <1>1, <1>3 DEF borrows
<1>7. Abstract!Recycle(S \cap Addrs)
  BY <1>1, <1>4, <1>5, <1>6 DEF Abstract!Recycle
<1> QED
  BY <1>7, S \cap Addrs \in SUBSET Addrs DEF Abstract!Next

(* owner_realloc moves a block its caller is entitled to, or leaves it.    *)
LEMMA MoveLife ==
  ASSUME IInv, NEW t \in Threads, NEW b \in Addrs, global_realloc(t, b)
  PROVE  UNCHANGED meta \/ Abstract!Next
<1> DEFINE a == ptr[t]
<1>1. /\ pc[t] = "realloc" /\ a \in Addrs /\ a \in heap
      /\ Live(meta[a]) /\ ~Foreign(meta[a], t)
  BY DEF global_realloc, At, IInv, CallOK, HandsOK, Holds
<1>2. \A c \in Addrs : meta'[c] = IF c = b THEN meta[a]
                                  ELSE IF c = a THEN NoMeta ELSE meta[c]
  BY DEF global_realloc
<1>3. meta' \in [Addrs -> Meta] /\ meta \in [Addrs -> Meta]
  BY <1>1, HeaderTypes DEF global_realloc, IInv, TypeOK
<1>4. CASE b = a
  BY <1>2, <1>3, <1>4
<1>5. CASE b # a
  <2>1. meta[b] = NoMeta
    BY <1>5 DEF global_realloc, IInv, HeadersOK
  <2>2. life[b] = "absent"
    BY <2>1 DEF life, LifeOf, NoMeta
  <2>3. life[a] = "shared" \/ (life[a] = "owned" /\ owner[a] = t)
    BY <1>1, LifeFacts DEF IInv
  <2>4. \A c \in Addrs :
          LifeOf(meta'[c]) = IF c = b THEN LifeOf(meta[a])
                             ELSE IF c = a THEN "absent" ELSE LifeOf(meta[c])
    BY <1>2 DEF LifeOf, NoMeta
  <2>5. \A c \in Addrs :
          /\ meta'[c].borrow_count = IF c = b THEN meta[a].borrow_count
               ELSE IF c = a THEN 0 ELSE meta[c].borrow_count
          /\ meta'[c].owner_thread = IF c = b THEN meta[a].owner_thread
               ELSE IF c = a THEN NoThread ELSE meta[c].owner_thread
    BY <1>2 DEF NoMeta
  <2> HIDE DEF a
  <2>6. life' = [life EXCEPT ![b] = life[a], ![a] = "absent"]
    BY <1>1, <1>5, <2>4 DEF life
  <2>7. borrows' = [borrows EXCEPT ![b] = borrows[a], ![a] = 0]
    BY <1>1, <1>5, <2>5 DEF borrows
  <2>8. owner' = [owner EXCEPT ![b] = owner[a], ![a] = NoThread]
    BY <1>1, <1>5, <2>5 DEF owner
  <2>9. Abstract!Move(t, a, b)
    BY <2>2, <2>3, <2>6, <2>7, <2>8 DEF Abstract!Move, Abstract!Entitled
  <2> QED
    BY <1>1, <2>9 DEF Abstract!Next
<1> QED
  BY <1>4, <1>5

(* Every step of the registry is a step of a block's life, or none.        *)
LEMMA LifeStep ==
  ASSUME IInv, Disciplined, [Next]_vars
  PROVE  [Abstract!Next]_(Abstract!vars)
<1>1. UNCHANGED meta => UNCHANGED Abstract!vars
  BY DEF Abstract!vars, life, borrows, owner
<1>2. SUFFICES UNCHANGED meta \/ Abstract!Next
  BY <1>1
<1>3. CASE Settled
  BY <1>3 DEF Settled, BlockVars
<1>4. ASSUME NEW t \in Threads,
             \/ insert_meta(t) \/ remove_meta(t) \/ owner_realloc_internal(t)
             \/ \E a \in Addrs, o \in Ops : Call(t, o, a)
      PROVE  UNCHANGED meta
  BY <1>4 DEF insert_meta, remove_meta, owner_realloc_internal, Call, blocks
<1>5. ASSUME NEW t \in Threads, SectionCall(t)
      PROVE  UNCHANGED meta \/ Abstract!Next
  BY <1>5, SectionLife
<1>6. ASSUME NEW t \in Threads, NEW b \in Addrs, global_realloc(t, b)
      PROVE  UNCHANGED meta \/ Abstract!Next
  BY <1>6, MoveLife
<1>7. ASSUME NEW t \in Threads, quarantine_block(t)
      PROVE  Abstract!Next
  <2> DEFINE S == {quarantine[quarantine_tail]}
  <2>1. meta' = [b \in Addrs |-> IF b \in S THEN NoMeta ELSE meta[b]]
    BY <1>7 DEF quarantine_block
  <2>2. quarantine_tail \in Slots /\ NULL \notin Addrs
    BY RegistryAssumption DEF IInv, TypeOK
  <2>3. \A b \in Addrs : b \in S => meta[b].state = "FREED"
    BY <2>2 DEF IInv, QuarantineSound
  <2> QED
    BY <2>1, <2>3, RecycleLife
<1>8. ASSUME NEW t \in Threads, check_leaks_sweep(t)
      PROVE  Abstract!Next
  <2> DEFINE S == {quarantine[i] : i \in Slots}
  <2>1. meta' = [b \in Addrs |-> IF b \in S THEN NoMeta ELSE meta[b]]
    BY <1>8 DEF check_leaks_sweep
  <2>2. NULL \notin Addrs
    BY RegistryAssumption
  <2>3. \A b \in Addrs : b \in S => meta[b].state = "FREED"
    BY <2>2 DEF IInv, QuarantineSound
  <2> QED
    BY <2>1, <2>3, RecycleLife
<1>9. ASSUME NEW t \in Threads, NEW a \in Addrs, owner_malloc_internal(t, a)
      PROVE  Abstract!Next
  <2>1. meta[a] = NoMeta /\ meta' = [meta EXCEPT ![a] = NewMeta(t)]
    BY <1>9 DEF owner_malloc_internal, IInv, HeadersOK
  <2>2. life[a] = "absent" /\ borrows[a] = 0
    BY <2>1 DEF life, borrows, LifeOf, NoMeta
  <2>3. NewMeta(t) \in Meta
    BY DEF NewMeta, Meta, State
  <2>4. /\ life' = [life EXCEPT ![a] = LifeOf(NewMeta(t))]
        /\ borrows' = [borrows EXCEPT ![a] = NewMeta(t).borrow_count]
        /\ owner' = [owner EXCEPT ![a] = NewMeta(t).owner_thread]
    BY <2>1, <2>3, OneHeader DEF IInv
  <2>5. /\ LifeOf(NewMeta(t)) = "owned"
        /\ NewMeta(t).borrow_count = 0 /\ NewMeta(t).owner_thread = t
    BY DEF LifeOf, NewMeta
  <2>6. borrows' = borrows
    BY <2>2, <2>4, <2>5, SameEntries
  <2>7. Abstract!Allocate(t, a)
    BY <2>2, <2>4, <2>5, <2>6 DEF Abstract!Allocate
  <2> QED
    BY <2>7 DEF Abstract!Next
<1> QED
  BY <1>3, <1>4, <1>5, <1>6, <1>7, <1>8, <1>9, StepKinds DEF IInv, TypeInv

(* ImplementsLifecycle: whatever the threads do and however their lock     *)
(* sections interleave, clients that keep the discipline for claim, share  *)
(* and realloc see blocks live the life Lifecycle specifies.               *)
THEOREM RegistryImplements ==
  ASSUME Disciplined
  PROVE  Spec => ImplementsLifecycle
<1>1. Init => Abstract!Init
  BY DEF Init, Abstract!Init, life, borrows, owner, LifeOf, NoMeta
<1>2. IInv /\ [Next]_vars => [Abstract!Next]_(Abstract!vars)
  BY LifeStep
<1> QED
  BY <1>1, <1>2, RegistryInvariant, PTL DEF Spec, ImplementsLifecycle, Abstract!Spec
=============================================================================
