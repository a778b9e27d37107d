---------------------------- MODULE Collections -----------------------------
(***************************************************************************)
(* The vector of src/src/collections.c and the array of                    *)
(* src/src/ownedc_array.c.  Both keep pointers in a buffer whose size in   *)
(* bytes is computed modulo SizeMax.  The vector does not own its items    *)
(* and the array does: setting a slot frees what was there, freeing the    *)
(* array frees the rest.  A client gives an item to one slot of the array. *)
(* Calls with an index out of bounds abort: behaviours end there.          *)
(***************************************************************************)
EXTENDS SizeT, SequencesExt

CONSTANTS Items,           \* blocks of the runtime that are put in containers
          None,            \* the null pointer
          Garbage,         \* a cell that was not written
          PtrSize,         \* sizeof(void*)
          DefaultCap,      \* 4 in the code
          Caps,            \* the capacities clients ask for
          MaxItems         \* bound: the length of the vector

ASSUME CollectionsAssumption ==
  /\ PtrSize \in Nat \ {0, 1}
  /\ DefaultCap # 0 /\ MaxItems \in Nat
  /\ Caps \cup {DefaultCap} \subseteq Size
  /\ None # Garbage /\ {None, Garbage} \cap Items = {}

VARIABLES
  vec, vref,       \* the vector, and the items it should hold
  arr,             \* the array
  alive, hand,     \* items allocated, items the client has to free
  overrun          \* has a cell outside of a buffer been written?

colVars == <<vec, vref, arr, alive, hand, overrun>>

Absent == [live |-> FALSE, data |-> <<>>, length |-> 0, capacity |-> 0]

ColTypeOK ==
  /\ {vec, arr} \subseteq
       [live : BOOLEAN, data : Seq(Items \cup {None, Garbage}),
        length : 0 .. MaxItems, capacity : Size]
  /\ vref \in Seq(Items)
  /\ hand \subseteq alive /\ alive \subseteq Items
  /\ overrun \in BOOLEAN

ColInit ==
  /\ vec = Absent /\ vref = <<>> /\ arr = Absent
  /\ alive = {} /\ hand = {} /\ overrun = FALSE

\* The cells of a buffer for n pointers: the product wraps around.
Cells(n) == Times(n, PtrSize) \div PtrSize

Fill(n, v) == [i \in 1 .. n |-> v]

\* A container is used: nothing has gone wrong yet.
InUse(c) == ~overrun /\ c.live

-----------------------------------------------------------------------------
(* The vector.                                                             *)

safe_vector_create(n) ==
  LET cap == IF n = 0 THEN DefaultCap ELSE n IN
  /\ ~overrun /\ ~vec.live
  /\ vec' = [live |-> TRUE, data |-> Fill(Cells(cap), Garbage), length |-> 0, capacity |-> cap]
  /\ vref' = <<>>
  /\ UNCHANGED <<arr, alive, hand, overrun>>

\* Mutant: the capacity is tested after the item is counted.
grown_late(v) ==
  IF v.length <= v.capacity THEN v
  ELSE LET cap == Times(v.capacity, 2)
       IN  [v EXCEPT !.capacity = cap,
                     !.data = [i \in 1 .. Cells(cap) |-> IF i <= Len(@) THEN @[i] ELSE Garbage]]

grown(v) ==
  IF v.length < v.capacity THEN v
  ELSE LET cap == Times(v.capacity, 2)
       IN  [v EXCEPT !.capacity = cap,
                     !.data = [i \in 1 .. Cells(cap) |-> IF i <= Len(@) THEN @[i] ELSE Garbage]]

\* A size that has wrapped to zero frees the buffer, and the code stops.
safe_vector_push(x) ==
  LET v == grown(vec) IN
  /\ InUse(vec) /\ vec.length < MaxItems
  /\ v = vec \/ Times(v.capacity, PtrSize) # 0
  /\ vec' = [v EXCEPT !.length = @ + 1,
                      !.data = IF v.length < Len(@) THEN [@ EXCEPT ![v.length + 1] = x] ELSE @]
  /\ vref' = Append(vref, x)
  /\ overrun' = (v.length >= Len(v.data))
  /\ UNCHANGED <<arr, alive, hand>>

\* Mutant: the item after the removed one is not moved.
shifted_short(d, i, n) == [j \in DOMAIN d |-> IF j \in i + 2 .. n - 1 THEN d[j + 1] ELSE d[j]]

\* The n items of d, without the one at index i.
shifted(d, i, n) == [j \in DOMAIN d |-> IF j \in i + 1 .. n - 1 THEN d[j + 1] ELSE d[j]]

safe_vector_remove(i) ==
  /\ InUse(vec) /\ i < vec.length
  /\ vec' = [vec EXCEPT !.data = shifted(@, i, vec.length), !.length = @ - 1]
  /\ vref' = RemoveAt(vref, i + 1)
  /\ UNCHANGED <<arr, alive, hand, overrun>>

safe_vector_free ==
  /\ InUse(vec)
  /\ vec' = Absent
  /\ vref' = <<>>
  /\ UNCHANGED <<arr, alive, hand, overrun>>

VecNext ==
  \/ \E n \in Caps : safe_vector_create(n)
  \/ \E x \in Items : safe_vector_push(x)
  \/ \E i \in 0 .. MaxItems : safe_vector_remove(i)
  \/ safe_vector_free

-----------------------------------------------------------------------------
(* The array.                                                              *)

item_malloc(x) ==
  /\ ~overrun
  /\ x \notin alive
  /\ alive' = alive \cup {x} /\ hand' = hand \cup {x}
  /\ UNCHANGED <<vec, vref, arr, overrun>>

item_free(x) ==
  /\ ~overrun
  /\ x \in hand
  /\ alive' = alive \ {x} /\ hand' = hand \ {x}
  /\ UNCHANGED <<vec, vref, arr, overrun>>

owned_array_new(n) ==
  /\ ~overrun /\ ~arr.live
  /\ arr' = [live |-> TRUE, data |-> Fill(Cells(n), None), length |-> 0, capacity |-> n]
  /\ UNCHANGED <<vec, vref, alive, hand, overrun>>

\* Mutant: a slot is freed though it is set to what it holds.
replaced_same(old, p) == {old} \ {None}

\* What setting a slot to p frees.
replaced(old, p) == {old} \ {None, p}

\* p comes from the client, is NULL, or is what the slot already holds.
owned_array_set(i, p) ==
  /\ InUse(arr) /\ i < arr.capacity
  /\ overrun' = (i >= Len(arr.data))
  /\ IF overrun' THEN UNCHANGED <<arr, alive, hand>>
     ELSE /\ p \in hand \cup {None, arr.data[i + 1]}
          /\ arr' = [arr EXCEPT !.data[i + 1] = p]
          /\ alive' = alive \ replaced(arr.data[i + 1], p)
          /\ hand' = hand \ {p}
  /\ UNCHANGED <<vec, vref>>

\* The loop runs over the capacity, whatever the size of the buffer.
owned_array_free ==
  /\ InUse(arr)
  /\ overrun' = (arr.capacity > Len(arr.data))
  /\ IF overrun' THEN UNCHANGED <<arr, alive>>
     ELSE arr' = Absent /\ alive' = alive \ Range(arr.data)
  /\ UNCHANGED <<vec, vref, hand>>

ArrNext ==
  \/ \E x \in Items : item_malloc(x) \/ item_free(x)
  \/ \E n \in Caps : owned_array_new(n)
  \/ \E i \in 0 .. MaxItems, p \in Items \cup {None} : owned_array_set(i, p)
  \/ owned_array_free

ColSpec == ColInit /\ [][VecNext \/ ArrNext]_colVars

-----------------------------------------------------------------------------
(* Properties.                                                             *)

safe_vector_get(i) == IF i >= vec.length THEN "abort" ELSE vec.data[i + 1]

\* The vector returns at each index the item pushed there, in spite of growth and
\* removals.
VectorIntact ==
  /\ ColTypeOK
  /\ InUse(vec) => /\ vec.length = Len(vref)
                   /\ \A i \in 0 .. vec.length - 1 : safe_vector_get(i) = vref[i + 1]

\* Every item allocated is either the client's to free or in one slot of the
\* array, and no slot holds an item that was freed: none leaks, none is freed
\* twice.
ItemsOwnedOnce ==
  ~overrun =>
    \A x \in Items :
      Cardinality({i \in DOMAIN arr.data : arr.data[i] = x}) + (IF x \in hand THEN 1 ELSE 0)
        = IF x \in alive THEN 1 ELSE 0

\* Nothing is read or written outside of a buffer, unless the container was asked
\* for so many pointers that their size in bytes wrapped around: neither
\* owner_calloc nor safe_vector_create looks.
OverrunOnlyByWrap ==
  overrun => \E c \in {vec, arr} : c.live /\ c.capacity * PtrSize >= SizeMax

=============================================================================
