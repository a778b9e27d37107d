--------------------------- MODULE ContainerProofs --------------------------
(***************************************************************************)
(* The vector and the array of Collections, for any items and any SizeMax: *)
(* what a vector holds, who frees the items of an array, and that only a   *)
(* size that wrapped around makes either leave its buffer.  And the        *)
(* strings of SafeString: the text they hold.                              *)
(***************************************************************************)
EXTENDS Collections, SafeString, FiniteSetTheorems, SequenceTheorems,
        WellFoundedInduction, TLAPS

-----------------------------------------------------------------------------
(* Sizes.                                                                  *)

(* A product of two sizes is a size, and what it seems unless it wraps.    *)
LEMMA TimesFacts ==
  ASSUME NEW m \in Nat, NEW n \in Nat
  PROVE  /\ m * n \in Nat /\ Times(m, n) \in Size
         /\ m * n < SizeMax => Times(m, n) = m * n
         /\ Times(m, n) <= m * n
<1>1. PICK p \in Nat : p = m * n
  OBVIOUS
<1> QED
  BY <1>1, SizeTAssumption DEF Times, Size

(* How a product and a quotient go together.                               *)
LEMMA DivTimes ==
  ASSUME NEW a \in Nat, a > 0, NEW n \in Nat
  PROVE  /\ n \div a \in Nat
         /\ (n \div a) * a <= n
         /\ (n * a) \div a = n
  OBVIOUS

(* A buffer for n pointers has n cells unless its size wraps around, and   *)
(* in any case so few that their number can be doubled.                    *)
LEMMA CellsFacts ==
  ASSUME NEW n \in Size
  PROVE  /\ Cells(n) \in Nat
         /\ n * PtrSize < SizeMax => Cells(n) = n
         /\ Cells(n) <= n
         /\ 2 * Cells(n) < SizeMax
<1>1. n \in Nat /\ PtrSize \in Nat /\ PtrSize >= 2 /\ SizeMax \in Nat
  BY SizeTAssumption, CollectionsAssumption DEF Size
<1>2. PICK p \in Nat : p = Times(n, PtrSize) /\ p < SizeMax
                       /\ (n * PtrSize < SizeMax => p = n * PtrSize) /\ p <= n * PtrSize
  <2>1. \A x \in Size : x \in Nat /\ x < SizeMax
    BY <1>1 DEF Size
  <2> QED
    BY <1>1, <2>1, TimesFacts
<1>3. PICK c \in Nat : c = p \div PtrSize /\ c * PtrSize <= p
  BY <1>1, DivTimes
<1>4. Cells(n) = c
  BY <1>2, <1>3 DEF Cells
<1>5. n * PtrSize < SizeMax => c = n
  BY <1>1, <1>2, <1>3, DivTimes
<1>6. 2 * c <= c * PtrSize
  BY <1>1
<1>7. c * PtrSize \in Nat
  BY <1>1
<1>8. 2 * c < SizeMax
  BY <1>1, <1>2, <1>3, <1>6, <1>7
<1>9. c <= n
  <2> SUFFICES ASSUME c >= n + 1 PROVE FALSE
    BY <1>1
  <2>1. c * PtrSize >= (n + 1) * PtrSize
    BY <1>1
  <2>2. (n + 1) * PtrSize = n * PtrSize + PtrSize /\ n * PtrSize \in Nat
    BY <1>1
  <2> QED
    BY <1>1, <1>2, <1>3, <1>7, <2>1, <2>2
<1> QED
  BY <1>4, <1>5, <1>8, <1>9

-----------------------------------------------------------------------------
(* The inductive invariant.                                                *)

Cell == Items \cup {None, Garbage}

Container ==
  [live : BOOLEAN, data : Seq(Cell), length : 0 .. MaxItems, capacity : Size]

\* The buffer of a vector has the cells its capacity gives, and the items are in
\* front.
VecOK ==
  InUse(vec) =>
    /\ vec.capacity # 0
    /\ Len(vec.data) = Cells(vec.capacity)
    /\ vec.length = Len(vref) /\ vec.length <= Len(vec.data)
    /\ \A i \in 1 .. vec.length : vec.data[i] = vref[i]

\* The items that are alive and not the client's are in the slots of the array,
\* each in one.
ArrOK ==
  ~overrun =>
    /\ arr.live => Len(arr.data) = Cells(arr.capacity)
    /\ ~arr.live => arr.data = <<>>
    /\ \A i \in DOMAIN arr.data :
         arr.data[i] \in Items =>
           /\ arr.data[i] \in alive \ hand
           /\ \A j \in DOMAIN arr.data : arr.data[i] = arr.data[j] => i = j
    /\ \A x \in alive \ hand : \E i \in DOMAIN arr.data : arr.data[i] = x

ColInv == ColTypeOK /\ VecOK /\ ArrOK /\ OverrunOnlyByWrap

(* The type of the two containers.                                         *)
LEMMA TypeFacts ==
  ASSUME ColTypeOK
  PROVE  /\ vec \in Container /\ arr \in Container /\ vref \in Seq(Items)
         /\ hand \subseteq alive /\ alive \subseteq Items /\ overrun \in BOOLEAN
  BY DEF ColTypeOK, Container, Cell

(* A function on 1 .. n with values in S is a sequence of n elements.      *)
LEMMA FunctionIsSeq ==
  ASSUME NEW S, NEW n \in Nat, NEW f \in [1 .. n -> S]
  PROVE  f \in Seq(S) /\ Len(f) = n
<1>1. f \in Seq(S)
  BY SeqDef
<1> QED
  BY <1>1

(* A container without cells belongs to the type.                          *)
LEMMA AbsentFacts == Absent \in Container
  BY SizeTAssumption, CollectionsAssumption DEF Absent, Container, Size

(* A fresh buffer.                                                         *)
LEMMA FillFacts ==
  ASSUME NEW n \in Nat, NEW v \in Cell
  PROVE  /\ Fill(n, v) \in Seq(Cell) /\ Len(Fill(n, v)) = n
         /\ DOMAIN Fill(n, v) = 1 .. n /\ \A i \in 1 .. n : Fill(n, v)[i] = v
<1>1. Fill(n, v) \in [1 .. n -> Cell]
  BY DEF Fill
<1>2. DOMAIN Fill(n, v) = 1 .. n /\ \A i \in 1 .. n : Fill(n, v)[i] = v
  BY DEF Fill
<1> QED
  BY <1>1, <1>2, FunctionIsSeq

(* The properties of the vector and of the sizes follow from the invariant. *)
LEMMA InvImpliesVector ==
  ASSUME ColInv
  PROVE  VectorIntact
<1>1. ASSUME InUse(vec)
      PROVE  /\ vec.length = Len(vref)
             /\ \A i \in 0 .. vec.length - 1 : safe_vector_get(i) = vref[i + 1]
  <2>1. PICK n \in Nat : n = vec.length
    BY TypeFacts DEF ColInv, Container
  <2>2. \A i \in 0 .. n - 1 : i + 1 \in 1 .. n /\ ~(i >= n)
    OBVIOUS
  <2> QED
    BY <1>1, <2>1, <2>2 DEF ColInv, VecOK, safe_vector_get
<1> QED
  BY <1>1 DEF VectorIntact, ColInv

(* So does that of the items: a set of slots with one item has at most one  *)
(* element.                                                                *)
LEMMA InvImpliesItems ==
  ASSUME ColInv
  PROVE  ItemsOwnedOnce
<1> SUFFICES ASSUME ~overrun, NEW x \in Items
             PROVE  Cardinality({i \in DOMAIN arr.data : arr.data[i] = x})
                      + (IF x \in hand THEN 1 ELSE 0) = IF x \in alive THEN 1 ELSE 0
  BY DEF ItemsOwnedOnce
<1> DEFINE D == {i \in DOMAIN arr.data : arr.data[i] = x}
<1>1. ArrOK /\ hand \subseteq alive
  BY TypeFacts DEF ColInv
<1>2. CASE x \in alive \ hand
  <2>1. PICK i \in DOMAIN arr.data : arr.data[i] = x
    BY <1>1, <1>2 DEF ArrOK
  <2>2. D = {i}
    BY <1>1, <2>1 DEF ArrOK
  <2>3. Cardinality(D) = 1
    BY <2>2, FS_Singleton
  <2> QED
    BY <1>2, <2>3
<1>3. CASE x \notin alive \ hand
  <2>1. D = {}
    BY <1>1, <1>3 DEF ArrOK
  <2>2. Cardinality(D) = 0
    BY <2>1, FS_EmptySet
  <2> QED
    BY <1>1, <1>3, <2>2
<1> QED
  BY <1>2, <1>3

-----------------------------------------------------------------------------
(* The vector.                                                             *)

(* A new vector is empty and has room for the default if nothing is asked. *)
LEMMA VectorCreatePreserves ==
  ASSUME ColInv, NEW n \in Caps, safe_vector_create(n)
  PROVE  ColInv'
<1>1. PICK cap \in Size : cap = (IF n = 0 THEN DefaultCap ELSE n) /\ cap # 0
  BY CollectionsAssumption
<1>2. PICK k \in Nat : k = Cells(cap)
  BY CellsFacts
<1>3. PICK d \in Seq(Cell) : d = Fill(k, Garbage) /\ Len(d) = k
  BY FillFacts DEF Cell
<1>4. /\ vec' = [live |-> TRUE, data |-> d, length |-> 0, capacity |-> cap]
      /\ vref' = <<>> /\ UNCHANGED <<arr, alive, hand, overrun>> /\ ~overrun
  BY <1>1, <1>2, <1>3 DEF safe_vector_create
<1>5. vec' \in Container
  BY <1>4, CollectionsAssumption DEF Container
<1>6. ColTypeOK'
  BY <1>4, <1>5 DEF ColInv, ColTypeOK, Container, Cell
<1>7. VecOK'
  BY <1>1, <1>2, <1>3, <1>4 DEF VecOK, InUse
<1> QED
  BY <1>4, <1>6, <1>7 DEF ColInv, ArrOK, OverrunOnlyByWrap

(* A vector that is full doubles its capacity and keeps its items; it has  *)
(* no room for one more only if the size of the buffer has wrapped around. *)
LEMMA GrownFacts ==
  ASSUME ColTypeOK, VecOK, InUse(vec),
         grown(vec) = vec \/ Times(grown(vec).capacity, PtrSize) # 0
  PROVE  \E w \in Container :
           /\ w = grown(vec) /\ w.live /\ w.length = vec.length /\ w.capacity # 0
           /\ Len(w.data) = Cells(w.capacity)
           /\ \A i \in 1 .. vec.length : i <= Len(w.data) => w.data[i] = vec.data[i]
           /\ w.length >= Len(w.data) => w.capacity * PtrSize >= SizeMax
<1>1. PICK v \in Container, n \in Nat, m \in Nat, c \in Size :
        /\ v = vec /\ n = vec.length /\ m = Len(v.data) /\ c = vec.capacity /\ c # 0
        /\ c \in Nat /\ m = Cells(c) /\ n <= m /\ v.live
  <2>1. vec.capacity \in Nat /\ vec.length \in Nat /\ Len(vec.data) \in Nat
    BY TypeFacts, SizeTAssumption DEF Container, Size
  <2> QED
    BY <2>1, TypeFacts DEF Container, VecOK, InUse
<1>2. PtrSize \in Nat /\ SizeMax \in Nat
  BY CollectionsAssumption, SizeTAssumption
<1>3. \A s \in Size : s \in Nat /\ s * PtrSize \in Nat
  BY <1>2 DEF Size
<1>4. CASE n < c
  <2>1. grown(vec) = vec
    BY <1>1, <1>4 DEF grown
  <2>2. n >= m => c * PtrSize >= SizeMax
    <3>1. c * PtrSize < SizeMax => m = c
      BY <1>1, CellsFacts
    <3> QED
      BY <1>1, <1>2, <1>3, <1>4, <3>1
  <2> QED
    BY <1>1, <2>1, <2>2
<1>5. CASE ~(n < c)
  <2>1. PICK cap \in Size : cap = Times(c, 2)
    BY <1>1, TimesFacts
  <2>2. PICK k \in Nat : k = Cells(cap) /\ (cap * PtrSize < SizeMax => k = cap)
    BY CellsFacts
  <2>3. PICK d : d = [i \in 1 .. k |-> IF i <= m THEN v.data[i] ELSE Garbage]
    OBVIOUS
  <2>4. d \in Seq(Cell) /\ Len(d) = k
    <3>1. \A i \in 1 .. k : i <= m => v.data[i] \in Cell
      <4>1. PICK e \in Seq(Cell) : e = v.data /\ Len(e) = m
        BY <1>1 DEF Container
      <4>2. \A i \in 1 .. m : e[i] \in Cell
        BY <4>1
      <4> QED
        BY <4>1, <4>2
    <3>2. d \in [1 .. k -> Cell]
      BY <2>3, <3>1 DEF Cell
    <3> QED
      BY <3>2, FunctionIsSeq
  <2>5. PICK w : w = [v EXCEPT !.capacity = cap, !.data = d]
    OBVIOUS
  <2>6. w = grown(vec)
    BY <1>1, <1>5, <2>1, <2>2, <2>3, <2>5 DEF grown
  <2>7. /\ w \in Container /\ w.live /\ w.length = n /\ w.capacity = cap /\ w.data = d
    BY <1>1, <2>4, <2>5 DEF Container
  <2>8. \A i \in 1 .. n : i <= k => d[i] = v.data[i]
    BY <1>1, <2>3
  <2>9. n = c /\ 2 * n < SizeMax
    <3>1. 2 * m < SizeMax
      BY <1>1, CellsFacts
    <3>2. n <= c
      <4>1. m <= c
        BY <1>1, CellsFacts
      <4> QED
        BY <1>1, <4>1
    <3> QED
      BY <1>1, <1>2, <1>5, <3>1, <3>2
  <2>10. cap = 2 * n
    <3>1. c * 2 < SizeMax => Times(c, 2) = c * 2
      BY <1>1, TimesFacts
    <3>2. c * 2 = 2 * n
      BY <1>1, <2>9
    <3> QED
      BY <2>1, <2>9, <3>1, <3>2
  <2>11. cap # 0 /\ n < cap
    BY <1>1, <2>9, <2>10
  <2>12. n >= k => cap * PtrSize >= SizeMax
    <3>1. cap * PtrSize < SizeMax => k = cap
      BY <2>2
    <3> QED
      BY <1>2, <1>3, <2>11, <3>1
  <2> QED
    BY <1>1, <2>2, <2>4, <2>6, <2>7, <2>8, <2>11, <2>12
<1> QED
  BY <1>1, <1>4, <1>5

(* An item is put behind the others, in a buffer that has grown for it.    *)
LEMMA VectorPushPreserves ==
  ASSUME ColInv, NEW x \in Items, safe_vector_push(x)
  PROVE  ColInv'
<1>1. ColTypeOK /\ VecOK /\ InUse(vec) /\ ~overrun
  BY DEF ColInv, safe_vector_push, InUse
<1>2. PICK w \in Container :
        /\ w = grown(vec) /\ w.live /\ w.length = vec.length /\ w.capacity # 0
        /\ Len(w.data) = Cells(w.capacity)
        /\ \A i \in 1 .. vec.length : i <= Len(w.data) => w.data[i] = vec.data[i]
        /\ w.length >= Len(w.data) => w.capacity * PtrSize >= SizeMax
  BY <1>1, GrownFacts DEF safe_vector_push
<1>3. PICK n \in Nat, m \in Nat, d \in Seq(Cell), r \in Seq(Items) :
        /\ n = w.length /\ m = Len(d) /\ d = w.data /\ r = vref
  BY <1>1, TypeFacts DEF Container
<1>4. /\ n < MaxItems
      /\ vec' = [w EXCEPT !.length = n + 1,
                          !.data = IF n < m THEN [d EXCEPT ![n + 1] = x] ELSE d]
      /\ vref' = Append(r, x) /\ overrun' = (n >= m)
      /\ UNCHANGED <<arr, alive, hand>>
  BY <1>2, <1>3 DEF safe_vector_push
<1>5. /\ Len(r) = n /\ Append(r, x) \in Seq(Items) /\ Len(Append(r, x)) = n + 1
      /\ \A i \in 1 .. n : Append(r, x)[i] = r[i]
      /\ Append(r, x)[n + 1] = x
  <2>1. Len(r) = n
    BY <1>1, <1>2, <1>3 DEF VecOK
  <2> QED
    BY <2>1
<1>6. \A i \in 1 .. n : i <= m => d[i] = r[i]
  BY <1>1, <1>2, <1>3 DEF VecOK
<1>7. PICK e \in Seq(Cell) :
        /\ e = (IF n < m THEN [d EXCEPT ![n + 1] = x] ELSE d) /\ Len(e) = m
        /\ n < m => e[n + 1] = x /\ \A i \in 1 .. n : e[i] = d[i]
  <2>1. CASE n < m
    <3>1. n + 1 \in 1 .. Len(d) /\ x \in Cell
      BY <1>3, <2>1 DEF Cell
    <3>2. PICK f : f = [d EXCEPT ![n + 1] = x]
      OBVIOUS
    <3>3. /\ f \in Seq(Cell) /\ Len(f) = Len(d)
          /\ \A j \in 1 .. Len(d) : f[j] = IF j = n + 1 THEN x ELSE d[j]
      BY <3>1, <3>2, ExceptSeq
    <3>4. \A i \in 1 .. n : i \in 1 .. Len(d) /\ i # n + 1
      BY <1>3, <2>1
    <3>5. f[n + 1] = x /\ \A i \in 1 .. n : f[i] = d[i]
      BY <3>1, <3>3, <3>4
    <3> QED
      BY <1>3, <2>1, <3>2, <3>3, <3>5
  <2>2. CASE ~(n < m)
    <3>1. d = (IF n < m THEN [d EXCEPT ![n + 1] = x] ELSE d)
      BY <2>2
    <3> QED
      BY <1>3, <2>2, <3>1, Zenon
  <2> QED
    BY <2>1, <2>2
<1>8. /\ vec' \in Container /\ vec'.live /\ vec'.length = n + 1 /\ vec'.data = e
      /\ vec'.capacity = w.capacity
  <2>1. n + 1 \in 0 .. MaxItems
    BY <1>4, CollectionsAssumption
  <2> QED
    BY <1>2, <1>4, <1>7, <2>1 DEF Container
<1>9. ColTypeOK'
  <2>1. overrun' \in BOOLEAN
    BY <1>4
  <2>2. vref' \in Seq(Items) /\ UNCHANGED <<arr, alive, hand>>
    BY <1>4, <1>5
  <2> QED
    BY <1>1, <1>8, <2>1, <2>2 DEF ColTypeOK, Container, Cell
<1>10. VecOK'
  <2> SUFFICES ASSUME ~overrun' PROVE VecOK'
    BY DEF VecOK, InUse
  <2>1. n < m
    <3>1. ~(n >= m)
      BY <1>4, Zenon
    <3> QED
      BY <3>1
  <2>2. \A i \in 1 .. n + 1 : e[i] = Append(r, x)[i]
    <3>1. \A i \in 1 .. n + 1 : i = n + 1 \/ (i \in 1 .. n /\ i <= m)
      BY <2>1
    <3> QED
      BY <1>5, <1>6, <1>7, <2>1, <3>1
  <2>3. n + 1 <= m /\ m = Cells(w.capacity)
    BY <1>2, <1>3, <2>1
  <2> QED
    BY <1>2, <1>4, <1>5, <1>7, <1>8, <2>2, <2>3 DEF VecOK
<1>11. OverrunOnlyByWrap'
  BY <1>2, <1>3, <1>4, <1>8 DEF OverrunOnlyByWrap
<1>12. ArrOK'
  BY <1>1, <1>4 DEF ColInv, ArrOK
<1> QED
  BY <1>9, <1>10, <1>11, <1>12 DEF ColInv

\* e is s without its k-th element.
Without(s, k, e) ==
  /\ Len(e) = Len(s) - 1
  /\ \A j \in 1 .. Len(s) - 1 : e[j] = IF j < k THEN s[j] ELSE s[j + 1]

(* What RemoveAt returns.                                                  *)
LEMMA RemoveAtFacts ==
  ASSUME NEW S, NEW s \in Seq(S), NEW k \in 1 .. Len(s)
  PROVE  RemoveAt(s, k) \in Seq(S) /\ Without(s, k, RemoveAt(s, k))
<1>0. PICK n \in Nat : n = Len(s)
  OBVIOUS
<1> SUFFICES /\ RemoveAt(s, k) \in Seq(S) /\ Len(RemoveAt(s, k)) = n - 1
             /\ \A j \in 1 .. n - 1 : RemoveAt(s, k)[j] = IF j < k THEN s[j] ELSE s[j + 1]
  BY <1>0 DEF Without
<1> USE <1>0
<1> DEFINE a == SubSeq(s, 1, k - 1)
           b == SubSeq(s, k + 1, n)
<1>1. /\ a \in Seq(S) /\ b \in Seq(S)
      /\ Len(a) = k - 1 /\ Len(b) = n - k
      /\ \A i \in 1 .. k - 1 : a[i] = s[i]
      /\ \A i \in 1 .. n - k : b[i] = s[k + i]
  <2>1. \A i \in 1 .. n : s[i] \in S
    OBVIOUS
  <2>2. /\ \A i \in 1 .. k - 1 : s[i] \in S
        /\ \A i \in k + 1 .. n : s[i] \in S
    BY <2>1
  <2>3. /\ SubSeq(s, 1, k - 1) \in Seq(S)
        /\ Len(SubSeq(s, 1, k - 1)) = IF 1 <= k - 1 THEN (k - 1) - 1 + 1 ELSE 0
        /\ \A i \in 1 .. (k - 1) - 1 + 1 : SubSeq(s, 1, k - 1)[i] = s[1 + i - 1]
    BY <2>2, SubSeqProperties
  <2>4. /\ SubSeq(s, k + 1, n) \in Seq(S)
        /\ Len(SubSeq(s, k + 1, n)) = IF k + 1 <= n THEN n - (k + 1) + 1 ELSE 0
        /\ \A i \in 1 .. n - (k + 1) + 1 : SubSeq(s, k + 1, n)[i] = s[(k + 1) + i - 1]
    BY <2>2, SubSeqProperties
  <2>5. /\ (IF 1 <= k - 1 THEN (k - 1) - 1 + 1 ELSE 0) = k - 1
        /\ (IF k + 1 <= n THEN n - (k + 1) + 1 ELSE 0) = n - k
        /\ (k - 1) - 1 + 1 = k - 1 /\ n - (k + 1) + 1 = n - k
        /\ \A i \in Int : 1 + i - 1 = i /\ (k + 1) + i - 1 = k + i
    OBVIOUS
  <2>6. \A i \in 1 .. k - 1 : SubSeq(s, 1, k - 1)[i] = s[i]
    BY <2>3, <2>5
  <2>7. \A i \in 1 .. n - k : SubSeq(s, k + 1, n)[i] = s[k + i]
    BY <2>4, <2>5
  <2> QED
    BY <2>3, <2>4, <2>5, <2>6, <2>7
<1>2. PICK c : c = RemoveAt(s, k) /\ c = a \o b
  BY DEF RemoveAt
<1> HIDE DEF a, b
<1>3. /\ c \in Seq(S) /\ Len(c) = (k - 1) + (n - k)
      /\ \A i \in 1 .. (k - 1) + (n - k) : c[i] = IF i <= k - 1 THEN a[i] ELSE b[i - (k - 1)]
  <2>1. /\ a \o b \in Seq(S) /\ Len(a \o b) = Len(a) + Len(b)
        /\ \A i \in 1 .. Len(a) + Len(b) :
             (a \o b)[i] = IF i <= Len(a) THEN a[i] ELSE b[i - Len(a)]
    BY <1>1, ConcatProperties
  <2> QED
    BY <1>1, <1>2, <2>1
<1>4. (k - 1) + (n - k) = n - 1
  OBVIOUS
<1>5. ASSUME NEW j \in 1 .. n - 1
      PROVE  c[j] = IF j < k THEN s[j] ELSE s[j + 1]
  <2>1. CASE j < k
    <3>1. j \in 1 .. k - 1 /\ j <= k - 1
      BY <2>1
    <3> QED
      BY <1>1, <1>3, <1>4, <2>1, <3>1
  <2>2. CASE ~(j < k)
    <3>1. ~(j <= k - 1) /\ j - (k - 1) \in 1 .. n - k /\ k + (j - (k - 1)) = j + 1
      BY <2>2
    <3> QED
      BY <1>1, <1>3, <1>4, <2>2, <3>1
  <2> QED
    BY <2>1, <2>2
<1> QED
  BY <1>2, <1>3, <1>4, <1>5

(* The items behind the one removed move up.                               *)
LEMMA VectorRemovePreserves ==
  ASSUME ColInv, NEW i \in 0 .. MaxItems, safe_vector_remove(i)
  PROVE  ColInv'
<1>1. ColTypeOK /\ VecOK /\ InUse(vec) /\ ~overrun /\ vec \in Container
  BY TypeFacts DEF ColInv, safe_vector_remove, InUse
<1>2. PICK n \in Nat, m \in Nat, d \in Seq(Cell), r \in Seq(Items) :
        /\ n = vec.length /\ d = vec.data /\ m = Len(d) /\ r = vref
        /\ n = Len(r) /\ n <= m /\ n <= MaxItems
        /\ \A j \in 1 .. n : d[j] = r[j]
  <2>1. vec.length \in Nat /\ Len(vec.data) \in Nat /\ vec.length <= MaxItems
    BY <1>1, CollectionsAssumption DEF Container
  <2> QED
    BY <1>1, <2>1, TypeFacts DEF Container, VecOK
<1>3. PICK e : e = shifted(d, i, n)
  OBVIOUS
<1>4. i \in Nat /\ i < n
  BY <1>2, CollectionsAssumption DEF safe_vector_remove
<1>5. /\ vec' = [vec EXCEPT !.data = e, !.length = n - 1]
      /\ vref' = RemoveAt(r, i + 1) /\ UNCHANGED <<arr, alive, hand, overrun>>
  BY <1>2, <1>3 DEF safe_vector_remove
<1>6. /\ e \in Seq(Cell) /\ Len(e) = m
      /\ \A j \in 1 .. n - 1 : e[j] = IF j < i + 1 THEN d[j] ELSE d[j + 1]
  <2>1. DOMAIN d = 1 .. m /\ \A j \in 1 .. m : d[j] \in Cell
    BY <1>2
  <2>2. \A j \in 1 .. m : j \in i + 1 .. n - 1 => j + 1 \in 1 .. m
    BY <1>2, <1>4
  <2>3. e = [j \in 1 .. m |-> IF j \in i + 1 .. n - 1 THEN d[j + 1] ELSE d[j]]
    BY <1>3, <2>1 DEF shifted
  <2>4. e \in [1 .. m -> Cell]
    BY <2>1, <2>2, <2>3
  <2>5. \A j \in 1 .. n - 1 : j \in 1 .. m /\ (j < i + 1 <=> ~(j \in i + 1 .. n - 1))
    BY <1>2, <1>4
  <2> QED
    BY <2>3, <2>4, <2>5, FunctionIsSeq
<1>7. /\ vref' \in Seq(Items) /\ Len(vref') = n - 1
      /\ \A j \in 1 .. n - 1 : vref'[j] = IF j < i + 1 THEN r[j] ELSE r[j + 1]
  <2>1. PICK k \in 1 .. n : k = i + 1
    BY <1>4
  <2>2. /\ RemoveAt(r, k) \in Seq(Items) /\ Len(RemoveAt(r, k)) = n - 1
        /\ \A j \in 1 .. n - 1 : RemoveAt(r, k)[j] = IF j < k THEN r[j] ELSE r[j + 1]
    <3>1. n = Len(r) /\ k \in 1 .. Len(r)
      BY <1>2
    <3>2. RemoveAt(r, k) \in Seq(Items) /\ Without(r, k, RemoveAt(r, k))
      BY <3>1, RemoveAtFacts, Zenon
    <3> QED
      BY <3>1, <3>2 DEF Without
  <2> QED
    BY <1>5, <2>1, <2>2
<1>8. /\ vec' \in Container /\ vec'.live = vec.live /\ vec'.data = e
      /\ vec'.length = n - 1 /\ vec'.capacity = vec.capacity
  <2>1. n - 1 \in 0 .. MaxItems
    BY <1>2, <1>4, CollectionsAssumption
  <2> QED
    BY <1>1, <1>5, <1>6, <2>1 DEF Container
<1>9. ColTypeOK'
  BY <1>1, <1>5, <1>7, <1>8 DEF ColTypeOK, Container, Cell
<1>10. \A j \in 1 .. n - 1 : e[j] = vref'[j]
  <2>1. \A j \in 1 .. n - 1 : j \in 1 .. n /\ j + 1 \in 1 .. n
    OBVIOUS
  <2> QED
    BY <1>2, <1>6, <1>7, <2>1
<1>11. VecOK'
  <2>1. n - 1 <= m
    BY <1>2
  <2> QED
    BY <1>1, <1>2, <1>5, <1>6, <1>7, <1>8, <1>10, <2>1 DEF VecOK, InUse
<1> QED
  BY <1>1, <1>5, <1>9, <1>11 DEF ColInv, ArrOK, OverrunOnlyByWrap

(* A vector is freed, its items are not.                                   *)
LEMMA VectorFreePreserves ==
  ASSUME ColInv, safe_vector_free
  PROVE  ColInv'
<1>1. vec' = Absent /\ vref' = <<>> /\ UNCHANGED <<arr, alive, hand, overrun>> /\ ~overrun
  BY DEF safe_vector_free, InUse
<1>2. ColTypeOK' /\ ~vec'.live
  BY <1>1, AbsentFacts DEF ColInv, ColTypeOK, Container, Cell, Absent
<1> QED
  BY <1>1, <1>2 DEF ColInv, VecOK, InUse, ArrOK, OverrunOnlyByWrap

-----------------------------------------------------------------------------
(* The array.                                                              *)

(* What the steps of the array leave alone keeps the vector as it is.      *)
LEMMA VectorKept ==
  ASSUME ColInv, UNCHANGED <<vec, vref>>, ~overrun
  PROVE  VecOK'
  BY DEF ColInv, VecOK, InUse

(* The client allocates an item, which no slot holds.                      *)
LEMMA ItemMallocPreserves ==
  ASSUME ColInv, NEW x \in Items, item_malloc(x)
  PROVE  ColInv'
<1>1. /\ ~overrun /\ x \notin alive /\ alive' = alive \cup {x} /\ hand' = hand \cup {x}
      /\ UNCHANGED <<vec, vref, arr, overrun>>
  BY DEF item_malloc
<1>2. ColTypeOK'
  BY <1>1 DEF ColInv, ColTypeOK
<1>3. ArrOK'
  BY <1>1 DEF ColInv, ArrOK
<1> QED
  BY <1>1, <1>2, <1>3, VectorKept DEF ColInv, OverrunOnlyByWrap

(* The client frees one it has, which no slot holds either.                *)
LEMMA ItemFreePreserves ==
  ASSUME ColInv, NEW x \in Items, item_free(x)
  PROVE  ColInv'
<1>1. /\ ~overrun /\ x \in hand /\ alive' = alive \ {x} /\ hand' = hand \ {x}
      /\ UNCHANGED <<vec, vref, arr, overrun>>
  BY DEF item_free
<1>2. ColTypeOK'
  BY <1>1 DEF ColInv, ColTypeOK
<1>3. ArrOK'
  BY <1>1 DEF ColInv, ArrOK
<1> QED
  BY <1>1, <1>2, <1>3, VectorKept DEF ColInv, OverrunOnlyByWrap

(* A new array holds nothing.                                              *)
LEMMA ArrayNewPreserves ==
  ASSUME ColInv, NEW n \in Caps, owned_array_new(n)
  PROVE  ColInv'
<1>1. PICK k \in Nat : k = Cells(n) /\ n \in Size
  BY CollectionsAssumption, CellsFacts
<1>2. PICK d \in Seq(Cell) : /\ d = Fill(k, None) /\ Len(d) = k /\ DOMAIN d = 1 .. k
                             /\ \A i \in 1 .. k : d[i] = None
  BY FillFacts DEF Cell
<1>3. /\ arr' = [live |-> TRUE, data |-> d, length |-> 0, capacity |-> n]
      /\ ~overrun /\ ~arr.live /\ UNCHANGED <<vec, vref, alive, hand, overrun>>
  BY <1>1, <1>2 DEF owned_array_new
<1>4. arr' \in Container
  BY <1>1, <1>3, CollectionsAssumption DEF Container
<1>5. ColTypeOK'
  BY <1>3, <1>4 DEF ColInv, ColTypeOK, Container, Cell
<1>6. alive \ hand = {}
  <2>1. arr.data = <<>> /\ \A x \in alive \ hand : \E i \in DOMAIN arr.data : arr.data[i] = x
    BY <1>3 DEF ColInv, ArrOK
  <2> QED
    BY <2>1
<1>7. ArrOK'
  BY <1>1, <1>2, <1>3, <1>6, CollectionsAssumption DEF ArrOK
<1> QED
  BY <1>3, <1>5, <1>7, VectorKept DEF ColInv, OverrunOnlyByWrap

(* A slot inside the capacity is inside the buffer unless its size wrapped. *)
LEMMA ArrayRoom ==
  ASSUME ColInv, InUse(arr)
  PROVE  \E m \in Nat, c \in Nat :
           /\ m = Len(arr.data) /\ c = arr.capacity
           /\ m < c => c * PtrSize >= SizeMax
<1>1. arr \in Container /\ Len(arr.data) = Cells(arr.capacity)
  BY TypeFacts DEF ColInv, ArrOK, InUse
<1>2. PICK c \in Size : c = arr.capacity
  BY <1>1 DEF Container
<1>3. PICK m \in Nat : m = Cells(c) /\ (c * PtrSize < SizeMax => m = c)
  BY CellsFacts
<1>4. c \in Nat /\ PtrSize \in Nat /\ SizeMax \in Nat /\ c * PtrSize \in Nat
  BY SizeTAssumption, CollectionsAssumption DEF Size
<1>5. m < c => c * PtrSize >= SizeMax
  BY <1>3, <1>4
<1> QED
  BY <1>1, <1>2, <1>3, <1>4, <1>5

(* A slot is set to what the client has, to nothing or to what it holds;   *)
(* what it held otherwise is freed.                                        *)
LEMMA ArraySetPreserves ==
  ASSUME ColInv, NEW i \in 0 .. MaxItems, NEW p \in Items \cup {None}, owned_array_set(i, p)
  PROVE  ColInv'
<1>1. /\ InUse(arr) /\ ~overrun /\ arr.live /\ i < arr.capacity /\ i \in Nat
      /\ UNCHANGED <<vec, vref>> /\ arr \in Container
  BY CollectionsAssumption, TypeFacts DEF owned_array_set, InUse, ColInv
<1>2. PICK m \in Nat, c \in Nat : /\ m = Len(arr.data) /\ c = arr.capacity
                                  /\ m < c => c * PtrSize >= SizeMax
  BY <1>1, ArrayRoom
<1>3. overrun' = (i >= m)
  BY <1>2 DEF owned_array_set
<1>4. CASE i >= m
  <2>1. overrun' /\ UNCHANGED <<arr, alive, hand>>
    BY <1>3, <1>4 DEF owned_array_set
  <2>2. c * PtrSize >= SizeMax
    BY <1>1, <1>2, <1>4
  <2>3. ColTypeOK' /\ VecOK' /\ ArrOK'
    BY <1>1, <1>3, <1>4, <2>1 DEF ColInv, ColTypeOK, VecOK, ArrOK, InUse
  <2>4. OverrunOnlyByWrap'
    BY <1>1, <1>2, <2>1, <2>2 DEF OverrunOnlyByWrap
  <2> QED
    BY <2>3, <2>4 DEF ColInv
<1>5. CASE ~(i >= m)
  <2>1. PICK d \in Seq(Cell), k \in 1 .. m : d = arr.data /\ k = i + 1 /\ DOMAIN d = 1 .. m
    BY <1>1, <1>2, <1>5 DEF Container
  <2>2. ~overrun'
    BY <1>3, <1>5
  <2>3. /\ p \in hand \cup {None, d[k]}
        /\ arr' = [arr EXCEPT !.data = [d EXCEPT ![k] = p]]
        /\ alive' = alive \ ({d[k]} \ {None, p})
        /\ hand' = hand \ {p}
    BY <1>1, <2>1, <2>2 DEF owned_array_set, replaced, Container
  <2>4. PICK e \in Seq(Cell) : /\ e = [d EXCEPT ![k] = p] /\ Len(e) = m /\ DOMAIN e = 1 .. m
                               /\ \A j \in 1 .. m : e[j] = IF j = k THEN p ELSE d[j]
    <3>1. p \in Cell /\ k \in 1 .. Len(d) /\ Len(d) = m
      BY <1>2, <2>1 DEF Cell
    <3>2. PICK e : e = [d EXCEPT ![k] = p]
      OBVIOUS
    <3>3. /\ e \in Seq(Cell) /\ Len(e) = Len(d)
          /\ \A j \in 1 .. Len(d) : e[j] = IF j = k THEN p ELSE d[j]
      BY <3>1, <3>2, ExceptSeq
    <3>4. DOMAIN e = 1 .. m
      BY <3>1, <3>3
    <3> QED
      BY <3>1, <3>2, <3>3, <3>4
  <2>5. /\ arr' \in Container /\ arr'.data = e /\ arr'.live /\ arr'.capacity = arr.capacity
    BY <1>1, <2>3, <2>4 DEF Container
  <2>6. /\ hand \subseteq alive /\ alive \subseteq Items
        /\ \A j \in 1 .. m : d[j] \in Items =>
             d[j] \in alive \ hand /\ \A l \in 1 .. m : d[j] = d[l] => j = l
        /\ \A x \in alive \ hand : \E j \in 1 .. m : d[j] = x
    BY <1>1, <2>1, TypeFacts DEF ColInv, ArrOK
  <2>7. hand' \subseteq alive' /\ alive' \subseteq Items
    <3>1. d[k] \in Items => d[k] \notin hand
      BY <2>6
    <3> QED
      BY <2>3, <2>6, <3>1
  <2>8. ColTypeOK'
    <3>1. overrun' \in BOOLEAN
      BY <1>3
    <3> QED
      BY <1>1, <2>5, <2>7, <3>1 DEF ColInv, ColTypeOK, Container, Cell
  <2>9. None \notin Items
    BY CollectionsAssumption
  <2>10. ASSUME NEW j \in 1 .. m, e[j] \in Items
         PROVE  e[j] \in alive' \ hand' /\ \A l \in 1 .. m : e[j] = e[l] => j = l
    <3>1. CASE j = k
      BY <2>3, <2>4, <2>6, <2>9, <2>10, <3>1
    <3>2. CASE j # k
      BY <2>3, <2>4, <2>6, <2>9, <2>10, <3>2
    <3> QED
      BY <3>1, <3>2
  <2>11. ASSUME NEW x \in alive' \ hand'
         PROVE  \E j \in 1 .. m : e[j] = x
    <3>1. CASE x = p
      BY <2>4, <3>1
    <3>2. CASE x # p
      <4>1. x \in alive \ hand /\ x # d[k]
        BY <2>3, <2>6, <2>9, <2>11, <3>2
      <4>2. PICK j \in 1 .. m : d[j] = x
        BY <2>6, <4>1
      <4> QED
        BY <2>4, <4>1, <4>2
    <3> QED
      BY <3>1, <3>2
  <2>12. Len(e) = Cells(arr'.capacity)
    BY <1>1, <1>2, <2>4, <2>5 DEF ColInv, ArrOK
  <2>13. ArrOK'
    BY <2>4, <2>5, <2>10, <2>11, <2>12 DEF ArrOK
  <2> QED
    BY <1>1, <2>2, <2>8, <2>13, VectorKept DEF ColInv, OverrunOnlyByWrap
<1> QED
  BY <1>4, <1>5

(* The array frees what its slots hold, and nothing the client has.        *)
LEMMA ArrayFreePreserves ==
  ASSUME ColInv, owned_array_free
  PROVE  ColInv'
<1>1. InUse(arr) /\ ~overrun /\ arr.live /\ UNCHANGED <<vec, vref, hand>>
  BY DEF owned_array_free, InUse
<1>2. PICK m \in Nat, c \in Nat : /\ m = Len(arr.data) /\ c = arr.capacity
                                  /\ m < c => c * PtrSize >= SizeMax
  BY <1>1, ArrayRoom
<1>3. overrun' = (c > m)
  BY <1>2 DEF owned_array_free
<1>4. CASE c > m
  <2>1. overrun' /\ UNCHANGED <<arr, alive>>
    BY <1>3, <1>4 DEF owned_array_free
  <2>2. c * PtrSize >= SizeMax
    BY <1>2, <1>4
  <2>3. ColTypeOK' /\ VecOK' /\ ArrOK'
    BY <1>1, <1>3, <1>4, <2>1 DEF ColInv, ColTypeOK, VecOK, ArrOK, InUse
  <2>4. OverrunOnlyByWrap'
    BY <1>1, <1>2, <2>1, <2>2 DEF OverrunOnlyByWrap
  <2> QED
    BY <2>3, <2>4 DEF ColInv
<1>5. CASE ~(c > m)
  <2>1. ~overrun' /\ arr' = Absent /\ alive' = alive \ Range(arr.data)
    BY <1>3, <1>5 DEF owned_array_free
  <2>2. /\ hand \subseteq alive /\ alive \subseteq Items
        /\ \A x \in alive \ hand : \E i \in DOMAIN arr.data : arr.data[i] = x
        /\ \A i \in DOMAIN arr.data : arr.data[i] \in Items => arr.data[i] \notin hand
    BY <1>1, TypeFacts DEF ColInv, ArrOK
  <2>3. alive' = hand
    BY <2>1, <2>2 DEF Range
  <2>4. ColTypeOK'
    <3>1. overrun' \in BOOLEAN
      BY <1>3
    <3>2. arr' \in Container
      BY <2>1, AbsentFacts
    <3> QED
      BY <1>1, <2>2, <2>3, <3>1, <3>2 DEF ColInv, ColTypeOK, Container, Cell
  <2>5. ArrOK'
    BY <1>1, <2>1, <2>3 DEF ArrOK, Absent
  <2> QED
    BY <1>1, <2>1, <2>4, <2>5, VectorKept DEF ColInv, OverrunOnlyByWrap
<1> QED
  BY <1>4, <1>5

-----------------------------------------------------------------------------
(* The theorems.                                                           *)

(* The invariant holds at the start and every call keeps it.               *)
LEMMA InitInv ==
  ASSUME ColInit
  PROVE  ColInv
<1>1. /\ vec = Absent /\ arr = Absent /\ vref = <<>> /\ alive = {} /\ hand = {}
      /\ overrun = FALSE
  BY DEF ColInit
<1>2. ColTypeOK
  <2>1. vec \in Container /\ arr \in Container
    BY <1>1, AbsentFacts
  <2>2. vref \in Seq(Items) /\ hand \subseteq alive /\ alive \subseteq Items
    BY <1>1
  <2>3. overrun \in BOOLEAN
    BY <1>1
  <2> QED
    BY <2>1, <2>2, <2>3 DEF ColTypeOK, Container, Cell
<1>3. VecOK /\ ArrOK
  BY <1>1 DEF VecOK, ArrOK, InUse, Absent
<1> QED
  BY <1>1, <1>2, <1>3 DEF ColInv, OverrunOnlyByWrap

(* A step that changes nothing keeps the invariant, and so does any call.  *)
LEMMA NextPreserves ==
  ASSUME ColInv, [VecNext \/ ArrNext]_colVars
  PROVE  ColInv'
<1>1. CASE VecNext
  BY <1>1, VectorCreatePreserves, VectorPushPreserves, VectorRemovePreserves,
     VectorFreePreserves DEF VecNext
<1>2. CASE ArrNext
  BY <1>2, ItemMallocPreserves, ItemFreePreserves, ArrayNewPreserves, ArraySetPreserves,
     ArrayFreePreserves DEF ArrNext
<1>3. CASE UNCHANGED colVars
  BY <1>3 DEF ColInv, ColTypeOK, VecOK, ArrOK, OverrunOnlyByWrap, InUse, colVars
<1> QED
  BY <1>1, <1>2, <1>3

(* The invariant holds forever.                                            *)
LEMMA InvHolds == ColSpec => []ColInv
  BY InitInv, NextPreserves, PTL DEF ColSpec

(* The vector returns at each index what was pushed there, whatever growth *)
(* of its buffer and removals came in between (safe_vector_push,           *)
(* safe_vector_remove and safe_vector_get of collections.c).               *)
THEOREM VectorStaysIntact == ColSpec => []VectorIntact
  BY InvHolds, InvImpliesVector, PTL

(* What is allocated is the client's or in one slot of the array, and what *)
(* a slot holds was not freed (owned_array_set and owned_array_free of     *)
(* ownedc_array.c).                                                        *)
THEOREM ArrayItemsOwnedOnce == ColSpec => []ItemsOwnedOnce
  BY InvHolds, InvImpliesItems, PTL

(* Only a capacity whose size in bytes does not fit size_t lets a call     *)
(* leave its buffer: below that, growing by doubling is safe (the products *)
(* of safe_vector_create, safe_vector_push and owner_calloc).              *)
THEOREM OnlyWrapsOverrun == ColSpec => []OverrunOnlyByWrap
<1>1. ColInv => OverrunOnlyByWrap
  BY DEF ColInv
<1> QED
  BY <1>1, InvHolds, PTL

-----------------------------------------------------------------------------
(* Strings: the helpers.                                                   *)

Byte == Chars \cup {NUL, Junk}

Text == Chars \cup {NUL}

\* The buffer d holds the n characters of r and a terminator behind them.
Holds(d, n, r) ==
  /\ n = Len(r) /\ n < Len(d) /\ d[n + 1] = NUL
  /\ \A i \in 1 .. n : d[i] = r[i]

(* A set of numbers has a least element.                                   *)
LEMMA LeastIndex ==
  ASSUME NEW T \in SUBSET Nat, T # {}
  PROVE  \E x \in T : \A y \in T : x <= y
<1> DEFINE R == {p \in Nat \X Nat : p[1] < p[2]}
<1>1. OpToRel(<, Nat) = R
  BY DEF OpToRel
<1>2. \E x \in T : \A y \in T : ~(<<y, x>> \in OpToRel(<, Nat))
  BY NatLessThanWellFounded, WFMin
<1>3. PICK x \in T : \A y \in T : ~(<<y, x>> \in R)
  BY <1>1, <1>2
<1>4. \A y \in T : x \in Nat /\ y \in Nat /\ ~(y < x)
  BY <1>3
<1> HIDE DEF R
<1> QED
  BY <1>4

(* The first n elements of a sequence.                                     *)
LEMMA Prefix ==
  ASSUME NEW S, NEW s \in Seq(S), NEW n \in 0 .. Len(s)
  PROVE  /\ SubSeq(s, 1, n) \in Seq(S) /\ Len(SubSeq(s, 1, n)) = n
         /\ \A i \in 1 .. n : SubSeq(s, 1, n)[i] = s[i]
<1>1. \A i \in 1 .. n : s[i] \in S
  OBVIOUS
<1>2. /\ SubSeq(s, 1, n) \in Seq(S)
      /\ Len(SubSeq(s, 1, n)) = IF 1 <= n THEN n - 1 + 1 ELSE 0
      /\ \A i \in 1 .. n - 1 + 1 : SubSeq(s, 1, n)[i] = s[1 + i - 1]
  BY <1>1, SubSeqProperties
<1>3. /\ (IF 1 <= n THEN n - 1 + 1 ELSE 0) = n /\ n - 1 + 1 = n
      /\ \A i \in Int : 1 + i - 1 = i
  OBVIOUS
<1> QED
  BY <1>2, <1>3

(* Sequences with the same prefix of length n.                             *)
LEMMA SamePrefix ==
  ASSUME NEW S, NEW s \in Seq(S), NEW t \in Seq(S), NEW n \in Nat,
         n <= Len(s), n <= Len(t), \A i \in 1 .. n : s[i] = t[i]
  PROVE  SubSeq(s, 1, n) = SubSeq(t, 1, n)
<1>1. n \in 0 .. Len(s) /\ n \in 0 .. Len(t)
  OBVIOUS
<1>2. /\ SubSeq(s, 1, n) \in Seq(S) /\ Len(SubSeq(s, 1, n)) = n
      /\ \A i \in 1 .. n : SubSeq(s, 1, n)[i] = s[i]
  BY <1>1, Prefix
<1>3. /\ SubSeq(t, 1, n) \in Seq(S) /\ Len(SubSeq(t, 1, n)) = n
      /\ \A i \in 1 .. n : SubSeq(t, 1, n)[i] = t[i]
  BY <1>1, Prefix
<1> QED
  BY <1>2, <1>3, SeqEqual

(* A C string ends in front of its first terminator.                       *)
LEMMA CStrCut ==
  ASSUME NEW S, NEW d \in Seq(S), NEW k \in 1 .. Len(d), d[k] = NUL,
         \A j \in 1 .. k - 1 : d[j] # NUL
  PROVE  CStr(d) = SubSeq(d, 1, k - 1)
<1> DEFINE P(i) == d[i] = NUL /\ \A j \in 1 .. i - 1 : d[j] # NUL
<1>1. k \in DOMAIN d /\ P(k)
  OBVIOUS
<1>2. PICK c : c = CHOOSE i \in DOMAIN d : P(i)
  OBVIOUS
<1>3. c \in DOMAIN d /\ P(c)
  BY <1>1, <1>2
<1>4. c = k
  BY <1>1, <1>3
<1>5. CStr(d) = SubSeq(d, 1, c - 1)
  BY <1>1, <1>2 DEF CStr
<1> QED
  BY <1>4, <1>5

(* The C string of a buffer is that of the text it holds.                  *)
LEMMA CStrOfText ==
  ASSUME NEW d \in Seq(Byte), NEW n \in Nat, NEW r \in Seq(Text), Holds(d, n, r)
  PROVE  CStr(d) = CStr(r) /\ CStr(r) \in Seq(Text)
<1>1. /\ n = Len(r) /\ n + 1 \in 1 .. Len(d) /\ n <= Len(d) /\ d[n + 1] = NUL
      /\ \A i \in 1 .. n : d[i] = r[i]
  BY DEF Holds
<1>2. r \in Seq(Byte)
  <2>1. DOMAIN r = 1 .. n /\ \A i \in 1 .. n : r[i] \in Byte
    BY <1>1 DEF Byte, Text
  <2>2. r \in [1 .. n -> Byte]
    BY <2>1
  <2> QED
    BY <2>2, FunctionIsSeq
<1>3. CASE \E i \in 1 .. n : r[i] = NUL
  <2>1. PICK k \in 1 .. n : r[k] = NUL /\ \A j \in 1 .. n : r[j] = NUL => k <= j
    <3>1. {i \in 1 .. n : r[i] = NUL} \in SUBSET Nat
      OBVIOUS
    <3>2. {i \in 1 .. n : r[i] = NUL} # {}
      BY <1>3
    <3>3. PICK k \in {i \in 1 .. n : r[i] = NUL} : \A j \in {i \in 1 .. n : r[i] = NUL} : k <= j
      BY <3>1, <3>2, LeastIndex
    <3> QED
      BY <3>3
  <2>2. \A j \in 1 .. k - 1 : j \in 1 .. n /\ ~(k <= j)
    OBVIOUS
  <2>3. \A j \in 1 .. k - 1 : r[j] # NUL /\ d[j] # NUL /\ d[j] = r[j]
    BY <1>1, <2>1, <2>2
  <2>4. CStr(r) = SubSeq(r, 1, k - 1)
    <3>1. k \in 1 .. Len(r)
      BY <1>1
    <3> QED
      BY <2>1, <2>3, <3>1, CStrCut
  <2>5. CStr(d) = SubSeq(d, 1, k - 1)
    <3>1. k \in 1 .. Len(d) /\ d[k] = NUL
      BY <1>1, <2>1
    <3> QED
      BY <2>3, <3>1, CStrCut
  <2>6. k - 1 \in Nat /\ k - 1 <= Len(d) /\ k - 1 <= Len(r) /\ k - 1 \in 0 .. Len(r)
    BY <1>1
  <2>7. SubSeq(d, 1, k - 1) = SubSeq(r, 1, k - 1)
    BY <1>2, <2>3, <2>6, SamePrefix
  <2>8. SubSeq(r, 1, k - 1) \in Seq(Text)
    BY <2>6, Prefix
  <2> QED
    BY <2>4, <2>5, <2>7, <2>8
<1>4. CASE \A i \in 1 .. n : r[i] # NUL
  <2>1. CStr(r) = r
    <3>1. ~\E i \in DOMAIN r : r[i] = NUL
      BY <1>1, <1>4
    <3> QED
      BY <3>1 DEF CStr
  <2>2. CStr(d) = SubSeq(d, 1, n)
    <3>1. (n + 1) - 1 = n
      OBVIOUS
    <3>2. \A j \in 1 .. (n + 1) - 1 : d[j] # NUL
      BY <1>1, <1>4, <3>1
    <3>3. CStr(d) = SubSeq(d, 1, (n + 1) - 1)
      BY <1>1, <3>2, CStrCut
    <3> QED
      BY <3>1, <3>3
  <2>3. PICK a \in Seq(Byte) : /\ a = SubSeq(d, 1, n) /\ Len(a) = n
                               /\ \A i \in 1 .. n : a[i] = d[i]
    <3>1. n \in 0 .. Len(d)
      BY <1>1
    <3>2. /\ SubSeq(d, 1, n) \in Seq(Byte) /\ Len(SubSeq(d, 1, n)) = n
          /\ \A i \in 1 .. n : SubSeq(d, 1, n)[i] = d[i]
      BY <3>1, Prefix
    <3> QED
      BY <3>2, Zenon
  <2>4. a = r
    BY <1>1, <1>2, <2>3, SeqEqual
  <2> QED
    BY <2>1, <2>2, <2>3, <2>4
<1> QED
  BY <1>3, <1>4

(* A buffer that has grown keeps its text and has room for min bytes.      *)
LEMMA GrowFacts ==
  ASSUME NEW d \in Seq(Byte), NEW min \in Nat
  PROVE  \E e \in Seq(Byte) : /\ e = safe_string_grow(d, min)
                              /\ Len(e) >= min /\ Len(e) >= Len(d)
                              /\ \A i \in 1 .. Len(d) : e[i] = d[i]
<1>1. PICK m \in Nat : m = Len(d) /\ DOMAIN d = 1 .. m /\ \A i \in 1 .. m : d[i] \in Byte
  OBVIOUS
<1>2. CASE m >= min
  <2>1. safe_string_grow(d, min) = d
    BY <1>1, <1>2 DEF safe_string_grow
  <2> QED
    BY <1>1, <1>2, <2>1
<1>3. CASE ~(m >= min)
  <2>1. PICK twice \in Nat : twice = (IF m = 0 THEN InitialCap ELSE 2 * m) /\ twice >= m
    BY StringAssumption
  <2>2. PICK cap \in Nat : cap = (IF twice < min THEN min ELSE twice) /\ cap >= min /\ cap >= m
    BY <2>1, <1>3
  <2>3. PICK e : e = [i \in 1 .. cap |-> IF i <= m THEN d[i] ELSE Junk]
    OBVIOUS
  <2>4. safe_string_grow(d, min) = e
    BY <1>1, <1>3, <2>1, <2>2, <2>3 DEF safe_string_grow
  <2>5. e \in [1 .. cap -> Byte]
    <3>1. Junk \in Byte
      BY DEF Byte
    <3>2. \A i \in 1 .. cap : i <= m => i \in 1 .. m
      OBVIOUS
    <3> QED
      BY <1>1, <2>3, <3>1, <3>2
  <2>6. e \in Seq(Byte) /\ Len(e) = cap
    BY <2>5, FunctionIsSeq
  <2>7. \A i \in 1 .. m : e[i] = d[i]
    <3>1. \A i \in 1 .. m : i \in 1 .. cap /\ i <= m
      BY <2>2
    <3> QED
      BY <2>3, <3>1
  <2> QED
    BY <1>1, <2>2, <2>4, <2>6, <2>7
<1> QED
  BY <1>2, <1>3

(* A text written behind the first n bytes, with a terminator, where there *)
(* is room.                                                                *)
LEMMA WriteFacts ==
  ASSUME NEW d \in Seq(Byte), NEW n \in Nat, NEW t \in Seq(Text), n + Len(t) < Len(d)
  PROVE  \E e \in Seq(Byte) : /\ e = Write(d, n, t) /\ Len(e) = Len(d)
                              /\ e[n + Len(t) + 1] = NUL
                              /\ \A i \in 1 .. n : e[i] = d[i]
                              /\ \A i \in 1 .. Len(t) : e[n + i] = t[i]
<1>1. PICK m \in Nat : m = Len(d) /\ DOMAIN d = 1 .. m /\ \A i \in 1 .. m : d[i] \in Byte
  OBVIOUS
<1>2. PICK k \in Nat : k = Len(t) /\ n + k < m /\ \A i \in 1 .. k : t[i] \in Byte
  BY <1>1 DEF Byte, Text
<1>3. PICK e : e = [i \in 1 .. m |-> IF i \in n + 1 .. n + k THEN t[i - n]
                                     ELSE IF i = n + k + 1 THEN NUL ELSE d[i]]
  OBVIOUS
<1>4. e = Write(d, n, t)
  BY <1>1, <1>2, <1>3 DEF Write
<1>5. e \in [1 .. m -> Byte]
  <2>1. NUL \in Byte
    BY DEF Byte
  <2>2. \A i \in n + 1 .. n + k : i - n \in 1 .. k
    OBVIOUS
  <2> QED
    BY <1>1, <1>2, <1>3, <2>1, <2>2
<1>6. e \in Seq(Byte) /\ Len(e) = m
  BY <1>5, FunctionIsSeq
<1>7. e[n + k + 1] = NUL
  <2>1. n + k + 1 \in 1 .. m /\ n + k + 1 \notin n + 1 .. n + k
    BY <1>2
  <2> QED
    BY <1>3, <2>1
<1>8. \A i \in 1 .. n : e[i] = d[i]
  <2>1. \A i \in 1 .. n : i \in 1 .. m /\ i \notin n + 1 .. n + k /\ i # n + k + 1
    BY <1>2
  <2> QED
    BY <1>3, <2>1
<1>9. \A i \in 1 .. k : e[n + i] = t[i]
  <2>1. \A i \in 1 .. k : n + i \in 1 .. m /\ n + i \in n + 1 .. n + k /\ (n + i) - n = i
    BY <1>2
  <2> QED
    BY <1>3, <2>1
<1> QED
  BY <1>1, <1>2, <1>4, <1>6, <1>7, <1>8, <1>9

(* A text appended to what a buffer holds.                                 *)
LEMMA WriteHolds ==
  ASSUME NEW d \in Seq(Byte), NEW n \in Nat, NEW r \in Seq(Text), NEW t \in Seq(Text),
         n = Len(r), n + Len(t) < Len(d), \A i \in 1 .. n : d[i] = r[i]
  PROVE  \E e \in Seq(Byte), u \in Seq(Text) :
           /\ e = Write(d, n, t) /\ u = r \o t /\ Holds(e, n + Len(t), u)
<1>1. PICK e \in Seq(Byte) : /\ e = Write(d, n, t) /\ Len(e) = Len(d)
                             /\ e[n + Len(t) + 1] = NUL
                             /\ \A i \in 1 .. n : e[i] = d[i]
                             /\ \A i \in 1 .. Len(t) : e[n + i] = t[i]
  BY WriteFacts
<1>2. PICK k \in Nat : k = Len(t)
  OBVIOUS
<1>3. PICK u \in Seq(Text) : /\ u = r \o t /\ Len(u) = n + k
                             /\ \A i \in 1 .. n + k : u[i] = IF i <= n THEN r[i] ELSE t[i - n]
  <2>1. /\ r \o t \in Seq(Text) /\ Len(r \o t) = Len(r) + Len(t)
        /\ \A i \in 1 .. Len(r) + Len(t) : (r \o t)[i] = IF i <= Len(r) THEN r[i] ELSE t[i - Len(r)]
    BY ConcatProperties
  <2> QED
    BY <1>2, <2>1
<1>4. ASSUME NEW i \in 1 .. n + k
      PROVE  e[i] = u[i]
  <2>1. CASE i <= n
    <3>1. i \in 1 .. n
      BY <2>1
    <3> QED
      BY <1>1, <1>3, <2>1, <3>1
  <2>2. CASE ~(i <= n)
    <3>1. i - n \in 1 .. k /\ n + (i - n) = i
      BY <2>2
    <3>2. e[n + (i - n)] = t[i - n]
      BY <1>1, <1>2, <3>1
    <3>3. u[i] = t[i - n]
      BY <1>3, <2>2
    <3> QED
      BY <3>1, <3>2, <3>3
  <2> QED
    BY <2>1, <2>2
<1>5. Holds(e, n + k, u)
  BY <1>1, <1>2, <1>3, <1>4 DEF Holds
<1> QED
  BY <1>1, <1>2, <1>3, <1>5

-----------------------------------------------------------------------------
(* Strings: the calls.                                                     *)

StrInv ==
  /\ StrTypeOK
  /\ \A s \in Strings : Exists(s) => Holds(str[s].data, str[s].length, ref[s])

(* A string, as the buffer d, the length n and the text r.                 *)
LEMMA StringFacts ==
  ASSUME StrInv, NEW s \in Strings, Exists(s)
  PROVE  \E d \in Seq(Byte), n \in Nat, r \in Seq(Text) :
           /\ d = str[s].data /\ n = str[s].length /\ r = ref[s] /\ Holds(d, n, r)
           /\ n <= MaxLength
<1>1. str[s] \in [data : Seq(Byte), length : 0 .. MaxLength] /\ ref[s] \in Seq(Text)
  BY DEF StrInv, StrTypeOK, Byte, Text
<1>2. Holds(str[s].data, str[s].length, ref[s])
  BY DEF StrInv
<1>3. str[s].length \in Nat /\ str[s].length <= MaxLength
  BY <1>1, StringAssumption
<1> QED
  BY <1>1, <1>2, <1>3

(* A call that leaves in one string a text and a terminator.               *)
LEMMA SetPreserves ==
  ASSUME StrInv, NEW s \in Strings,
         NEW e \in Seq(Byte), NEW n \in 0 .. MaxLength, NEW u \in Seq(Text), Holds(e, n, u),
         str' = [str EXCEPT ![s] = [data |-> e, length |-> n]],
         ref' = [ref EXCEPT ![s] = u]
  PROVE  StrInv'
<1>1. StrTypeOK'
  BY DEF StrInv, StrTypeOK, Byte, Text
<1>2. ASSUME NEW q \in Strings, Exists(q)'
      PROVE  Holds(str[q].data, str[q].length, ref[q])'
  <2>1. CASE q = s
    <3>1. str'[q].data = e /\ str'[q].length = n /\ ref'[q] = u
      BY <2>1 DEF StrInv, StrTypeOK
    <3> QED
      BY <3>1 DEF Holds
  <2>2. CASE q # s
    <3>1. str'[q] = str[q] /\ ref'[q] = ref[q]
      BY <2>2 DEF StrInv, StrTypeOK
    <3>2. Holds(str[q].data, str[q].length, ref[q])
      BY <1>2, <3>1 DEF StrInv, Exists
    <3> QED
      BY <3>1, <3>2 DEF Holds
  <2> QED
    BY <2>1, <2>2
<1> QED
  BY <1>1, <1>2 DEF StrInv

(* A new string holds its initial text.                                    *)
LEMMA NewPreserves ==
  ASSUME StrInv, NEW s \in Strings, NEW init \in Literals \cup {Junk}, safe_string_new(s, init)
  PROVE  StrInv'
<1>1. PICK text : text = IF init = Junk THEN <<>> ELSE init
  OBVIOUS
<1>2. text \in Seq(Text) /\ Len(text) \in 0 .. MaxLength
  <2>1. CASE init = Junk
    BY <1>1, <2>1, StringAssumption
  <2>2. CASE init # Junk
    <3>1. text \in Seq(Chars) /\ Len(text) <= MaxLength
      BY <1>1, <2>2, StringAssumption
    <3>2. text \in [1 .. Len(text) -> Text]
      BY <3>1 DEF Text
    <3> QED
      BY <3>1, <3>2, FunctionIsSeq, StringAssumption
  <2> QED
    BY <2>1, <2>2
<1>3. PICK min \in Nat : /\ min = (IF init = Junk THEN InitialCap ELSE Len(text) + 1)
                         /\ min >= Len(text) + 1
  BY <1>1, <1>2, StringAssumption
<1>4. <<>> \in Seq(Byte) /\ <<>> \in Seq(Text) /\ Len(<<>>) = 0
  OBVIOUS
<1>5. PICK d \in Seq(Byte) : d = safe_string_grow(<<>>, min) /\ Len(d) >= min
  BY <1>4, GrowFacts
<1>6. PICK e \in Seq(Byte), u \in Seq(Text) :
        e = Write(d, 0, text) /\ u = <<>> \o text /\ Holds(e, 0 + Len(text), u)
  <2>1. 0 + Len(text) < Len(d) /\ \A i \in 1 .. 0 : d[i] = <<>>[i]
    BY <1>2, <1>3, <1>5
  <2> QED
    BY <1>2, <1>4, <2>1, WriteHolds
<1>7. u = text /\ Holds(e, Len(text), u)
  <2>1. <<>> \o text = text
    BY <1>2, ConcatEmptySeq
  <2>2. 0 + Len(text) = Len(text)
    BY <1>2
  <2> QED
    BY <1>6, <2>1, <2>2
<1>8. /\ str' = [str EXCEPT ![s] = [data |-> e, length |-> Len(text)]]
      /\ ref' = [ref EXCEPT ![s] = u]
  BY <1>1, <1>3, <1>5, <1>6, <1>7 DEF safe_string_new
<1> QED
  BY <1>2, <1>7, <1>8, SetPreserves

(* What a string holds after a text was appended.                          *)
LEMMA AppendPreserves ==
  ASSUME StrInv, NEW s \in Strings, NEW t \in Seq(Text), append(s, t, t)
  PROVE  StrInv'
<1>1. Exists(s)
  BY DEF append
<1>2. PICK d \in Seq(Byte), n \in Nat, r \in Seq(Text) :
        /\ d = str[s].data /\ n = str[s].length /\ r = ref[s] /\ Holds(d, n, r)
  BY <1>1, StringFacts
<1>3. PICK k \in Nat : k = Len(t) /\ n + k \in 0 .. MaxLength
  <2>1. Len(t) \in Nat
    OBVIOUS
  <2>2. n + Len(t) <= MaxLength
    BY <1>2 DEF append
  <2> QED
    BY <2>1, <2>2, StringAssumption
<1>4. PICK g \in Seq(Byte) : /\ g = safe_string_grow(d, n + k + 1) /\ Len(g) >= n + k + 1
                             /\ Len(g) >= Len(d) /\ \A i \in 1 .. Len(d) : g[i] = d[i]
  <2>1. n + k + 1 \in Nat
    OBVIOUS
  <2> QED
    BY <2>1, GrowFacts
<1>5. \A i \in 1 .. n : g[i] = r[i]
  <2>1. n < Len(d) /\ \A i \in 1 .. n : d[i] = r[i] /\ i \in 1 .. Len(d)
    BY <1>2 DEF Holds
  <2> QED
    BY <1>4, <2>1
<1>6. PICK e \in Seq(Byte), u \in Seq(Text) :
        e = Write(g, n, t) /\ u = r \o t /\ Holds(e, n + k, u)
  <2>1. n = Len(r) /\ n + Len(t) < Len(g)
    BY <1>2, <1>3, <1>4 DEF Holds
  <2> QED
    BY <1>3, <1>5, <2>1, WriteHolds
<1>7. /\ str' = [str EXCEPT ![s] = [data |-> e, length |-> n + k]]
      /\ ref' = [ref EXCEPT ![s] = u]
  BY <1>2, <1>3, <1>4, <1>6 DEF append
<1> QED
  BY <1>1, <1>3, <1>6, <1>7, SetPreserves

(* The text of a literal, of another string, or of the string itself.      *)
LEMMA AppendsPreserve ==
  ASSUME StrInv, ~SelfAppend, NEW s \in Strings,
         \/ \E t \in Literals : safe_string_append(s, t)
         \/ \E q \in Strings : safe_string_append_safe(s, q)
  PROVE  StrInv'
<1>1. CASE \E t \in Literals : safe_string_append(s, t)
  <2>1. PICK t \in Literals : append(s, t, t)
    BY <1>1 DEF safe_string_append
  <2>2. t \in Seq(Chars) /\ Len(t) \in Nat
    BY StringAssumption
  <2>3. t \in [1 .. Len(t) -> Text]
    BY <2>2 DEF Text
  <2>4. t \in Seq(Text)
    BY <2>2, <2>3, FunctionIsSeq
  <2> QED
    BY <2>1, <2>4, AppendPreserves
<1>2. CASE \E q \in Strings : safe_string_append_safe(s, q)
  <2>1. PICK q \in Strings : safe_string_append_safe(s, q)
    BY <1>2
  <2>2. Copied(s, q) = {CStr(str[q].data)}
    BY <2>1 DEF safe_string_append_safe, Copied
  <2>3. Exists(q) /\ append(s, CStr(str[q].data), CStr(ref[q]))
    BY <2>1, <2>2 DEF safe_string_append_safe
  <2>4. CStr(str[q].data) = CStr(ref[q]) /\ CStr(ref[q]) \in Seq(Text)
    BY <2>3, StringFacts, CStrOfText
  <2> QED
    BY <2>3, <2>4, AppendPreserves
<1> QED
  BY <1>1, <1>2

(* A character, a terminator too, is a text of one character.              *)
LEMMA PushCharPreserves ==
  ASSUME StrInv, NEW s \in Strings, NEW c \in Chars \cup {NUL}, safe_string_push_char(s, c)
  PROVE  StrInv'
<1>1. Exists(s)
  BY DEF safe_string_push_char
<1>2. PICK d \in Seq(Byte), n \in Nat, r \in Seq(Text) :
        /\ d = str[s].data /\ n = str[s].length /\ r = ref[s] /\ Holds(d, n, r)
  BY <1>1, StringFacts
<1>3. n + 1 \in 0 .. MaxLength
  <2>1. n < MaxLength
    BY <1>2 DEF safe_string_push_char
  <2> QED
    BY <2>1, StringAssumption
<1>4. PICK t \in Seq(Text) : t = <<c>> /\ Len(t) = 1
  <2>1. c \in Text
    BY DEF Text
  <2>2. <<c>> \in Seq(Text) /\ Len(<<c>>) = 1
    BY <2>1
  <2> QED
    BY <2>2, Zenon
<1>5. PICK g \in Seq(Byte) : /\ g = safe_string_grow(d, n + 2) /\ Len(g) >= n + 2
                             /\ Len(g) >= Len(d) /\ \A i \in 1 .. Len(d) : g[i] = d[i]
  <2>1. n + 2 \in Nat
    OBVIOUS
  <2> QED
    BY <2>1, GrowFacts
<1>6. \A i \in 1 .. n : g[i] = r[i]
  <2>1. n < Len(d) /\ \A i \in 1 .. n : d[i] = r[i] /\ i \in 1 .. Len(d)
    BY <1>2 DEF Holds
  <2> QED
    BY <1>5, <2>1
<1>7. PICK e \in Seq(Byte), u \in Seq(Text) :
        e = Write(g, n, t) /\ u = r \o t /\ Holds(e, n + 1, u)
  <2>1. n = Len(r)
    BY <1>2 DEF Holds
  <2>2. n + Len(t) < Len(g) /\ n + Len(t) = n + 1
    BY <1>4, <1>5
  <2>3. \E e \in Seq(Byte), u \in Seq(Text) :
          e = Write(g, n, t) /\ u = r \o t /\ Holds(e, n + Len(t), u)
    BY <1>6, <2>1, <2>2, WriteHolds
  <2> QED
    BY <2>2, <2>3
<1>8. Append(r, c) = r \o <<c>>
  <2>1. \A q \in Seq(Text), y \in Text : Append(q, y) = q \o <<y>>
    OBVIOUS
  <2> QED
    BY <2>1 DEF Text
<1>9. /\ str' = [str EXCEPT ![s] = [data |-> e, length |-> n + 1]]
      /\ ref' = [ref EXCEPT ![s] = u]
  BY <1>2, <1>4, <1>5, <1>7, <1>8 DEF safe_string_push_char
<1> QED
  BY <1>1, <1>3, <1>7, <1>9, SetPreserves

(* Truncating writes a terminator inside of the text.                      *)
LEMMA TruncatePreserves ==
  ASSUME StrInv, NEW s \in Strings, NEW n \in 0 .. MaxLength, safe_string_truncate(s, n)
  PROVE  StrInv'
<1>1. Exists(s) /\ n \in Nat
  BY StringAssumption DEF safe_string_truncate
<1>2. PICK d \in Seq(Byte), m \in Nat, r \in Seq(Text) :
        /\ d = str[s].data /\ m = str[s].length /\ r = ref[s] /\ Holds(d, m, r)
  BY <1>1, StringFacts
<1>3. n <= m /\ m = Len(r) /\ m < Len(d) /\ \A i \in 1 .. m : d[i] = r[i]
  BY <1>2 DEF Holds, safe_string_truncate
<1>4. PICK u \in Seq(Text) : /\ u = SubSeq(r, 1, n) /\ Len(u) = n
                             /\ \A i \in 1 .. n : u[i] = r[i]
  <2>1. n \in 0 .. Len(r)
    BY <1>1, <1>3
  <2>2. /\ SubSeq(r, 1, n) \in Seq(Text) /\ Len(SubSeq(r, 1, n)) = n
        /\ \A i \in 1 .. n : SubSeq(r, 1, n)[i] = r[i]
    BY <2>1, Prefix
  <2> QED
    BY <2>2, Zenon
<1>5. <<>> \in Seq(Text) /\ Len(<<>>) = 0
  OBVIOUS
<1>6. PICK e \in Seq(Byte) : /\ e = Write(d, n, <<>>) /\ Len(e) = Len(d) /\ e[n + 1] = NUL
                             /\ \A i \in 1 .. n : e[i] = d[i]
  <2>1. PICK t \in Seq(Text) : t = <<>> /\ Len(t) = 0
    BY <1>5
  <2>2. n + Len(t) < Len(d) /\ n + Len(t) + 1 = n + 1
    BY <1>1, <1>3, <2>1
  <2>3. \E e \in Seq(Byte) : /\ e = Write(d, n, t) /\ Len(e) = Len(d)
                              /\ e[n + Len(t) + 1] = NUL
                              /\ \A i \in 1 .. n : e[i] = d[i]
    BY <1>1, <2>2, WriteFacts
  <2> QED
    BY <2>1, <2>2, <2>3
<1>7. Holds(e, n, u)
  <2>1. n < Len(e)
    BY <1>1, <1>3, <1>6
  <2>2. \A i \in 1 .. n : i \in 1 .. m
    BY <1>1, <1>3
  <2> QED
    BY <1>3, <1>4, <1>6, <2>1, <2>2 DEF Holds
<1>8. /\ str' = [str EXCEPT ![s] = [data |-> e, length |-> n]]
      /\ ref' = [ref EXCEPT ![s] = u]
  BY <1>2, <1>4, <1>6 DEF safe_string_truncate
<1> QED
  BY <1>1, <1>7, <1>8, SetPreserves

(* A string that was freed is none.                                        *)
LEMMA FreePreserves ==
  ASSUME StrInv, NEW s \in Strings, safe_string_free(s)
  PROVE  StrInv'
<1>1. str' = [str EXCEPT ![s] = NoString] /\ ref' = [ref EXCEPT ![s] = <<>>]
  BY DEF safe_string_free
<1>2. NoString \in [data : Seq(Byte), length : 0 .. MaxLength]
  BY StringAssumption DEF NoString
<1>3. StrTypeOK'
  BY <1>1, <1>2 DEF StrInv, StrTypeOK, Byte, Text
<1>4. ASSUME NEW q \in Strings, Exists(q)'
      PROVE  Holds(str[q].data, str[q].length, ref[q])'
  <2>1. q # s
    BY <1>1, <1>4 DEF Exists, StrInv, StrTypeOK
  <2>2. str'[q] = str[q] /\ ref'[q] = ref[q]
    BY <1>1, <2>1 DEF StrInv, StrTypeOK
  <2>3. Holds(str[q].data, str[q].length, ref[q])
    BY <1>4, <2>2 DEF StrInv, Exists
  <2> QED
    BY <2>2, <2>3 DEF Holds
<1> QED
  BY <1>3, <1>4 DEF StrInv

(* The properties of the strings follow from the invariant.                *)
LEMMA InvImpliesStrings ==
  ASSUME StrInv
  PROVE  StringsIntact
<1>1. ASSUME NEW s \in Strings, Exists(s)
      PROVE  /\ str[s].length < Len(str[s].data)
             /\ str[s].data[str[s].length + 1] = NUL
             /\ CStr(str[s].data) = CStr(ref[s])
             /\ str[s].length = Len(ref[s])
             /\ \A i \in 0 .. str[s].length - 1 :
                  safe_string_char_at(s, i) = ref[s][i + 1]
  <2>1. PICK d \in Seq(Byte), n \in Nat, r \in Seq(Text) :
          /\ d = str[s].data /\ n = str[s].length /\ r = ref[s] /\ Holds(d, n, r)
    BY <1>1, StringFacts
  <2>2. CStr(d) = CStr(r)
    BY <2>1, CStrOfText
  <2>3. \A i \in 0 .. n - 1 : safe_string_char_at(s, i) = r[i + 1]
    <3>1. \A i \in 0 .. n - 1 : i + 1 \in 1 .. n /\ ~(i >= n)
      OBVIOUS
    <3> QED
      BY <2>1, <3>1 DEF Holds, safe_string_char_at
  <2> QED
    BY <2>1, <2>2, <2>3 DEF Holds
<1> QED
  BY <1>1 DEF StringsIntact, StrInv

(* The invariant of the strings holds forever.                             *)
LEMMA StrInvHolds ==
  ASSUME ~SelfAppend
  PROVE  StrSpec => []StrInv
<1>1. StrInit => StrInv
  <2> SUFFICES ASSUME StrInit PROVE StrInv
    OBVIOUS
  <2>1. NoString \in [data : Seq(Byte), length : 0 .. MaxLength] /\ <<>> \in Seq(Text)
    BY StringAssumption DEF NoString
  <2>2. StrTypeOK
    BY <2>1 DEF StrInit, StrTypeOK, Byte, Text
  <2> QED
    BY <2>2 DEF StrInit, StrInv, Exists
<1>2. StrInv /\ [StrNext]_strVars => StrInv'
  <2> SUFFICES ASSUME StrInv, [StrNext]_strVars PROVE StrInv'
    OBVIOUS
  <2>1. CASE UNCHANGED strVars
    BY <2>1 DEF StrInv, StrTypeOK, Exists, Holds, strVars
  <2>2. CASE StrNext
    BY <2>2, NewPreserves, AppendsPreserve, PushCharPreserves,
       TruncatePreserves, FreePreserves DEF StrNext
  <2> QED
    BY <2>1, <2>2
<1> QED
  BY <1>1, <1>2, PTL DEF StrSpec

(* Every index and the C string of a string give the text pushed, appended *)
(* and not truncated, and a terminator ends it inside of the buffer,       *)
(* however often safe_string_grow moved it, for clients that append a      *)
(* string to itself only where there is room (ownedc_string.c).            *)
THEOREM StringsStayIntact ==
  ASSUME ~SelfAppend
  PROVE  StrSpec => []StringsIntact
  BY StrInvHolds, InvImpliesStrings, PTL
=============================================================================
