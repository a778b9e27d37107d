------------------------------ MODULE RcProofs ------------------------------
(***************************************************************************)
(* The counts of Rc agree with the references there are, nothing that is   *)
(* referred to is freed, and the collector frees what it should, for any   *)
(* number of objects, any size of the tables and any graph.                *)
(***************************************************************************)
EXTENDS Rc, FiniteSetTheorems, FunctionTheorems, SequenceTheorems,
        NaturalsInduction, WellFoundedInduction, TLAPS

-----------------------------------------------------------------------------
(* References, counted.                                                    *)

\* The references to o in the data of P, as E has them.
Refs(E, P, o) == {r \in P \X (1 .. MaxCount) : r[2] <= E[r[1]][o]}

\* What edge may be.
Edges == [Objects -> [Objects -> 0 .. MaxCount]]

(* A set of references is finite.                                          *)
LEMMA RefsFinite ==
  ASSUME NEW E, NEW P \in SUBSET Objects, NEW o
  PROVE  IsFiniteSet(Refs(E, P, o)) /\ Cardinality(Refs(E, P, o)) \in Nat
<1>1. IsFiniteSet(P) /\ IsFiniteSet(1 .. MaxCount)
  BY RcAssumption, FS_Subset, FS_Interval
<1>2. IsFiniteSet(P \X (1 .. MaxCount))
  BY <1>1, FS_Product
<1>3. Refs(E, P, o) \in SUBSET (P \X (1 .. MaxCount))
  BY DEF Refs
<1>4. IsFiniteSet(Refs(E, P, o))
  BY <1>2, <1>3, FS_Subset
<1> QED
  BY <1>4, FS_CardinalityType

(* Objects that refer to o the same number of times.                       *)
LEMMA RefsSame ==
  ASSUME NEW E, NEW F, NEW P, NEW o, \A p \in P : E[p][o] = F[p][o]
  PROVE  Refs(E, P, o) = Refs(F, P, o)
  BY DEF Refs

(* Objects that do not refer to o can be left out.                         *)
LEMMA RefsLess ==
  ASSUME NEW E, NEW P, NEW Q \in SUBSET P, NEW o, \A p \in P \ Q : E[p][o] = 0
  PROVE  Refs(E, P, o) = Refs(E, Q, o)
<1>1. ASSUME NEW r \in P \X (1 .. MaxCount), r[2] <= E[r[1]][o]
      PROVE  r[1] \in Q
  <2>1. r[1] \in P /\ r[2] \in 1 .. MaxCount /\ ~(r[2] <= 0)
    BY RcAssumption
  <2> QED
    BY <1>1, <2>1
<1> QED
  BY <1>1 DEF Refs

(* No references at all.                                                   *)
LEMMA RefsNone ==
  ASSUME NEW E \in Edges, NEW P \in SUBSET Objects, NEW o \in Objects
  PROVE  Cardinality(Refs(E, P, o)) = 0 <=> \A p \in P : E[p][o] = 0
<1>1. Cardinality(Refs(E, P, o)) = 0 <=> Refs(E, P, o) = {}
  BY RefsFinite, FS_EmptySet
<1>2. ASSUME NEW p \in P, E[p][o] # 0
      PROVE  <<p, 1>> \in Refs(E, P, o)
  <2>1. E[p][o] \in 0 .. MaxCount
    BY DEF Edges
  <2>2. 1 <= E[p][o] /\ 1 \in 1 .. MaxCount
    BY <1>2, <2>1, RcAssumption
  <2> QED
    BY <2>2 DEF Refs
<1>3. ASSUME NEW r \in Refs(E, P, o)
      PROVE  r[1] \in P /\ E[r[1]][o] # 0
  <2>1. r[1] \in P /\ r[2] \in 1 .. MaxCount /\ ~(r[2] <= 0) /\ r[2] <= E[r[1]][o]
    BY RcAssumption DEF Refs
  <2> QED
    BY <2>1
<1> QED
  BY <1>1, <1>2, <1>3

(* The references of one object are as many as edge says.                  *)
LEMMA RefsOne ==
  ASSUME NEW E \in Edges, NEW p \in Objects, NEW o \in Objects
  PROVE  Cardinality(Refs(E, {p}, o)) = E[p][o]
<1>1. PICK n \in Nat : n = E[p][o] /\ n <= MaxCount
  BY RcAssumption DEF Edges
<1>2. PICK f : f = [i \in 1 .. n |-> <<p, i>>]
  OBVIOUS
<1>3. \A i \in 1 .. n : <<p, i>> \in Refs(E, {p}, o)
  BY <1>1, RcAssumption DEF Refs
<1>4. \A r \in Refs(E, {p}, o) : r[2] \in 1 .. n /\ r = <<p, r[2]>>
  BY <1>1, RcAssumption DEF Refs
<1>5. f \in Bijection(1 .. n, Refs(E, {p}, o))
  <2>1. f \in [1 .. n -> Refs(E, {p}, o)]
    BY <1>2, <1>3
  <2>2. \A i, j \in 1 .. n : f[i] = f[j] => i = j
    BY <1>2
  <2>3. \A r \in Refs(E, {p}, o) : \E i \in 1 .. n : f[i] = r
    BY <1>2, <1>4
  <2> QED
    BY <2>1, <2>2, <2>3, Fun_IsBij, Zenon
<1>6. ExistsBijection(1 .. n, Refs(E, {p}, o))
  BY <1>5 DEF ExistsBijection
<1>7. Cardinality(Refs(E, {p}, o)) = n
  BY <1>6, FS_CountingElements
<1> QED
  BY <1>1, <1>7

(* Two sets of objects with no object in common.                           *)
LEMMA RefsSplit ==
  ASSUME NEW E, NEW P \in SUBSET Objects, NEW Q \in SUBSET Objects, P \cap Q = {}, NEW o
  PROVE  Cardinality(Refs(E, P \cup Q, o))
           = Cardinality(Refs(E, P, o)) + Cardinality(Refs(E, Q, o))
<1> DEFINE A == Refs(E, P, o)
           B == Refs(E, Q, o)
<1>1. Refs(E, P \cup Q, o) = A \cup B /\ A \cap B = {}
  BY DEF Refs
<1>2. IsFiniteSet(A) /\ IsFiniteSet(B) /\ Cardinality(A) \in Nat /\ Cardinality(B) \in Nat
  BY RefsFinite
<1> HIDE DEF A, B
<1>3. Cardinality(A \cup B) = Cardinality(A) + Cardinality(B) - Cardinality(A \cap B)
  BY <1>2, FS_Union
<1>4. Cardinality(A \cap B) = 0
  BY <1>1, FS_EmptySet
<1>5. Cardinality(A \cup B) = Cardinality(A) + Cardinality(B)
  BY <1>2, <1>3, <1>4
<1>6. Cardinality(Refs(E, P \cup Q, o)) = Cardinality(A) + Cardinality(B)
  BY <1>1, <1>5, Zenon
<1> QED
  BY <1>6 DEF A, B

(* One object, and the others.                                             *)
LEMMA RefsAt ==
  ASSUME NEW E \in Edges, NEW P \in SUBSET Objects, NEW p \in P, NEW o \in Objects
  PROVE  /\ Cardinality(Refs(E, P, o)) = Cardinality(Refs(E, P \ {p}, o)) + E[p][o]
         /\ Cardinality(Refs(E, P \ {p}, o)) \in Nat
<1>1. P = (P \ {p}) \cup {p} /\ (P \ {p}) \cap {p} = {}
  OBVIOUS
<1>2. P \ {p} \in SUBSET Objects /\ {p} \in SUBSET Objects /\ p \in Objects
  OBVIOUS
<1>3. Cardinality(Refs(E, (P \ {p}) \cup {p}, o))
        = Cardinality(Refs(E, P \ {p}, o)) + Cardinality(Refs(E, {p}, o))
  BY <1>1, <1>2, RefsSplit
<1>4. Cardinality(Refs(E, {p}, o)) = E[p][o]
  BY <1>2, RefsOne
<1> QED
  BY <1>1, <1>2, <1>3, <1>4, RefsFinite

-----------------------------------------------------------------------------
(* The list of the collector.                                              *)

\* No object is twice in the list q.
Distinct(q) == \A i, j \in DOMAIN q : q[i] = q[j] => i = j

\* What the list q1 has left of the first n entries of q, without the objects of O.
LeftOf(q1, q, n, O) ==
  /\ q1 \in Seq(Objects)
  /\ \A o : o \in Range(q1) <=> o \notin O /\ \E i \in 1 .. n : q[i] = o
  /\ Distinct(q) => Distinct(q1)

(* Every nonempty set of numbers has a least one.                          *)
LEMMA LeastNat ==
  ASSUME NEW T \in SUBSET Nat, T # {}
  PROVE  \E x \in T : \A y \in T : x <= y
<1> DEFINE R == {p \in Nat \X Nat : p[1] < p[2]}
<1>1. OpToRel(<, Nat) = R
  BY DEF OpToRel
<1>2. \E x \in T : \A y \in T : ~(<<y, x>> \in OpToRel(<, Nat))
  BY NatLessThanWellFounded, WFMin
<1>3. PICK x \in T : \A y \in T : ~(<<y, x>> \in R)
  BY <1>1, <1>2
<1>4. \A y \in T : x \in Nat /\ y \in Nat /\ ~(y < x)
  BY <1>3
<1> HIDE DEF R
<1> QED
  BY <1>4

\* The function g walks along the first n entries of q and leaves out those in O.
Walks(g, q, n, O) ==
  g = [i \in 0 .. n |->
         IF i = 0 THEN <<>>
         ELSE IF q[i] \in O THEN g[i - 1] ELSE Append(g[i - 1], q[i])]

(* The same, entry by entry.                                               *)
LEMMA WalksAt ==
  ASSUME NEW q, NEW n \in Nat, NEW O, NEW g
  PROVE  Walks(g, q, n, O) <=>
           /\ g = [i \in 0 .. n |-> g[i]]
           /\ \A i \in 0 .. n :
                g[i] = IF i = 0 THEN <<>>
                       ELSE IF q[i] \in O THEN g[i - 1] ELSE Append(g[i - 1], q[i])
  BY DEF Walks

(* A list can be walked along to any of its entries.                       *)
LEMMA WalkExists ==
  ASSUME NEW q, NEW n \in Nat, NEW O
  PROVE  \E g : Walks(g, q, n, O)
<1> DEFINE T == {m \in Nat : \A g : ~Walks(g, q, m, O)}
<1>1. SUFFICES ASSUME T # {} PROVE FALSE
  OBVIOUS
<1>2. PICK x \in T : \A y \in T : x <= y
  BY <1>1, LeastNat
<1>3. CASE x = 0
  <2>1. PICK g : g = [i \in 0 .. 0 |-> <<>>]
    OBVIOUS
  <2>2. g = [i \in 0 .. 0 |-> g[i]] /\ \A i \in 0 .. 0 : i = 0 /\ g[i] = <<>>
    BY <2>1
  <2>3. Walks(g, q, 0, O)
    <3>1. \A i \in 0 .. 0 :
            g[i] = IF i = 0 THEN <<>>
                   ELSE IF q[i] \in O THEN g[i - 1] ELSE Append(g[i - 1], q[i])
      BY <2>2
    <3> QED
      BY <2>2, <3>1 DEF Walks
  <2> QED
    BY <1>2, <1>3, <2>3
<1>4. CASE x # 0
  <2>1. x \in Nat /\ x - 1 \in Nat /\ x - 1 \notin T
    BY <1>2, <1>4
  <2>2. PICK m \in Nat : m = x - 1 /\ x = m + 1
    BY <2>1
  <2>3. PICK g : Walks(g, q, m, O)
    BY <2>1, <2>2
  <2>4. PICK v : v = IF q[x] \in O THEN g[m] ELSE Append(g[m], q[x])
    OBVIOUS
  <2>5. PICK h : h = [i \in 0 .. x |-> IF i = x THEN v ELSE g[i]]
    OBVIOUS
  <2>6. \A i \in 0 .. m : g[i] = IF i = 0 THEN <<>>
                                  ELSE IF q[i] \in O THEN g[i - 1] ELSE Append(g[i - 1], q[i])
    BY <2>3 DEF Walks
  <2>7. h[x] = v /\ \A i \in 0 .. m : h[i] = g[i]
    BY <2>1, <2>2, <2>5
  <2>8. ASSUME NEW i \in 0 .. x
        PROVE  h[i] = IF i = 0 THEN <<>>
                      ELSE IF q[i] \in O THEN h[i - 1] ELSE Append(h[i - 1], q[i])
    <3>1. CASE i = x
      <4>1. m \in 0 .. m
        OBVIOUS
      <4>2. h[m] = g[m] /\ i - 1 = m /\ i # 0
        BY <4>1, <2>2, <2>7, <3>1
      <4> QED
        BY <4>2, <3>1, <2>4, <2>7
    <3>2. CASE i = 0
      BY <3>2, <2>2, <2>6, <2>7
    <3>3. CASE i # x /\ i # 0
      <4>1. i \in 0 .. m /\ i - 1 \in 0 .. m
        BY <3>3, <2>2
      <4>2. h[i] = g[i] /\ h[i - 1] = g[i - 1]
        BY <4>1, <2>7
      <4> QED
        BY <4>1, <4>2, <3>3, <2>6
    <3> QED
      BY <3>1, <3>2, <3>3
  <2>9. h = [i \in 0 .. x |-> h[i]]
    BY <2>5
  <2>10. Walks(h, q, x, O)
    BY <2>1, <2>8, <2>9, WalksAt
  <2> QED
    BY <1>2, <2>10
<1> QED
  BY <1>3, <1>4

(* One more entry that stays.                                              *)
LEMMA LeftMore ==
  ASSUME NEW q \in Seq(Objects), NEW n \in Nat, n + 1 <= Len(q), NEW O, NEW q1,
         LeftOf(q1, q, n, O), q[n + 1] \notin O
  PROVE  LeftOf(Append(q1, q[n + 1]), q, n + 1, O)
<1>1. PICK x \in Objects : x = q[n + 1]
  OBVIOUS
<1>2. PICK q2 \in Seq(Objects) : q2 = Append(q1, x)
  <2>1. q1 \in Seq(Objects)
    BY DEF LeftOf
  <2>2. Append(q1, x) \in Seq(Objects)
    BY <2>1, AppendProperties
  <2> QED
    BY <2>2, Zenon
<1>3. PICK l \in Nat : /\ l = Len(q1) /\ Len(q2) = l + 1
                       /\ DOMAIN q1 = 1 .. l /\ DOMAIN q2 = 1 .. l + 1
  BY <1>2 DEF LeftOf
<1>4. q2[l + 1] = x /\ \A i \in 1 .. l : q2[i] = q1[i]
  BY <1>2, <1>3 DEF LeftOf
<1>5. ASSUME NEW o
      PROVE  o \in Range(q2) <=> o \notin O /\ \E i \in 1 .. n + 1 : q[i] = o
  <2>1. o \in Range(q2) <=> o = x \/ o \in Range(q1)
    <3>1. o \in Range(q2) <=> \E i \in 1 .. l + 1 : q2[i] = o
      BY <1>3 DEF Range
    <3>2. o \in Range(q1) <=> \E i \in 1 .. l : q1[i] = o
      BY <1>3 DEF Range
    <3> QED
      BY <3>1, <3>2, <1>4
  <2>2. (\E i \in 1 .. n + 1 : q[i] = o) <=> o = x \/ \E i \in 1 .. n : q[i] = o
    BY <1>1
  <2> QED
    BY <2>1, <2>2, <1>1 DEF LeftOf
<1>6. ASSUME Distinct(q) PROVE Distinct(q2)
  <2>1. Distinct(q1)
    BY <1>6 DEF LeftOf
  <2>2. x \notin Range(q1)
    <3>1. \A i \in 1 .. n : q[i] # x
      BY <1>1, <1>6 DEF Distinct
    <3> QED
      BY <3>1 DEF LeftOf
  <2>3. \A i \in 1 .. l : q1[i] # x
    BY <1>3, <2>2 DEF Range
  <2>4. \A i, j \in 1 .. l : q1[i] = q1[j] => i = j
    BY <1>3, <2>1 DEF Distinct
  <2>5. \A i, j \in 1 .. l + 1 : q2[i] = q2[j] => i = j
    <3>1. SUFFICES ASSUME NEW i \in 1 .. l + 1, NEW j \in 1 .. l + 1, q2[i] = q2[j]
                   PROVE  i = j
      OBVIOUS
    <3>2. (i = l + 1 \/ i \in 1 .. l) /\ (j = l + 1 \/ j \in 1 .. l)
      OBVIOUS
    <3> QED
      BY <1>4, <2>3, <2>4, <3>1, <3>2
  <2> QED
    BY <1>3, <2>5 DEF Distinct
<1>7. LeftOf(q2, q, n + 1, O)
  BY <1>5, <1>6 DEF LeftOf
<1> QED
  BY <1>1, <1>2, <1>7

(* Unlinking keeps what it should, in order.                               *)
LEMMA UnlinkedIs ==
  ASSUME NEW q \in Seq(Objects), NEW O
  PROVE  LeftOf(unlinked(q, O), q, Len(q), O)
<1>2. PICK l \in Nat : l = Len(q)
  OBVIOUS
<1>1. PICK g : Walks(g, q, l, O) /\ unlinked(q, O) = g[Len(q)]
  <2>1. \E g : Walks(g, q, l, O)
    BY WalkExists
  <2> QED
    BY <1>2, <2>1 DEF Walks, unlinked
<1>3. \A i \in 0 .. l : g[i] = IF i = 0 THEN <<>>
                                ELSE IF q[i] \in O THEN g[i - 1] ELSE Append(g[i - 1], q[i])
  BY <1>1, <1>2, WalksAt
<1> DEFINE T == {m \in 0 .. l : ~LeftOf(g[m], q, m, O)}
<1>4. ASSUME T # {} PROVE FALSE
  <2>0. T \in SUBSET Nat
    OBVIOUS
  <2>1. PICK x \in T : \A y \in T : x <= y
    <3> HIDE DEF T
    <3> QED
      BY <1>4, <2>0, LeastNat
  <2>2. CASE x = 0
    <3>1. g[0] = <<>>
      BY <1>3
    <3>2. LeftOf(<<>>, q, 0, O)
      BY DEF LeftOf, Range, Distinct
    <3> QED
      BY <2>1, <2>2, <3>1, <3>2
  <2>3. CASE x # 0
    <3>1. PICK m \in Nat : m = x - 1 /\ x = m + 1 /\ m \in 0 .. l /\ m \notin T /\ m + 1 <= l
      BY <2>1, <2>3
    <3>2. LeftOf(g[m], q, m, O)
      BY <3>1
    <3>3. CASE q[x] \in O
      <4>1. g[x] = g[m]
        BY <1>3, <2>1, <2>3, <3>1, <3>3
      <4>2. \A o : o \notin O => ((\E i \in 1 .. x : q[i] = o) <=> \E i \in 1 .. m : q[i] = o)
        BY <3>1, <3>3
      <4>3. LeftOf(g[x], q, x, O)
        BY <3>2, <4>1, <4>2 DEF LeftOf
      <4> QED
        BY <2>1, <4>3
    <3>4. CASE q[x] \notin O
      <4>1. g[x] = Append(g[m], q[x])
        BY <1>3, <2>1, <2>3, <3>1, <3>4
      <4>2. LeftOf(g[x], q, x, O)
        BY <1>2, <3>1, <3>2, <3>4, <4>1, LeftMore
      <4> QED
        BY <2>1, <4>2
    <3> QED
      BY <3>3, <3>4
  <2> QED
    BY <2>2, <2>3
<1>5. l \in 0 .. l /\ l \notin T
  BY <1>4
<1> QED
  BY <1>1, <1>2, <1>5

-----------------------------------------------------------------------------
(* The invariant.                                                          *)

\* The list of the collector has every live object, once.
Listed == Distinct(gc_list) /\ Range(gc_list) = live

\* The count of a live object, which is never zero.
Counted ==
  \A o \in live : ref_count[o] > 0 /\ ref_count[o] = ext[o] + EdgesFrom(live, o) + lost[o]

\* Nothing refers to an object that was freed, and it refers to nothing.
FreedAlone ==
  \A o \in Objects \ live : ext[o] = 0 /\ \A p \in Objects : edge[p][o] = 0 /\ edge[o][p] = 0

\* What a table has is in the data of its object, as often.
EntriesStored == \A p \in live, c \in Objects : Entries(p, c) <= edge[p][c]

RcInv == RcTypeOK /\ Listed /\ Counted /\ FreedAlone /\ EntriesStored /\ ~touched

(* The references of one object are some of those of a set it is in.       *)
LEMMA StoredAtMost ==
  ASSUME RcTypeOK, Counted, NEW p \in live, NEW c \in live
  PROVE  /\ edge[p][c] \in Nat /\ ext[c] \in Nat /\ lost[c] \in Nat /\ ref_count[c] \in Nat
         /\ ref_count[c] <= MaxCount
         /\ edge[p][c] + ext[c] + lost[c] <= ref_count[c]
<1>1. edge \in Edges /\ live \in SUBSET Objects /\ c \in Objects /\ p \in Objects
  BY DEF RcTypeOK, Edges
<1>2. /\ Cardinality(Refs(edge, live, c)) = Cardinality(Refs(edge, live \ {p}, c)) + edge[p][c]
      /\ Cardinality(Refs(edge, live \ {p}, c)) \in Nat
  BY <1>1, RefsAt
<1>3. ref_count[c] = ext[c] + Cardinality(Refs(edge, live, c)) + lost[c]
  BY DEF Counted, EdgesFrom, Stored, Refs
<1>4. /\ edge[p][c] \in Nat /\ ext[c] \in Nat /\ lost[c] \in Nat /\ ref_count[c] \in Nat
      /\ ref_count[c] <= MaxCount
  BY <1>1, RcAssumption DEF RcTypeOK
<1> QED
  BY <1>2, <1>3, <1>4

(* How often an object is in a table, when another entry is added.         *)
LEMMA EntriesAppend ==
  ASSUME NEW s \in Seq(Objects), NEW c \in Objects, NEW d \in Objects
  PROVE  LET n(q) == Cardinality({i \in DOMAIN q : q[i] = d})
         IN  n(s) \in Nat /\ n(Append(s, c)) = IF c = d THEN n(s) + 1 ELSE n(s)
<1>1. PICK l \in Nat : l = Len(s) /\ DOMAIN s = 1 .. l
  OBVIOUS
<1>2. PICK q \in Seq(Objects) : q = Append(s, c)
  <2>1. Append(s, c) \in Seq(Objects)
    BY AppendProperties
  <2> QED
    BY <2>1, Zenon
<1>3. DOMAIN q = 1 .. l + 1 /\ q[l + 1] = c /\ \A i \in 1 .. l : q[i] = s[i]
  BY <1>1, <1>2
<1>4. PICK A : A = {i \in DOMAIN s : s[i] = d}
  OBVIOUS
<1>5. IsFiniteSet(A) /\ Cardinality(A) \in Nat /\ l + 1 \notin A
  <2>1. A \in SUBSET (1 .. l) /\ IsFiniteSet(1 .. l)
    BY <1>1, <1>4, FS_Interval
  <2>2. IsFiniteSet(A)
    BY <2>1, FS_Subset
  <2>3. Cardinality(A) \in Nat
    BY <2>2, FS_CardinalityType
  <2>4. l + 1 \notin A
    BY <2>1
  <2> QED
    BY <2>2, <2>3, <2>4
<1>6. {i \in DOMAIN q : q[i] = d} = IF c = d THEN A \cup {l + 1} ELSE A
  BY <1>1, <1>3, <1>4
<1>7. Cardinality(A \cup {l + 1}) = Cardinality(A) + 1
  BY <1>5, FS_AddElement
<1> QED
  BY <1>2, <1>4, <1>5, <1>6, <1>7

(* A number of entries is a number.                                        *)
LEMMA EntriesNat ==
  ASSUME NEW s \in Seq(Objects), NEW d
  PROVE  Cardinality({i \in DOMAIN s : s[i] = d}) \in Nat
<1>1. PICK l \in Nat : l = Len(s) /\ DOMAIN s = 1 .. l
  OBVIOUS
<1>2. PICK A : A = {i \in DOMAIN s : s[i] = d}
  OBVIOUS
<1>3. A \in SUBSET (1 .. l) /\ IsFiniteSet(1 .. l)
  BY <1>1, <1>2, FS_Interval
<1>4. IsFiniteSet(A)
  BY <1>3, FS_Subset
<1>5. Cardinality(A) \in Nat
  BY <1>4, FS_CardinalityType
<1> QED
  BY <1>2, <1>5

(* The objects of the initial state are all free.                          *)
LEMMA RcInitInv == RcInit => RcInv
<1> SUFFICES ASSUME RcInit PROVE RcInv
  OBVIOUS
<1>1. RcTypeOK
  <2>1. 0 \in 0 .. MaxCount /\ 0 \in Nat /\ <<>> \in Seq(Objects) /\ Len(<<>>) = 0
    BY RcAssumption
  <2>2. edge \in [Objects -> [Objects -> 0 .. MaxCount]]
    BY <2>1 DEF RcInit
  <2>3. /\ children \in [Objects -> Seq(Objects)]
        /\ \A o \in Objects : Len(children[o]) <= MaxChildren
    BY <2>1, RcAssumption DEF RcInit
  <2> QED
    BY <2>1, <2>2, <2>3 DEF RcInit, RcTypeOK
<1>2. Listed
  BY DEF RcInit, Listed, Distinct, Range
<1>3. Counted /\ FreedAlone /\ EntriesStored /\ ~touched
  BY DEF RcInit, Counted, FreedAlone, EntriesStored
<1> QED
  BY <1>1, <1>2, <1>3 DEF RcInv

(* Pushing an object that is not on the list.                              *)
LEMMA ListedPush ==
  ASSUME NEW q \in Seq(Objects), NEW o \in Objects, Distinct(q), o \notin Range(q)
  PROVE  /\ <<o>> \o q \in Seq(Objects) /\ Distinct(<<o>> \o q)
         /\ Range(<<o>> \o q) = Range(q) \cup {o}
<1>1. PICK l \in Nat : l = Len(q) /\ DOMAIN q = 1 .. l
  OBVIOUS
<1>2. <<o>> \in Seq(Objects) /\ Len(<<o>>) = 1 /\ <<o>>[1] = o
  OBVIOUS
<1>3. <<o>> \o q \in Seq(Objects)
  BY <1>2, ConcatProperties
<1>4. PICK r \in Seq(Objects) : r = <<o>> \o q
  BY <1>3, Zenon
<1>5. DOMAIN r = 1 .. l + 1 /\ r[1] = o /\ \A i \in 1 .. l : r[i + 1] = q[i]
  BY <1>1, <1>2, <1>4
<1>6. \A i \in 1 .. l : q[i] # o
  BY <1>1 DEF Range
<1>7. ASSUME NEW i \in 1 .. l + 1
      PROVE  \/ i = 1
             \/ i - 1 \in 1 .. l /\ r[i] = q[i - 1]
  <2>1. CASE i # 1
    <3>1. PICK k \in 1 .. l : k = i - 1 /\ i = k + 1
      BY <2>1
    <3> QED
      BY <3>1, <1>5
  <2> QED
    BY <2>1
<1>8. Distinct(r)
  <2>1. SUFFICES ASSUME NEW i \in 1 .. l + 1, NEW j \in 1 .. l + 1, r[i] = r[j]
                 PROVE  i = j
    BY <1>5 DEF Distinct
  <2>2. \A a, b \in 1 .. l : q[a] = q[b] => a = b
    BY <1>1 DEF Distinct
  <2>3. CASE i = 1 \/ j = 1
    BY <2>1, <2>3, <1>5, <1>6, <1>7
  <2>4. CASE i # 1 /\ j # 1
    <3>1. i - 1 \in 1 .. l /\ j - 1 \in 1 .. l /\ q[i - 1] = q[j - 1]
      BY <2>1, <2>4, <1>7
    <3>2. i - 1 = j - 1
      BY <2>2, <3>1
    <3> QED
      BY <3>2
  <2> QED
    BY <2>3, <2>4
<1>9. Range(r) = Range(q) \cup {o}
  <2>1. \A x : x \in Range(q) <=> \E i \in 1 .. l : q[i] = x
    BY <1>1 DEF Range
  <2>2. \A x : x \in Range(r) <=> \E i \in 1 .. l + 1 : r[i] = x
    BY <1>5 DEF Range
  <2>3. ASSUME NEW x \in Range(r) PROVE x \in Range(q) \cup {o}
    BY <2>1, <2>2, <1>5, <1>7
  <2>4. ASSUME NEW x \in Range(q) \cup {o} PROVE x \in Range(r)
    <3>1. CASE x = o
      BY <3>1, <2>2, <1>5
    <3>2. CASE x \in Range(q)
      <4>1. PICK i \in 1 .. l : q[i] = x
        BY <2>1, <3>2
      <4>2. i + 1 \in 1 .. l + 1 /\ r[i + 1] = x
        BY <4>1, <1>5
      <4> QED
        BY <4>2, <2>2
    <3> QED
      BY <3>1, <3>2
  <2> QED
    BY <2>3, <2>4
<1> QED
  BY <1>3, <1>4, <1>8, <1>9

(* Taking objects off the list.                                            *)
LEMMA ListedUnlink ==
  ASSUME RcTypeOK, Listed, NEW O, unregister_from_gc(O), live' = live \ O
  PROVE  gc_list' \in Seq(Objects) /\ Listed'
<1>1. PICK q \in Seq(Objects) : q = gc_list
  BY DEF RcTypeOK
<1>2. PICK l \in Nat : l = Len(q) /\ DOMAIN q = 1 .. l
  OBVIOUS
<1>3. LeftOf(gc_list', q, l, O)
  <2>1. LeftOf(unlinked(q, O), q, Len(q), O)
    BY UnlinkedIs
  <2> QED
    BY <2>1, <1>1, <1>2 DEF unregister_from_gc
<1>4. \A o : o \in Range(q) <=> \E i \in 1 .. l : q[i] = o
  BY <1>2 DEF Range
<1>5. \A o : o \in live <=> \E i \in 1 .. l : q[i] = o
  BY <1>1, <1>4 DEF Listed
<1>6. Range(gc_list') = live \ O
  BY <1>3, <1>5 DEF LeftOf
<1>7. gc_list' \in Seq(Objects) /\ Distinct(gc_list')
  BY <1>1, <1>3 DEF LeftOf, Listed
<1> QED
  BY <1>6, <1>7 DEF Listed

-----------------------------------------------------------------------------
(* The steps.                                                              *)

(* owned_rc_new keeps the invariant.                                       *)
LEMMA NewInv ==
  ASSUME RcInv, NEW o \in Objects, owned_rc_new(o)
  PROVE  RcInv'
<1> USE DEF RcInv
<1>1. /\ o \notin live /\ live' = live \cup {o}
      /\ ref_count' = [ref_count EXCEPT ![o] = 1]
      /\ children' = [children EXCEPT ![o] = <<>>]
      /\ gc_list' = <<o>> \o gc_list
      /\ ext' = [ext EXCEPT ![o] = 1]
      /\ edge' = [edge EXCEPT ![o] = [c \in Objects |-> 0]]
      /\ lost' = [lost EXCEPT ![o] = 0]
      /\ touched' = touched
  BY DEF owned_rc_new, register_in_gc
<1>2. gc_list' \in Seq(Objects) /\ Listed'
  <2>1. gc_list \in Seq(Objects) /\ Distinct(gc_list) /\ o \notin Range(gc_list)
    BY <1>1 DEF Listed, RcTypeOK
  <2>2. /\ <<o>> \o gc_list \in Seq(Objects) /\ Distinct(<<o>> \o gc_list)
        /\ Range(<<o>> \o gc_list) = Range(gc_list) \cup {o}
    BY <2>1, ListedPush
  <2> QED
    BY <1>1, <2>2 DEF Listed
<1>3. edge' \in Edges /\ \A p, c \in Objects : edge'[p][c] = edge[p][c]
  <2>1. edge \in Edges /\ 0 \in 0 .. MaxCount
    BY RcAssumption DEF RcTypeOK, Edges
  <2>2. \A c \in Objects : edge[o][c] = 0
    BY <1>1 DEF FreedAlone
  <2> QED
    BY <1>1, <2>1, <2>2 DEF Edges
<1>4. RcTypeOK'
  <2>1. 0 \in Nat /\ 1 \in Nat /\ 1 \in 0 .. MaxCount /\ <<>> \in Seq(Objects) /\ Len(<<>>) = 0
    BY RcAssumption
  <2>2. children' \in [Objects -> Seq(Objects)] /\ \A p \in Objects : Len(children'[p]) <= MaxChildren
    BY <1>1, <2>1, RcAssumption DEF RcTypeOK
  <2>3. ref_count' \in [Objects -> 0 .. MaxCount] /\ ext' \in [Objects -> Nat] /\ lost' \in [Objects -> Nat]
    BY <1>1, <2>1 DEF RcTypeOK
  <2>4. live' \subseteq Objects /\ touched' \in BOOLEAN
    BY <1>1 DEF RcTypeOK
  <2> QED
    BY <1>2, <1>3, <2>2, <2>3, <2>4 DEF RcTypeOK, Edges
<1>5. ASSUME NEW c \in live'
      PROVE  /\ ref_count'[c] > 0
             /\ ref_count'[c] = ext'[c] + Cardinality(Refs(edge', live', c)) + lost'[c]
  <2>1. live \in SUBSET Objects /\ live' \in SUBSET Objects /\ c \in Objects /\ live \in SUBSET live'
    BY <1>1 DEF RcTypeOK
  <2>2. CASE c = o
    <3>1. \A p \in live' : edge'[p][c] = 0
      BY <1>1, <1>3, <2>1, <2>2 DEF FreedAlone
    <3>2. Cardinality(Refs(edge', live', c)) = 0
      BY <1>3, <2>1, <3>1, RefsNone
    <3>3. ref_count'[c] = 1 /\ ext'[c] = 1 /\ lost'[c] = 0
      BY <1>1, <2>1, <2>2 DEF RcTypeOK
    <3> QED
      BY <3>2, <3>3
  <2>3. CASE c # o
    <3>1. \A p \in live' \ live : edge'[p][c] = 0
      BY <1>1, <1>3, <2>1 DEF FreedAlone
    <3>2. Refs(edge', live', c) = Refs(edge', live, c)
      BY <2>1, <3>1, RefsLess
    <3>3. \A p \in live : edge'[p][c] = edge[p][c]
      BY <1>3, <2>1
    <3>4. Refs(edge', live, c) = Refs(edge, live, c)
      BY <3>3, RefsSame
    <3>5. c \in live /\ ref_count'[c] = ref_count[c] /\ ext'[c] = ext[c] /\ lost'[c] = lost[c]
      BY <1>1, <2>1, <2>3 DEF RcTypeOK
    <3>6. ref_count[c] > 0 /\ ref_count[c] = ext[c] + Cardinality(Refs(edge, live, c)) + lost[c]
      BY <3>5 DEF Counted, EdgesFrom, Stored, Refs
    <3> QED
      BY <3>2, <3>4, <3>5, <3>6
  <2> QED
    BY <2>2, <2>3
<1>6. Counted'
  BY <1>5 DEF Counted, EdgesFrom, Stored, Refs
<1>7. FreedAlone'
  BY <1>1, <1>3 DEF FreedAlone, RcTypeOK
<1>8. EntriesStored'
  <2>1. SUFFICES ASSUME NEW p \in live', NEW c \in Objects
                 PROVE  Cardinality({i \in DOMAIN children'[p] : children'[p][i] = c}) <= edge'[p][c]
    BY DEF EntriesStored, Entries
  <2>2. CASE p = o
    <3>1. {i \in DOMAIN children'[p] : children'[p][i] = c} = {}
      BY <1>1, <2>2 DEF RcTypeOK
    <3>2. edge'[p][c] = 0
      BY <1>1, <1>3, <2>2 DEF FreedAlone
    <3> QED
      BY <3>1, <3>2, FS_EmptySet
  <2>3. CASE p # o
    <3>1. p \in live /\ p \in Objects /\ children'[p] = children[p] /\ edge'[p][c] = edge[p][c]
      BY <1>1, <1>3, <2>1, <2>3 DEF RcTypeOK
    <3>2. Cardinality({i \in DOMAIN children[p] : children[p][i] = c}) <= edge[p][c]
      BY <3>1 DEF EntriesStored, Entries
    <3> QED
      BY <3>1, <3>2
  <2> QED
    BY <2>2, <2>3
<1> QED
  BY <1>1, <1>2, <1>4, <1>6, <1>7, <1>8

(* owned_rc_clone keeps the invariant.                                     *)
LEMMA CloneInv ==
  ASSUME RcInv, NEW o \in Objects, owned_rc_clone(o)
  PROVE  RcInv'
<1> USE DEF RcInv
<1>1. /\ ext[o] > 0 /\ ref_count[o] < MaxCount
      /\ ref_count' = [ref_count EXCEPT ![o] = ref_count[o] + 1]
      /\ ext' = [ext EXCEPT ![o] = ext[o] + 1]
      /\ live' = live /\ children' = children /\ gc_list' = gc_list /\ edge' = edge
      /\ lost' = lost /\ touched' = touched
  BY DEF owned_rc_clone
<1>2. o \in live /\ ref_count[o] \in Nat /\ ref_count[o] + 1 \in 0 .. MaxCount /\ ext[o] + 1 \in Nat
  BY <1>1, RcAssumption DEF FreedAlone, RcTypeOK
<1>3. RcTypeOK'
  BY <1>1, <1>2 DEF RcTypeOK
<1>4. ASSUME NEW c \in live
      PROVE  /\ ref_count'[c] > 0
             /\ ref_count'[c] = ext'[c] + Cardinality(Refs(edge, live, c)) + lost[c]
  <2>1. ref_count[c] > 0 /\ ref_count[c] = ext[c] + Cardinality(Refs(edge, live, c)) + lost[c]
    BY DEF Counted, EdgesFrom, Stored, Refs
  <2>2. /\ ref_count'[c] = IF c = o THEN ref_count[c] + 1 ELSE ref_count[c]
        /\ ext'[c] = IF c = o THEN ext[c] + 1 ELSE ext[c]
    BY <1>1 DEF RcTypeOK
  <2>3. Cardinality(Refs(edge, live, c)) \in Nat /\ ext[c] \in Nat /\ lost[c] \in Nat
    BY RefsFinite DEF RcTypeOK
  <2> QED
    BY <2>1, <2>2, <2>3
<1>5. Counted'
  BY <1>1, <1>4 DEF Counted, EdgesFrom, Stored, Refs
<1>6. FreedAlone'
  BY <1>1, <1>2 DEF FreedAlone, RcTypeOK
<1>7. Listed' /\ EntriesStored'
  BY <1>1 DEF Listed, EntriesStored, Entries
<1> QED
  BY <1>1, <1>3, <1>5, <1>6, <1>7

(* When one object refers to o more or less often.                         *)
LEMMA RefsChange ==
  ASSUME NEW E \in Edges, NEW F \in Edges, NEW P \in SUBSET Objects, NEW p \in P,
         NEW o \in Objects, \A q \in P \ {p} : F[q][o] = E[q][o]
  PROVE  /\ Cardinality(Refs(F, P, o)) + E[p][o] = Cardinality(Refs(E, P, o)) + F[p][o]
         /\ Cardinality(Refs(F, P, o)) \in Nat /\ Cardinality(Refs(E, P, o)) \in Nat
<1>1. Refs(F, P \ {p}, o) = Refs(E, P \ {p}, o)
  BY RefsSame
<1>2. Cardinality(Refs(F, P, o)) = Cardinality(Refs(F, P \ {p}, o)) + F[p][o]
  BY RefsAt
<1>3. /\ Cardinality(Refs(E, P, o)) = Cardinality(Refs(E, P \ {p}, o)) + E[p][o]
      /\ Cardinality(Refs(E, P \ {p}, o)) \in Nat
  BY RefsAt
<1>4. E[p][o] \in Nat /\ F[p][o] \in Nat
  BY RcAssumption DEF Edges
<1>5. Cardinality(Refs(F, P, o)) \in Nat /\ Cardinality(Refs(E, P, o)) \in Nat
  BY RefsFinite
<1> QED
  BY <1>1, <1>2, <1>3, <1>4, <1>5

(* A reference moved between a variable and the data of p.                 *)
LEMMA MovedCounted ==
  ASSUME RcInv, NEW p \in live, NEW c \in live, RcTypeOK',
         live' = live, ref_count' = ref_count, lost' = lost,
         \A o \in Objects : o # c => ext'[o] = ext[o],
         \A q, o \in Objects : q # p \/ o # c => edge'[q][o] = edge[q][o],
         ext'[c] + edge'[p][c] = ext[c] + edge[p][c]
  PROVE  Counted' /\ FreedAlone'
<1> USE DEF RcInv
<1>1. edge \in Edges /\ edge' \in Edges /\ live \in SUBSET Objects
  BY DEF RcTypeOK, Edges
<1>2. ASSUME NEW o \in live
      PROVE  /\ ref_count[o] > 0
             /\ ref_count[o] = ext'[o] + Cardinality(Refs(edge', live, o)) + lost[o]
  <2>1. o \in Objects /\ p \in Objects /\ c \in Objects
    BY <1>1
  <2>2. /\ Cardinality(Refs(edge', live, o)) + edge[p][o] = Cardinality(Refs(edge, live, o)) + edge'[p][o]
        /\ Cardinality(Refs(edge', live, o)) \in Nat /\ Cardinality(Refs(edge, live, o)) \in Nat
    <3>1. \A q \in live \ {p} : edge'[q][o] = edge[q][o]
      BY <1>1, <2>1
    <3> QED
      BY <1>1, <2>1, <3>1, RefsChange
  <2>3. ref_count[o] > 0 /\ ref_count[o] = ext[o] + Cardinality(Refs(edge, live, o)) + lost[o]
    BY DEF Counted, EdgesFrom, Stored, Refs
  <2>4. /\ ext[o] \in Nat /\ lost[o] \in Nat /\ ext'[o] \in Nat
        /\ edge[p][o] \in Nat /\ edge'[p][o] \in Nat
    BY <1>1, <2>1, RcAssumption DEF RcTypeOK, Edges
  <2>5. ext'[o] + edge'[p][o] = ext[o] + edge[p][o]
    BY <2>1
  <2> QED
    BY <2>2, <2>3, <2>4, <2>5
<1>3. Counted'
  BY <1>2 DEF Counted, EdgesFrom, Stored, Refs
<1>4. FreedAlone'
  BY <1>1 DEF FreedAlone
<1> QED
  BY <1>3, <1>4

(* link keeps the invariant.                                               *)
LEMMA LinkInv ==
  ASSUME RcInv, NEW p \in Objects, NEW c \in Objects, link(p, c)
  PROVE  RcInv'
<1> USE DEF RcInv
<1>1. /\ ext[p] > 0 /\ ext[c] > 0
      /\ ext' = [ext EXCEPT ![c] = ext[c] - 1]
      /\ edge' = [edge EXCEPT ![p][c] = edge[p][c] + 1]
      /\ children' = [children EXCEPT ![p] =
           IF Len(children[p]) < MaxChildren THEN Append(children[p], c) ELSE children[p]]
      /\ live' = live /\ ref_count' = ref_count /\ gc_list' = gc_list
      /\ lost' = lost /\ touched' = touched
  BY DEF link, owned_rc_register_child
<1>2. p \in live /\ c \in live
  <2>1. ext[p] # 0 /\ ext[c] # 0
    BY <1>1
  <2> QED
    BY <2>1 DEF FreedAlone
<1>3. /\ edge[p][c] \in Nat /\ ext[c] \in Nat /\ ext[c] - 1 \in Nat
      /\ edge[p][c] + 1 \in 0 .. MaxCount
  <2>1. /\ edge[p][c] \in Nat /\ ext[c] \in Nat /\ lost[c] \in Nat /\ ref_count[c] \in Nat
        /\ ref_count[c] <= MaxCount
        /\ edge[p][c] + ext[c] + lost[c] <= ref_count[c]
    BY <1>2, StoredAtMost
  <2>2. ext[c] > 0 /\ MaxCount \in Nat
    BY <1>1, RcAssumption
  <2> QED
    BY <2>1, <2>2
<1>4. /\ edge' \in Edges /\ edge'[p][c] = edge[p][c] + 1
      /\ \A q, o \in Objects : q # p \/ o # c => edge'[q][o] = edge[q][o]
  <2>1. edge \in Edges
    BY DEF RcTypeOK, Edges
  <2> QED
    BY <1>1, <1>3, <2>1 DEF Edges
<1>5. /\ ext' \in [Objects -> Nat] /\ ext'[c] = ext[c] - 1
      /\ \A o \in Objects : o # c => ext'[o] = ext[o]
  BY <1>1, <1>3 DEF RcTypeOK
<1>6. PICK t \in Seq(Objects) : t = children[p] /\ Len(t) <= MaxChildren
  BY DEF RcTypeOK
<1>7. PICK u \in Seq(Objects) :
        /\ u = IF Len(t) < MaxChildren THEN Append(t, c) ELSE t
        /\ Len(u) <= MaxChildren
  <2>1. Append(t, c) \in Seq(Objects) /\ Len(Append(t, c)) = Len(t) + 1 /\ Len(t) \in Nat
    BY AppendProperties
  <2>2. MaxChildren \in Nat
    BY RcAssumption
  <2>3. CASE Len(t) < MaxChildren
    <3>1. Len(Append(t, c)) <= MaxChildren
      BY <2>1, <2>2, <2>3
    <3> QED
      BY <2>1, <2>3, <3>1, Zenon
  <2>4. CASE ~(Len(t) < MaxChildren)
    BY <1>6, <2>4, Zenon
  <2> QED
    BY <2>3, <2>4
<1>8. /\ children' \in [Objects -> Seq(Objects)] /\ children'[p] = u
      /\ \A q \in Objects : q # p => children'[q] = children[q]
  BY <1>1, <1>6, <1>7 DEF RcTypeOK
<1>9. RcTypeOK'
  <2>1. \A q \in Objects : Len(children'[q]) <= MaxChildren
    BY <1>7, <1>8 DEF RcTypeOK
  <2> QED
    BY <1>1, <1>4, <1>5, <1>8, <2>1 DEF RcTypeOK, Edges
<1>10. Counted' /\ FreedAlone'
  <2>1. ext'[c] + edge'[p][c] = ext[c] + edge[p][c]
    BY <1>3, <1>4, <1>5
  <2>2. live' = live /\ ref_count' = ref_count /\ lost' = lost
    BY <1>1
  <2> QED
    BY <1>2, <1>4, <1>5, <1>9, <2>1, <2>2, MovedCounted
<1>11. EntriesStored'
  <2>1. SUFFICES ASSUME NEW q \in live, NEW d \in Objects
                 PROVE  Cardinality({i \in DOMAIN children'[q] : children'[q][i] = d}) <= edge'[q][d]
    BY <1>1 DEF EntriesStored, Entries
  <2>2. q \in Objects /\ Cardinality({i \in DOMAIN children[q] : children[q][i] = d}) <= edge[q][d]
    BY DEF EntriesStored, Entries, RcTypeOK
  <2>3. CASE q # p
    BY <1>4, <1>8, <2>2, <2>3
  <2>4. CASE q = p
    <3>1. PICK n : n = Cardinality({i \in DOMAIN t : t[i] = d})
      OBVIOUS
    <3>2. /\ n \in Nat
          /\ Cardinality({i \in DOMAIN Append(t, c) : Append(t, c)[i] = d}) = IF c = d THEN n + 1 ELSE n
      BY <3>1, EntriesAppend
    <3>3. Cardinality({i \in DOMAIN u : u[i] = d}) <= IF c = d THEN n + 1 ELSE n
      <4>1. CASE u = t
        BY <3>1, <3>2, <4>1
      <4>2. CASE u = Append(t, c)
        <5>1. Cardinality({i \in DOMAIN u : u[i] = d}) = IF c = d THEN n + 1 ELSE n
          BY <3>2, <4>2, Zenon
        <5> QED
          BY <3>2, <5>1
      <4> QED
        BY <1>7, <4>1, <4>2
    <3>4. n <= edge[p][d] /\ edge[p][d] \in Nat
      BY <1>6, <2>2, <2>4, <3>1, RcAssumption DEF RcTypeOK
    <3>5. edge'[p][d] = IF c = d THEN edge[p][d] + 1 ELSE edge[p][d]
      BY <1>4
    <3>6. Cardinality({i \in DOMAIN u : u[i] = d}) \in Nat
      BY EntriesNat
    <3> QED
      BY <1>8, <2>4, <3>2, <3>3, <3>4, <3>5, <3>6
  <2> QED
    BY <2>3, <2>4
<1>12. Listed'
  BY <1>1 DEF Listed
<1> QED
  BY <1>1, <1>9, <1>10, <1>11, <1>12

(* unlink keeps the invariant.                                             *)
LEMMA UnlinkInv ==
  ASSUME RcInv, NEW p \in Objects, NEW c \in Objects, unlink(p, c)
  PROVE  RcInv'
<1> USE DEF RcInv
<1>1. /\ ext[p] > 0 /\ edge[p][c] > Entries(p, c)
      /\ ext' = [ext EXCEPT ![c] = ext[c] + 1]
      /\ edge' = [edge EXCEPT ![p][c] = edge[p][c] - 1]
      /\ live' = live /\ ref_count' = ref_count /\ gc_list' = gc_list
      /\ lost' = lost /\ touched' = touched /\ children' = children
  BY DEF unlink
<1>2. /\ Entries(p, c) \in Nat /\ edge[p][c] \in 0 .. MaxCount /\ ext[c] \in Nat
      /\ edge[p][c] - 1 \in 0 .. MaxCount /\ Entries(p, c) <= edge[p][c] - 1
  <2>1. Entries(p, c) \in Nat
    <3>1. children[p] \in Seq(Objects)
      BY DEF RcTypeOK
    <3> QED
      BY <3>1, EntriesNat DEF Entries
  <2>2. edge[p][c] \in 0 .. MaxCount /\ ext[c] \in Nat
    BY DEF RcTypeOK
  <2> QED
    BY <1>1, <2>1, <2>2, RcAssumption
<1>3. p \in live /\ c \in live
  <2>1. edge[p][c] # 0 /\ ext[p] # 0
    BY <1>1, <1>2
  <2> QED
    BY <2>1 DEF FreedAlone
<1>4. /\ edge' \in Edges /\ edge'[p][c] = edge[p][c] - 1
      /\ \A q, o \in Objects : q # p \/ o # c => edge'[q][o] = edge[q][o]
  <2>1. edge \in Edges
    BY DEF RcTypeOK, Edges
  <2> QED
    BY <1>1, <1>2, <2>1 DEF Edges
<1>5. /\ ext' \in [Objects -> Nat] /\ ext'[c] = ext[c] + 1
      /\ \A o \in Objects : o # c => ext'[o] = ext[o]
  <2>1. ext \in [Objects -> Nat]
    BY DEF RcTypeOK
  <2>2. ext[c] + 1 \in Nat
    BY <2>1
  <2>3. ext' = [ext EXCEPT ![c] = ext[c] + 1]
    BY <1>1
  <2> QED
    BY <2>1, <2>2, <2>3
<1>6. RcTypeOK'
  BY <1>1, <1>4, <1>5 DEF RcTypeOK, Edges
<1>7. Counted' /\ FreedAlone'
  <2>1. ext'[c] + edge'[p][c] = ext[c] + edge[p][c]
    BY <1>2, <1>4, <1>5
  <2>2. live' = live /\ ref_count' = ref_count /\ lost' = lost
    BY <1>1
  <2> QED
    BY <1>3, <1>4, <1>5, <1>6, <2>1, <2>2, MovedCounted
<1>8. EntriesStored'
  <2>1. SUFFICES ASSUME NEW q \in live, NEW d \in Objects
                 PROVE  Entries(q, d) <= edge'[q][d]
    BY <1>1 DEF EntriesStored, Entries
  <2>2. q \in Objects /\ Entries(q, d) <= edge[q][d]
    BY DEF EntriesStored, RcTypeOK
  <2> QED
    BY <1>2, <1>4, <2>2
<1>9. Listed'
  BY <1>1 DEF Listed
<1> QED
  BY <1>1, <1>6, <1>7, <1>8, <1>9

(* owned_rc_drop keeps the invariant, whether it frees the object or not.  *)
LEMMA DropInv ==
  ASSUME RcInv, NEW o \in Objects, owned_rc_drop(o)
  PROVE  RcInv'
<1> USE DEF RcInv
<1>1. /\ ext[o] > 0 /\ ref_count' = [ref_count EXCEPT ![o] = ref_count[o] - 1]
      /\ children' = children /\ lost' = lost /\ touched' = touched
  BY DEF owned_rc_drop
<1>2. /\ o \in live /\ live \in SUBSET Objects /\ edge \in Edges
      /\ ref_count[o] \in Nat /\ ext[o] \in Nat /\ ext[o] >= 1 /\ lost[o] \in Nat
      /\ ref_count[o] > 0 /\ ref_count[o] <= MaxCount
  <2>1. ref_count[o] \in Nat /\ ref_count[o] <= MaxCount /\ ext[o] \in Nat /\ lost[o] \in Nat
    BY RcAssumption DEF RcTypeOK
  <2>2. o \in live
    BY <1>1 DEF FreedAlone
  <2>3. live \in SUBSET Objects /\ edge \in Edges
    BY DEF RcTypeOK, Edges
  <2>4. ref_count[o] > 0 /\ ext[o] >= 1
    BY <1>1, <2>1, <2>2 DEF Counted
  <2> QED
    BY <2>1, <2>2, <2>3, <2>4
<1>3. \A c \in live : /\ c \in Objects /\ ref_count[c] > 0
                      /\ ref_count[c] = ext[c] + Cardinality(Refs(edge, live, c)) + lost[c]
                      /\ Cardinality(Refs(edge, live, c)) \in Nat
                      /\ ext[c] \in Nat /\ lost[c] \in Nat
  <2>1. \A c \in live : Cardinality(Refs(edge, live, c)) \in Nat
    BY <1>2, RefsFinite
  <2> QED
    BY <2>1 DEF Counted, EdgesFrom, Stored, Refs, RcTypeOK
<1>4. /\ ref_count' \in [Objects -> 0 .. MaxCount] /\ ref_count'[o] = ref_count[o] - 1
      /\ \A c \in Objects : c # o => ref_count'[c] = ref_count[c]
  <2>1. ref_count[o] - 1 \in 0 .. MaxCount
    BY <1>2, RcAssumption
  <2> QED
    BY <1>1, <2>1 DEF RcTypeOK
<1>5. CASE ref_count'[o] # 0
  <2>1. /\ ext' = [ext EXCEPT ![o] = ext[o] - 1]
        /\ live' = live /\ gc_list' = gc_list /\ edge' = edge
    BY <1>5 DEF owned_rc_drop
  <2>2. /\ ext' \in [Objects -> Nat] /\ ext'[o] = ext[o] - 1
        /\ \A c \in Objects : c # o => ext'[c] = ext[c]
    <3>1. ext[o] - 1 \in Nat
      BY <1>2
    <3> QED
      BY <2>1, <3>1 DEF RcTypeOK
  <2>3. RcTypeOK'
    BY <1>1, <1>4, <2>1, <2>2 DEF RcTypeOK
  <2>4. ASSUME NEW c \in live
        PROVE  /\ ref_count'[c] > 0
               /\ ref_count'[c] = ext'[c] + Cardinality(Refs(edge, live, c)) + lost[c]
    BY <1>2, <1>3, <1>4, <1>5, <2>2
  <2>5. Counted'
    BY <1>1, <2>1, <2>4 DEF Counted, EdgesFrom, Stored, Refs
  <2>6. FreedAlone'
    BY <1>2, <2>1, <2>2 DEF FreedAlone
  <2>7. Listed' /\ EntriesStored'
    BY <1>1, <2>1 DEF Listed, EntriesStored, Entries
  <2> QED
    BY <1>1, <2>3, <2>5, <2>6, <2>7
<1>6. CASE ref_count'[o] = 0
  <2>1. /\ live' = live \ {o} /\ unregister_from_gc({o})
        /\ ext' = [c \in Objects |-> ext[c] - (IF c = o THEN 1 ELSE 0) + edge[o][c]]
        /\ edge' = [edge EXCEPT ![o] = [c \in Objects |-> 0]]
    BY <1>6 DEF owned_rc_drop
  <2>2. ext[o] = 1 /\ lost[o] = 0 /\ Cardinality(Refs(edge, live, o)) = 0
    BY <1>2, <1>3, <1>4, <1>6
  <2>3. \A p \in Objects : edge[p][o] = 0
    <3>1. \A p \in live : edge[p][o] = 0
      BY <1>2, <2>2, RefsNone
    <3> QED
      BY <3>1 DEF FreedAlone
  <2>4. /\ edge' \in Edges
        /\ \A p, c \in Objects : edge'[p][c] = IF p = o THEN 0 ELSE edge[p][c]
    <3>1. 0 \in 0 .. MaxCount
      BY RcAssumption
    <3> QED
      BY <1>2, <2>1, <3>1 DEF Edges
  <2>5. /\ ext' \in [Objects -> Nat] /\ ext'[o] = 0
        /\ \A c \in Objects : c # o => ext'[c] = ext[c] + edge[o][c]
    <3>1. \A c \in Objects : ext[c] \in Nat /\ edge[o][c] \in Nat
      BY RcAssumption DEF RcTypeOK
    <3>2. \A c \in Objects : ext'[c] = ext[c] - (IF c = o THEN 1 ELSE 0) + edge[o][c]
      BY <2>1
    <3>3. ext'[o] = 0 /\ \A c \in Objects : c # o => ext'[c] = ext[c] + edge[o][c]
      BY <2>2, <2>3, <3>1, <3>2
    <3> QED
      BY <2>1, <3>1, <3>3
  <2>6. gc_list' \in Seq(Objects) /\ Listed'
    BY <2>1, ListedUnlink
  <2>7. RcTypeOK'
    BY <1>1, <1>4, <2>1, <2>4, <2>5, <2>6 DEF RcTypeOK, Edges
  <2>8. ASSUME NEW c \in live \ {o}
        PROVE  /\ ref_count'[c] > 0
               /\ ref_count'[c] = ext'[c] + Cardinality(Refs(edge', live \ {o}, c)) + lost[c]
    <3>1. c \in live /\ c \in Objects /\ c # o
      BY <1>2
    <3>2. /\ Cardinality(Refs(edge, live, c)) = Cardinality(Refs(edge, live \ {o}, c)) + edge[o][c]
          /\ Cardinality(Refs(edge, live \ {o}, c)) \in Nat
      BY <1>2, <3>1, RefsAt
    <3>3. Refs(edge', live \ {o}, c) = Refs(edge, live \ {o}, c)
      <4>1. \A p \in live \ {o} : edge'[p][c] = edge[p][c]
        BY <1>2, <2>4, <3>1
      <4> QED
        BY <4>1, RefsSame
    <3>4. edge[o][c] \in Nat
      BY <3>1, RcAssumption DEF RcTypeOK
    <3> QED
      BY <1>3, <1>4, <2>5, <3>1, <3>2, <3>3, <3>4
  <2>9. Counted'
    BY <1>1, <2>1, <2>8 DEF Counted, EdgesFrom, Stored, Refs
  <2>10. FreedAlone'
    <3>1. SUFFICES ASSUME NEW c \in Objects \ live', NEW p \in Objects
                   PROVE  ext'[c] = 0 /\ edge'[p][c] = 0 /\ edge'[c][p] = 0
      BY DEF FreedAlone
    <3>2. CASE c = o
      BY <2>3, <2>4, <2>5, <3>2
    <3>3. CASE c # o
      <4>1. c \in Objects \ live
        BY <2>1, <3>3
      <4>2. ext[c] = 0 /\ edge[o][c] = 0 /\ edge[p][c] = 0 /\ edge[c][p] = 0
        BY <4>1 DEF FreedAlone
      <4> QED
        BY <2>4, <2>5, <3>3, <4>1, <4>2
    <3> QED
      BY <3>2, <3>3
  <2>11. EntriesStored'
    <3>1. SUFFICES ASSUME NEW p \in live \ {o}, NEW d \in Objects
                   PROVE  Entries(p, d) <= edge'[p][d]
      BY <1>1, <2>1 DEF EntriesStored, Entries
    <3>2. p \in Objects /\ p # o /\ Entries(p, d) <= edge[p][d]
      BY DEF EntriesStored, RcTypeOK
    <3> QED
      BY <2>4, <3>2
  <2> QED
    BY <1>1, <2>6, <2>7, <2>9, <2>10, <2>11
<1> QED
  BY <1>5, <1>6

-----------------------------------------------------------------------------
(* The collector.                                                          *)

(* What Closure promises.                                                  *)
LEMMA ClosureIs ==
  ASSUME NEW S \in SUBSET Objects, NEW succ, \A p \in Objects : succ[p] \in SUBSET Objects
  PROVE  /\ Closure(S, succ) \in SUBSET Objects
         /\ S \in SUBSET Closure(S, succ)
         /\ \A p \in Closure(S, succ) : succ[p] \in SUBSET Closure(S, succ)
         /\ \A T \in SUBSET Objects :
              S \in SUBSET T /\ (\A p \in T : succ[p] \in SUBSET T) => Closure(S, succ) \in SUBSET T
  BY DEF Closure

(* An object is in a table when it has entries there.                      *)
LEMMA InTable ==
  ASSUME RcTypeOK, NEW p \in Objects, NEW c \in Objects
  PROVE  Entries(p, c) \in Nat /\ (c \in Range(children[p]) <=> Entries(p, c) > 0)
<1>1. PICK t \in Seq(Objects) : t = children[p]
  BY DEF RcTypeOK
<1>2. PICK l \in Nat : l = Len(t) /\ DOMAIN t = 1 .. l
  OBVIOUS
<1>3. PICK A : A = {i \in DOMAIN t : t[i] = c}
  OBVIOUS
<1>4. A \in SUBSET (1 .. l) /\ IsFiniteSet(1 .. l)
  BY <1>2, <1>3, FS_Interval
<1>5. IsFiniteSet(A)
  BY <1>4, FS_Subset
<1>6. Cardinality(A) \in Nat /\ (Cardinality(A) = 0 <=> A = {})
  BY <1>5, FS_CardinalityType, FS_EmptySet
<1>7. c \in Range(t) <=> A # {}
  BY <1>3 DEF Range
<1>8. Entries(p, c) = Cardinality(A)
  BY <1>1, <1>3 DEF Entries
<1> QED
  BY <1>1, <1>6, <1>7, <1>8

\* The references to o that the tables of the objects of a set know of.
Known(P, o) == {r \in P \X (1 .. MaxCount) : r[2] <= Entries(r[1], o)}

(* There is one entry for each of them.                                    *)
LEMMA EntriesCounted ==
  ASSUME RcInv, NEW o \in Objects
  PROVE  Cardinality(EntriesOf(live, o)) = Cardinality(Known(live, o))
<1> DEFINE A(p) == {i \in DOMAIN children[p] : children[p][i] = o}
<1>1. ASSUME NEW p \in live
      PROVE  /\ A(p) \in SUBSET (1 .. MaxChildren)
             /\ Entries(p, o) \in Nat /\ Entries(p, o) <= MaxCount
             /\ ExistsBijection(A(p), 1 .. Entries(p, o))
  <2>1. p \in Objects
    BY DEF RcInv, RcTypeOK
  <2>2. PICK t \in Seq(Objects) : t = children[p] /\ Len(t) <= MaxChildren
    BY <2>1 DEF RcInv, RcTypeOK
  <2>3. PICK l \in Nat : l = Len(t) /\ DOMAIN t = 1 .. l
    OBVIOUS
  <2>4. A(p) \in SUBSET (1 .. l) /\ A(p) \in SUBSET (1 .. MaxChildren)
    BY <2>2, <2>3, RcAssumption
  <2>5. Entries(p, o) = Cardinality(A(p))
    BY DEF Entries
  <2> HIDE DEF A
  <2>6. IsFiniteSet(A(p))
    <3>1. IsFiniteSet(1 .. l)
      BY FS_Interval
    <3> QED
      BY <2>4, <3>1, FS_Subset
  <2>7. Cardinality(A(p)) \in Nat /\ ExistsBijection(1 .. Cardinality(A(p)), A(p))
    BY <2>6, FS_CardinalityType
  <2>8. ExistsBijection(A(p), 1 .. Cardinality(A(p)))
    BY <2>7, Fun_ExistsBijSymmetric
  <2>9. Entries(p, o) <= edge[p][o] /\ edge[p][o] \in 0 .. MaxCount
    BY <2>1 DEF RcInv, EntriesStored, RcTypeOK
  <2>10. Entries(p, o) <= MaxCount
    BY <2>5, <2>7, <2>9, RcAssumption
  <2> QED
    BY <2>4, <2>5, <2>7, <2>8, <2>10
<1> DEFINE G == [p \in live |-> CHOOSE g : g \in Bijection(A(p), 1 .. Entries(p, o))]
<1>2. ASSUME NEW p \in live PROVE G[p] \in Bijection(A(p), 1 .. Entries(p, o))
  <2>1. \E g : g \in Bijection(A(p), 1 .. Entries(p, o))
    BY <1>1, Fun_ExistsBij, Zenon
  <2>2. G[p] = CHOOSE g : g \in Bijection(A(p), 1 .. Entries(p, o))
    OBVIOUS
  <2> HIDE DEF A, G
  <2> QED
    BY <2>1, <2>2, Zenon
<1>3. PICK N : N = EntriesOf(live, o)
  OBVIOUS
<1>4. PICK K : K = Known(live, o)
  OBVIOUS
<1>5. \A e \in N : e[1] \in live /\ e[2] \in A(e[1]) /\ e = <<e[1], e[2]>>
  BY <1>3 DEF EntriesOf
<1>6. \A p \in live : \A i \in A(p) : <<p, i>> \in N
  BY <1>1, <1>3 DEF EntriesOf
<1>7. \A r \in K : r[1] \in live /\ r[2] \in 1 .. Entries(r[1], o) /\ r = <<r[1], r[2]>>
  BY <1>1, <1>4, RcAssumption DEF Known
<1>8. \A p \in live : \A j \in 1 .. Entries(p, o) : <<p, j>> \in K
  <2>1. SUFFICES ASSUME NEW p \in live, NEW j \in 1 .. Entries(p, o) PROVE <<p, j>> \in K
    OBVIOUS
  <2>2. Entries(p, o) \in Nat /\ Entries(p, o) <= MaxCount
    BY <1>1
  <2>3. j \in 1 .. MaxCount /\ j <= Entries(p, o)
    BY <2>2, RcAssumption
  <2> QED
    BY <1>4, <2>3 DEF Known
<1>9. ASSUME NEW p \in live
      PROVE  /\ \A i \in A(p) : G[p][i] \in 1 .. Entries(p, o)
             /\ \A i, j \in A(p) : G[p][i] = G[p][j] => i = j
             /\ \A j \in 1 .. Entries(p, o) : \E i \in A(p) : G[p][i] = j
  <2>1. G[p] \in Bijection(A(p), 1 .. Entries(p, o))
    BY <1>2
  <2>2. PICK g, S, T : g = G[p] /\ S = A(p) /\ T = 1 .. Entries(p, o)
    OBVIOUS
  <2>3. g \in Bijection(S, T)
    BY <2>1, <2>2
  <2>4. /\ \A i \in S : g[i] \in T
        /\ \A i, j \in S : g[i] = g[j] => i = j
        /\ \A j \in T : \E i \in S : g[i] = j
    BY <2>3 DEF Bijection, Injection, Surjection, IsInjective
  <2> HIDE DEF A, G
  <2> QED
    BY <2>2, <2>4, Zenon
<1> HIDE DEF A, G
<1>10. PICK f : f = [e \in N |-> <<e[1], G[e[1]][e[2]]>>]
  OBVIOUS
<1>11. f \in [N -> K]
  BY <1>5, <1>8, <1>9, <1>10
<1>12. \A a, b \in N : f[a] = f[b] => a = b
  <2>1. SUFFICES ASSUME NEW a \in N, NEW b \in N, f[a] = f[b] PROVE a = b
    OBVIOUS
  <2>2. f[a] = <<a[1], G[a[1]][a[2]]>> /\ f[b] = <<b[1], G[b[1]][b[2]]>>
    BY <1>10
  <2>3. a[1] = b[1] /\ G[a[1]][a[2]] = G[a[1]][b[2]]
    <3>1. f[a][1] = a[1] /\ f[b][1] = b[1] /\ f[a][2] = G[a[1]][a[2]] /\ f[b][2] = G[b[1]][b[2]]
      BY <2>2
    <3> QED
      BY <2>1, <3>1, Zenon
  <2>4. a[2] = b[2]
    BY <1>5, <1>9, <2>3
  <2> QED
    BY <1>5, <2>3, <2>4
<1>13. ASSUME NEW r \in K PROVE \E e \in N : f[e] = r
  <2>1. PICK i \in A(r[1]) : G[r[1]][i] = r[2]
    BY <1>7, <1>9
  <2>2. <<r[1], i>> \in N /\ f[<<r[1], i>>] = <<r[1], r[2]>>
    BY <1>6, <1>7, <1>10, <2>1
  <2> QED
    BY <1>7, <2>2
<1>14. f \in Bijection(N, K)
  BY <1>11, <1>12, <1>13, Fun_IsBij, Zenon
<1>15. ExistsBijection(N, K)
  BY <1>14 DEF ExistsBijection
<1>16. IsFiniteSet(N)
  <2>1. live \in SUBSET Objects
    BY DEF RcInv, RcTypeOK
  <2>2. IsFiniteSet(live) /\ IsFiniteSet(1 .. MaxChildren)
    BY <2>1, RcAssumption, FS_Subset, FS_Interval
  <2>3. IsFiniteSet(live \X (1 .. MaxChildren))
    BY <2>2, FS_Product
  <2>4. N \in SUBSET (live \X (1 .. MaxChildren))
    BY <1>3 DEF EntriesOf
  <2> QED
    BY <2>3, <2>4, FS_Subset
<1>17. Cardinality(K) = Cardinality(N)
  BY <1>15, <1>16, FS_Bijection
<1> QED
  BY <1>3, <1>4, <1>17

(* The tables know of every reference to o, or of fewer than there are.    *)
LEMMA KnownStored ==
  ASSUME RcInv, NEW o \in Objects
  PROVE  /\ Cardinality(Known(live, o)) \in Nat
         /\ Cardinality(Known(live, o)) <= Cardinality(Refs(edge, live, o))
         /\ Cardinality(Refs(edge, live, o)) \in Nat
         /\ Cardinality(Known(live, o)) = Cardinality(Refs(edge, live, o))
              <=> \A p \in live : edge[p][o] = Entries(p, o)
<1>1. live \in SUBSET Objects
  BY DEF RcInv, RcTypeOK
<1>2. \A p \in live : /\ Entries(p, o) \in Nat /\ Entries(p, o) <= edge[p][o]
                      /\ edge[p][o] \in Nat /\ edge[p][o] <= MaxCount
  <2>1. ASSUME NEW p \in live
        PROVE  Entries(p, o) \in Nat /\ Entries(p, o) <= edge[p][o] /\ edge[p][o] \in 0 .. MaxCount
    <3>1. p \in Objects
      BY <1>1
    <3>2. Entries(p, o) \in Nat
      BY <3>1, InTable DEF RcInv
    <3> QED
      BY <3>1, <3>2 DEF RcInv, RcTypeOK, EntriesStored
  <2> QED
    BY <2>1, RcAssumption
<1>3. PICK K : K = Known(live, o)
  OBVIOUS
<1>4. PICK R : R = Refs(edge, live, o)
  OBVIOUS
<1>5. K \in SUBSET R
  BY <1>2, <1>3, <1>4, RcAssumption DEF Known, Refs
<1>6. IsFiniteSet(R) /\ Cardinality(R) \in Nat
  BY <1>1, <1>4, RefsFinite
<1>7. IsFiniteSet(K) /\ Cardinality(K) <= Cardinality(R) /\ (Cardinality(R) = Cardinality(K) => R = K)
  BY <1>5, <1>6, FS_Subset
<1>8. Cardinality(K) \in Nat
  BY <1>7, FS_CardinalityType
<1>9. ASSUME R = K, NEW p \in live PROVE edge[p][o] = Entries(p, o)
  <2>1. CASE edge[p][o] = 0
    BY <1>2, <2>1
  <2>2. CASE edge[p][o] # 0
    <3>1. PICK j \in 1 .. MaxCount : j = edge[p][o]
      BY <1>2, <2>2, RcAssumption
    <3>2. <<p, j>> \in R
      BY <1>4, <3>1, RcAssumption DEF Refs
    <3>3. j <= Entries(p, o)
      BY <1>3, <1>9, <3>2 DEF Known
    <3> QED
      BY <1>2, <3>1, <3>3
  <2> QED
    BY <2>1, <2>2
<1>10. ASSUME \A p \in live : edge[p][o] = Entries(p, o) PROVE R = K
  BY <1>3, <1>4, <1>10 DEF Refs, Known
<1> QED
  BY <1>3, <1>4, <1>6, <1>7, <1>8, <1>9, <1>10

\* What the collector starts to mark from.
Kept == {o \in live : ext[o] > 0 \/ lost[o] > 0 \/ \E p \in live : edge[p][o] > Entries(p, o)}

\* The registered children of every object.
Tables == [p \in Objects |-> Range(children[p])]

(* The collector starts from the objects with a reference the tables do not
   know of: in a variable, in the data of a collected object, or unregistered. *)
LEMMA RootsAre ==
  ASSUME RcInv
  PROVE  {o \in Range(gc_list) : gc_ref(o) > 0} = Kept
<1>1. Range(gc_list) = live
  BY DEF RcInv, Listed
<1>2. ASSUME NEW o \in live
      PROVE  gc_ref(o) > 0 <=> o \in Kept
  <2>1. o \in Objects
    BY DEF RcInv, RcTypeOK
  <2>2. PICK k : k = Cardinality(EntriesOf(live, o))
    OBVIOUS
  <2>3. PICK e : e = Cardinality(Refs(edge, live, o))
    OBVIOUS
  <2>4. /\ k \in Nat /\ k <= e /\ e \in Nat
        /\ k = e <=> \A p \in live : edge[p][o] = Entries(p, o)
    <3>1. Cardinality(EntriesOf(live, o)) = Cardinality(Known(live, o))
      BY <2>1, EntriesCounted
    <3> QED
      BY <2>1, <2>2, <2>3, <3>1, KnownStored
  <2>5. ref_count[o] = ext[o] + e + lost[o]
    BY <2>3 DEF RcInv, Counted, EdgesFrom, Stored, Refs
  <2>6. ext[o] \in Nat /\ lost[o] \in Nat
    BY <2>1 DEF RcInv, RcTypeOK
  <2>7. gc_ref(o) = IF ref_count[o] > k THEN ref_count[o] - k ELSE 0
    BY <1>1, <2>2 DEF gc_ref
  <2>8. gc_ref(o) > 0 <=> ext[o] > 0 \/ lost[o] > 0 \/ k # e
    BY <2>4, <2>5, <2>6, <2>7
  <2>9. k # e <=> \E p \in live : edge[p][o] > Entries(p, o)
    <3>1. \A p \in live : /\ Entries(p, o) \in Nat /\ edge[p][o] \in Nat
                          /\ Entries(p, o) <= edge[p][o]
      <4>1. ASSUME NEW p \in live
            PROVE  Entries(p, o) \in Nat /\ edge[p][o] \in Nat /\ Entries(p, o) <= edge[p][o]
        <5>1. p \in Objects
          BY DEF RcInv, RcTypeOK
        <5>2. Entries(p, o) \in Nat
          BY <2>1, <5>1, InTable DEF RcInv
        <5> QED
          BY <2>1, <5>1, <5>2, RcAssumption DEF RcInv, RcTypeOK, EntriesStored
      <4> QED
        BY <4>1
    <3> QED
      BY <2>4, <3>1
  <2> QED
    BY <2>8, <2>9 DEF Kept
<1> QED
  BY <1>1, <1>2 DEF Kept

(* Marking never leaves the live objects, and marks what a marked object refers
   to, registered or not.                                                  *)
LEMMA MarkedIs ==
  ASSUME RcInv
  PROVE  LET M == Closure(Kept, Tables)
         IN  /\ Kept \in SUBSET M /\ M \in SUBSET live
             /\ \A p \in live : Range(children[p]) \in SUBSET live
             /\ \A p \in M, c \in Objects : edge[p][c] > 0 => c \in M
<1> DEFINE M == Closure(Kept, Tables)
<1>1. live \in SUBSET Objects /\ Kept \in SUBSET live /\ Kept \in SUBSET Objects
  BY DEF RcInv, RcTypeOK, Kept
<1>2. \A p \in Objects : Tables[p] = Range(children[p]) /\ Tables[p] \in SUBSET Objects
  <2>1. ASSUME NEW p \in Objects PROVE Range(children[p]) \in SUBSET Objects
    <3>1. PICK t \in Seq(Objects) : t = children[p]
      BY DEF RcInv, RcTypeOK
    <3>2. \A i \in DOMAIN t : t[i] \in Objects
      OBVIOUS
    <3> QED
      BY <3>1, <3>2 DEF Range
  <2> QED
    BY <2>1 DEF Tables
<1>3. ASSUME NEW p \in live, NEW c \in Range(children[p])
      PROVE  c \in Objects /\ edge[p][c] > 0 /\ c \in live
  <2>1. p \in Objects /\ c \in Objects
    BY <1>1, <1>2
  <2>2. Entries(p, c) \in Nat /\ Entries(p, c) > 0
    BY <2>1, InTable DEF RcInv
  <2>3. edge[p][c] \in Nat /\ Entries(p, c) <= edge[p][c]
    BY <2>1, RcAssumption DEF RcInv, RcTypeOK, EntriesStored
  <2>4. edge[p][c] > 0
    BY <2>2, <2>3
  <2> QED
    BY <2>1, <2>3, <2>4 DEF RcInv, FreedAlone
<1>4. /\ M \in SUBSET Objects /\ Kept \in SUBSET M
      /\ \A p \in M : Tables[p] \in SUBSET M
      /\ \A T \in SUBSET Objects :
           Kept \in SUBSET T /\ (\A p \in T : Tables[p] \in SUBSET T) => M \in SUBSET T
  BY <1>1, <1>2, ClosureIs
<1> HIDE DEF M
<1>5. M \in SUBSET live
  <2>1. \A p \in live : Tables[p] \in SUBSET live
    BY <1>1, <1>2, <1>3
  <2> QED
    BY <1>1, <1>4, <2>1
<1>6. ASSUME NEW p \in M, NEW c \in Objects, edge[p][c] > 0
      PROVE  c \in M
  <2>1. p \in live /\ p \in Objects
    BY <1>1, <1>5
  <2>2. c \in live
    <3>1. edge[p][c] \in Nat
      BY <2>1, RcAssumption DEF RcInv, RcTypeOK
    <3> QED
      BY <1>6, <2>1, <3>1 DEF RcInv, FreedAlone
  <2>3. CASE edge[p][c] > Entries(p, c)
    BY <1>4, <2>1, <2>2, <2>3 DEF Kept
  <2>4. CASE ~(edge[p][c] > Entries(p, c))
    <3>1. Entries(p, c) \in Nat /\ (c \in Range(children[p]) <=> Entries(p, c) > 0)
      BY <2>1, InTable DEF RcInv
    <3>2. edge[p][c] \in Nat
      BY <2>1, RcAssumption DEF RcInv, RcTypeOK
    <3>3. c \in Tables[p]
      BY <1>2, <1>6, <2>1, <2>4, <3>1, <3>2
    <3> QED
      BY <1>4, <3>3
  <2> QED
    BY <2>3, <2>4
<1>7. \A p \in live : Range(children[p]) \in SUBSET live
  BY <1>3
<1>8. /\ Kept \in SUBSET M /\ M \in SUBSET live
      /\ \A p \in live : Range(children[p]) \in SUBSET live
      /\ \A p \in M, c \in Objects : edge[p][c] > 0 => c \in M
  BY <1>4, <1>5, <1>6, <1>7
<1> QED
  BY <1>8 DEF M

(* What a collection does, in terms of the objects it marks.               *)
LEMMA CollectIs ==
  ASSUME RcInv, owned_rc_collect_cycles, NEW M, M = Closure(Kept, Tables)
  PROVE  /\ live' = M /\ M \in SUBSET live /\ unregister_from_gc(live \ M)
         /\ touched' = touched
         /\ ref_count' = [o \in Objects |-> IF o \in live \ M THEN 0 ELSE ref_count[o]]
         /\ lost' = [o \in Objects |-> lost[o] + EdgesFrom(live \ M, o)]
         /\ edge' = [p \in Objects |-> IF p \in live \ M THEN [c \in Objects |-> 0] ELSE edge[p]]
         /\ children' = children /\ ext' = ext
<1>1. Range(gc_list) = live
  BY DEF RcInv, Listed
<1>2. mark_alive({o \in Range(gc_list) : gc_ref(o) > 0}) = M
  <2>1. mark_alive(Kept) = M
    BY DEF mark_alive, Tables
  <2> QED
    BY <2>1, RootsAre
<1>3. M \in SUBSET live /\ \A p \in live : Range(children[p]) \in SUBSET live
  BY MarkedIs
<1>4. /\ touched' = (touched \/ \E p \in live : ~(Range(children[p]) \subseteq live))
      /\ live' = live \ (live \ M)
      /\ ref_count' = [o \in Objects |-> IF o \in live \ M THEN 0 ELSE ref_count[o]]
      /\ unregister_from_gc(live \ M)
      /\ lost' = [o \in Objects |-> lost[o] + EdgesFrom(live \ M, o)]
      /\ edge' = [p \in Objects |-> IF p \in live \ M THEN [c \in Objects |-> 0] ELSE edge[p]]
      /\ children' = children /\ ext' = ext
  BY <1>1, <1>2, Zenon DEF owned_rc_collect_cycles
<1>5. live' = M
  BY <1>3, <1>4
<1>6. touched' = touched
  <2>1. touched' = (touched \/ FALSE)
    BY <1>3, <1>4
  <2>2. touched \in BOOLEAN
    BY DEF RcInv, RcTypeOK
  <2> QED
    BY <2>1, <2>2
<1> QED
  BY <1>3, <1>4, <1>5, <1>6

(* owned_rc_collect_cycles keeps the invariant.                            *)
LEMMA CollectInv ==
  ASSUME RcInv, owned_rc_collect_cycles
  PROVE  RcInv'
<1> USE DEF RcInv
<1>1. PICK M : M = Closure(Kept, Tables)
  OBVIOUS
<1>2. PICK D : D = live \ M
  OBVIOUS
<1>3. /\ live' = M /\ M \in SUBSET live /\ unregister_from_gc(D) /\ touched' = touched
      /\ ref_count' = [o \in Objects |-> IF o \in D THEN 0 ELSE ref_count[o]]
      /\ lost' = [o \in Objects |-> lost[o] + EdgesFrom(D, o)]
      /\ edge' = [p \in Objects |-> IF p \in D THEN [c \in Objects |-> 0] ELSE edge[p]]
      /\ children' = children /\ ext' = ext
  BY <1>1, <1>2, CollectIs
<1>4. /\ Kept \in SUBSET M
      /\ \A p \in M, c \in Objects : edge[p][c] > 0 => c \in M
  BY <1>1, MarkedIs
<1>5. /\ live \in SUBSET Objects /\ D \in SUBSET Objects /\ M \in SUBSET Objects
      /\ live = M \cup D /\ M \cap D = {} /\ live' = live \ D
      /\ edge \in Edges /\ 0 \in 0 .. MaxCount
  BY <1>2, <1>3, RcAssumption DEF RcTypeOK, Edges
<1>6. gc_list' \in Seq(Objects) /\ Listed'
  BY <1>3, <1>5, ListedUnlink
<1>7. /\ edge' \in Edges
      /\ \A p, c \in Objects : edge'[p][c] = IF p \in D THEN 0 ELSE edge[p][c]
  BY <1>3, <1>5 DEF Edges
<1>8. /\ lost' \in [Objects -> Nat]
      /\ \A o \in Objects : lost'[o] = lost[o] + Cardinality(Refs(edge, D, o))
  <2>1. \A o \in Objects : EdgesFrom(D, o) = Cardinality(Refs(edge, D, o))
    BY DEF EdgesFrom, Stored, Refs
  <2>2. \A o \in Objects : Cardinality(Refs(edge, D, o)) \in Nat
    BY <1>5, RefsFinite
  <2>3. \A o \in Objects : lost[o] \in Nat
    BY DEF RcTypeOK
  <2>4. \A o \in Objects : lost[o] + EdgesFrom(D, o) \in Nat
    BY <2>1, <2>2, <2>3
  <2> QED
    BY <1>3, <2>1, <2>4
<1>9. RcTypeOK'
  <2>1. ref_count' \in [Objects -> 0 .. MaxCount]
    BY <1>3, <1>5 DEF RcTypeOK
  <2> QED
    BY <1>3, <1>5, <1>6, <1>7, <1>8, <2>1 DEF RcTypeOK, Edges
<1>10. ASSUME NEW o \in M
       PROVE  /\ ref_count'[o] > 0
              /\ ref_count'[o] = ext[o] + Cardinality(Refs(edge', M, o)) + lost'[o]
  <2>1. o \in Objects /\ o \in live /\ o \notin D
    BY <1>5
  <2>2. Cardinality(Refs(edge, M \cup D, o))
          = Cardinality(Refs(edge, M, o)) + Cardinality(Refs(edge, D, o))
    BY <1>5, RefsSplit
  <2>3. Refs(edge', M, o) = Refs(edge, M, o)
    <3>1. \A p \in M : edge'[p][o] = edge[p][o]
      BY <1>5, <1>7, <2>1
    <3> QED
      BY <3>1, RefsSame
  <2>4. ref_count[o] > 0 /\ ref_count[o] = ext[o] + Cardinality(Refs(edge, live, o)) + lost[o]
    BY <2>1 DEF Counted, EdgesFrom, Stored, Refs
  <2>5. ref_count'[o] = ref_count[o]
    BY <1>3, <2>1
  <2>6. /\ Cardinality(Refs(edge, M, o)) \in Nat /\ Cardinality(Refs(edge, D, o)) \in Nat
        /\ ext[o] \in Nat /\ lost[o] \in Nat
    BY <1>5, <2>1, RefsFinite DEF RcTypeOK
  <2>7. lost'[o] = lost[o] + Cardinality(Refs(edge, D, o))
    BY <1>8, <2>1
  <2>8. Cardinality(Refs(edge, live, o)) = Cardinality(Refs(edge, M, o)) + Cardinality(Refs(edge, D, o))
    BY <1>5, <2>2
  <2> QED
    BY <2>3, <2>4, <2>5, <2>6, <2>7, <2>8
<1>11. Counted'
  BY <1>3, <1>10 DEF Counted, EdgesFrom, Stored, Refs
<1>12. FreedAlone'
  <2>1. SUFFICES ASSUME NEW o \in Objects \ M, NEW p \in Objects
                 PROVE  ext[o] = 0 /\ edge'[p][o] = 0 /\ edge'[o][p] = 0
    BY <1>3 DEF FreedAlone
  <2>2. CASE o \notin live
    BY <1>7, <2>2 DEF FreedAlone
  <2>3. CASE o \in live
    <3>1. o \in D /\ o \notin Kept
      BY <1>2, <1>4, <2>3
    <3>2. ext[o] = 0
      <4>1. ~(ext[o] > 0) /\ ext[o] \in Nat
        BY <2>3, <3>1 DEF Kept, RcTypeOK
      <4> QED
        BY <4>1
    <3>3. edge'[p][o] = 0
      <4>1. CASE p \in D
        BY <1>7, <4>1
      <4>2. CASE p \in M
        <5>1. ~(edge[p][o] > 0) /\ edge[p][o] \in Nat
          BY <1>4, <4>2, RcAssumption DEF RcTypeOK
        <5>2. edge[p][o] = 0
          BY <5>1
        <5> QED
          BY <1>7, <5>2
      <4>3. CASE p \notin live
        BY <1>7, <4>3 DEF FreedAlone
      <4> QED
        BY <1>5, <4>1, <4>2, <4>3
    <3> QED
      BY <1>7, <3>1, <3>2, <3>3
  <2> QED
    BY <2>2, <2>3
<1>13. EntriesStored'
  <2>1. SUFFICES ASSUME NEW p \in M, NEW d \in Objects
                 PROVE  Entries(p, d) <= edge'[p][d]
    BY <1>3 DEF EntriesStored, Entries
  <2>2. p \in Objects /\ p \in live /\ p \notin D
    BY <1>5
  <2> QED
    BY <1>7, <2>2 DEF EntriesStored
<1> QED
  BY <1>3, <1>6, <1>9, <1>11, <1>12, <1>13

(* A collection keeps what leads from a variable, from the data of a collected
   object or from an unregistered reference to an object, and nothing else. *)
LEMMA CollectKeeps ==
  ASSUME RcInv, owned_rc_collect_cycles
  PROVE  live' = Closure(Kept, [p \in Objects |-> {c \in Objects : edge[p][c] > 0}])
<1>1. PICK M : M = Closure(Kept, Tables)
  OBVIOUS
<1>2. PICK succ : succ = [p \in Objects |-> {c \in Objects : edge[p][c] > 0}]
  OBVIOUS
<1>3. PICK C : C = Closure(Kept, succ)
  OBVIOUS
<1>4. live' = M /\ M \in SUBSET live /\ live \in SUBSET Objects
  BY <1>1, CollectIs DEF RcInv, RcTypeOK
<1>5. /\ Kept \in SUBSET M /\ Kept \in SUBSET Objects /\ Kept \in SUBSET live
      /\ \A p \in M, c \in Objects : edge[p][c] > 0 => c \in M
  BY <1>1, <1>4, MarkedIs DEF Kept
<1>6. \A p \in Objects : /\ succ[p] = {c \in Objects : edge[p][c] > 0}
                         /\ succ[p] \in SUBSET Objects
  BY <1>2
<1>7. /\ C \in SUBSET Objects /\ Kept \in SUBSET C
      /\ \A p \in C : succ[p] \in SUBSET C
      /\ \A T \in SUBSET Objects :
           Kept \in SUBSET T /\ (\A p \in T : succ[p] \in SUBSET T) => C \in SUBSET T
  BY <1>3, <1>5, <1>6, ClosureIs
<1>8. C \in SUBSET M
  <2>1. \A p \in M : succ[p] \in SUBSET M
    BY <1>4, <1>5, <1>6
  <2> QED
    BY <1>4, <1>5, <1>7, <2>1
<1>9. M \in SUBSET C
  <2>1. ASSUME NEW p \in Objects PROVE Tables[p] = Range(children[p]) /\ Tables[p] \in SUBSET Objects
    <3>1. PICK t \in Seq(Objects) : t = children[p]
      BY DEF RcInv, RcTypeOK
    <3>2. \A i \in DOMAIN t : t[i] \in Objects
      OBVIOUS
    <3> QED
      BY <3>1, <3>2 DEF Range, Tables
  <2>2. ASSUME NEW p \in C, NEW c \in Tables[p] PROVE c \in C
    <3>1. p \in live /\ p \in Objects /\ c \in Objects
      BY <1>4, <1>7, <1>8, <2>1
    <3>2. Entries(p, c) \in Nat /\ Entries(p, c) > 0
      BY <2>1, <2>2, <3>1, InTable DEF RcInv
    <3>3. edge[p][c] \in Nat /\ Entries(p, c) <= edge[p][c]
      BY <3>1, RcAssumption DEF RcInv, RcTypeOK, EntriesStored
    <3>4. edge[p][c] > 0
      BY <3>2, <3>3
    <3> QED
      BY <1>6, <1>7, <3>1, <3>4
  <2>3. \A T \in SUBSET Objects :
          Kept \in SUBSET T /\ (\A p \in T : Tables[p] \in SUBSET T) => M \in SUBSET T
    BY <1>1, <1>5, <2>1, ClosureIs
  <2>4. \A p \in C : Tables[p] \in SUBSET C
    BY <2>2
  <2> QED
    BY <1>7, <2>3, <2>4
<1>10. M = C
  BY <1>8, <1>9
<1> QED
  BY <1>2, <1>3, <1>4, <1>10

-----------------------------------------------------------------------------
(* The theorems.                                                           *)

(* The invariant holds in every state.                                     *)
LEMMA RcAlways == RcSpec => []RcInv
<1>1. RcInit => RcInv
  BY RcInitInv
<1>2. RcInv /\ [RcNext]_rcVars => RcInv'
  <2>1. SUFFICES ASSUME RcInv, [RcNext]_rcVars PROVE RcInv'
    OBVIOUS
  <2>2. ASSUME NEW o \in Objects, owned_rc_new(o) PROVE RcInv'
    BY <2>1, <2>2, NewInv
  <2>3. ASSUME NEW o \in Objects, owned_rc_clone(o) PROVE RcInv'
    BY <2>1, <2>3, CloneInv
  <2>4. ASSUME NEW o \in Objects, owned_rc_drop(o) PROVE RcInv'
    BY <2>1, <2>4, DropInv
  <2>5. ASSUME NEW p \in Objects, NEW c \in Objects, link(p, c) PROVE RcInv'
    BY <2>1, <2>5, LinkInv
  <2>6. ASSUME NEW p \in Objects, NEW c \in Objects, unlink(p, c) PROVE RcInv'
    BY <2>1, <2>6, UnlinkInv
  <2>7. CASE owned_rc_collect_cycles
    BY <2>1, <2>7, CollectInv
  <2>8. CASE UNCHANGED rcVars
    BY <2>1, <2>8 DEF RcInv, RcTypeOK, Listed, Counted, FreedAlone, EntriesStored, Entries,
                      EdgesFrom, Stored, rcVars
  <2> QED
    BY <2>1, <2>2, <2>3, <2>4, <2>5, <2>6, <2>7, <2>8 DEF RcNext
<1> QED
  BY <1>1, <1>2, PTL DEF RcSpec

(* The count of every live object is the number of references there are to it,
   and the collector's list has every live object once, whatever the client
   links, drops and collects, in any order.                                *)
THEOREM CountsStayRight == RcSpec => []CountsAgree
<1>1. ASSUME RcInv PROVE CountsAgree
  <2>1. PICK q \in Seq(Objects) : q = gc_list
    BY <1>1 DEF RcInv, RcTypeOK
  <2>2. PICK l \in Nat : l = Len(q) /\ DOMAIN q = 1 .. l
    OBVIOUS
  <2>3. Range(q) = live /\ \A i, j \in 1 .. l : q[i] = q[j] => i = j
    BY <1>1, <2>1, <2>2 DEF RcInv, Listed, Distinct
  <2>4. q \in Bijection(1 .. l, live)
    <3>1. \A o : o \in live <=> \E i \in 1 .. l : q[i] = o
      BY <2>2, <2>3 DEF Range
    <3>2. q = [i \in 1 .. l |-> q[i]]
      BY <2>2
    <3>3. q \in [1 .. l -> live]
      BY <3>1, <3>2
    <3>4. \A o \in live : \E i \in 1 .. l : q[i] = o
      BY <3>1
    <3> QED
      BY <2>3, <3>3, <3>4, Fun_IsBij, Zenon
  <2>5. ExistsBijection(1 .. l, live)
    BY <2>4 DEF ExistsBijection
  <2>6. Cardinality(live) = l
    BY <2>5, FS_CountingElements
  <2>7. Range(gc_list) = live /\ Len(gc_list) = Cardinality(live)
    BY <2>1, <2>2, <2>3, <2>6
  <2> QED
    BY <1>1, <2>7 DEF RcInv, Counted, CountsAgree
<1>2. RcSpec => []RcInv
  BY RcAlways
<1> QED
  BY <1>1, <1>2, PTL

(* No drop and no collection frees an object that a variable or live data still
   refers to, and the collector never follows a table to a freed object.   *)
THEOREM NothingDangles == RcSpec => []NoDangling
<1>1. ASSUME RcInv PROVE NoDangling
  <2>1. ASSUME NEW o \in Objects \ live PROVE ext[o] = 0 /\ EdgesFrom(live, o) = 0
    <3>1. live \in SUBSET Objects /\ edge \in Edges
      BY <1>1 DEF RcInv, RcTypeOK, Edges
    <3>2. ext[o] = 0 /\ \A p \in live : edge[p][o] = 0
      BY <1>1, <3>1 DEF RcInv, FreedAlone
    <3>3. Cardinality(Refs(edge, live, o)) = 0
      BY <3>1, <3>2, RefsNone
    <3> QED
      BY <3>2, <3>3 DEF EdgesFrom, Stored, Refs
  <2> QED
    BY <1>1, <2>1 DEF RcInv, NoDangling
<1>2. RcSpec => []RcInv
  BY RcAlways
<1> QED
  BY <1>1, <1>2, PTL

(* A collection frees exactly what no variable, no reference of a collected
   object and no unregistered reference leads to.                          *)
THEOREM CollectsExactly == RcSpec => CollectExact
<1>1. RcSpec => []RcInv
  BY RcAlways
<1>2. ASSUME RcInv, owned_rc_collect_cycles
      PROVE  LET succ == [p \in Objects |-> {c \in Objects : edge[p][c] > 0}]
                 kept == {o \in live : ext[o] > 0 \/ lost[o] > 0
                                       \/ \E p \in live : edge[p][o] > Entries(p, o)}
             IN  live' = Closure(kept, succ)
  BY <1>2, CollectKeeps DEF Kept
<1>3. RcInv /\ [RcNext]_rcVars =>
        [owned_rc_collect_cycles =>
           LET succ == [p \in Objects |-> {c \in Objects : edge[p][c] > 0}]
               kept == {o \in live : ext[o] > 0 \/ lost[o] > 0
                                     \/ \E p \in live : edge[p][o] > Entries(p, o)}
           IN  live' = Closure(kept, succ)]_rcVars
  BY <1>2
<1> QED
  BY <1>1, <1>3, PTL DEF RcSpec, CollectExact

=============================================================================
