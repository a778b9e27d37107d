---------------------------- MODULE RegionProofs ----------------------------
(***************************************************************************)
(* What a region or an arena gives out lies inside of its chunks and is    *)
(* given out once, for every SizeMax, every alignment and any requests, as *)
(* long as no size has wrapped around; and its list leads to every chunk.  *)
(***************************************************************************)
EXTENDS Region, Sequences, FiniteSetTheorems, FunctionTheorems, WellFoundedInduction, TLAPS

(* Sums of sizes, and when they are what they seem.                        *)
LEMMA PlusFacts ==
  ASSUME NEW m \in Nat, NEW n \in Nat
  PROVE  /\ Plus(m, n) \in Size
         /\ m + n < SizeMax => Plus(m, n) = m + n
  BY SizeTAssumption DEF Plus, Size

(* A multiple of Align next to a number.                                   *)
LEMMA DivFacts ==
  ASSUME NEW a \in Nat, a > 0, NEW n \in Nat
  PROVE  /\ (n \div a) * a \in Nat
         /\ (n \div a) * a <= n
         /\ n < (n \div a) * a + a
  OBVIOUS

(* A request is rounded to a size, which is no smaller unless it wraps.    *)
LEMMA RoundedFacts ==
  ASSUME NEW n \in Size
  PROVE  /\ rounded(n) \in Size
         /\ n + Align - 1 < SizeMax => n <= rounded(n)
<1>1. Align \in Nat /\ Align > 0 /\ Align - 1 \in Nat /\ SizeMax \in Nat /\ n \in Nat
  BY RegionAssumption, SizeTAssumption DEF Size
<1>2. PICK p \in Size : p = Plus(n, Align - 1)
  BY <1>1, PlusFacts
<1>3. n + (Align - 1) < SizeMax => p = n + (Align - 1)
  BY <1>1, <1>2, PlusFacts
<1>4. PICK r \in Nat : r = (p \div Align) * Align /\ r <= p /\ p < r + Align
  <2>1. p \in Nat
    BY <1>1 DEF Size
  <2> QED
    BY <1>1, <2>1, DivFacts
<1>5. rounded(n) = r
  BY <1>2, <1>4 DEF rounded
<1>6. r \in Size
  BY <1>1, <1>4 DEF Size
<1>7. n + Align - 1 < SizeMax => n <= r
  BY <1>1, <1>3, <1>4
<1> QED
  BY <1>5, <1>6, <1>7

(* A block that holds n bytes of data has room for n, unless its size      *)
(* wraps around.                                                           *)
LEMMA BlockFacts ==
  ASSUME NEW n \in Size
  PROVE  /\ block_bytes(n) - MetaSize - ChunkSize \in Int
         /\ MetaSize + ChunkSize + n < SizeMax =>
              block_bytes(n) - MetaSize - ChunkSize = n
<1>1. MetaSize \in Nat /\ ChunkSize \in Nat /\ n \in Nat /\ SizeMax \in Nat
  BY RegionAssumption, SizeTAssumption DEF Size
<1>2. PICK p \in Size : p = Plus(ChunkSize, n) /\ (ChunkSize + n < SizeMax => p = ChunkSize + n)
  BY <1>1, PlusFacts
<1>3. p \in Nat
  BY <1>1 DEF Size
<1>4. PICK s \in Size : /\ s = Plus(MetaSize, p)
                        /\ MetaSize + p < SizeMax => s = MetaSize + p
  BY <1>1, <1>3, PlusFacts
<1>5. block_bytes(n) = s
  BY <1>2, <1>4 DEF block_bytes
<1>6. s \in Nat
  BY <1>1 DEF Size
<1>7. s - MetaSize - ChunkSize \in Int
  BY <1>1, <1>6
<1>8. MetaSize + ChunkSize + n < SizeMax => s - MetaSize - ChunkSize = n
  BY <1>1, <1>2, <1>3, <1>4, <1>6
<1> QED
  BY <1>5, <1>7, <1>8

-----------------------------------------------------------------------------
(* The list of chunks, as a sequence.                                      *)

Members(q) == {q[i] : i \in DOMAIN q}

\* The list that begins at head is q.
Linked(q) ==
  /\ q \in Seq(Chunks)
  /\ head = IF q = <<>> THEN NoChunk ELSE q[1]
  /\ \A i, j \in DOMAIN q : q[i] = q[j] => i = j
  /\ \A i \in DOMAIN q : chunk[q[i]].next = IF i = Len(q) THEN NoChunk ELSE q[i + 1]

(* A set of numbers has a least element.                                   *)
LEMMA LeastNumber ==
  ASSUME NEW T \in SUBSET Nat, T # {}
  PROVE  \E x \in T : \A y \in T : x <= y
<1> DEFINE R == {p \in Nat \X Nat : p[1] < p[2]}
<1>1. OpToRel(<, Nat) = R
  BY DEF OpToRel
<1>2. \E x \in T : \A y \in T : ~(<<y, x>> \in OpToRel(<, Nat))
  BY NatLessThanWellFounded, WFMin
<1>3. PICK x \in T : \A y \in T : ~(<<y, x>> \in R)
  BY <1>1, <1>2
<1>4. \A y \in T : x \in Nat /\ y \in Nat /\ ~(y < x)
  BY <1>3
<1> HIDE DEF R
<1> QED
  BY <1>4

(* No chunk is twice on the list, so it is no longer than there are chunks. *)
LEMMA ListIsShort ==
  ASSUME NEW q, Linked(q)
  PROVE  \E l \in Nat : l = Len(q) /\ l <= Cardinality(Chunks) /\ Cardinality(Chunks) \in Nat
<1>1. PICK l \in Nat : l = Len(q)
  BY DEF Linked
<1>2. IsFiniteSet(1 .. l) /\ Cardinality(1 .. l) = l
  BY FS_Interval
<1>3. q \in Injection(1 .. l, Chunks)
  <2>1. DOMAIN q = 1 .. l /\ q \in [1 .. l -> Chunks]
    BY <1>1 DEF Linked
  <2> QED
    BY <2>1, Fun_IsInj DEF Linked
<1>4. IsFiniteSet(Chunks) /\ Cardinality(Chunks) \in Nat
  BY RegionAssumption, FS_CardinalityType
<1>5. Cardinality(1 .. l) <= Cardinality(Chunks)
  BY <1>2, <1>3, <1>4, FS_Injection
<1> QED
  BY <1>1, <1>2, <1>4, <1>5

(* Freeing a region or an arena visits every chunk of the list.            *)
LEMMA WalkIs ==
  ASSUME NEW q, Linked(q)
  PROVE  Walk = Members(q)
<1> DEFINE e == [k \in Nat |-> {q[i] : i \in {j \in 1 .. Len(q) : j <= k + 1}}]
           Reach(c) == [k \in Nat |->
                          IF k = 0 THEN {head} \ {NoChunk}
                          ELSE c[k - 1] \cup ({chunk[x].next : x \in c[k - 1]} \ {NoChunk})]
<1>1. Walk = (CHOOSE c : c = Reach(c))[Cardinality(Chunks)]
  BY DEF Walk
<1>2. PICK l \in Nat : l = Len(q) /\ l <= Cardinality(Chunks) /\ Cardinality(Chunks) \in Nat
  BY ListIsShort
<1>3. /\ DOMAIN q = 1 .. l /\ \A i \in 1 .. l : q[i] # NoChunk
      /\ l = 0 <=> q = <<>>
      /\ head = IF l = 0 THEN NoChunk ELSE q[1]
      /\ \A i \in 1 .. l : chunk[q[i]].next = IF i = l THEN NoChunk ELSE q[i + 1]
  <2>1. q \in Seq(Chunks) /\ NoChunk \notin Chunks
    BY RegionAssumption DEF Linked
  <2>2. DOMAIN q = 1 .. l /\ \A i \in 1 .. l : q[i] \in Chunks
    BY <1>2, <2>1
  <2>3. l = 0 <=> q = <<>>
    BY <1>2, <2>1
  <2> QED
    BY <1>2, <2>1, <2>2, <2>3 DEF Linked
<1>4. \A k \in Nat : e[k] = {q[i] : i \in {j \in 1 .. l : j <= k + 1}}
  BY <1>2
<1> HIDE DEF e
<1>5. ASSUME NEW k \in Nat
      PROVE  e[k] = IF k = 0 THEN {head} \ {NoChunk}
                    ELSE e[k - 1] \cup ({chunk[x].next : x \in e[k - 1]} \ {NoChunk})
  <2>1. CASE k = 0
    <3>1. {j \in 1 .. l : j <= k + 1} = IF l = 0 THEN {} ELSE {1}
      BY <2>1
    <3> QED
      BY <1>3, <1>4, <2>1, <3>1
  <2>2. CASE k # 0
    <3>1. k - 1 \in Nat /\ (k - 1) + 1 = k
      BY <2>2
    <3>2. e[k - 1] = {q[i] : i \in {j \in 1 .. l : j <= k}}
      BY <1>4, <3>1
    <3>3. ASSUME NEW y \in e[k]
          PROVE  y \in e[k - 1] \cup ({chunk[x].next : x \in e[k - 1]} \ {NoChunk})
      <4>1. PICK i \in 1 .. l : y = q[i] /\ i <= k + 1
        BY <1>4, <3>3
      <4>2. CASE i <= k
        BY <3>2, <4>1, <4>2
      <4>3. CASE i = k + 1
        <5>1. k \in 1 .. l /\ k # l
          BY <2>2, <4>3
        <5>2. q[k] \in e[k - 1] /\ chunk[q[k]].next = y
          BY <1>3, <3>2, <4>1, <4>3, <5>1
        <5> QED
          BY <1>3, <4>1, <5>2
      <4> QED
        BY <4>1, <4>2, <4>3
    <3>4. ASSUME NEW y \in e[k - 1] \cup ({chunk[x].next : x \in e[k - 1]} \ {NoChunk})
          PROVE  y \in e[k]
      <4>1. CASE y \in e[k - 1]
        <5>1. PICK i \in 1 .. l : y = q[i] /\ i <= k
          BY <3>2, <4>1
        <5>2. i <= k + 1
          BY <5>1
        <5> QED
          BY <1>4, <5>1, <5>2
      <4>2. CASE y \notin e[k - 1]
        <5>1. PICK x \in e[k - 1] : y = chunk[x].next /\ y # NoChunk
          BY <3>4, <4>2
        <5>2. PICK i \in 1 .. l : x = q[i] /\ i <= k
          BY <3>2, <5>1
        <5>3. i # l /\ y = q[i + 1]
          BY <1>3, <5>1, <5>2
        <5>4. i + 1 \in 1 .. l /\ i + 1 <= k + 1
          BY <5>2, <5>3
        <5> QED
          BY <1>4, <5>3, <5>4
      <4> QED
        BY <4>1, <4>2
    <3> QED
      BY <2>2, <3>3, <3>4
  <2> QED
    BY <2>1, <2>2
<1>6. e = Reach(e)
  <2>1. e = [k \in Nat |-> e[k]]
    BY DEF e
  <2> QED
    BY <1>5, <2>1
<1>7. ASSUME NEW c, c = Reach(c)
      PROVE  c = e
  <2>1. c = [k \in Nat |-> c[k]]
    BY <1>7
  <2>2. \A k \in Nat :
          c[k] = IF k = 0 THEN {head} \ {NoChunk}
                 ELSE c[k - 1] \cup ({chunk[x].next : x \in c[k - 1]} \ {NoChunk})
    BY <1>7
  <2>3. \A k \in Nat : c[k] = e[k]
    <3> DEFINE T == {k \in Nat : c[k] # e[k]}
    <3> SUFFICES ASSUME T # {} PROVE FALSE
      OBVIOUS
    <3>1. T \in SUBSET Nat
      OBVIOUS
    <3> HIDE DEF T
    <3>2. PICK k \in T : \A j \in T : k <= j
      BY <3>1, LeastNumber
    <3>3. k \in Nat /\ c[k] # e[k]
      BY <3>2 DEF T
    <3>4. k # 0
      BY <1>5, <2>2, <3>3
    <3>5. k - 1 \in Nat /\ k - 1 \notin T
      BY <3>2, <3>3, <3>4
    <3>6. c[k - 1] = e[k - 1]
      BY <3>5 DEF T
    <3> QED
      BY <1>5, <2>2, <3>3, <3>4, <3>6
  <2>4. e = [k \in Nat |-> e[k]]
    BY DEF e
  <2> QED
    BY <2>1, <2>3, <2>4
<1> HIDE DEF Reach
<1>8. (CHOOSE c : c = Reach(c)) = e
  BY <1>6, <1>7
<1>9. e[Cardinality(Chunks)] = {q[i] : i \in 1 .. l}
  <2>1. PICK N \in Nat : N = Cardinality(Chunks) /\ l <= N
    BY <1>2
  <2>2. {j \in 1 .. l : j <= N + 1} = 1 .. l
    BY <2>1
  <2> QED
    BY <1>4, <2>1, <2>2
<1> QED
  BY <1>1, <1>3, <1>8, <1>9 DEF Members

-----------------------------------------------------------------------------
(* The inductive invariant.                                                *)

\* Two allocations, one in front of the other.
Apart(g, h) == g.at + g.size <= h.at \/ h.at + h.size <= g.at

\* As long as nothing has wrapped: a chunk of the usual size is possible, chunks
\* have the room they are believed to have, and all that was given out of a chunk
\* lies in front of its used mark.
Sound ==
  /\ current # NoChunk => MetaSize + ChunkSize + block_size < SizeMax
  /\ \A c \in held : chunk[c].used <= chunk[c].capacity /\ chunk[c].capacity = chunk[c].room
  /\ \A g \in grants :
       /\ g.chunk \in held /\ g.at \in Nat /\ g.size \in Nat
       /\ g.at + g.size <= chunk[g.chunk].used
       /\ \A h \in grants \ {g} : g.chunk = h.chunk => Apart(g, h)

\* q is the list; a region uses its first chunk, an arena its last one.
Inv(q) ==
  /\ RegTypeOK
  /\ Linked(q) /\ held = Members(q)
  /\ pool = "none" => q = <<>>
  /\ pool = "region" => q # <<>> /\ current = q[1]
  /\ pool # "region" => current = IF q = <<>> THEN NoChunk ELSE q[Len(q)]
  /\ ~wrapped => Sound

(* GrantsDisjoint follows from the invariant.                              *)
LEMMA InvImplies ==
  ASSUME NEW q, Inv(q)
  PROVE  GrantsDisjoint
<1>1. RegTypeOK /\ held = Walk
  BY WalkIs DEF Inv
<1>2. ASSUME ~wrapped, NEW g \in grants
      PROVE  /\ g.chunk \in held
             /\ g.at + g.size <= chunk[g.chunk].room
             /\ \A h \in grants \ {g} : g.chunk = h.chunk => Bytes(g) \cap Bytes(h) = {}
  <2>1. Sound
    BY <1>2 DEF Inv
  <2>2. /\ g.chunk \in held /\ g.at \in Nat /\ g.size \in Nat
        /\ g.at + g.size <= chunk[g.chunk].used
    BY <1>2, <2>1 DEF Sound
  <2>3. PICK k \in [used : Size, capacity : Size, next : Chunks \cup {NoChunk}, room : Int] :
          k = chunk[g.chunk]
    BY <1>1, <2>2 DEF RegTypeOK
  <2>4. g.at + g.size <= k.room
    <3>1. k.used <= k.capacity /\ k.capacity = k.room
      BY <2>1, <2>2, <2>3 DEF Sound
    <3>2. k.used \in Int /\ k.capacity \in Int
      BY SizeTAssumption DEF Size
    <3> QED
      BY <2>2, <2>3, <3>1, <3>2
  <2>5. ASSUME NEW h \in grants \ {g}, g.chunk = h.chunk
        PROVE  Bytes(g) \cap Bytes(h) = {}
    <3>1. h.at \in Nat /\ h.size \in Nat /\ Apart(g, h)
      BY <1>2, <2>1, <2>5 DEF Sound
    <3>2. PICK ga \in Nat, gs \in Nat, ha \in Nat, hs \in Nat :
            ga = g.at /\ gs = g.size /\ ha = h.at /\ hs = h.size
      BY <2>2, <3>1
    <3>3. (ga .. ga + gs - 1) \cap (ha .. ha + hs - 1) = {}
      BY <3>1, <3>2 DEF Apart
    <3> QED
      BY <3>2, <3>3 DEF Bytes
  <2> QED
    BY <2>2, <2>3, <2>4, <2>5
<1>3. ~wrapped => \A c \in held : /\ chunk[c].used <= chunk[c].capacity
                                  /\ chunk[c].capacity = chunk[c].room
  BY DEF Inv, Sound
<1> QED
  BY <1>1, <1>2, <1>3 DEF GrantsDisjoint

\* No region, before it is created and after it is freed as a whole.
Nothing ==
  /\ pool = "none" /\ block_size = 0 /\ head = NoChunk /\ current = NoChunk
  /\ chunk \in [Chunks -> [used : Size, capacity : Size,
                           next : Chunks \cup {NoChunk}, room : Int]]
  /\ held = {} /\ grants = {} /\ wrapped = FALSE

NothingOK == Nothing => Inv(<<>>)

(* The invariant holds with no region and an empty list.                   *)
LEMMA EmptyOK == NothingOK
<1> SUFFICES ASSUME Nothing PROVE Inv(<<>>)
  BY DEF NothingOK
<1>1. 0 \in Size
  BY SizeTAssumption DEF Size
<1>2. <<>> \in Seq(Chunks) /\ DOMAIN <<>> = {}
  OBVIOUS
<1>3. Members(<<>>) = {}
  BY <1>2 DEF Members
<1> QED
  BY <1>1, <1>2, <1>3 DEF Nothing, Inv, RegTypeOK, Linked, Sound

(* The type of the record of a new chunk, and its room.                    *)
LEMMA NewChunkFacts ==
  ASSUME NEW n \in Size, NEW b \in Size, NEW x \in Chunks \cup {NoChunk}, block_size = b
  PROVE  /\ NewSize(n) \in Size /\ rounded(n) <= NewSize(n)
         /\ NewChunk(n, x) \in [used : Size, capacity : Size,
                                next : Chunks \cup {NoChunk}, room : Int]
         /\ MetaSize + ChunkSize + b < SizeMax /\ ~Wraps(n) =>
              NewChunk(n, x).capacity = NewChunk(n, x).room
<1>1. PICK r \in Size : r = rounded(n)
  BY RoundedFacts
<1>2. PICK s \in Size : s = NewSize(n) /\ (s = r \/ s = b) /\ r <= s
  BY <1>1, SizeTAssumption DEF NewSize, Size
<1>3. PICK m \in Int : m = block_bytes(s) - MetaSize - ChunkSize
  BY BlockFacts
<1>4. NewChunk(n, x) = [used |-> r, capacity |-> s, next |-> x, room |-> m]
  BY <1>1, <1>2, <1>3 DEF NewChunk
<1>5. ASSUME MetaSize + ChunkSize + b < SizeMax, ~Wraps(n)
      PROVE  s = m
  <2>1. /\ MetaSize \in Nat /\ ChunkSize \in Nat /\ SizeMax \in Nat
        /\ r \in Nat /\ s \in Nat
    BY RegionAssumption, SizeTAssumption DEF Size
  <2>2. MetaSize + ChunkSize + r < SizeMax
    BY <1>1, <1>5, <2>1 DEF Wraps
  <2>3. MetaSize + ChunkSize + s < SizeMax
    BY <1>2, <1>5, <2>2
  <2> QED
    BY <1>3, <2>3, BlockFacts
<1> QED
  BY <1>1, <1>2, <1>4, <1>5

-----------------------------------------------------------------------------
(* The steps.                                                              *)

(* A chunk c that was not on the list is put in front of it.               *)
LEMMA Prepended ==
  ASSUME NEW q, Linked(q), NEW c \in Chunks, c \notin Members(q),
         head' = c, chunk'[c].next = head,
         \A x \in Members(q) : chunk'[x].next = chunk[x].next
  PROVE  \E r : Linked(r)' /\ r # <<>> /\ r[1] = c /\ Members(r) = Members(q) \cup {c}
<1>1. PICK l \in Nat : l = Len(q) /\ DOMAIN q = 1 .. l /\ (l = 0 <=> q = <<>>)
  BY DEF Linked
<1>2. \A i \in 1 .. l : q[i] \in Chunks /\ q[i] \in Members(q)
  BY <1>1 DEF Linked, Members
<1> DEFINE r == [i \in 1 .. l + 1 |-> IF i = 1 THEN c ELSE q[i - 1]]
<1>3. /\ DOMAIN r = 1 .. l + 1 /\ r[1] = c
      /\ \A i \in 1 .. l : r[i + 1] = q[i]
      /\ \A i \in 1 .. l + 1 : i # 1 => i - 1 \in 1 .. l /\ r[i] = q[i - 1]
  OBVIOUS
<1>4. r \in Seq(Chunks) /\ Len(r) = l + 1 /\ r # <<>>
  <2>1. \A i \in 1 .. l + 1 : r[i] \in Chunks
    BY <1>2, <1>3
  <2>2. r \in [1 .. l + 1 -> Chunks] /\ l + 1 \in Nat
    BY <2>1
  <2> HIDE DEF r
  <2>3. r \in Seq(Chunks)
    BY <2>2
  <2> QED
    BY <1>3, <2>3
<1> HIDE DEF r
<1>5. Members(r) = Members(q) \cup {c}
  <2>1. \A x \in Members(q) : x \in Members(r)
    <3>1. \A i \in 1 .. l : i + 1 \in 1 .. l + 1
      OBVIOUS
    <3> QED
      BY <1>1, <1>3, <3>1 DEF Members
  <2>2. c \in Members(r)
    <3>1. 1 \in 1 .. l + 1
      OBVIOUS
    <3> QED
      BY <1>3, <3>1 DEF Members
  <2>3. \A i \in 1 .. l + 1 : r[i] = c \/ r[i] \in Members(q)
    BY <1>2, <1>3
  <2>4. \A x \in Members(r) : x = c \/ x \in Members(q)
    BY <1>3, <2>3 DEF Members
  <2> QED
    BY <2>1, <2>2, <2>4
<1>6. ASSUME NEW i \in 1 .. l + 1, NEW j \in 1 .. l + 1, r[i] = r[j]
      PROVE  i = j
  <2>1. CASE i # 1 /\ j # 1
    <3>1. i - 1 \in 1 .. l /\ j - 1 \in 1 .. l /\ q[i - 1] = q[j - 1]
      BY <1>3, <1>6, <2>1
    <3>2. i - 1 = j - 1
      BY <1>1, <3>1 DEF Linked
    <3> QED
      BY <3>2
  <2>2. CASE i = 1 \/ j = 1
    <3>1. \A k \in 1 .. l + 1 : k # 1 => r[k] \in Members(q)
      BY <1>2, <1>3
    <3> QED
      BY <1>3, <1>6, <2>2, <3>1
  <2> QED
    BY <2>1, <2>2
<1>7. ASSUME NEW i \in 1 .. l + 1
      PROVE  chunk'[r[i]].next = IF i = l + 1 THEN NoChunk ELSE r[i + 1]
  <2>1. CASE i = 1
    <3>1. l = 0 <=> i = l + 1
      BY <2>1
    <3>2. l # 0 => 1 \in 1 .. l
      OBVIOUS
    <3>3. l # 0 => r[i + 1] = q[1]
      BY <1>3, <2>1, <3>2
    <3> QED
      BY <1>1, <1>3, <2>1, <3>1, <3>3 DEF Linked
  <2>2. CASE i # 1
    <3>1. PICK k \in 1 .. l : k = i - 1
      BY <2>2
    <3>2. /\ r[i] = q[k] /\ chunk'[q[k]].next = chunk[q[k]].next
          /\ chunk[q[k]].next = IF k = l THEN NoChunk ELSE q[k + 1]
      BY <1>1, <1>2, <1>3, <2>2, <3>1 DEF Linked
    <3>3. k = l <=> i = l + 1
      BY <3>1
    <3>4. k # l => k + 1 \in 1 .. l /\ (k + 1) + 1 = i + 1
      BY <3>1
    <3>5. k # l => r[i + 1] = q[k + 1]
      BY <1>3, <3>4
    <3> QED
      BY <3>2, <3>3, <3>5
  <2> QED
    BY <2>1, <2>2
<1>8. Linked(r)'
  BY <1>3, <1>4, <1>6, <1>7 DEF Linked
<1> QED
  BY <1>3, <1>4, <1>5, <1>8

(* A chunk c that was not on the list is put at its end.                   *)
LEMMA Appended ==
  ASSUME NEW q, Linked(q), q # <<>>, NEW c \in Chunks, c \notin Members(q),
         head' = head, chunk'[c].next = NoChunk,
         chunk'[q[Len(q)]].next = c,
         \A x \in Members(q) \ {q[Len(q)]} : chunk'[x].next = chunk[x].next
  PROVE  \E r : Linked(r)' /\ r # <<>> /\ r[Len(r)] = c /\ Members(r) = Members(q) \cup {c}
<1>1. PICK l \in Nat : l = Len(q) /\ DOMAIN q = 1 .. l /\ l # 0 /\ l \in 1 .. l
  BY DEF Linked
<1>2. \A i \in 1 .. l : q[i] \in Chunks /\ q[i] \in Members(q) /\ (q[i] = q[l] => i = l)
  BY <1>1 DEF Linked, Members
<1> DEFINE r == [i \in 1 .. l + 1 |-> IF i = l + 1 THEN c ELSE q[i]]
<1>3. /\ DOMAIN r = 1 .. l + 1 /\ r[l + 1] = c
      /\ \A i \in 1 .. l : r[i] = q[i] /\ i # l + 1 /\ i \in 1 .. l + 1
      /\ \A i \in 1 .. l + 1 : i = l + 1 \/ i \in 1 .. l
      /\ 1 \in 1 .. l /\ l + 1 \in 1 .. l + 1
  BY <1>1
<1>4. r \in Seq(Chunks) /\ Len(r) = l + 1 /\ r # <<>>
  <2>1. \A i \in 1 .. l + 1 : r[i] \in Chunks
    BY <1>2, <1>3
  <2>2. r \in Seq(Chunks)
    BY <2>1
  <2> HIDE DEF r
  <2> QED
    BY <1>3, <2>2
<1> HIDE DEF r
<1>5. Members(r) = Members(q) \cup {c}
  BY <1>1, <1>3 DEF Members
<1>6. \A i, j \in 1 .. l + 1 : r[i] = r[j] => i = j
  BY <1>1, <1>2, <1>3 DEF Linked
<1>7. ASSUME NEW i \in 1 .. l + 1
      PROVE  chunk'[r[i]].next = IF i = l + 1 THEN NoChunk ELSE r[i + 1]
  <2>1. CASE i = l + 1
    BY <1>3, <2>1
  <2>2. CASE i = l
    BY <1>1, <1>3, <2>2
  <2>3. CASE i \in 1 .. l /\ i # l
    <3>1. i + 1 \in 1 .. l
      BY <2>3
    <3>2. q[i] \in Members(q) \ {q[l]}
      BY <1>2, <2>3
    <3>3. chunk'[q[i]].next = q[i + 1]
      BY <1>1, <2>3, <3>2 DEF Linked
    <3> QED
      BY <1>3, <2>3, <3>1, <3>3
  <2> QED
    BY <1>3, <2>1, <2>2, <2>3
<1>8. head' = r[1]
  BY <1>1, <1>3 DEF Linked
<1>9. Linked(r)'
  BY <1>3, <1>4, <1>6, <1>7, <1>8 DEF Linked
<1> QED
  BY <1>3, <1>4, <1>5, <1>9

(* The first chunk of a region or an arena, or none for an arena.          *)
LEMMA CreatePreserves ==
  ASSUME NEW q, Inv(q), NEW k \in {"region", "arena"}, NEW n \in Size,
         NEW c \in Chunks \cup {NoChunk}, Create(k, n, c),
         \/ k = "arena" /\ c = NoChunk /\ UNCHANGED <<chunk, held>>
         \/ c # NoChunk /\ allocate_block(c, n, NoChunk)
  PROVE  \E r : Inv(r)'
<1>1. /\ RegTypeOK /\ q = <<>> /\ held = {} /\ Linked(q) /\ Members(q) = {}
      /\ head = NoChunk
  BY DEF Inv, Create, Members, Linked
<1>2. /\ pool' = k /\ block_size' = n /\ head' = c /\ current' = c /\ grants' = {}
      /\ wrapped' = (c # NoChunk /\ MetaSize + ChunkSize + n >= SizeMax)
  BY DEF Create
<1>3. CASE c = NoChunk
  <2>1. k = "arena" /\ chunk' = chunk /\ held' = held
    BY <1>3
  <2>2. RegTypeOK'
    BY <1>1, <1>2, <1>3, <2>1 DEF RegTypeOK
  <2>3. Linked(q)'
    BY <1>1, <1>2, <1>3, <2>1 DEF Linked
  <2>4. Inv(q)'
    BY <1>1, <1>2, <1>3, <2>1, <2>2, <2>3 DEF Inv, Sound
  <2> QED
    BY <2>4
<1>4. CASE c # NoChunk
  <2>1. PICK m \in Int : /\ m = block_bytes(n) - MetaSize - ChunkSize
                         /\ MetaSize + ChunkSize + n < SizeMax => m = n
    BY BlockFacts
  <2>2. 0 \in Size /\ n \in Nat
    BY SizeTAssumption DEF Size
  <2>3. /\ held' = {c} /\ c \in Chunks
        /\ chunk' = [chunk EXCEPT ![c] = [used |-> 0, capacity |-> n, next |-> NoChunk,
                                          room |-> m]]
    BY <1>1, <1>4, <2>1 DEF allocate_block
  <2>4. chunk'[c] = [used |-> 0, capacity |-> n, next |-> NoChunk, room |-> m]
    BY <1>1, <2>3 DEF RegTypeOK
  <2>5. RegTypeOK'
    BY <1>1, <1>2, <2>2, <2>3 DEF RegTypeOK
  <2>6. PICK r : Linked(r)' /\ r # <<>> /\ r[1] = c /\ Members(r) = {c}
    <3>1. c \notin Members(q) /\ head' = c /\ chunk'[c].next = head
      BY <1>1, <1>2, <2>4
    <3>2. \A x \in Members(q) : chunk'[x].next = chunk[x].next
      BY <1>1
    <3>3. PICK r : Linked(r)' /\ r # <<>> /\ r[1] = c /\ Members(r) = Members(q) \cup {c}
      BY <1>1, <2>3, <3>1, <3>2, Prepended
    <3> QED
      BY <1>1, <3>3
  <2>7. r[Len(r)] = c
    <3>1. r \in Seq(Chunks)
      BY <2>6 DEF Linked
    <3>2. Len(r) \in DOMAIN r
      BY <2>6, <3>1
    <3> QED
      BY <2>6, <3>2 DEF Members
  <2>8. ~wrapped' => Sound'
    <3>1. ~wrapped' => MetaSize + ChunkSize + n < SizeMax
      <4>1. MetaSize + ChunkSize + n < SizeMax \/ MetaSize + ChunkSize + n >= SizeMax
        BY <2>2, RegionAssumption, SizeTAssumption
      <4> QED
        BY <1>2, <1>4, <4>1
    <3> QED
      BY <1>2, <2>1, <2>2, <2>3, <2>4, <3>1 DEF Sound
  <2>9. Inv(r)'
    BY <1>2, <2>3, <2>5, <2>6, <2>7, <2>8 DEF Inv
  <2> QED
    BY <2>9
<1> QED
  BY <1>3, <1>4

(* An allocation in the chunk in use.                                      *)
LEMMA BumpPreserves ==
  ASSUME NEW q, Inv(q), NEW n \in Size, current # NoChunk, bump(n),
         UNCHANGED <<pool, block_size>>
  PROVE  Inv(q)'
<1>1. RegTypeOK /\ Linked(q) /\ current \in held /\ current \in Chunks
  BY DEF Inv, RegTypeOK
<1>2. PICK c \in Chunks, k \in [used : Size, capacity : Size,
                                next : Chunks \cup {NoChunk}, room : Int] :
        c = current /\ k = chunk[c]
  BY <1>1 DEF RegTypeOK
<1>3. /\ SizeMax \in Nat /\ n \in Nat /\ Align \in Nat /\ MetaSize \in Nat /\ ChunkSize \in Nat
      /\ k.used \in Nat /\ k.capacity \in Nat
  BY SizeTAssumption, RegionAssumption DEF Size
<1>4. PICK r \in Size : /\ r = rounded(n) /\ r \in Nat
                        /\ n + Align - 1 < SizeMax => n <= r
  BY RoundedFacts DEF Size
<1>5. PICK u \in Size : /\ u = Plus(k.used, r) /\ u \in Nat
                        /\ k.used + r < SizeMax => u = k.used + r
  <2>1. \A u \in Size : u \in Nat
    BY <1>3 DEF Size
  <2> QED
    BY <1>3, <1>4, <2>1, PlusFacts
<1>6. /\ u <= k.capacity
      /\ chunk' = [chunk EXCEPT ![c].used = u]
      /\ grants' = grants \cup {[chunk |-> c, at |-> k.used, size |-> n]}
      /\ wrapped' = (wrapped \/ Wraps(n) \/ k.used + r >= SizeMax)
      /\ UNCHANGED <<head, current, held>>
  BY <1>2, <1>4, <1>5 DEF bump, Fits, Grant
<1>7. /\ chunk'[c] = [k EXCEPT !.used = u]
      /\ \A x \in Chunks \ {c} : chunk'[x] = chunk[x]
  BY <1>1, <1>2, <1>6 DEF RegTypeOK
<1>8. /\ chunk'[c].used = u /\ chunk'[c].capacity = k.capacity /\ chunk'[c].room = k.room
      /\ chunk'[c].next = k.next
  BY <1>7
<1>9. RegTypeOK'
  BY <1>1, <1>2, <1>6 DEF RegTypeOK
<1>10. Linked(q)'
  <2>1. \A x \in Chunks : chunk'[x].next = chunk[x].next
    BY <1>2, <1>7, <1>8
  <2>2. \A i \in DOMAIN q : q[i] \in Chunks
    BY <1>1 DEF Linked
  <2> QED
    BY <1>1, <1>6, <2>1, <2>2 DEF Linked
<1>11. ASSUME ~wrapped'
       PROVE  Sound'
  <2>1. Sound /\ u = k.used + r /\ n <= r
    <3>1. ~wrapped /\ ~Wraps(n) /\ ~(k.used + r >= SizeMax)
      BY <1>6, <1>11
    <3>2. k.used + r < SizeMax
      BY <1>3, <3>1
    <3>3. n + Align - 1 < SizeMax
      BY <1>3, <3>1 DEF Wraps
    <3> QED
      BY <1>4, <1>5, <3>1, <3>2, <3>3 DEF Inv
  <2>2. \A x \in held' : chunk'[x].used <= chunk'[x].capacity
                         /\ chunk'[x].capacity = chunk'[x].room
    BY <1>1, <1>2, <1>6, <1>7, <1>8, <2>1 DEF Sound, RegTypeOK
  <2> DEFINE new == [chunk |-> c, at |-> k.used, size |-> n]
  <2>3. /\ new.chunk = c /\ new.at = k.used /\ new.size = n
    OBVIOUS
  <2>4. ASSUME NEW g \in grants
        PROVE  /\ g.chunk \in held /\ g.at \in Nat /\ g.size \in Nat
               /\ g.at + g.size <= chunk[g.chunk].used
               /\ g.at + g.size <= chunk'[g.chunk].used
               /\ g.chunk = c => Apart(g, new) /\ Apart(new, g)
    <3>1. /\ g.chunk \in held /\ g.at \in Nat /\ g.size \in Nat
          /\ g.at + g.size <= chunk[g.chunk].used
      BY <2>1, <2>4 DEF Sound
    <3>2. CASE g.chunk = c
      <4>1. g.at + g.size <= k.used
        BY <1>2, <3>1, <3>2
      <4>2. g.at + g.size <= u
        BY <1>3, <1>4, <2>1, <3>1, <4>1
      <4>3. Apart(g, new) /\ Apart(new, g)
        BY <2>3, <4>1 DEF Apart
      <4> QED
        BY <1>8, <3>1, <3>2, <4>2, <4>3
    <3>3. CASE g.chunk # c
      BY <1>1, <1>7, <3>1, <3>3 DEF RegTypeOK
    <3> QED
      BY <3>2, <3>3
  <2>5. k.used + n <= u
    BY <1>3, <1>4, <2>1
  <2>6. new.at + new.size <= chunk'[new.chunk].used
    BY <1>8, <2>3, <2>5
  <2>7. \A g \in grants : \A h \in grants \ {g} : g.chunk = h.chunk => Apart(g, h)
    BY <2>1 DEF Sound
  <2>8. new.chunk \in held /\ new.at \in Nat /\ new.size \in Nat
    BY <1>1, <1>2, <1>3, <2>3
  <2> HIDE DEF new
  <2>9. grants' = grants \cup {new}
    BY <1>6 DEF new
  <2>10. \A g \in grants' :
           /\ g.chunk \in held' /\ g.at \in Nat /\ g.size \in Nat
           /\ g.at + g.size <= chunk'[g.chunk].used
           /\ \A h \in grants' \ {g} : g.chunk = h.chunk => Apart(g, h)
    BY <1>6, <2>3, <2>4, <2>6, <2>7, <2>8, <2>9
  <2> QED
    BY <1>6, <2>1, <2>2, <2>10 DEF Sound
<1> QED
  BY <1>6, <1>9, <1>10, <1>11 DEF Inv

(* An allocation at the start of a new chunk c, wherever that is put.      *)
LEMMA NewChunkSound ==
  ASSUME NEW q, Inv(q), NEW n \in Size, NEW c \in Chunks, NEW x \in Chunks \cup {NoChunk},
         current # NoChunk, c \notin held, held' = held \cup {c}, current' = c,
         UNCHANGED block_size, Grant(c, n, 0), chunk'[c] = NewChunk(n, x),
         \A y \in held : /\ chunk'[y].used = chunk[y].used /\ chunk'[y].room = chunk[y].room
                         /\ chunk'[y].capacity = chunk[y].capacity,
         ~wrapped'
  PROVE  Sound'
<1>1. RegTypeOK /\ block_size \in Size
  BY DEF Inv, RegTypeOK
<1>2. SizeMax \in Nat /\ n \in Nat /\ Align \in Nat
  BY SizeTAssumption, RegionAssumption DEF Size
<1>3. PICK r \in Size : r = rounded(n) /\ (n + Align - 1 < SizeMax => n <= r)
  BY RoundedFacts
<1>4. /\ grants' = grants \cup {[chunk |-> c, at |-> 0, size |-> n]}
      /\ ~wrapped /\ ~Wraps(n)
  BY DEF Grant
<1>5. Sound /\ MetaSize + ChunkSize + block_size < SizeMax
  BY <1>4 DEF Inv, Sound
<1>6. n <= r
  BY <1>2, <1>3, <1>4 DEF Wraps
<1>7. /\ chunk'[c].used = r /\ chunk'[c].used <= chunk'[c].capacity
      /\ chunk'[c].capacity = chunk'[c].room
  <2>1. r <= NewSize(n) /\ NewChunk(n, x).capacity = NewChunk(n, x).room
    BY <1>1, <1>3, <1>4, <1>5, NewChunkFacts
  <2>2. NewChunk(n, x).used = r /\ NewChunk(n, x).capacity = NewSize(n)
    BY <1>3 DEF NewChunk
  <2> QED
    BY <2>1, <2>2
<1> DEFINE new == [chunk |-> c, at |-> 0, size |-> n]
<1>8. /\ new.chunk = c /\ new.at = 0 /\ new.size = n /\ new.at \in Nat /\ new.size \in Nat
      /\ new.at + new.size = n
  BY <1>2
<1> HIDE DEF new
<1>9. grants' = grants \cup {new}
  BY <1>4 DEF new
<1>10. ASSUME NEW g \in grants
       PROVE  /\ g.chunk \in held' /\ g.at \in Nat /\ g.size \in Nat /\ g.chunk # c
              /\ g.at + g.size <= chunk'[g.chunk].used
              /\ \A h \in grants \ {g} : g.chunk = h.chunk => Apart(g, h)
  BY <1>5, <1>10 DEF Sound
<1>11. new.chunk \in held' /\ new.at + new.size <= chunk'[new.chunk].used
  BY <1>6, <1>7, <1>8
<1>12. \A g \in grants' :
         /\ g.chunk \in held' /\ g.at \in Nat /\ g.size \in Nat
         /\ g.at + g.size <= chunk'[g.chunk].used
         /\ \A h \in grants' \ {g} : g.chunk = h.chunk => Apart(g, h)
  BY <1>8, <1>9, <1>10, <1>11
<1>13. \A y \in held' : /\ chunk'[y].used <= chunk'[y].capacity
                        /\ chunk'[y].capacity = chunk'[y].room
  BY <1>5, <1>7 DEF Sound
<1> QED
  BY <1>5, <1>12, <1>13 DEF Sound

(* A region puts its new chunk in front of the list.                       *)
LEMMA RegionNewPreserves ==
  ASSUME NEW q, Inv(q), pool = "region", NEW n \in Size, NEW c \in Chunks,
         region_new_chunk(n, c), UNCHANGED <<pool, block_size>>
  PROVE  \E r : Inv(r)'
<1>1. /\ RegTypeOK /\ Linked(q) /\ held = Members(q) /\ q # <<>> /\ current = q[1]
      /\ head = current /\ block_size \in Size
  BY DEF Inv, Linked, RegTypeOK
<1>2. current \in Chunks /\ current # NoChunk
  <2>1. 1 \in DOMAIN q /\ q[1] \in Chunks
    BY <1>1 DEF Linked
  <2> QED
    BY <1>1, <2>1, RegionAssumption
<1>3. /\ c \notin held /\ held' = held \cup {c} /\ head' = c /\ current' = c
      /\ chunk' = [chunk EXCEPT ![c] = NewChunk(n, current)] /\ Grant(c, n, 0)
      /\ wrapped' = (wrapped \/ Wraps(n) \/ 0 + rounded(n) >= SizeMax)
  BY DEF region_new_chunk, Grant
<1>4. NewChunk(n, current) \in [used : Size, capacity : Size,
                                next : Chunks \cup {NoChunk}, room : Int]
  BY <1>1, <1>2, NewChunkFacts
<1>5. /\ chunk'[c] = NewChunk(n, current) /\ chunk'[c].next = head
      /\ \A y \in held : chunk'[y] = chunk[y]
  BY <1>1, <1>3 DEF RegTypeOK, NewChunk
<1>6. RegTypeOK'
  BY <1>1, <1>3, <1>4 DEF RegTypeOK
<1>7. PICK r : Linked(r)' /\ r # <<>> /\ r[1] = c /\ Members(r) = Members(q) \cup {c}
  BY <1>1, <1>3, <1>5, Prepended
<1>8. ~wrapped' => Sound'
  BY <1>2, <1>3, <1>5, NewChunkSound
<1>9. Inv(r)'
  BY <1>1, <1>3, <1>6, <1>7, <1>8 DEF Inv
<1> QED
  BY <1>9

(* An arena puts it at the end.                                            *)
LEMMA ArenaNewPreserves ==
  ASSUME NEW q, Inv(q), pool = "arena", current # NoChunk, NEW n \in Size, NEW c \in Chunks,
         arena_new_block(n, c), UNCHANGED <<pool, block_size>>
  PROVE  \E r : Inv(r)'
<1>1. /\ RegTypeOK /\ Linked(q) /\ held = Members(q) /\ q # <<>> /\ current = q[Len(q)]
      /\ block_size \in Size /\ current \in held /\ current \in Chunks
  BY DEF Inv, RegTypeOK
<1>2. PICK d \in Chunks, k \in [used : Size, capacity : Size,
                                next : Chunks \cup {NoChunk}, room : Int] :
        d = current /\ k = chunk[d]
  BY <1>1 DEF RegTypeOK
<1>3. /\ c \notin held /\ held' = held \cup {c} /\ head' = head /\ current' = c /\ c # d
      /\ chunk' = [chunk EXCEPT ![d].next = c, ![c] = NewChunk(n, NoChunk)]
      /\ Grant(c, n, 0) /\ wrapped' = (wrapped \/ Wraps(n) \/ 0 + rounded(n) >= SizeMax)
  BY <1>1, <1>2 DEF arena_new_block, Grant
<1>4. NewChunk(n, NoChunk) \in [used : Size, capacity : Size,
                                next : Chunks \cup {NoChunk}, room : Int]
  BY <1>1, NewChunkFacts
<1>5. /\ chunk'[c] = NewChunk(n, NoChunk) /\ chunk'[c].next = NoChunk
      /\ chunk'[d] = [k EXCEPT !.next = c]
      /\ \A y \in held \ {d} : chunk'[y] = chunk[y]
  BY <1>1, <1>2, <1>3 DEF RegTypeOK, NewChunk
<1>6. /\ chunk'[d].next = c /\ chunk'[d].used = chunk[d].used
      /\ chunk'[d].capacity = chunk[d].capacity /\ chunk'[d].room = chunk[d].room
  BY <1>2, <1>5
<1>7. RegTypeOK'
  <2>1. [k EXCEPT !.next = c] \in [used : Size, capacity : Size,
                                   next : Chunks \cup {NoChunk}, room : Int]
    OBVIOUS
  <2>2. chunk' = [chunk EXCEPT ![d] = [k EXCEPT !.next = c], ![c] = NewChunk(n, NoChunk)]
    BY <1>2, <1>3
  <2>3. chunk' \in [Chunks -> [used : Size, capacity : Size,
                               next : Chunks \cup {NoChunk}, room : Int]]
    BY <1>1, <1>4, <2>1, <2>2 DEF RegTypeOK
  <2> QED
    BY <1>1, <1>3, <2>3 DEF RegTypeOK
<1>8. PICK r : Linked(r)' /\ r # <<>> /\ r[Len(r)] = c /\ Members(r) = Members(q) \cup {c}
  <2>1. \A x \in Members(q) \ {q[Len(q)]} : chunk'[x].next = chunk[x].next
    BY <1>1, <1>2, <1>5
  <2>2. chunk'[q[Len(q)]].next = c
    BY <1>1, <1>2, <1>6
  <2> QED
    BY <1>1, <1>3, <1>5, <2>1, <2>2, Appended, ZenonT(40)
<1>9. ~wrapped' => Sound'
  BY <1>3, <1>5, <1>6, NewChunkSound
<1>10. Inv(r)'
  BY <1>1, <1>3, <1>7, <1>8, <1>9 DEF Inv
<1> QED
  BY <1>10

(* Freeing follows the list and leaves nothing behind.                     *)
LEMMA ReleasePreserves ==
  ASSUME NEW q, Inv(q), NEW k, release(k)
  PROVE  Inv(<<>>)'
<1>1. Walk = held /\ RegTypeOK
  BY WalkIs DEF Inv
<1>2. Empty \in [used : Size, capacity : Size, next : Chunks \cup {NoChunk}, room : Int]
  BY SizeTAssumption DEF Empty, Size
<1>3. chunk' \in [Chunks -> [used : Size, capacity : Size,
                             next : Chunks \cup {NoChunk}, room : Int]]
  BY <1>1, <1>2 DEF release, RegTypeOK
<1>4. /\ pool' = "none" /\ block_size' = 0 /\ head' = NoChunk /\ current' = NoChunk
      /\ held' = {} /\ grants' = {} /\ wrapped' = FALSE
  BY <1>1 DEF release
<1>5. Nothing'
  BY <1>3, <1>4 DEF Nothing
<1>6. NothingOK'
  BY EmptyOK, PTL
<1> QED
  BY <1>5, <1>6 DEF NothingOK

(* The invariant is kept by every operation of a region or an arena.       *)
LEMMA NextPreserves ==
  ASSUME NEW q, Inv(q), [RegNext]_regVars
  PROVE  \E r : Inv(r)'
<1>1. \A n \in Sizes : n \in Size
  BY RegionAssumption
<1>2. ASSUME NEW n \in Sizes, NEW c \in Chunks, safe_region_create(n, c)
      PROVE  \E r : Inv(r)'
  <2>1. PICK m \in Size : m = IF n = 0 THEN DefaultSize ELSE n
    BY <1>1, RegionAssumption
  <2>2. Create("region", m, c) /\ c # NoChunk /\ allocate_block(c, m, NoChunk)
    BY <1>2, <2>1, RegionAssumption DEF safe_region_create
  <2> QED
    BY <2>2, CreatePreserves
<1>3. ASSUME NEW n \in Sizes, NEW c \in Chunks \cup {NoChunk}, ownedc_arena_create(n, c)
      PROVE  \E r : Inv(r)'
  <2>1. PICK m \in Size : m = IF n < MinSize THEN MinSize ELSE n
    BY <1>1, RegionAssumption
  <2>2. /\ Create("arena", m, c)
        /\ \/ c = NoChunk /\ UNCHANGED <<chunk, held>>
           \/ c # NoChunk /\ allocate_block(c, m, NoChunk)
    BY <1>3, <2>1 DEF ownedc_arena_create
  <2> QED
    BY <2>2, CreatePreserves
<1>4. ASSUME NEW n \in Sizes, safe_region_alloc(n)
      PROVE  \E r : Inv(r)'
  <2>1. pool = "region" /\ UNCHANGED <<pool, block_size>>
    BY <1>4 DEF safe_region_alloc
  <2>2. current # NoChunk
    <3>1. q # <<>> /\ current = q[1] /\ q \in Seq(Chunks)
      BY <2>1 DEF Inv, Linked
    <3> QED
      BY <3>1, RegionAssumption
  <2>3. bump(n) \/ \E c \in Chunks : region_new_chunk(n, c)
    BY <1>4 DEF safe_region_alloc
  <2> QED
    BY <1>1, <2>1, <2>2, <2>3, BumpPreserves, RegionNewPreserves
<1>5. ASSUME NEW n \in Sizes, ownedc_arena_alloc(n)
      PROVE  \E r : Inv(r)'
  <2>1. /\ pool = "arena" /\ UNCHANGED <<pool, block_size>> /\ current # NoChunk
        /\ bump(n) \/ \E c \in Chunks : arena_new_block(n, c)
    BY <1>5 DEF ownedc_arena_alloc
  <2> QED
    BY <1>1, <2>1, BumpPreserves, ArenaNewPreserves
<1>6. ASSUME safe_region_free \/ ownedc_arena_destroy
      PROVE  \E r : Inv(r)'
  BY <1>6, ReleasePreserves DEF safe_region_free, ownedc_arena_destroy
<1>7. CASE UNCHANGED regVars
  <2>1. Inv(q)'
    BY <1>7 DEF regVars, Inv, RegTypeOK, Linked, Sound
  <2> QED
    BY <2>1
<1> QED
  BY <1>2, <1>3, <1>4, <1>5, <1>6, <1>7 DEF RegNext

\* Some list goes with the state.
RegInv == \E q : Inv(q)

(* GrantsDisjoint: for every size_t, every alignment and size of chunk,    *)
(* and any requests to safe_region_alloc and ownedc_arena_alloc, what they *)
(* return lies inside of a chunk and overlaps nothing, unless a size has   *)
(* wrapped around; and what frees them reaches every chunk.                *)
THEOREM RegionGrantsDisjoint == RegSpec => []GrantsDisjoint
<1>1. RegInit => RegInv
  <2> SUFFICES ASSUME RegInit PROVE RegInv
    OBVIOUS
  <2>1. Empty \in [used : Size, capacity : Size, next : Chunks \cup {NoChunk}, room : Int]
    BY SizeTAssumption DEF Empty, Size
  <2>2. chunk \in [Chunks -> [used : Size, capacity : Size,
                              next : Chunks \cup {NoChunk}, room : Int]]
    BY <2>1 DEF RegInit
  <2>3. Inv(<<>>)
    BY <2>2, EmptyOK DEF RegInit, NothingOK, Nothing
  <2> QED
    BY <2>3 DEF RegInv
<1>2. RegInv /\ [RegNext]_regVars => RegInv'
  BY NextPreserves DEF RegInv
<1>3. RegInv => GrantsDisjoint
  BY InvImplies DEF RegInv
<1> QED
  BY <1>1, <1>2, <1>3, PTL DEF RegSpec
=============================================================================
