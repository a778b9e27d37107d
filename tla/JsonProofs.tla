----------------------------- MODULE JsonProofs -----------------------------
(***************************************************************************)
(* Every block the JSON parser allocates has one owner, for texts of any   *)
(* length and whichever allocations fail, and unless the vectors of an     *)
(* object cannot be grown no freed memory is used.                         *)
(***************************************************************************)
EXTENDS Json, FiniteSetTheorems, SequenceTheorems, NaturalsInduction,
        WellFoundedInduction, TLAPS

-----------------------------------------------------------------------------
(* The invariant.                                                          *)

\* What a token may be.
Terminals == {"[", "]", "{", "}", ",", ":", "S", "N", "Q", "X", "EOF"}

Nodes == [type : {"SCALAR", "STRING", "ARRAY", "OBJECT"}, str : Nat, keys : Nat, vals : Nat,
          cap : Nat, names : Seq(Nat), kids : Seq(Nat)]

\* The blocks that are nodes.
Ids == DOMAIN node

Typed ==
  /\ fresh \in Nat /\ fresh > 0
  /\ heap \subseteq 1 .. fresh - 1 /\ Ids \subseteq heap
  /\ node = [i \in Ids |-> node[i]] /\ \A i \in Ids : node[i] \in Nodes
  /\ stack \in Seq([node : Nat, key : Nat])
  /\ pc \in {"value", "first", "key", "colon", "return", "after", "done", "freed"}
  /\ ret \in Ids \cup {NULL}
  /\ oom \in BOOLEAN /\ status \in {"running", "undefined"}

\* The vectors of the node n of block i: they are there as soon as they have
\* room, and the nodes in them are younger than i.
ShapedNode(n, i) ==
  /\ Len(n.kids) <= n.cap
  /\ Len(n.names) = IF n.type = "OBJECT" THEN Len(n.kids) ELSE 0
  /\ n.cap = 0 => n.keys = NULL /\ n.vals = NULL
  /\ n.cap > 0 => n.vals # NULL
  /\ n.type # "OBJECT" => n.keys = NULL
  /\ \A k \in DOMAIN n.kids : n.kids[k] \in Ids /\ i < n.kids[k]

Shaped == \A i \in Ids : ShapedNode(node[i], i)

\* The calls under way: a call of parse_object has a key from parse_raw_string to
\* where it stores it, and a call builds a younger node than its caller.
Stacked ==
  /\ \A k \in DOMAIN stack :
       /\ stack[k].node \in Ids /\ node[stack[k].node].type \in {"ARRAY", "OBJECT"}
       /\ stack[k].key # NULL <=> /\ node[stack[k].node].type = "OBJECT"
                                  /\ k < Len(stack) \/ pc \in {"colon", "value", "return"}
       /\ k > 1 => stack[k - 1].node < stack[k].node
  /\ pc = "return" /\ ret # NULL /\ stack # <<>> => stack[Len(stack)].node < ret
  /\ stack = <<>> => pc \in {"value", "return", "done", "freed"}
  /\ stack # <<>> => pc \in {"first", "key", "colon", "value", "return", "after"}
  /\ pc \in {"key", "colon"} => node[stack[Len(stack)].node].type = "OBJECT"
  /\ pc = "freed" => ret = NULL

\* The end of the text is the last token read.
ReadBounded ==
  /\ look \in Terminals \cup {""} /\ read \in Seq(Terminals)
  /\ Len(read) <= MaxTokens + 1
  /\ look \notin {"", "EOF"} => Len(read) < MaxTokens
  /\ Len(read) > MaxTokens => pc \in {"done", "freed"} \/ (pc = "return" /\ ret = NULL)

Faultless == ~RegrowFails => status = "running"

\* The block b has its pointer in f, of the node or call i, at position k.
Owner(kd, ix, no, b, f, i, k) == b \in heap /\ kd[b] = f /\ ix[b] = i /\ no[b] = k

\* The pointers of a node own their blocks.
NodeOwns(kd, ix, no, n, i) ==
  /\ n.str # NULL => Owner(kd, ix, no, n.str, "str", i, 0)
  /\ n.keys # NULL => Owner(kd, ix, no, n.keys, "keys", i, 0)
  /\ n.vals # NULL => Owner(kd, ix, no, n.vals, "vals", i, 0)
  /\ \A k \in DOMAIN n.names : Owner(kd, ix, no, n.names[k], "names", i, k)
  /\ \A k \in DOMAIN n.kids : Owner(kd, ix, no, n.kids[k], "kids", i, k)

\* The block b is where kd, ix and no say.
Found(kd, ix, no, b) ==
  \/ kd[b] = "str" /\ b \notin Ids /\ ix[b] \in Ids /\ no[b] = 0 /\ node[ix[b]].str = b
  \/ kd[b] = "keys" /\ b \notin Ids /\ ix[b] \in Ids /\ no[b] = 0 /\ node[ix[b]].keys = b
  \/ kd[b] = "vals" /\ b \notin Ids /\ ix[b] \in Ids /\ no[b] = 0 /\ node[ix[b]].vals = b
  \/ /\ kd[b] = "names" /\ b \notin Ids /\ ix[b] \in Ids
     /\ no[b] \in DOMAIN node[ix[b]].names /\ node[ix[b]].names[no[b]] = b
  \/ /\ kd[b] = "kids" /\ b \in Ids /\ ix[b] \in Ids
     /\ no[b] \in DOMAIN node[ix[b]].kids /\ node[ix[b]].kids[no[b]] = b
  \/ kd[b] = "node" /\ b \in Ids /\ ix[b] \in DOMAIN stack /\ no[b] = 0 /\ stack[ix[b]].node = b
  \/ kd[b] = "key" /\ b \notin Ids /\ ix[b] \in DOMAIN stack /\ no[b] = 0 /\ stack[ix[b]].key = b
  \/ kd[b] = "ret" /\ b \in Ids /\ ix[b] = 0 /\ no[b] = 0 /\ pc \in {"return", "done"} /\ ret = b

\* One pointer to every block, and no pointer to anything else.
OwnedBy(kd, ix, no) ==
  /\ \A b \in heap : Found(kd, ix, no, b)
  /\ \A i \in Ids : NodeOwns(kd, ix, no, node[i], i)
  /\ \A k \in DOMAIN stack :
       /\ Owner(kd, ix, no, stack[k].node, "node", k, 0)
       /\ stack[k].key # NULL => Owner(kd, ix, no, stack[k].key, "key", k, 0)
  /\ pc \in {"return", "done"} /\ ret # NULL => Owner(kd, ix, no, ret, "ret", 0, 0)

Owned == \E kd, ix, no : OwnedBy(kd, ix, no)

JsonInv == Typed /\ Shaped /\ Stacked /\ ReadBounded /\ Faultless /\ Owned

-----------------------------------------------------------------------------
(* What json_free finds.                                                   *)

(* Every nonempty set of numbers has a least one.                          *)
LEMMA LeastNat ==
  ASSUME NEW T \in SUBSET Nat, T # {}
  PROVE  \E x \in T : \A y \in T : x <= y
<1> DEFINE R == {p \in Nat \X Nat : p[1] < p[2]}
<1>1. OpToRel(<, Nat) = R
  BY DEF OpToRel
<1>2. \E x \in T : \A y \in T : ~(<<y, x>> \in OpToRel(<, Nat))
  BY NatLessThanWellFounded, WFMin
<1>3. PICK x \in T : \A y \in T : ~(<<y, x>> \in R)
  BY <1>1, <1>2
<1>4. \A y \in T : x \in Nat /\ y \in Nat /\ ~(y < x)
  BY <1>3
<1> HIDE DEF R
<1> QED
  BY <1>4

\* The function t gathers, for each i of D, what is its own and what its kids have.
Gathers(t, D, own, kids) == t = [i \in D |-> own[i] \cup UNION {t[k] : k \in kids[i]}]

(* There is such a function when kids are younger than their parents.      *)
LEMMA GathersExists ==
  ASSUME NEW N \in Nat, NEW D \in SUBSET Nat, \A i \in D : i < N, NEW own, NEW kids,
         \A i \in D : kids[i] \in SUBSET D /\ \A k \in kids[i] : i < k
  PROVE  \E t : Gathers(t, D, own, kids)
<1> DEFINE Good(t, i) == t[i] = own[i] \cup UNION {t[k] : k \in kids[i]}
           Upto(t, n) == t = [i \in D |-> t[i]] /\ \A i \in D : N - i <= n => Good(t, i)
           T == {n \in Nat : \A t : ~Upto(t, n)}
<1>1. ASSUME T # {} PROVE FALSE
  <2>1. T \in SUBSET Nat
    OBVIOUS
  <2>2. PICK x \in T : \A y \in T : x <= y
    <3> HIDE DEF T
    <3> QED
      BY <1>1, <2>1, LeastNat
  <2>3. CASE x = 0
    <3>1. PICK t : t = [i \in D |-> {}]
      OBVIOUS
    <3>2. Upto(t, 0)
      BY <3>1
    <3> QED
      BY <2>2, <2>3, <3>2
  <2>4. CASE x # 0
    <3>1. PICK m \in Nat : m = x - 1 /\ x = m + 1 /\ m \notin T
      BY <2>2, <2>4
    <3>2. PICK t : Upto(t, m)
      BY <3>1
    <3>3. PICK u : u = [i \in D |-> IF N - i = x THEN own[i] \cup UNION {t[k] : k \in kids[i]} ELSE t[i]]
      OBVIOUS
    <3>4. ASSUME NEW i \in D, N - i <= x PROVE Good(u, i)
      <4>1. ASSUME NEW k \in kids[i] PROVE u[k] = t[k]
        <5>1. k \in D /\ i < k /\ i \in Nat /\ k \in Nat
          OBVIOUS
        <5>2. N - k # x
          BY <3>1, <3>4, <5>1
        <5> QED
          BY <3>3, <5>1, <5>2
      <4>2. {u[k] : k \in kids[i]} = {t[k] : k \in kids[i]}
        BY <4>1
      <4>3. CASE N - i = x
        BY <3>3, <4>2, <4>3
      <4>4. CASE N - i # x
        <5>1. N - i <= m
          BY <3>1, <3>4, <4>4
        <5>2. Good(t, i)
          BY <3>2, <5>1
        <5>3. u[i] = t[i]
          BY <3>3, <4>4
        <5> QED
          BY <4>2, <5>2, <5>3
      <4> QED
        BY <4>3, <4>4
    <3>5. u = [i \in D |-> u[i]]
      BY <3>3
    <3>6. Upto(u, x)
      BY <3>4, <3>5
    <3> QED
      BY <2>2, <3>6
  <2> QED
    BY <2>3, <2>4
<1>2. PICK t : Upto(t, N)
  <2>1. N \notin T
    BY <1>1
  <2> QED
    BY <2>1
<1>3. \A i \in D : N - i <= N
  OBVIOUS
<1>4. \A i \in D : Good(t, i)
  BY <1>2, <1>3
<1>5. Gathers(t, D, own, kids)
  BY <1>2, <1>4 DEF Gathers
<1> QED
  BY <1>5

\* The blocks of the node of block i itself, and those of the nodes under it.
Self(i) == {i} \cup ({node[i].str} \ {NULL}) \cup ({node[i].keys, node[i].vals} \ {NULL})
               \cup Range(node[i].names)

(* json_free finds the blocks of a node and of the nodes under it.         *)
LEMMA TreeIs ==
  ASSUME Typed, Shaped
  PROVE  \A i \in Ids : Tree[i] = Self(i) \cup UNION {Tree[k] : k \in Range(node[i].kids)}
<1>1. PICK own : own = [i \in Ids |-> Self(i)]
  OBVIOUS
<1>2. PICK kids : kids = [i \in Ids |-> Range(node[i].kids)]
  OBVIOUS
<1> DEFINE Body(t) ==
       [i \in DOMAIN node |->
          LET n == node[i] IN
          {i} \cup ({n.str} \ {NULL})
              \cup IF n.vals = NULL /\ n.keys = NULL THEN {}
                   ELSE ({n.keys, n.vals} \ {NULL}) \cup Range(n.names)
                          \cup UNION {t[k] : k \in Range(n.kids)}]
<1>3. Tree = CHOOSE t : t = Body(t)
  BY DEF Tree
<1>4. ASSUME NEW t, NEW i \in Ids
      PROVE  Body(t)[i] = own[i] \cup UNION {t[k] : k \in kids[i]}
  <2>1. node[i] \in Nodes /\ ShapedNode(node[i], i)
    BY DEF Typed, Shaped
  <2>2. own[i] = Self(i) /\ kids[i] = Range(node[i].kids)
    BY <1>1, <1>2
  <2>3. CASE node[i].vals = NULL /\ node[i].keys = NULL
    <3>1. node[i].names \in Seq(Nat) /\ node[i].kids \in Seq(Nat) /\ node[i].cap \in Nat
      BY <2>1 DEF Nodes
    <3>2. Len(node[i].kids) = 0 /\ Len(node[i].names) = 0
      BY <2>1, <2>3, <3>1 DEF ShapedNode
    <3>3. Range(node[i].names) = {} /\ Range(node[i].kids) = {}
      <4>1. node[i].names = <<>> /\ node[i].kids = <<>>
        BY <3>1, <3>2, EmptySeq
      <4> QED
        BY <4>1 DEF Range
    <3>4. Body(t)[i] = {i} \cup ({node[i].str} \ {NULL})
      BY <2>3 DEF Ids
    <3> QED
      BY <2>2, <2>3, <3>3, <3>4 DEF Self
  <2>4. CASE ~(node[i].vals = NULL /\ node[i].keys = NULL)
    <3>1. Body(t)[i] = {i} \cup ({node[i].str} \ {NULL})
            \cup (({node[i].keys, node[i].vals} \ {NULL}) \cup Range(node[i].names)
                    \cup UNION {t[k] : k \in Range(node[i].kids)})
      BY <2>4 DEF Ids
    <3> QED
      BY <2>2, <3>1 DEF Self
  <2> QED
    BY <2>3, <2>4
<1>5. \E t : t = Body(t)
  <2>1. fresh \in Nat /\ Ids \in SUBSET Nat /\ \A i \in Ids : i < fresh
    BY DEF Typed
  <2>2. \A i \in Ids : kids[i] \in SUBSET Ids /\ \A k \in kids[i] : i < k
    BY <1>2 DEF Shaped, ShapedNode, Range
  <2>3. PICK t : Gathers(t, Ids, own, kids)
    BY <2>1, <2>2, GathersExists
  <2>4. t = [i \in Ids |-> own[i] \cup UNION {t[k] : k \in kids[i]}]
    BY <2>3 DEF Gathers
  <2>5. Body(t) = [i \in Ids |-> Body(t)[i]]
    BY DEF Ids
  <2> HIDE DEF Body
  <2>6. \A i \in Ids : Body(t)[i] = own[i] \cup UNION {t[k] : k \in kids[i]}
    BY <1>4
  <2>7. t = Body(t)
    BY <2>4, <2>5, <2>6
  <2> QED
    BY <2>7
<1> HIDE DEF Body
<1>6. Tree = Body(Tree)
  BY <1>3, <1>5, Zenon
<1>7. ASSUME NEW i \in Ids
      PROVE  Tree[i] = Self(i) \cup UNION {Tree[k] : k \in Range(node[i].kids)}
  <2>1. Body(Tree)[i] = own[i] \cup UNION {Tree[k] : k \in kids[i]}
    BY <1>4
  <2>2. own[i] = Self(i) /\ kids[i] = Range(node[i].kids)
    BY <1>1, <1>2
  <2>3. Tree[i] = Body(Tree)[i]
    BY <1>6, Zenon
  <2> QED
    BY <2>1, <2>2, <2>3
<1> QED
  BY <1>7

\* The pointers in nodes.
Fields == {"str", "keys", "vals", "names", "kids"}

\* The set G of blocks can be cut out at the blocks of R: what the nodes of G own
\* is in G, and all of G but R is owned by nodes of G.
Cut(kd, ix, G, R) ==
  /\ R \in SUBSET G /\ G \in SUBSET heap
  /\ \A b \in heap : kd[b] \in Fields /\ ix[b] \in G => b \in G
  /\ \A b \in G \ R : kd[b] \in Fields /\ ix[b] \in G

(* Two sets cut out together.                                              *)
LEMMA CutBoth ==
  ASSUME NEW kd, NEW ix, NEW G, NEW R, NEW H, NEW S, Cut(kd, ix, G, R), Cut(kd, ix, H, S)
  PROVE  Cut(kd, ix, G \cup H, R \cup S)
  BY DEF Cut

(* A block that is not a node.                                             *)
LEMMA CutOne ==
  ASSUME NEW kd, NEW ix, NEW no, OwnedBy(kd, ix, no), NEW b \in heap, b \notin Ids
  PROVE  Cut(kd, ix, {b}, {b})
<1>1. \A a \in heap : kd[a] \in Fields => ix[a] \in Ids
  BY DEF OwnedBy, Found, Fields
<1> QED
  BY <1>1 DEF Cut

(* Nothing.                                                                *)
LEMMA CutNone ==
  ASSUME NEW kd, NEW ix
  PROVE  Cut(kd, ix, {}, {})
  BY DEF Cut

(* A block that a node owns is its own or that of a kid.                   *)
LEMMA OwnedIn ==
  ASSUME Typed, NEW kd, NEW ix, NEW no, OwnedBy(kd, ix, no), NEW i \in Ids,
         NEW b \in heap, kd[b] \in Fields, ix[b] = i
  PROVE  b \in Self(i) \/ b \in Range(node[i].kids)
<1>1. Found(kd, ix, no, b)
  BY DEF OwnedBy
<1>2. b # NULL
  BY DEF Typed, NULL
<1>3. CASE kd[b] = "str"
  BY <1>1, <1>2, <1>3 DEF Found, Self
<1>4. CASE kd[b] = "keys" \/ kd[b] = "vals"
  BY <1>1, <1>2, <1>4 DEF Found, Self
<1>5. CASE kd[b] = "names"
  BY <1>1, <1>5 DEF Found, Self, Range
<1>6. CASE kd[b] = "kids"
  BY <1>1, <1>6 DEF Found, Range
<1> QED
  BY <1>3, <1>4, <1>5, <1>6 DEF Fields

(* What is a node's own is owned by it, and is no node.                    *)
LEMMA SelfOwned ==
  ASSUME NEW kd, NEW ix, NEW no, OwnedBy(kd, ix, no), NEW i \in Ids
  PROVE  /\ \A b \in Self(i) \ {i} : b \in heap /\ b \notin Ids /\ kd[b] \in Fields /\ ix[b] = i
         /\ \A b \in Range(node[i].kids) : b \in heap /\ b \in Ids /\ kd[b] \in Fields /\ ix[b] = i
<1>1. NodeOwns(kd, ix, no, node[i], i)
  BY DEF OwnedBy
<1>2. ASSUME NEW b \in heap, kd[b] \in {"str", "keys", "vals", "names"} PROVE b \notin Ids
  BY <1>2 DEF OwnedBy, Found
<1>3. ASSUME NEW b \in heap, kd[b] = "kids" PROVE b \in Ids
  BY <1>3 DEF OwnedBy, Found
<1>4. ASSUME NEW b \in Self(i) \ {i}
      PROVE  b \in heap /\ kd[b] \in {"str", "keys", "vals", "names"} /\ ix[b] = i
  BY <1>1, <1>4 DEF Self, NodeOwns, Owner, Range
<1>5. ASSUME NEW b \in Range(node[i].kids)
      PROVE  b \in heap /\ kd[b] = "kids" /\ ix[b] = i
  BY <1>1, <1>5 DEF NodeOwns, Owner, Range
<1> QED
  BY <1>2, <1>3, <1>4, <1>5 DEF Fields

(* The tree of a node can be cut out at the node.                          *)
LEMMA TreeCut ==
  ASSUME Typed, Shaped, NEW kd, NEW ix, NEW no, OwnedBy(kd, ix, no), NEW r \in Ids
  PROVE  Cut(kd, ix, Tree[r], {r})
<1>1. fresh \in Nat /\ Ids \in SUBSET heap /\ Ids \in SUBSET Nat /\ \A i \in Ids : i < fresh
  BY DEF Typed
<1> DEFINE T == {n \in Nat : \E i \in Ids : i + n = fresh /\ ~Cut(kd, ix, Tree[i], {i})}
<1>2. ASSUME T # {} PROVE FALSE
  <2>1. T \in SUBSET Nat
    OBVIOUS
  <2>2. PICK n \in T : \A y \in T : n <= y
    <3> HIDE DEF T
    <3> QED
      BY <1>2, <2>1, LeastNat
  <2>3. PICK i \in Ids : i + n = fresh /\ ~Cut(kd, ix, Tree[i], {i})
    BY <2>2
  <2>4. ASSUME NEW k \in Range(node[i].kids)
        PROVE  Cut(kd, ix, Tree[k], {k})
    <3>1. k \in Ids /\ i < k
      BY DEF Shaped, ShapedNode, Range
    <3>2. fresh - k \in Nat /\ k + (fresh - k) = fresh /\ ~(n <= fresh - k)
      BY <1>1, <2>2, <2>3, <3>1
    <3>3. fresh - k \notin T
      BY <2>2, <3>2
    <3> QED
      BY <3>1, <3>2, <3>3
  <2>5. Tree[i] = Self(i) \cup UNION {Tree[k] : k \in Range(node[i].kids)}
    BY TreeIs
  <2>6. /\ \A b \in Self(i) \ {i} : b \in heap /\ b \notin Ids /\ kd[b] \in Fields /\ ix[b] = i
        /\ \A b \in Range(node[i].kids) : b \in heap /\ b \in Ids /\ kd[b] \in Fields /\ ix[b] = i
    BY SelfOwned
  <2>7. i \in Tree[i] /\ i \in Self(i)
    BY <2>5 DEF Self
  <2>8. Tree[i] \in SUBSET heap
    BY <1>1, <2>4, <2>5, <2>6 DEF Cut
  <2>9. ASSUME NEW b \in heap, kd[b] \in Fields, ix[b] \in Tree[i] PROVE b \in Tree[i]
    <3>1. ix[b] \in Ids
      BY <2>9 DEF OwnedBy, Found, Fields
    <3>2. CASE ix[b] = i
      <4>1. b \in Self(i) \/ b \in Range(node[i].kids)
        BY <2>9, <3>2, OwnedIn
      <4>2. \A k \in Range(node[i].kids) : k \in Tree[k]
        BY <2>4 DEF Cut
      <4> QED
        BY <2>5, <4>1, <4>2
    <3>3. CASE ix[b] # i
      <4>1. PICK k \in Range(node[i].kids) : ix[b] \in Tree[k]
        BY <2>5, <2>6, <2>9, <3>1, <3>3
      <4>2. b \in Tree[k]
        BY <2>4, <2>9, <4>1 DEF Cut
      <4> QED
        BY <2>5, <4>2
    <3> QED
      BY <3>2, <3>3
  <2>10. ASSUME NEW b \in Tree[i] \ {i} PROVE kd[b] \in Fields /\ ix[b] \in Tree[i]
    <3>1. CASE b \in Self(i)
      BY <2>6, <2>7, <3>1
    <3>2. CASE b \notin Self(i)
      <4>1. PICK k \in Range(node[i].kids) : b \in Tree[k]
        BY <2>5, <3>2
      <4>2. CASE b = k
        BY <2>6, <2>7, <4>2
      <4>3. CASE b # k
        BY <2>4, <2>5, <4>1, <4>3 DEF Cut
      <4> QED
        BY <4>2, <4>3
    <3> QED
      BY <3>1, <3>2
  <2>11. Cut(kd, ix, Tree[i], {i})
    BY <2>7, <2>8, <2>9, <2>10 DEF Cut
  <2> QED
    BY <2>3, <2>11
<1>3. fresh - r \in Nat /\ r + (fresh - r) = fresh
  BY <1>1
<1> QED
  BY <1>2, <1>3

-----------------------------------------------------------------------------
(* Cutting out blocks.                                                     *)

\* The part of the invariant that is about the heap.
Forest == Typed /\ Shaped /\ Stacked /\ Owned

(* What is left when blocks are cut out has its owners, and the same nodes. *)
LEMMA CutOut ==
  ASSUME Typed, Shaped, NEW kd, NEW ix, NEW no, OwnedBy(kd, ix, no), NEW G, NEW R,
         Cut(kd, ix, G, R), \A b \in R : kd[b] \notin Fields,
         heap' = heap \ G, node' = Without(G), ret' = NULL,
         \A k \in DOMAIN stack' : k \in DOMAIN stack /\ stack'[k] = stack[k],
         \A k \in DOMAIN stack' : stack[k].node \notin R /\ stack[k].key \notin R,
         \A k \in DOMAIN stack \ DOMAIN stack' :
           stack[k].node \in R /\ (stack[k].key # NULL => stack[k].key \in R),
         pc \in {"return", "done"} /\ ret # NULL => ret \in R
  PROVE  /\ Ids' = Ids \ G /\ \A i \in Ids' : node'[i] = node[i]
         /\ node' = [i \in Ids' |-> node'[i]]
         /\ \A k \in DOMAIN stack' : stack[k].node \in Ids'
         /\ Shaped' /\ OwnedBy(kd, ix, no)'
<1>1. Ids' = Ids \ G /\ \A i \in Ids' : node'[i] = node[i]
  BY DEF Ids, Without
<1>2. /\ G \in SUBSET heap /\ R \in SUBSET G
      /\ \A b \in heap : kd[b] \in Fields /\ ix[b] \in G => b \in G
      /\ \A b \in G : b \in R \/ (kd[b] \in Fields /\ ix[b] \in G)
  BY DEF Cut
<1>3. ASSUME NEW i \in Ids \ G, NEW b \in heap, kd[b] \in Fields, ix[b] = i
      PROVE  b \in heap'
  BY <1>2, <1>3
<1>4. ASSUME NEW b \in heap, kd[b] \notin Fields, b \notin R
      PROVE  b \in heap'
  BY <1>2, <1>4
<1>5. ASSUME NEW i \in Ids'
      PROVE  NodeOwns(kd, ix, no, node[i], i)'
  <2>1. i \in Ids /\ i \notin G /\ node'[i] = node[i]
    BY <1>1
  <2>2. NodeOwns(kd, ix, no, node[i], i)
    BY <2>1 DEF OwnedBy
  <2>3. \A b, f, k : f \in Fields /\ Owner(kd, ix, no, b, f, i, k) => Owner(kd, ix, no, b, f, i, k)'
    BY <1>3, <2>1 DEF Owner
  <2> QED
    BY <2>1, <2>2, <2>3 DEF NodeOwns, Fields
<1>6. ASSUME NEW b \in heap'
      PROVE  Found(kd, ix, no, b)'
  <2>1. b \in heap /\ b \notin G /\ Found(kd, ix, no, b) /\ b # NULL
    BY DEF OwnedBy, Typed, NULL
  <2>2. CASE kd[b] \in Fields
    <3>1. ix[b] \in Ids /\ ix[b] \notin G
      BY <1>2, <2>1, <2>2 DEF Found, Fields
    <3>2. ix[b] \in Ids' /\ node'[ix[b]] = node[ix[b]] /\ (b \in Ids' <=> b \in Ids)
      BY <1>1, <2>1, <3>1
    <3> QED
      BY <2>1, <2>2, <3>2 DEF Found, Fields
  <2>3. CASE kd[b] \in {"node", "key"}
    <3>1. ix[b] \in DOMAIN stack /\ (stack[ix[b]].node = b \/ stack[ix[b]].key = b)
      BY <2>1, <2>3 DEF Found
    <3>2. ix[b] \in DOMAIN stack'
      <4>1. SUFFICES ASSUME ix[b] \notin DOMAIN stack' PROVE FALSE
        OBVIOUS
      <4>2. b \in R
        BY <2>1, <3>1, <4>1
      <4> QED
        BY <1>2, <2>1, <4>2
    <3>3. stack'[ix[b]] = stack[ix[b]] /\ (b \in Ids' <=> b \in Ids)
      BY <1>1, <2>1, <3>2
    <3> QED
      BY <2>1, <2>3, <3>2, <3>3 DEF Found
  <2>4. CASE kd[b] = "ret"
    <3>1. b \in R
      BY <2>1, <2>4 DEF Found
    <3> QED
      BY <1>2, <2>1, <3>1
  <2> QED
    BY <2>1, <2>2, <2>3, <2>4 DEF Found, Fields
<1>7. ASSUME NEW k \in DOMAIN stack'
      PROVE  /\ Owner(kd, ix, no, stack[k].node, "node", k, 0)'
             /\ stack'[k].key # NULL => Owner(kd, ix, no, stack[k].key, "key", k, 0)'
             /\ stack[k].node \in Ids'
  <2>1. /\ k \in DOMAIN stack /\ stack'[k] = stack[k]
        /\ stack[k].node \notin R /\ stack[k].key \notin R
    OBVIOUS
  <2>2. /\ Owner(kd, ix, no, stack[k].node, "node", k, 0)
        /\ stack[k].key # NULL => Owner(kd, ix, no, stack[k].key, "key", k, 0)
    BY <2>1 DEF OwnedBy
  <2>3. /\ Owner(kd, ix, no, stack[k].node, "node", k, 0)'
        /\ stack'[k].key # NULL => Owner(kd, ix, no, stack[k].key, "key", k, 0)'
    BY <1>4, <2>1, <2>2 DEF Owner, Fields
  <2>4. stack[k].node \in Ids
    BY <2>2 DEF OwnedBy, Found, Owner
  <2> QED
    BY <1>1, <2>1, <2>3, <2>4 DEF Owner
<1>8. OwnedBy(kd, ix, no)'
  BY <1>5, <1>6, <1>7 DEF OwnedBy
<1>9. Shaped'
  <2>1. SUFFICES ASSUME NEW i \in Ids' PROVE ShapedNode(node[i], i)'
    BY DEF Shaped
  <2>2. i \in Ids /\ i \notin G /\ node'[i] = node[i] /\ ShapedNode(node[i], i)
    BY <1>1 DEF Shaped
  <2>3. \A k \in DOMAIN node[i].kids : node[i].kids[k] \in Ids'
    <3>1. \A k \in DOMAIN node[i].kids : Owner(kd, ix, no, node[i].kids[k], "kids", i, k)'
      BY <1>5, <2>2 DEF NodeOwns
    <3> QED
      BY <1>1, <2>2, <3>1 DEF Owner, ShapedNode
  <2> QED
    BY <2>2, <2>3 DEF ShapedNode
<1>10. node' = [i \in Ids' |-> node'[i]]
  BY DEF Ids, Without
<1> QED
  BY <1>1, <1>7, <1>8, <1>9, <1>10


(* The block after the last one is new.                                    *)
LEMMA FreshIs ==
  ASSUME Typed
  PROVE  /\ fresh \in Nat /\ fresh > 0 /\ fresh # NULL
         /\ \A b \in heap : b \in Nat /\ 0 < b /\ b < fresh
         /\ \A i \in Ids : i \in Nat /\ 0 < i /\ i < fresh
  BY DEF Typed, NULL

(* The call on top of the stack.                                           *)
LEMMA TopIs ==
  ASSUME Typed, stack # <<>>
  PROVE  /\ Len(stack) \in Nat /\ Len(stack) > 0 /\ Len(stack) \in DOMAIN stack
         /\ DOMAIN stack = 1 .. Len(stack)
         /\ Front(stack) \in Seq([node : Nat, key : Nat])
         /\ Len(Front(stack)) = Len(stack) - 1
         /\ DOMAIN Front(stack) = 1 .. Len(stack) - 1
         /\ \A k \in 1 .. Len(stack) - 1 : Front(stack)[k] = stack[k]
         /\ Top = stack[Len(stack)] /\ Top \in [node : Nat, key : Nat]
         /\ Front(stack) = <<>> <=> Len(stack) = 1
<1>1. PICK A : A = [node : Nat, key : Nat]
  OBVIOUS
<1>2. PICK s \in Seq(A) : s = stack /\ s # <<>>
  BY <1>1 DEF Typed
<1>3. PICK l \in Nat : l = Len(s) /\ DOMAIN s = 1 .. l /\ l > 0
  <2>1. Len(s) \in Nat /\ DOMAIN s = 1 .. Len(s) /\ (Len(s) = 0 => s = <<>>)
    OBVIOUS
  <2>2. Len(s) \in Nat /\ Len(s) = Len(s) /\ DOMAIN s = 1 .. Len(s) /\ Len(s) > 0
    BY <1>2, <2>1
  <2> QED
    BY <2>2, Zenon
<1>4. Front(s) = SubSeq(s, 1, l - 1)
  BY <1>3 DEF Front
<1>5. PICK q : q = SubSeq(s, 1, l - 1)
  OBVIOUS
<1>6. /\ q \in Seq(A) /\ Len(q) = l - 1 /\ DOMAIN q = 1 .. l - 1
      /\ \A k \in 1 .. l - 1 : q[k] = s[k]
  BY <1>3, <1>5
<1>7. q = <<>> <=> l = 1
  BY <1>3, <1>6
<1>8. s[l] \in A /\ l \in 1 .. l
  BY <1>3
<1> QED
  BY <1>1, <1>2, <1>3, <1>4, <1>5, <1>6, <1>7, <1>8 DEF Top

(* A call that gives up: everything under it goes, and all it holds besides. *)
LEMMA AbandonInv ==
  ASSUME Forest, stack # <<>>, NEW kd, NEW ix, NEW no, OwnedBy(kd, ix, no),
         NEW extra, NEW R, Cut(kd, ix, extra, R), NEW other, other \subseteq Tree[Top.node],
         NEW gone, gone = extra \cup other, Abandon(gone), fresh' = fresh, oom' \in BOOLEAN,
         \A b \in R : b # NULL /\ (b = Top.key \/ (pc = "return" /\ b = ret)),
         Top.key # NULL => Top.key \in R,
         pc = "return" /\ ret # NULL => ret \in R
  PROVE  /\ Forest' /\ pc' = "return" /\ ret' = NULL
         /\ other = {} => status' = "running"
<1> USE DEF Forest
<1>1. PICK l \in Nat : /\ l = Len(stack) /\ l > 0 /\ l \in DOMAIN stack /\ DOMAIN stack = 1 .. l
                       /\ Front(stack) \in Seq([node : Nat, key : Nat])
                       /\ Len(Front(stack)) = l - 1
                       /\ DOMAIN Front(stack) = 1 .. l - 1
                       /\ \A k \in 1 .. l - 1 : Front(stack)[k] = stack[k]
                       /\ Top = stack[l]
                       /\ Front(stack) = <<>> <=> l = 1
  BY TopIs
<1>2. PICK x \in Ids : x = Top.node
  BY <1>1 DEF Stacked
<1>3. PICK G : G = extra \cup Tree[x]
  OBVIOUS
<1>4. PICK S : S = R \cup {x}
  OBVIOUS
<1>5. Cut(kd, ix, G, S)
  <2>1. Cut(kd, ix, Tree[x], {x})
    BY TreeCut
  <2> QED
    BY <1>3, <1>4, <2>1, CutBoth
<1>6. /\ heap' = heap \ G /\ node' = Without(G) /\ stack' = Front(stack)
      /\ pc' = "return" /\ ret' = NULL /\ status' \in {"running", "undefined"}
  <2>1. gone \cup Tree[Top.node] = G
    BY <1>2, <1>3
  <2> QED
    BY <2>1 DEF Abandon, Return
<1>7. /\ \A k \in 1 .. l : Owner(kd, ix, no, stack[k].node, "node", k, 0)
      /\ \A k \in 1 .. l : stack[k].key # NULL => Owner(kd, ix, no, stack[k].key, "key", k, 0)
      /\ pc = "return" /\ ret # NULL => Owner(kd, ix, no, ret, "ret", 0, 0)
  BY <1>1 DEF OwnedBy
<1>8. ASSUME NEW b \in S
      PROVE  \/ kd[b] = "node" /\ ix[b] = l
             \/ kd[b] = "key" /\ ix[b] = l
             \/ kd[b] = "ret"
  BY <1>1, <1>2, <1>4, <1>7 DEF Owner
<1>9. ASSUME NEW k \in 1 .. l - 1
      PROVE  stack[k].node \notin S /\ stack[k].key \notin S
  <2>1. k \in 1 .. l /\ k # l
    BY <1>1
  <2>2. stack[k].node \notin S
    BY <1>7, <1>8, <2>1 DEF Owner
  <2>3. NULL \notin S
    <3>1. x # NULL
      BY <1>2 DEF Typed, NULL
    <3> QED
      BY <1>4, <3>1
  <2>4. stack[k].key \notin S
    BY <1>7, <1>8, <2>1, <2>3 DEF Owner
  <2> QED
    BY <2>2, <2>4
<1>10. /\ Ids' = Ids \ G /\ \A i \in Ids' : node'[i] = node[i]
       /\ node' = [i \in Ids' |-> node'[i]]
       /\ \A k \in DOMAIN stack' : stack[k].node \in Ids'
       /\ Shaped' /\ OwnedBy(kd, ix, no)'
  <2>1. \A b \in S : kd[b] \notin Fields
    BY <1>8 DEF Fields
  <2>2. \A k \in DOMAIN stack' : k \in DOMAIN stack /\ stack'[k] = stack[k]
    BY <1>1, <1>6
  <2>3. \A k \in DOMAIN stack' : stack[k].node \notin S /\ stack[k].key \notin S
    BY <1>1, <1>6, <1>9
  <2>4. \A k \in DOMAIN stack \ DOMAIN stack' :
          stack[k].node \in S /\ (stack[k].key # NULL => stack[k].key \in S)
    <3>1. \A k \in DOMAIN stack \ DOMAIN stack' : k = l
      BY <1>1, <1>6
    <3> QED
      BY <1>1, <1>2, <1>4, <3>1
  <2>5. pc \in {"return", "done"} /\ ret # NULL => ret \in S
    BY <1>4 DEF Stacked
  <2> QED
    BY <1>5, <1>6, <2>1, <2>2, <2>3, <2>4, <2>5, CutOut
<1>11. Typed'
  <2>1. heap' \subseteq 1 .. fresh' - 1 /\ Ids' \subseteq heap'
    BY <1>6, <1>10 DEF Typed
  <2>2. \A i \in Ids' : node'[i] \in Nodes
    BY <1>10 DEF Typed
  <2>3. stack' \in Seq([node : Nat, key : Nat])
    BY <1>1, <1>6
  <2>4. fresh' \in Nat /\ fresh' > 0
    BY DEF Typed
  <2> QED
    BY <1>6, <1>10, <2>1, <2>2, <2>3, <2>4 DEF Typed
<1>12. Stacked'
  <2>1. /\ Len(stack') = l - 1 /\ DOMAIN stack' = 1 .. l - 1
        /\ \A k \in 1 .. l - 1 : stack'[k] = stack[k]
    BY <1>1, <1>6
  <2>2. ASSUME NEW k \in 1 .. l - 1
        PROVE  /\ stack'[k].node \in Ids'
               /\ node'[stack'[k].node].type \in {"ARRAY", "OBJECT"}
               /\ stack'[k].key # NULL <=> node'[stack'[k].node].type = "OBJECT"
               /\ k > 1 => stack'[k - 1].node < stack'[k].node
    <3>1. k \in DOMAIN stack /\ k < Len(stack) /\ (k > 1 => k - 1 \in 1 .. l - 1)
      BY <1>1
    <3>2. stack'[k].node \in Ids' /\ node'[stack'[k].node] = node[stack[k].node]
      BY <1>10, <2>1
    <3>3. stack'[k] = stack[k] /\ (k > 1 => stack'[k - 1] = stack[k - 1])
      BY <2>1, <3>1
    <3> QED
      BY <3>1, <3>2, <3>3 DEF Stacked
  <2> QED
    BY <1>6, <2>1, <2>2 DEF Stacked
<1>13. Owned'
  BY <1>10 DEF Owned
<1>14. ASSUME other = {} PROVE status' = "running"
  <2>1. ASSUME NEW b \in extra, b \in {node[x].keys, node[x].vals} PROVE FALSE
    <3>1. b \in heap /\ b # NULL
      BY <2>1 DEF Cut, Typed, NULL
    <3>2. NodeOwns(kd, ix, no, node[x], x)
      BY DEF OwnedBy
    <3>3. kd[b] \in Fields /\ ix[b] = x
      BY <2>1, <3>1, <3>2 DEF NodeOwns, Owner, Fields
    <3>4. b \notin R
      BY <1>4, <1>8, <3>3 DEF Fields
    <3>5. x \in extra
      BY <2>1, <3>3, <3>4 DEF Cut
    <3>6. kd[x] = "node"
      BY <1>1, <1>2, <1>7 DEF Owner
    <3>7. x \notin R
      <4>1. \A c \in R : kd[c] \in {"key", "ret"}
        BY <1>1, <1>7 DEF Owner
      <4> QED
        BY <3>6, <4>1
    <3> QED
      BY <3>5, <3>6, <3>7 DEF Cut, Fields
  <2>2. gone \cap {node[Top.node].keys, node[Top.node].vals} = {}
    BY <1>2, <1>14, <2>1
  <2> QED
    BY <2>2 DEF Abandon
<1> QED
  BY <1>6, <1>10, <1>11, <1>12, <1>13, <1>14

(* The call on top of the stack returns the node it has built.             *)
LEMMA CloseInv ==
  ASSUME Forest, pc \in {"first", "after"}, Close
  PROVE  Forest'
<1> USE DEF Forest
<1>1. PICK kd, ix, no : OwnedBy(kd, ix, no)
  BY DEF Owned
<1>2. stack # <<>>
  BY DEF Stacked
<1>3. PICK l \in Nat : /\ l = Len(stack) /\ l > 0 /\ l \in DOMAIN stack /\ DOMAIN stack = 1 .. l
                       /\ Front(stack) \in Seq([node : Nat, key : Nat])
                       /\ Len(Front(stack)) = l - 1
                       /\ DOMAIN Front(stack) = 1 .. l - 1
                       /\ \A k \in 1 .. l - 1 : Front(stack)[k] = stack[k]
                       /\ Top = stack[l]
                       /\ Front(stack) = <<>> <=> l = 1
  BY <1>2, TopIs
<1>4. PICK x \in Ids : x = Top.node /\ Top.key = NULL
  <2>1. stack[l].node \in Ids
    BY <1>3 DEF Stacked
  <2>2. stack[l].key # NULL => l < Len(stack) \/ pc \in {"colon", "value", "return"}
    BY <1>3 DEF Stacked
  <2>3. stack[l].key = NULL
    BY <1>3, <2>2
  <2> QED
    BY <1>3, <2>1, <2>3
<1>5. /\ pc' = "return" /\ ret' = x /\ stack' = Front(stack)
      /\ heap' = heap /\ fresh' = fresh /\ node' = node /\ oom' = oom /\ status' = status
      /\ Ids' = Ids
  BY <1>4 DEF Close, Return, Ids
<1>6. /\ Len(stack') = l - 1 /\ DOMAIN stack' = 1 .. l - 1
      /\ \A k \in 1 .. l - 1 : stack'[k] = stack[k] /\ k \in 1 .. l /\ k # l
  BY <1>3, <1>5
<1>7. Typed'
  BY <1>3, <1>4, <1>5 DEF Typed
<1>8. Shaped'
  BY <1>5 DEF Shaped, ShapedNode
<1>9. Stacked'
  <2>1. ASSUME NEW k \in 1 .. l - 1
        PROVE  /\ stack'[k].node \in Ids'
               /\ node'[stack'[k].node].type \in {"ARRAY", "OBJECT"}
               /\ stack'[k].key # NULL <=> node'[stack'[k].node].type = "OBJECT"
               /\ k > 1 => stack'[k - 1].node < stack'[k].node
    <3>1. k \in DOMAIN stack /\ k < Len(stack) /\ (k > 1 => k - 1 \in 1 .. l - 1)
      BY <1>3
    <3>2. stack'[k] = stack[k] /\ (k > 1 => stack'[k - 1] = stack[k - 1])
      BY <1>6, <3>1
    <3> QED
      BY <1>5, <3>1, <3>2 DEF Stacked
  <2>2. ASSUME l > 1 PROVE stack'[l - 1].node < x
    <3>1. l - 1 \in 1 .. l - 1 /\ stack[l - 1].node < stack[l].node
      <4>1. l > 1 => stack[l - 1].node < stack[l].node
        BY <1>3 DEF Stacked
      <4>2. l - 1 \in 1 .. l - 1
        BY <2>2
      <4> QED
        BY <2>2, <4>1, <4>2
    <3> QED
      BY <1>3, <1>4, <1>6, <3>1
  <2>3. stack' = <<>> <=> l = 1
    BY <1>3, <1>5
  <2> QED
    BY <1>5, <1>6, <2>1, <2>2, <2>3 DEF Stacked
<1>10. x \in heap /\ x # NULL /\ kd[x] = "node" /\ ix[x] = l
  <2>1. Owner(kd, ix, no, stack[l].node, "node", l, 0)
    BY <1>1, <1>3 DEF OwnedBy
  <2>2. x # NULL
    BY FreshIs DEF NULL
  <2> QED
    BY <1>3, <1>4, <2>1, <2>2 DEF Owner
<1>11. PICK kd2 : kd2 = [b \in heap |-> IF b = x THEN "ret" ELSE kd[b]]
  OBVIOUS
<1>12. PICK ix2 : ix2 = [b \in heap |-> IF b = x THEN 0 ELSE ix[b]]
  OBVIOUS
<1>13. PICK no2 : no2 = [b \in heap |-> IF b = x THEN 0 ELSE no[b]]
  OBVIOUS
<1>14. /\ kd2[x] = "ret" /\ ix2[x] = 0 /\ no2[x] = 0
       /\ \A b \in heap : b # x => kd2[b] = kd[b] /\ ix2[b] = ix[b] /\ no2[b] = no[b]
  BY <1>10, <1>11, <1>12, <1>13
<1>15. \A b, f, i, k : Owner(kd, ix, no, b, f, i, k) /\ b # x => Owner(kd2, ix2, no2, b, f, i, k)'
  BY <1>5, <1>14 DEF Owner
<1>16. ASSUME NEW b \in heap PROVE Found(kd2, ix2, no2, b)'
  <2>1. CASE b = x
    BY <1>4, <1>5, <1>14, <2>1 DEF Found
  <2>2. CASE b # x
    <3>1. Found(kd, ix, no, b) /\ kd2[b] = kd[b] /\ ix2[b] = ix[b] /\ no2[b] = no[b]
      BY <1>1, <1>14, <2>2 DEF OwnedBy
    <3>2. CASE kd[b] \in {"node", "key"}
      <4>1. ix[b] \in 1 .. l /\ ix[b] # l
        <5>1. ix[b] \in 1 .. l
          BY <1>3, <3>1, <3>2 DEF Found
        <5>2. b # NULL
          BY DEF Typed, NULL
        <5> QED
          BY <1>3, <1>4, <2>2, <3>1, <3>2, <5>1, <5>2 DEF Found
      <4>2. ix[b] \in DOMAIN stack' /\ stack'[ix[b]] = stack[ix[b]]
        BY <1>6, <4>1
      <4> QED
        BY <1>5, <3>1, <3>2, <4>2 DEF Found
    <3>3. CASE kd[b] \notin {"node", "key"}
      BY <1>5, <3>1, <3>3 DEF Found
    <3> QED
      BY <3>2, <3>3
  <2> QED
    BY <2>1, <2>2
<1>17. ASSUME NEW i \in Ids PROVE NodeOwns(kd2, ix2, no2, node[i], i)'
  <2>1. NodeOwns(kd, ix, no, node[i], i) /\ node'[i] = node[i]
    BY <1>1, <1>5 DEF OwnedBy
  <2>2. \A b, f, k : f # "node" /\ Owner(kd, ix, no, b, f, i, k) => Owner(kd2, ix2, no2, b, f, i, k)'
    BY <1>10, <1>15 DEF Owner
  <2> QED
    BY <2>1, <2>2 DEF NodeOwns
<1>18. ASSUME NEW k \in 1 .. l - 1
       PROVE  /\ Owner(kd2, ix2, no2, stack[k].node, "node", k, 0)'
              /\ stack'[k].key # NULL => Owner(kd2, ix2, no2, stack[k].key, "key", k, 0)'
  <2>1. /\ Owner(kd, ix, no, stack[k].node, "node", k, 0)
        /\ stack[k].key # NULL => Owner(kd, ix, no, stack[k].key, "key", k, 0)
        /\ stack'[k] = stack[k] /\ k # l
    BY <1>1, <1>3, <1>6 DEF OwnedBy
  <2>2. stack[k].node # x /\ (stack[k].key # NULL => stack[k].key # x)
    BY <1>10, <2>1 DEF Owner
  <2> QED
    BY <1>15, <2>1, <2>2
<1>19. Owner(kd2, ix2, no2, ret, "ret", 0, 0)'
  BY <1>5, <1>10, <1>14 DEF Owner
<1>20. OwnedBy(kd2, ix2, no2)'
  BY <1>5, <1>6, <1>16, <1>17, <1>18, <1>19 DEF OwnedBy
<1> QED
  BY <1>7, <1>8, <1>9, <1>20 DEF Owned

-----------------------------------------------------------------------------
(* New blocks.                                                             *)

\* The blocks of B are added and nothing else changes hands, while no value is on
\* its way back.
Adds(kd, ix, no, B, kd2, ix2, no2) ==
  /\ pc \notin {"return", "done"}
  /\ B \cap heap = {} /\ heap' = heap \cup B
  /\ \A i \in Ids : i \in Ids' /\ node'[i] = node[i]
  /\ \A i \in Ids' : i \in Ids \/ i \in B
  /\ \A b \in heap : kd2[b] = kd[b] /\ ix2[b] = ix[b] /\ no2[b] = no[b]
  /\ \A b \in B : Found(kd2, ix2, no2, b)'
  /\ \A i \in Ids' : i \notin Ids => NodeOwns(kd2, ix2, no2, node[i], i)'
  /\ \A k \in DOMAIN stack : /\ k \in DOMAIN stack' /\ stack'[k].node = stack[k].node
                             /\ stack[k].key # NULL => stack'[k].key = stack[k].key
  /\ \A k \in DOMAIN stack' :
       /\ k \notin DOMAIN stack => Owner(kd2, ix2, no2, stack[k].node, "node", k, 0)'
       /\ stack'[k].key # NULL /\ (k \in DOMAIN stack => stack[k].key = NULL)
            => Owner(kd2, ix2, no2, stack[k].key, "key", k, 0)'
  /\ pc' \in {"return", "done"} /\ ret' # NULL => Owner(kd2, ix2, no2, ret, "ret", 0, 0)'

(* New blocks with one pointer each.                                       *)
LEMMA Added ==
  ASSUME Typed, NEW kd, NEW ix, NEW no, OwnedBy(kd, ix, no), NEW B, NEW kd2, NEW ix2, NEW no2,
         Adds(kd, ix, no, B, kd2, ix2, no2)
  PROVE  OwnedBy(kd2, ix2, no2)'
<1> USE DEF Adds
<1>1. \A b, f, i, k : Owner(kd, ix, no, b, f, i, k) =>
         b \in heap' /\ kd2[b] = f /\ ix2[b] = i /\ no2[b] = k
  BY DEF Owner
<1>2. ASSUME NEW b \in heap' PROVE Found(kd2, ix2, no2, b)'
  <2>1. CASE b \in B
    BY <2>1
  <2>2. CASE b \in heap
    <3>1. Found(kd, ix, no, b) /\ kd2[b] = kd[b] /\ ix2[b] = ix[b] /\ no2[b] = no[b]
      BY <2>2 DEF OwnedBy
    <3>2. (b \in Ids' <=> b \in Ids) /\ b # NULL
      BY <2>2 DEF Typed, NULL
    <3>3. CASE kd[b] \in Fields
      <4>1. ix[b] \in Ids /\ ix[b] \in Ids' /\ node'[ix[b]] = node[ix[b]]
        BY <3>1, <3>3 DEF Found, Fields
      <4> QED
        BY <3>1, <3>2, <3>3, <4>1 DEF Found, Fields
    <3>4. CASE kd[b] \notin Fields
      <4>1. kd[b] \in {"node", "key"} /\ ix[b] \in DOMAIN stack
        BY <3>1, <3>4 DEF Found, Fields
      <4>2. /\ ix[b] \in DOMAIN stack' /\ stack'[ix[b]].node = stack[ix[b]].node
            /\ stack[ix[b]].key # NULL => stack'[ix[b]].key = stack[ix[b]].key
        BY <4>1
      <4> QED
        BY <3>1, <3>2, <4>1, <4>2 DEF Found
    <3> QED
      BY <3>3, <3>4
  <2> QED
    BY <2>1, <2>2
<1>3. ASSUME NEW i \in Ids' PROVE NodeOwns(kd2, ix2, no2, node[i], i)'
  <2>1. CASE i \in Ids
    <3>1. NodeOwns(kd, ix, no, node[i], i) /\ node'[i] = node[i]
      BY <2>1 DEF OwnedBy
    <3> QED
      BY <1>1, <3>1 DEF NodeOwns, Owner
  <2> QED
    BY <2>1
<1>4. ASSUME NEW k \in DOMAIN stack'
      PROVE  /\ Owner(kd2, ix2, no2, stack[k].node, "node", k, 0)'
             /\ stack'[k].key # NULL => Owner(kd2, ix2, no2, stack[k].key, "key", k, 0)'
  <2>1. CASE k \in DOMAIN stack
    <3>1. /\ Owner(kd, ix, no, stack[k].node, "node", k, 0)
          /\ stack[k].key # NULL => Owner(kd, ix, no, stack[k].key, "key", k, 0)
      BY <2>1 DEF OwnedBy
    <3>2. /\ stack'[k].node = stack[k].node
          /\ stack[k].key # NULL => stack'[k].key = stack[k].key
      BY <2>1
    <3> QED
      BY <1>1, <2>1, <3>1, <3>2 DEF Owner
  <2>2. CASE k \notin DOMAIN stack
    BY <2>2
  <2> QED
    BY <2>1, <2>2
<1> QED
  BY <1>2, <1>3, <1>4 DEF OwnedBy

(* A node without vectors is added.                                        *)
LEMMA LeafAdded ==
  ASSUME Typed, Shaped, NEW type \in {"SCALAR", "STRING", "ARRAY", "OBJECT"}, NEW str \in Nat,
         NEW x, x \notin Ids,
         node' = [i \in DOMAIN node \cup {x} |-> IF i = x THEN Leaf(type, str) ELSE node[i]]
  PROVE  /\ Ids' = Ids \cup {x} /\ node' = [i \in Ids' |-> node'[i]]
         /\ \A i \in Ids : node'[i] = node[i]
         /\ \A i \in Ids' : node'[i] \in Nodes
         /\ node'[x].type = type /\ node'[x].str = str /\ node'[x].keys = NULL
         /\ node'[x].vals = NULL /\ DOMAIN node'[x].names = {} /\ DOMAIN node'[x].kids = {}
         /\ Shaped'
<1>1. Ids' = Ids \cup {x} /\ node' = [i \in Ids' |-> node'[i]]
  BY DEF Ids
<1>2. \A i \in Ids : node'[i] = node[i]
  BY DEF Ids
<1>3. PICK n \in Nodes : /\ n = Leaf(type, str) /\ n.type = type /\ n.str = str
                         /\ n.keys = NULL /\ n.vals = NULL /\ n.cap = 0
                         /\ n.names = <<>> /\ n.kids = <<>>
  <2>1. PICK e : e = <<>> /\ e \in Seq(Nat)
    <3>1. <<>> \in Seq(Nat)
      BY EmptySeq, Zenon
    <3> QED
      BY <3>1, Zenon
  <2>2. PICK n : n = [type |-> type, str |-> str, keys |-> NULL, vals |-> NULL,
                      cap |-> 0, names |-> e, kids |-> e]
    OBVIOUS
  <2>3. /\ n.type = type /\ n.str = str /\ n.keys = NULL /\ n.vals = NULL /\ n.cap = 0
        /\ n.names = e /\ n.kids = e
    BY <2>2
  <2>4. n \in Nodes
    BY <2>1, <2>2 DEF Nodes, NULL
  <2>5. n = Leaf(type, str)
    BY <2>1, <2>2, Zenon DEF Leaf
  <2> QED
    BY <2>1, <2>3, <2>4, <2>5, Zenon
<1>4. node'[x] = n
  BY <1>3
<1>5. /\ DOMAIN n.names = {} /\ DOMAIN n.kids = {} /\ Len(n.kids) = 0 /\ Len(n.names) = 0
  BY <1>3
<1>6. ShapedNode(node[x], x)'
  BY <1>3, <1>4, <1>5 DEF ShapedNode
<1>7. ASSUME NEW i \in Ids PROVE ShapedNode(node[i], i)'
  <2>1. ShapedNode(node[i], i) /\ node'[i] = node[i]
    BY <1>2 DEF Shaped
  <2> QED
    BY <1>1, <2>1 DEF ShapedNode
<1>8. Shaped'
  BY <1>1, <1>6, <1>7 DEF Shaped
<1>9. \A i \in Ids' : node'[i] \in Nodes
  BY <1>1, <1>2, <1>4 DEF Typed
<1> QED
  BY <1>1, <1>2, <1>3, <1>4, <1>5, <1>8, <1>9

(* parse_null, parse_bool and parse_number: a node with nothing in it.    *)
LEMMA ScalarInv ==
  ASSUME Forest, pc = "value", create_node(Leaf("SCALAR", NULL)), Return(fresh),
         stack' = stack, oom' = oom, status' = status
  PROVE  Forest'
<1> USE DEF Forest
<1>1. PICK kd, ix, no : OwnedBy(kd, ix, no)
  BY DEF Owned
<1>2. /\ heap' = heap \cup {fresh} /\ fresh' = fresh + 1 /\ pc' = "return" /\ ret' = fresh
      /\ node' = [i \in DOMAIN node \cup {fresh} |-> IF i = fresh THEN Leaf("SCALAR", NULL) ELSE node[i]]
  BY DEF create_node, Return
<1>3. /\ fresh \in Nat /\ fresh > 0 /\ fresh # NULL
      /\ \A b \in heap : b \in Nat /\ 0 < b /\ b < fresh
      /\ \A i \in Ids : i \in Nat /\ 0 < i /\ i < fresh
  BY FreshIs
<1>4. /\ Ids' = Ids \cup {fresh} /\ node' = [i \in Ids' |-> node'[i]]
      /\ \A i \in Ids : node'[i] = node[i]
      /\ \A i \in Ids' : node'[i] \in Nodes
      /\ node'[fresh].type = "SCALAR" /\ node'[fresh].str = NULL /\ node'[fresh].keys = NULL
      /\ node'[fresh].vals = NULL /\ DOMAIN node'[fresh].names = {} /\ DOMAIN node'[fresh].kids = {}
      /\ Shaped'
  <2>1. NULL \in Nat /\ fresh \notin Ids
    BY <1>3 DEF NULL
  <2> QED
    BY <1>2, <2>1, LeafAdded
<1>5. Typed'
  <2>1. heap' \subseteq 1 .. fresh' - 1 /\ Ids' \subseteq heap' /\ fresh' \in Nat /\ fresh' > 0
    BY <1>2, <1>3, <1>4 DEF Typed
  <2> QED
    BY <1>2, <1>4, <2>1 DEF Typed
<1>6. Stacked'
  <2>1. \A k \in DOMAIN stack : node'[stack[k].node] = node[stack[k].node] /\ stack[k].node \in Ids
    BY <1>4 DEF Stacked
  <2>2. stack # <<>> => stack[Len(stack)].node < fresh
    BY <1>3, <2>1, TopIs
  <2>3. \A k \in DOMAIN stack : stack[k].node \in Ids'
    BY <1>4, <2>1
  <2>4. ASSUME NEW k \in DOMAIN stack
        PROVE  /\ stack[k].node \in Ids' /\ node'[stack[k].node].type \in {"ARRAY", "OBJECT"}
               /\ stack[k].key # NULL <=> node'[stack[k].node].type = "OBJECT"
               /\ k > 1 => stack[k - 1].node < stack[k].node
    <3>1. /\ node[stack[k].node].type \in {"ARRAY", "OBJECT"}
          /\ stack[k].key # NULL <=> /\ node[stack[k].node].type = "OBJECT"
                                     /\ k < Len(stack) \/ pc \in {"colon", "value", "return"}
          /\ k > 1 => stack[k - 1].node < stack[k].node
      BY DEF Stacked
    <3> QED
      BY <2>1, <2>3, <3>1
  <2> QED
    BY <1>2, <2>2, <2>4 DEF Stacked
<1>7. PICK kd2 : kd2 = [b \in heap' |-> IF b = fresh THEN "ret" ELSE kd[b]]
  OBVIOUS
<1>8. PICK ix2 : ix2 = [b \in heap' |-> IF b = fresh THEN 0 ELSE ix[b]]
  OBVIOUS
<1>9. PICK no2 : no2 = [b \in heap' |-> IF b = fresh THEN 0 ELSE no[b]]
  OBVIOUS
<1>10. /\ kd2[fresh] = "ret" /\ ix2[fresh] = 0 /\ no2[fresh] = 0
       /\ \A b \in heap : kd2[b] = kd[b] /\ ix2[b] = ix[b] /\ no2[b] = no[b]
  BY <1>2, <1>3, <1>7, <1>8, <1>9
<1>11. OwnedBy(kd2, ix2, no2)'
  <2>1. PICK B : B = {fresh}
    OBVIOUS
  <2>2. \A b \in B : Found(kd2, ix2, no2, b)'
    BY <1>2, <1>4, <1>10, <2>1 DEF Found
  <2>3. \A i \in Ids' : i \notin Ids => NodeOwns(kd2, ix2, no2, node[i], i)'
    BY <1>4 DEF NodeOwns
  <2>4. Owner(kd2, ix2, no2, ret, "ret", 0, 0)'
    BY <1>2, <1>10 DEF Owner
  <2>5. B \cap heap = {} /\ \A i \in Ids' : i \in Ids \/ i \in B
    BY <1>3, <1>4, <2>1
  <2>6. pc \notin {"return", "done"} /\ heap' = heap \cup B
    BY <1>2, <2>1
  <2>7. \A i \in Ids : i \in Ids' /\ node'[i] = node[i]
    BY <1>4
  <2>8. \A k \in DOMAIN stack : /\ k \in DOMAIN stack' /\ stack'[k].node = stack[k].node
                                /\ stack[k].key # NULL => stack'[k].key = stack[k].key
    OBVIOUS
  <2>9. \A k \in DOMAIN stack' :
          /\ k \notin DOMAIN stack => Owner(kd2, ix2, no2, stack[k].node, "node", k, 0)'
          /\ stack'[k].key # NULL /\ (k \in DOMAIN stack => stack[k].key = NULL)
               => Owner(kd2, ix2, no2, stack[k].key, "key", k, 0)'
    OBVIOUS
  <2>10. Adds(kd, ix, no, B, kd2, ix2, no2)
    BY <1>10, <2>2, <2>3, <2>4, <2>5, <2>6, <2>7, <2>8, <2>9 DEF Adds
  <2> QED
    BY <1>1, <2>10, Added
<1> QED
  BY <1>4, <1>5, <1>6, <1>11 DEF Owned


(* parse_string: the string and a node that owns it.                       *)
LEMMA StringInv ==
  ASSUME Forest, pc = "value", heap' = heap \cup {fresh, fresh + 1}, fresh' = fresh + 2,
         node' = [i \in DOMAIN node \cup {fresh + 1} |->
                    IF i = fresh + 1 THEN Leaf("STRING", fresh) ELSE node[i]],
         Return(fresh + 1), stack' = stack, oom' = oom, status' = status
  PROVE  Forest'
<1> USE DEF Forest
<1>1. PICK kd, ix, no : OwnedBy(kd, ix, no)
  BY DEF Owned
<1>2. PICK x : x = fresh + 1
  OBVIOUS
<1>3. /\ heap' = heap \cup {fresh, x} /\ fresh' = fresh + 2 /\ pc' = "return" /\ ret' = x
      /\ node' = [i \in DOMAIN node \cup {x} |-> IF i = x THEN Leaf("STRING", fresh) ELSE node[i]]
  BY <1>2 DEF Return
<1>4. /\ fresh \in Nat /\ fresh > 0 /\ fresh # NULL
      /\ \A b \in heap : b \in Nat /\ 0 < b /\ b < fresh
      /\ \A i \in Ids : i \in Nat /\ 0 < i /\ i < fresh
  BY FreshIs
<1>5. x \in Nat /\ x # NULL /\ x > fresh /\ x # fresh /\ x \notin Ids /\ x \notin heap /\ fresh \notin heap
  BY <1>2, <1>4 DEF NULL
<1>6. /\ Ids' = Ids \cup {x} /\ node' = [i \in Ids' |-> node'[i]]
      /\ \A i \in Ids : node'[i] = node[i]
      /\ \A i \in Ids' : node'[i] \in Nodes
      /\ node'[x].type = "STRING" /\ node'[x].str = fresh /\ node'[x].keys = NULL
      /\ node'[x].vals = NULL /\ DOMAIN node'[x].names = {} /\ DOMAIN node'[x].kids = {}
      /\ Shaped'
  BY <1>3, <1>4, <1>5, LeafAdded
<1>7. Typed'
  <2>1. heap' \subseteq 1 .. fresh' - 1 /\ Ids' \subseteq heap' /\ fresh' \in Nat /\ fresh' > 0
    BY <1>2, <1>3, <1>4, <1>6 DEF Typed
  <2> QED
    BY <1>3, <1>6, <2>1 DEF Typed
<1>8. Stacked'
  <2>1. \A k \in DOMAIN stack : node'[stack[k].node] = node[stack[k].node] /\ stack[k].node \in Ids
    BY <1>6 DEF Stacked
  <2>2. ASSUME stack # <<>> PROVE stack[Len(stack)].node < x
    <3>1. Len(stack) \in DOMAIN stack
      BY <2>2, TopIs
    <3>2. stack[Len(stack)].node \in Ids
      BY <2>1, <3>1
    <3> QED
      BY <1>4, <1>5, <3>2
  <2>3. \A k \in DOMAIN stack : stack[k].node \in Ids'
    BY <1>6, <2>1
  <2>4. ASSUME NEW k \in DOMAIN stack
        PROVE  /\ stack[k].node \in Ids' /\ node'[stack[k].node].type \in {"ARRAY", "OBJECT"}
               /\ stack[k].key # NULL <=> node'[stack[k].node].type = "OBJECT"
               /\ k > 1 => stack[k - 1].node < stack[k].node
    <3>1. /\ node[stack[k].node].type \in {"ARRAY", "OBJECT"}
          /\ stack[k].key # NULL <=> /\ node[stack[k].node].type = "OBJECT"
                                     /\ k < Len(stack) \/ pc \in {"colon", "value", "return"}
          /\ k > 1 => stack[k - 1].node < stack[k].node
      BY DEF Stacked
    <3> QED
      BY <2>1, <2>3, <3>1
  <2> QED
    BY <1>2, <1>3, <2>2, <2>4 DEF Stacked
<1>9. PICK kd2 : kd2 = [b \in heap' |-> IF b = x THEN "ret" ELSE IF b = fresh THEN "str" ELSE kd[b]]
  OBVIOUS
<1>10. PICK ix2 : ix2 = [b \in heap' |-> IF b = x THEN 0 ELSE IF b = fresh THEN x ELSE ix[b]]
  OBVIOUS
<1>11. PICK no2 : no2 = [b \in heap' |-> IF b \in {x, fresh} THEN 0 ELSE no[b]]
  OBVIOUS
<1>12. /\ kd2[x] = "ret" /\ ix2[x] = 0 /\ no2[x] = 0
       /\ kd2[fresh] = "str" /\ ix2[fresh] = x /\ no2[fresh] = 0
       /\ \A b \in heap : kd2[b] = kd[b] /\ ix2[b] = ix[b] /\ no2[b] = no[b]
  BY <1>3, <1>5, <1>9, <1>10, <1>11
<1>13. OwnedBy(kd2, ix2, no2)'
  <2>1. PICK B : B = {fresh, x}
    OBVIOUS
  <2>2. \A b \in B : Found(kd2, ix2, no2, b)'
    <3>1. Found(kd2, ix2, no2, x)'
      BY <1>3, <1>6, <1>12 DEF Found
    <3>2. fresh \notin Ids'
      BY <1>4, <1>5, <1>6
    <3>3. \A b : b = fresh => Found(kd2, ix2, no2, b)'
      BY <1>6, <1>12, <3>2 DEF Found
    <3>4. \A b : b = x => Found(kd2, ix2, no2, b)'
      BY <1>3, <1>6, <1>12 DEF Found
    <3> QED
      BY <2>1, <3>3, <3>4
  <2>3. \A i \in Ids' : i \notin Ids => NodeOwns(kd2, ix2, no2, node[i], i)'
    BY <1>3, <1>6, <1>12 DEF NodeOwns, Owner
  <2>4. pc' \in {"return", "done"} /\ ret' # NULL => Owner(kd2, ix2, no2, ret, "ret", 0, 0)'
    BY <1>3, <1>12 DEF Owner
  <2>5. B \cap heap = {} /\ \A i \in Ids' : i \in Ids \/ i \in B
    BY <1>5, <1>6, <2>1
  <2>6. pc \notin {"return", "done"} /\ heap' = heap \cup B
    BY <1>3, <2>1
  <2>7. \A i \in Ids : i \in Ids' /\ node'[i] = node[i]
    BY <1>6
  <2>8. \A k \in DOMAIN stack : /\ k \in DOMAIN stack' /\ stack'[k].node = stack[k].node
                                /\ stack[k].key # NULL => stack'[k].key = stack[k].key
    OBVIOUS
  <2>9. \A k \in DOMAIN stack' :
          /\ k \notin DOMAIN stack => Owner(kd2, ix2, no2, stack[k].node, "node", k, 0)'
          /\ stack'[k].key # NULL /\ (k \in DOMAIN stack => stack[k].key = NULL)
               => Owner(kd2, ix2, no2, stack[k].key, "key", k, 0)'
    OBVIOUS
  <2>10. Adds(kd, ix, no, B, kd2, ix2, no2)
    BY <1>12, <2>2, <2>3, <2>4, <2>5, <2>6, <2>7, <2>8, <2>9 DEF Adds
  <2> QED
    BY <1>1, <2>10, Added
<1> QED
  BY <1>6, <1>7, <1>8, <1>13 DEF Owned

(* parse_array and parse_object: a call that builds a new node.            *)
LEMMA OpenInv ==
  ASSUME Forest, pc = "value", NEW type \in {"ARRAY", "OBJECT"}, create_node(Leaf(type, NULL)),
         stack' = Append(stack, [node |-> fresh, key |-> NULL]), pc' = "first",
         ret' = ret, oom' = oom, status' = status
  PROVE  Forest'
<1> USE DEF Forest
<1>1. PICK kd, ix, no : OwnedBy(kd, ix, no)
  BY DEF Owned
<1>2. /\ heap' = heap \cup {fresh} /\ fresh' = fresh + 1
      /\ node' = [i \in DOMAIN node \cup {fresh} |-> IF i = fresh THEN Leaf(type, NULL) ELSE node[i]]
  BY DEF create_node
<1>3. /\ fresh \in Nat /\ fresh > 0 /\ fresh # NULL
      /\ \A b \in heap : b \in Nat /\ 0 < b /\ b < fresh
      /\ \A i \in Ids : i \in Nat /\ 0 < i /\ i < fresh
  BY FreshIs
<1>4. /\ Ids' = Ids \cup {fresh} /\ node' = [i \in Ids' |-> node'[i]]
      /\ \A i \in Ids : node'[i] = node[i]
      /\ \A i \in Ids' : node'[i] \in Nodes
      /\ node'[fresh].type = type /\ node'[fresh].str = NULL /\ node'[fresh].keys = NULL
      /\ node'[fresh].vals = NULL /\ DOMAIN node'[fresh].names = {} /\ DOMAIN node'[fresh].kids = {}
      /\ Shaped'
  <2>1. NULL \in Nat /\ fresh \notin Ids /\ type \in {"SCALAR", "STRING", "ARRAY", "OBJECT"}
    BY <1>3 DEF NULL
  <2> QED
    BY <1>2, <2>1, LeafAdded
<1>5. PICK l \in Nat : l = Len(stack) /\ DOMAIN stack = 1 .. l
  <2>1. Len(stack) \in Nat /\ DOMAIN stack = 1 .. Len(stack)
    BY DEF Typed
  <2> QED
    BY <2>1, Zenon
<1>6. /\ stack' \in Seq([node : Nat, key : Nat]) /\ Len(stack') = l + 1
      /\ DOMAIN stack' = 1 .. l + 1 /\ \A k \in 1 .. l : stack'[k] = stack[k]
      /\ stack'[l + 1].node = fresh /\ stack'[l + 1].key = NULL
      /\ stack' # <<>>
  <2>1. PICK e : e = [node |-> fresh, key |-> NULL] /\ e.node = fresh /\ e.key = NULL
    OBVIOUS
  <2>2. PICK A : A = [node : Nat, key : Nat]
    OBVIOUS
  <2>3. e \in A /\ stack \in Seq(A) /\ stack' = Append(stack, e)
    BY <1>3, <2>1, <2>2 DEF Typed, NULL
  <2>4. /\ stack' \in Seq(A) /\ Len(stack') = l + 1 /\ DOMAIN stack' = 1 .. l + 1
        /\ \A k \in 1 .. l : stack'[k] = stack[k]
        /\ stack'[l + 1] = e
    BY <1>5, <2>3
  <2>5. stack' # <<>>
    BY <1>5, <2>4
  <2> QED
    BY <2>1, <2>2, <2>4, <2>5
<1>7. Typed'
  <2>1. heap' \subseteq 1 .. fresh' - 1 /\ Ids' \subseteq heap' /\ fresh' \in Nat /\ fresh' > 0
    BY <1>2, <1>3, <1>4 DEF Typed
  <2>2. ret' \in Ids' \cup {NULL}
    BY <1>4 DEF Typed
  <2> QED
    BY <1>4, <1>6, <2>1, <2>2 DEF Typed
<1>8. Stacked'
  <2>1. ASSUME NEW k \in 1 .. l
        PROVE  /\ stack'[k].node \in Ids'
               /\ node'[stack'[k].node].type \in {"ARRAY", "OBJECT"}
               /\ stack'[k].key # NULL <=> node'[stack'[k].node].type = "OBJECT"
               /\ k > 1 => stack'[k - 1].node < stack'[k].node
    <3>1. k \in DOMAIN stack /\ (k > 1 => k - 1 \in 1 .. l)
      BY <1>5
    <3>2. stack'[k] = stack[k] /\ (k > 1 => stack'[k - 1] = stack[k - 1])
      BY <1>6, <3>1
    <3>3. stack[k].node \in Ids
      BY <3>1 DEF Stacked
    <3> QED
      BY <1>4, <3>1, <3>2, <3>3 DEF Stacked
  <2>2. ASSUME l > 0 PROVE stack'[l].node < fresh
    BY <1>3, <1>5, <1>6, <2>2 DEF Stacked
  <2>3. ASSUME NEW k \in DOMAIN stack'
        PROVE  /\ stack'[k].node \in Ids' /\ node'[stack'[k].node].type \in {"ARRAY", "OBJECT"}
               /\ stack'[k].key # NULL <=> /\ node'[stack'[k].node].type = "OBJECT"
                                           /\ k < Len(stack') \/ pc' \in {"colon", "value", "return"}
               /\ k > 1 => stack'[k - 1].node < stack'[k].node
    <3>1. CASE k = l + 1
      <4>1. k > 1 => l > 0 /\ k - 1 = l
        BY <1>5, <3>1
      <4> QED
        BY <1>4, <1>6, <2>2, <3>1, <4>1
    <3>2. CASE k # l + 1
      <4>1. k \in 1 .. l /\ k < l + 1
        BY <1>5, <1>6, <3>2
      <4> QED
        BY <1>6, <2>1, <4>1
    <3> QED
      BY <3>1, <3>2
  <2> QED
    BY <1>6, <2>3 DEF Stacked
<1>9. PICK kd2 : kd2 = [b \in heap' |-> IF b = fresh THEN "node" ELSE kd[b]]
  OBVIOUS
<1>10. PICK ix2 : ix2 = [b \in heap' |-> IF b = fresh THEN l + 1 ELSE ix[b]]
  OBVIOUS
<1>11. PICK no2 : no2 = [b \in heap' |-> IF b = fresh THEN 0 ELSE no[b]]
  OBVIOUS
<1>12. /\ kd2[fresh] = "node" /\ ix2[fresh] = l + 1 /\ no2[fresh] = 0
       /\ \A b \in heap : kd2[b] = kd[b] /\ ix2[b] = ix[b] /\ no2[b] = no[b]
  BY <1>2, <1>3, <1>9, <1>10, <1>11
<1>13. OwnedBy(kd2, ix2, no2)'
  <2>1. PICK B : B = {fresh}
    OBVIOUS
  <2>2. \A b \in B : Found(kd2, ix2, no2, b)'
    <3>1. l + 1 \in DOMAIN stack' /\ fresh \in Ids'
      BY <1>4, <1>5, <1>6
    <3> QED
      BY <1>6, <1>12, <2>1, <3>1 DEF Found
  <2>3. \A i \in Ids' : i \notin Ids => NodeOwns(kd2, ix2, no2, node[i], i)'
    BY <1>4 DEF NodeOwns
  <2>4. pc' \in {"return", "done"} /\ ret' # NULL => Owner(kd2, ix2, no2, ret, "ret", 0, 0)'
    OBVIOUS
  <2>5. B \cap heap = {} /\ \A i \in Ids' : i \in Ids \/ i \in B
    BY <1>3, <1>4, <2>1
  <2>6. pc \notin {"return", "done"} /\ heap' = heap \cup B
    BY <1>2, <2>1
  <2>7. \A i \in Ids : i \in Ids' /\ node'[i] = node[i]
    BY <1>4
  <2>8. \A k \in DOMAIN stack : /\ k \in DOMAIN stack' /\ stack'[k].node = stack[k].node
                                /\ stack[k].key # NULL => stack'[k].key = stack[k].key
    BY <1>5, <1>6
  <2>9. \A k \in DOMAIN stack' :
          /\ k \notin DOMAIN stack => Owner(kd2, ix2, no2, stack[k].node, "node", k, 0)'
          /\ stack'[k].key # NULL /\ (k \in DOMAIN stack => stack[k].key = NULL)
               => Owner(kd2, ix2, no2, stack[k].key, "key", k, 0)'
    <3>1. Owner(kd2, ix2, no2, stack[l + 1].node, "node", l + 1, 0)'
      BY <1>2, <1>6, <1>12 DEF Owner
    <3>2. \A k \in DOMAIN stack' : k = l + 1 \/ (k \in DOMAIN stack /\ stack'[k] = stack[k])
      BY <1>5, <1>6
    <3>3. l + 1 \notin DOMAIN stack
      BY <1>5
    <3> QED
      BY <1>6, <3>1, <3>2, <3>3
  <2>10. Adds(kd, ix, no, B, kd2, ix2, no2)
    BY <1>12, <2>2, <2>3, <2>4, <2>5, <2>6, <2>7, <2>8, <2>9 DEF Adds
  <2> QED
    BY <1>1, <2>10, Added
<1> QED
  BY <1>4, <1>7, <1>8, <1>13 DEF Owned

(* parse_object has read a key.                                            *)
LEMMA KeyInv ==
  ASSUME Forest, pc = "key", heap' = heap \cup {fresh}, fresh' = fresh + 1,
         stack' = [stack EXCEPT ![Len(stack)].key = fresh], pc' = "colon",
         node' = node, ret' = ret, oom' = oom, status' = status
  PROVE  Forest'
<1> USE DEF Forest
<1>1. PICK kd, ix, no : OwnedBy(kd, ix, no)
  BY DEF Owned
<1>2. stack # <<>>
  BY DEF Stacked
<1>3. PICK l \in Nat : /\ l = Len(stack) /\ l > 0 /\ l \in DOMAIN stack /\ DOMAIN stack = 1 .. l
                       /\ stack[l] \in [node : Nat, key : Nat]
  BY <1>2, TopIs
<1>4. /\ fresh \in Nat /\ fresh > 0 /\ fresh # NULL
      /\ \A b \in heap : b \in Nat /\ 0 < b /\ b < fresh
      /\ \A i \in Ids : i \in Nat /\ 0 < i /\ i < fresh
  BY FreshIs
<1>5. /\ stack' \in Seq([node : Nat, key : Nat]) /\ Len(stack') = l
      /\ DOMAIN stack' = 1 .. l /\ \A k \in 1 .. l : k # l => stack'[k] = stack[k]
      /\ \A k \in 1 .. l : stack'[k].node = stack[k].node
      /\ stack'[l].key = fresh /\ stack' # <<>>
  <2>1. PICK e : e = [stack[l] EXCEPT !.key = fresh]
    OBVIOUS
  <2>2. e.node = stack[l].node /\ e.key = fresh /\ e \in [node : Nat, key : Nat]
    BY <1>3, <1>4, <2>1
  <2>3. PICK A : A = [node : Nat, key : Nat]
    OBVIOUS
  <2>4. e \in A /\ stack \in Seq(A) /\ stack' = [stack EXCEPT ![l] = e]
    BY <1>3, <2>1, <2>2, <2>3 DEF Typed
  <2>5. stack' \in Seq(A) /\ Len(stack') = l /\ DOMAIN stack' = 1 .. l
    BY <1>3, <2>4
  <2>6. \A k \in 1 .. l : stack'[k] = IF k = l THEN e ELSE stack[k]
    BY <1>3, <2>4
  <2>7. stack' # <<>>
    BY <1>3, <2>5
  <2> QED
    BY <1>3, <2>2, <2>3, <2>5, <2>6, <2>7
<1>6. Ids' = Ids
  BY DEF Ids
<1>7. Typed'
  <2>1. heap' \subseteq 1 .. fresh' - 1 /\ Ids' \subseteq heap' /\ fresh' \in Nat /\ fresh' > 0
    BY <1>4, <1>6 DEF Typed
  <2> QED
    BY <1>5, <1>6, <2>1 DEF Typed
<1>8. Shaped'
  BY <1>6 DEF Shaped, ShapedNode
<1>9. Stacked'
  <2>1. ASSUME NEW k \in 1 .. l
        PROVE  /\ stack'[k].node \in Ids'
               /\ node'[stack'[k].node].type \in {"ARRAY", "OBJECT"}
               /\ stack'[k].key # NULL <=> node'[stack'[k].node].type = "OBJECT"
               /\ k > 1 => stack'[k - 1].node < stack'[k].node
    <3>1. k \in DOMAIN stack /\ (k > 1 => k - 1 \in 1 .. l)
      BY <1>3
    <3>2. stack'[k].node = stack[k].node /\ (k > 1 => stack'[k - 1].node = stack[k - 1].node)
      BY <1>5, <3>1
    <3>3. CASE k = l
      <4>1. node[stack[l].node].type = "OBJECT"
        BY <1>3 DEF Stacked
      <4> QED
        BY <1>4, <1>5, <1>6, <3>1, <3>2, <3>3, <4>1 DEF Stacked
    <3>4. CASE k # l
      <4>1. k < Len(stack) /\ stack'[k].key = stack[k].key
        BY <1>3, <1>5, <3>4
      <4> QED
        BY <1>6, <3>1, <3>2, <4>1 DEF Stacked
    <3> QED
      BY <3>3, <3>4
  <2>2. node'[stack'[l].node].type = "OBJECT"
    <3>1. node[stack[l].node].type = "OBJECT"
      BY <1>3 DEF Stacked
    <3> QED
      BY <1>3, <1>5, <3>1
  <2> QED
    BY <1>5, <2>1, <2>2 DEF Stacked
<1>10. PICK kd2 : kd2 = [b \in heap' |-> IF b = fresh THEN "key" ELSE kd[b]]
  OBVIOUS
<1>11. PICK ix2 : ix2 = [b \in heap' |-> IF b = fresh THEN l ELSE ix[b]]
  OBVIOUS
<1>12. PICK no2 : no2 = [b \in heap' |-> IF b = fresh THEN 0 ELSE no[b]]
  OBVIOUS
<1>13. /\ kd2[fresh] = "key" /\ ix2[fresh] = l /\ no2[fresh] = 0
       /\ \A b \in heap : kd2[b] = kd[b] /\ ix2[b] = ix[b] /\ no2[b] = no[b]
  BY <1>4, <1>10, <1>11, <1>12
<1>14. stack[l].key = NULL
  BY <1>3 DEF Stacked
<1>15. OwnedBy(kd2, ix2, no2)'
  <2>1. PICK B : B = {fresh}
    OBVIOUS
  <2>2. \A b \in B : Found(kd2, ix2, no2, b)'
    <3>1. l \in DOMAIN stack' /\ fresh \notin Ids'
      BY <1>3, <1>4, <1>5, <1>6
    <3> QED
      BY <1>5, <1>13, <2>1, <3>1 DEF Found
  <2>3. \A i \in Ids' : i \notin Ids => NodeOwns(kd2, ix2, no2, node[i], i)'
    BY <1>6
  <2>4. pc' \in {"return", "done"} /\ ret' # NULL => Owner(kd2, ix2, no2, ret, "ret", 0, 0)'
    OBVIOUS
  <2>5. B \cap heap = {} /\ \A i \in Ids' : i \in Ids \/ i \in B
    BY <1>4, <1>6, <2>1
  <2>6. pc \notin {"return", "done"} /\ heap' = heap \cup B
    BY <2>1
  <2>7. \A i \in Ids : i \in Ids' /\ node'[i] = node[i]
    BY <1>6
  <2>8. \A k \in DOMAIN stack : /\ k \in DOMAIN stack' /\ stack'[k].node = stack[k].node
                                /\ stack[k].key # NULL => stack'[k].key = stack[k].key
    BY <1>3, <1>5, <1>14
  <2>9. \A k \in DOMAIN stack' :
          /\ k \notin DOMAIN stack => Owner(kd2, ix2, no2, stack[k].node, "node", k, 0)'
          /\ stack'[k].key # NULL /\ (k \in DOMAIN stack => stack[k].key = NULL)
               => Owner(kd2, ix2, no2, stack[k].key, "key", k, 0)'
    <3>1. Owner(kd2, ix2, no2, stack[l].key, "key", l, 0)'
      BY <1>5, <1>13 DEF Owner
    <3>2. \A k \in DOMAIN stack' : k \in DOMAIN stack /\ (k = l \/ stack'[k] = stack[k])
      BY <1>3, <1>5
    <3> QED
      BY <3>1, <3>2
  <2>10. Adds(kd, ix, no, B, kd2, ix2, no2)
    BY <1>13, <2>2, <2>3, <2>4, <2>5, <2>6, <2>7, <2>8, <2>9 DEF Adds
  <2> QED
    BY <1>1, <2>10, Added
<1> QED
  BY <1>7, <1>8, <1>9, <1>15 DEF Owned

-----------------------------------------------------------------------------
(* A value is stored.                                                      *)

\* The vectors of the node n become K and V, with room for one more value, and the
\* old ones are gone unless they are the same.
Vectors(n, K, V, cap) ==
  /\ cap \in Nat /\ Len(n.kids) < cap
  /\ V \in Nat /\ V # NULL /\ V < fresh' /\ (V = n.vals \/ V \notin heap)
  /\ K \in Nat /\ K < fresh' /\ (K = NULL \/ K = n.keys \/ K \notin heap)
  /\ K # V /\ (n.type = "ARRAY" => K = NULL)
  /\ heap' = (heap \ {n.keys, n.vals}) \cup ({K, V} \ {NULL})
  /\ fresh' \in Nat /\ fresh <= fresh'

\* What storing a value makes of the node x and of the call l, which has the key c.
Stored(l, x, c, K, V, cap) ==
  /\ Ids' = Ids /\ node' = [i \in Ids |-> node'[i]]
  /\ \A i \in Ids \ {x} : node'[i] = node[i]
  /\ node'[x] \in Nodes /\ node'[x].type = node[x].type /\ node'[x].str = node[x].str
  /\ node'[x].keys = K /\ node'[x].vals = V /\ node'[x].cap = cap
  /\ node'[x].kids = Append(node[x].kids, ret)
  /\ node[x].type = "ARRAY" => node'[x].names = node[x].names
  /\ node[x].type = "OBJECT" => node'[x].names = Append(node[x].names, c)
  /\ stack' \in Seq([node : Nat, key : Nat]) /\ Len(stack') = l /\ DOMAIN stack' = 1 .. l
  /\ \A k \in 1 .. l : k # l => stack'[k] = stack[k]
  /\ \A k \in 1 .. l : stack'[k].node = stack[k].node
  /\ stack'[l].key = NULL /\ stack' # <<>>
  /\ pc' = "after" /\ ret' = ret /\ oom' = oom /\ status' = status

(* What Store does.                                                        *)
LEMMA StoreIs ==
  ASSUME Typed, Stacked, stack # <<>>, pc = "return", ret # NULL, NEW K \in Nat, NEW V \in Nat,
         NEW cap \in Nat, Store(K, V, cap), NEW l, l = Len(stack), NEW x, x = stack[l].node,
         NEW c, c = stack[l].key
  PROVE  Stored(l, x, c, K, V, cap)
<1>1. /\ l \in Nat /\ l > 0 /\ l \in DOMAIN stack /\ DOMAIN stack = 1 .. l
      /\ Top = stack[l] /\ stack[l] \in [node : Nat, key : Nat]
  BY TopIs
<1>2. x \in Ids /\ node[x] \in Nodes /\ node[x].type \in {"ARRAY", "OBJECT"} /\ Top.node = x
  BY <1>1 DEF Stacked, Typed
<1>3. PICK n \in Nodes : n = node[x]
  BY <1>2
<1>4. c \in Nat /\ c = stack[l].key
  BY <1>1
<1>5. PICK kk \in Seq(Nat) : kk = Append(n.kids, ret)
  <2>1. n.kids \in Seq(Nat)
    BY <1>3 DEF Nodes
  <2>2. ret \in Nat
    BY DEF Typed, NULL
  <2>3. Append(n.kids, ret) \in Seq(Nat)
    BY <2>1, <2>2
  <2> QED
    BY <2>3, Zenon
<1>6. PICK nn \in Seq(Nat) : nn = IF IsArray THEN n.names ELSE Append(n.names, c)
  <2>1. n.names \in Seq(Nat)
    BY <1>3 DEF Nodes
  <2>2. Append(n.names, c) \in Seq(Nat)
    BY <1>4, <2>1
  <2> QED
    BY <2>1, <2>2, Zenon
<1>7. PICK m : m = [n EXCEPT !.keys = K, !.vals = V, !.cap = cap, !.kids = kk, !.names = nn]
  OBVIOUS
<1>8. /\ m \in Nodes /\ m.type = n.type /\ m.str = n.str /\ m.keys = K /\ m.vals = V
      /\ m.cap = cap /\ m.kids = kk /\ m.names = nn
  BY <1>3, <1>7 DEF Nodes
<1>9. node' = [node EXCEPT ![x] = m]
  <2>1. node' = [node EXCEPT ![x] =
                   [node[x] EXCEPT !.keys = K, !.vals = V, !.cap = cap,
                                   !.kids = Append(node[x].kids, ret),
                                   !.names = IF IsArray THEN node[x].names
                                             ELSE Append(node[x].names, c)]]
    <3>1. node' = [node EXCEPT ![Top.node] =
                     [node[Top.node] EXCEPT !.keys = K, !.vals = V, !.cap = cap,
                                     !.kids = Append(node[Top.node].kids, ret),
                                     !.names = IF IsArray THEN node[Top.node].names
                                               ELSE Append(node[Top.node].names, Top.key)]]
      BY DEF Store
    <3>2. Top.node = x /\ Top.key = c
      BY <1>1, <1>2, <1>4
    <3> QED
      BY <3>1, <3>2, Zenon
  <2> QED
    BY <1>3, <1>5, <1>6, <1>7, <2>1
<1>10. /\ Ids' = Ids /\ node' = [i \in Ids |-> node'[i]]
       /\ \A i \in Ids \ {x} : node'[i] = node[i]
       /\ node'[x] = m
  BY <1>2, <1>9 DEF Ids, Typed
<1>11. IsArray <=> n.type = "ARRAY"
  BY <1>2, <1>3 DEF IsArray
<1>12. /\ n.type = "ARRAY" => nn = n.names
       /\ n.type = "OBJECT" => nn = Append(n.names, c)
  BY <1>6, <1>11
<1>13. /\ stack' \in Seq([node : Nat, key : Nat]) /\ Len(stack') = l
       /\ DOMAIN stack' = 1 .. l /\ \A k \in 1 .. l : k # l => stack'[k] = stack[k]
       /\ \A k \in 1 .. l : stack'[k].node = stack[k].node
       /\ stack'[l].key = NULL /\ stack' # <<>>
  <2>1. PICK e : e = [stack[l] EXCEPT !.key = NULL]
    OBVIOUS
  <2>2. e.node = stack[l].node /\ e.key = NULL /\ e \in [node : Nat, key : Nat]
    BY <1>1, <2>1 DEF NULL
  <2>3. PICK A : A = [node : Nat, key : Nat]
    OBVIOUS
  <2>4. stack' = [stack EXCEPT ![l] = e]
    <3>1. stack' = [stack EXCEPT ![Len(stack)].key = NULL]
      BY DEF Store
    <3> QED
      BY <2>1, <3>1
  <2>5. e \in A /\ stack \in Seq(A)
    BY <2>2, <2>3 DEF Typed
  <2>6. stack' \in Seq(A) /\ Len(stack') = l /\ DOMAIN stack' = 1 .. l
    BY <1>1, <2>4, <2>5
  <2>7. \A k \in 1 .. l : stack'[k] = IF k = l THEN e ELSE stack[k]
    BY <1>1, <2>4, <2>5
  <2>8. stack' # <<>>
    BY <1>1, <2>6
  <2> QED
    BY <1>1, <2>2, <2>3, <2>6, <2>7, <2>8
<1>14. pc' = "after" /\ ret' = ret /\ oom' = oom /\ status' = status
  BY DEF Store
<1> QED
  BY <1>3, <1>4, <1>5, <1>8, <1>10, <1>12, <1>13, <1>14 DEF Stored

(* A value, its key and the vectors have their owners once it is stored.   *)
LEMMA StoreInv ==
  ASSUME Forest, stack # <<>>, pc = "return", ret # NULL, NEW K \in Nat, NEW V \in Nat,
         NEW cap \in Nat, Store(K, V, cap), Vectors(node[Top.node], K, V, cap)
  PROVE  Forest' /\ pc' = "after" /\ status' = status
<1> USE DEF Forest
<1>1. PICK kd, ix, no : OwnedBy(kd, ix, no)
  BY DEF Owned
<1>2. PICK l \in Nat : /\ l = Len(stack) /\ l > 0 /\ l \in DOMAIN stack /\ DOMAIN stack = 1 .. l
                       /\ Top = stack[l] /\ stack[l] \in [node : Nat, key : Nat]
  BY TopIs
<1>3. PICK x \in Ids : x = stack[l].node /\ Top.node = x
  BY <1>2 DEF Stacked
<1>4. PICK c \in Nat : c = stack[l].key
  BY <1>2
<1>5. PICK n \in Nodes : n = node[x]
  BY DEF Typed
<1>6. PICK m : m = node'[x]
  OBVIOUS
<1>stored. Stored(l, x, c, K, V, cap)
  BY <1>2, <1>3, <1>4, StoreIs
<1>7. /\ Ids' = Ids /\ node' = [i \in Ids |-> node'[i]]
      /\ \A i \in Ids \ {x} : node'[i] = node[i]
      /\ m \in Nodes /\ m.type = n.type /\ m.str = n.str
      /\ m.keys = K /\ m.vals = V /\ m.cap = cap
      /\ m.kids = Append(n.kids, ret)
      /\ n.type = "ARRAY" => m.names = n.names
      /\ n.type = "OBJECT" => m.names = Append(n.names, c)
  BY <1>4, <1>5, <1>6, <1>stored, Zenon DEF Stored
<1>8. /\ stack' \in Seq([node : Nat, key : Nat]) /\ Len(stack') = l /\ DOMAIN stack' = 1 .. l
      /\ \A k \in 1 .. l : k # l => stack'[k] = stack[k]
      /\ \A k \in 1 .. l : stack'[k].node = stack[k].node
      /\ stack'[l].key = NULL /\ stack' # <<>>
      /\ pc' = "after" /\ ret' = ret /\ oom' = oom /\ status' = status
  BY <1>stored, Zenon DEF Stored
<1>9. /\ Len(n.kids) < cap
      /\ V # NULL /\ V < fresh' /\ (V = n.vals \/ V \notin heap)
      /\ K < fresh' /\ (K = NULL \/ K = n.keys \/ K \notin heap)
      /\ K # V /\ (n.type = "ARRAY" => K = NULL)
      /\ heap' = (heap \ {n.keys, n.vals}) \cup ({K, V} \ {NULL})
      /\ fresh' \in Nat /\ fresh <= fresh'
  BY <1>3, <1>5 DEF Vectors
<1>10. PICK p \in Nat : p = Len(n.kids) /\ DOMAIN n.kids = 1 .. p
  <2>1. Len(n.kids) \in Nat /\ DOMAIN n.kids = 1 .. Len(n.kids)
    BY DEF Nodes
  <2> QED
    BY <2>1, Zenon
<1>11. /\ n.type \in {"ARRAY", "OBJECT"} /\ (c # NULL <=> n.type = "OBJECT")
       /\ ret \in Ids /\ ret \in heap /\ x < ret /\ x \in heap
  <2>1. node[stack[l].node].type \in {"ARRAY", "OBJECT"}
    BY <1>2 DEF Stacked
  <2>2. stack[l].key # NULL <=> node[stack[l].node].type = "OBJECT"
    BY <1>2 DEF Stacked
  <2>3. ret \in Ids /\ ret \in heap /\ x \in heap
    BY DEF Typed
  <2>4. x < ret
    BY <1>2, <1>3 DEF Stacked
  <2> QED
    BY <1>3, <1>4, <1>5, <2>1, <2>2, <2>3, <2>4
<1>12. /\ Len(n.names) = (IF n.type = "OBJECT" THEN p ELSE 0) /\ n.names \in Seq(Nat)
       /\ \A k \in 1 .. p : n.kids[k] \in Ids /\ x < n.kids[k]
  <2>1. ShapedNode(n, x) /\ n.names \in Seq(Nat)
    BY <1>5 DEF Shaped, Nodes
  <2> QED
    BY <1>10, <2>1 DEF ShapedNode
<1>13. /\ Len(m.kids) = p + 1 /\ DOMAIN m.kids = 1 .. p + 1 /\ m.kids[p + 1] = ret
       /\ \A k \in 1 .. p : m.kids[k] = n.kids[k]
  <2>1. n.kids \in Seq(Nat) /\ ret \in Nat
    BY <1>11, FreshIs DEF Nodes
  <2> QED
    BY <1>7, <1>10, <2>1
<1>14. PICK q \in Nat : q = Len(n.names) /\ DOMAIN n.names = 1 .. q
  <2>1. Len(n.names) \in Nat /\ DOMAIN n.names = 1 .. Len(n.names)
    BY <1>12
  <2> QED
    BY <2>1, Zenon
<1>15. ASSUME n.type = "OBJECT"
       PROVE  /\ Len(m.names) = q + 1 /\ DOMAIN m.names = 1 .. q + 1 /\ m.names[q + 1] = c
              /\ \A k \in 1 .. q : m.names[k] = n.names[k]
  <2>1. PICK s \in Seq(Nat) : s = n.names /\ Len(s) = q /\ DOMAIN s = 1 .. q
    BY <1>12, <1>14
  <2>2. PICK t : t = Append(s, c) /\ m.names = t
    BY <1>7, <1>15, <2>1
  <2>3. /\ Len(t) = q + 1 /\ DOMAIN t = 1 .. q + 1 /\ t[q + 1] = c
        /\ \A k \in 1 .. q : t[k] = s[k]
    BY <2>1, <2>2
  <2> QED
    BY <2>1, <2>2, <2>3
<1>16. \A b \in heap : b \in Nat /\ 0 < b /\ b < fresh
  BY FreshIs
<1>17. Typed'
  <2>1. ASSUME NEW b \in heap' PROVE b \in 1 .. fresh' - 1
    <3>1. fresh \in Nat
      BY DEF Typed
    <3>2. CASE b \in heap
      BY <1>9, <1>16, <3>1, <3>2
    <3>3. CASE b \notin heap
      BY <1>9, <3>3 DEF NULL
    <3> QED
      BY <3>2, <3>3
  <2>2. fresh' > 0
    BY <1>9 DEF Typed
  <2>3. ASSUME NEW i \in Ids PROVE i \in heap'
    <3>1. i \in heap
      BY DEF Typed
    <3>2. NodeOwns(kd, ix, no, n, x)
      BY <1>1, <1>5 DEF OwnedBy
    <3>3. i # NULL
      BY <1>16, <3>1 DEF NULL
    <3>4. \A b \in heap : kd[b] \in {"keys", "vals"} => b \notin Ids
      BY <1>1 DEF OwnedBy, Found
    <3>5. i # n.keys /\ i # n.vals
      BY <3>2, <3>3, <3>4 DEF NodeOwns, Owner
    <3> QED
      BY <1>9, <3>1, <3>5
  <2>4. \A i \in Ids : node'[i] \in Nodes
    BY <1>6, <1>7 DEF Typed
  <2> QED
    BY <1>7, <1>8, <1>9, <2>1, <2>2, <2>3, <2>4 DEF Typed
<1>18. Shaped'
  <2>1. SUFFICES ASSUME NEW i \in Ids' PROVE ShapedNode(node[i], i)'
    BY DEF Shaped
  <2>2. CASE i = x
    <3>1. Len(m.kids) <= m.cap
      BY <1>7, <1>9, <1>10, <1>13
    <3>2. Len(m.names) = IF m.type = "OBJECT" THEN Len(m.kids) ELSE 0
      <4>1. CASE n.type = "OBJECT"
        BY <1>7, <1>12, <1>13, <1>14, <1>15, <4>1
      <4>2. CASE n.type = "ARRAY"
        BY <1>7, <1>12, <4>2
      <4> QED
        BY <1>11, <4>1, <4>2
    <3>3. m.cap # 0 /\ m.vals # NULL /\ (m.type # "OBJECT" => m.keys = NULL)
      BY <1>7, <1>9, <1>10, <1>11
    <3>4. \A k \in DOMAIN m.kids : m.kids[k] \in Ids' /\ x < m.kids[k]
      <4>1. \A k \in 1 .. p + 1 : k = p + 1 \/ k \in 1 .. p
        OBVIOUS
      <4> QED
        BY <1>7, <1>11, <1>12, <1>13, <4>1
    <3>5. ShapedNode(m, x)'
      BY <3>1, <3>2, <3>3, <3>4 DEF ShapedNode
    <3> QED
      BY <1>6, <2>2, <3>5
  <2>3. CASE i # x
    <3>1. ShapedNode(node[i], i) /\ node'[i] = node[i]
      BY <1>7, <2>3 DEF Shaped
    <3> QED
      BY <1>7, <3>1 DEF ShapedNode
  <2> QED
    BY <2>2, <2>3
<1>19. Stacked'
  <2>1. \A i \in Ids : node'[i].type = node[i].type
    BY <1>5, <1>6, <1>7
  <2>2. ASSUME NEW k \in 1 .. l
        PROVE  /\ stack'[k].node \in Ids'
               /\ node'[stack'[k].node].type \in {"ARRAY", "OBJECT"}
               /\ stack'[k].key # NULL <=> node'[stack'[k].node].type = "OBJECT" /\ k < l
               /\ k > 1 => stack'[k - 1].node < stack'[k].node
    <3>1. k \in DOMAIN stack /\ (k > 1 => k - 1 \in 1 .. l)
      BY <1>2
    <3>2. stack'[k].node = stack[k].node /\ (k > 1 => stack'[k - 1].node = stack[k - 1].node)
      BY <1>8, <3>1
    <3>3. stack[k].node \in Ids
      BY <3>1 DEF Stacked
    <3>4. CASE k = l
      <4>1. stack'[k].key = NULL /\ ~(k < l)
        BY <1>8, <3>4
      <4>2. /\ node[stack[k].node].type \in {"ARRAY", "OBJECT"}
            /\ k > 1 => stack[k - 1].node < stack[k].node
        BY <3>1 DEF Stacked
      <4>3. /\ stack'[k].node \in Ids'
            /\ node'[stack'[k].node].type \in {"ARRAY", "OBJECT"}
        BY <1>7, <2>1, <3>2, <3>3, <4>2
      <4> QED
        BY <3>2, <4>1, <4>2, <4>3
    <3>5. CASE k # l
      <4>1. k < l /\ stack'[k].key = stack[k].key
        BY <1>8, <3>5
      <4> QED
        BY <1>2, <1>7, <2>1, <3>1, <3>2, <3>3, <4>1 DEF Stacked
    <3> QED
      BY <3>4, <3>5
  <2> QED
    BY <1>8, <2>2 DEF Stacked
<1>20. /\ kd[ret] = "ret" /\ ret # NULL
       /\ c # NULL => c \in heap /\ kd[c] = "key" /\ ix[c] = l
       /\ n.vals # NULL => n.vals \in heap /\ kd[n.vals] = "vals" /\ ix[n.vals] = x
       /\ n.keys # NULL => n.keys \in heap /\ kd[n.keys] = "keys" /\ ix[n.keys] = x
  BY <1>1, <1>2, <1>4, <1>5 DEF OwnedBy, Owner, NodeOwns
<1>21. NULL \notin heap
  BY <1>16 DEF NULL
<1>22. PICK kd2 : kd2 = [b \in heap' |-> IF b = ret THEN "kids" ELSE IF b = c THEN "names"
                                         ELSE IF b = V THEN "vals" ELSE IF b = K THEN "keys"
                                         ELSE kd[b]]
  OBVIOUS
<1>23. PICK ix2 : ix2 = [b \in heap' |-> IF b \in {ret, c, V, K} THEN x ELSE ix[b]]
  OBVIOUS
<1>24. PICK no2 : no2 = [b \in heap' |-> IF b = ret THEN p + 1 ELSE IF b = c THEN q + 1
                                         ELSE IF b \in {V, K} THEN 0 ELSE no[b]]
  OBVIOUS
<1>25. /\ ret \in heap' /\ V \in heap' /\ (c # NULL => c \in heap') /\ (K # NULL => K \in heap')
       /\ NULL \notin heap'
       /\ ret \notin {c, V, K} /\ (c # NULL => c # V /\ c # K)
  BY <1>9, <1>11, <1>20, <1>21
<1>26. /\ kd2[ret] = "kids" /\ ix2[ret] = x /\ no2[ret] = p + 1
       /\ c # NULL => kd2[c] = "names" /\ ix2[c] = x /\ no2[c] = q + 1
       /\ kd2[V] = "vals" /\ ix2[V] = x /\ no2[V] = 0
       /\ K # NULL => kd2[K] = "keys" /\ ix2[K] = x /\ no2[K] = 0
       /\ \A b \in heap' : b \notin {ret, c, V, K} => kd2[b] = kd[b] /\ ix2[b] = ix[b] /\ no2[b] = no[b]
  BY <1>9, <1>22, <1>23, <1>24, <1>25
<1>27. \A b, f, i, k :
         /\ Owner(kd, ix, no, b, f, i, k) /\ f # "ret"
         /\ ~(f = "key" /\ i = l) /\ ~(f \in {"keys", "vals"} /\ i = x)
         => Owner(kd2, ix2, no2, b, f, i, k)'
  <2>1. SUFFICES ASSUME NEW b, NEW f, NEW i, NEW k, Owner(kd, ix, no, b, f, i, k), f # "ret",
                        ~(f = "key" /\ i = l), ~(f \in {"keys", "vals"} /\ i = x)
                 PROVE  Owner(kd2, ix2, no2, b, f, i, k)'
    OBVIOUS
  <2>2. b \in heap /\ kd[b] = f /\ ix[b] = i /\ no[b] = k
    BY <2>1 DEF Owner
  <2>3. b \notin {ret, c, V, K} /\ b # n.keys /\ b # n.vals
    BY <1>9, <1>20, <1>21, <2>1, <2>2
  <2>4. b \in heap'
    BY <1>9, <2>2, <2>3
  <2> QED
    BY <1>26, <2>2, <2>3, <2>4 DEF Owner
<1>28. ASSUME NEW b \in heap' PROVE Found(kd2, ix2, no2, b)'
  <2>1. CASE b = ret
    <3>1. p + 1 \in DOMAIN m.kids
      BY <1>13
    <3>2. b \in Ids' /\ x \in Ids' /\ node'[x].kids[p + 1] = b /\ p + 1 \in DOMAIN node'[x].kids
      BY <1>6, <1>7, <1>11, <1>13, <2>1, <3>1
    <3> QED
      BY <1>26, <2>1, <3>2 DEF Found
  <2>2. CASE b = c
    <3>1. n.type = "OBJECT" /\ c # NULL /\ c \notin Ids
      <4>1. c # NULL /\ c \in heap /\ kd[c] = "key"
        BY <1>20, <1>25, <2>2
      <4>2. Found(kd, ix, no, c)
        BY <1>1, <4>1 DEF OwnedBy
      <4> QED
        BY <1>11, <4>1, <4>2 DEF Found
    <3>2. q + 1 \in DOMAIN m.names /\ m.names[q + 1] = c
      BY <1>14, <1>15, <3>1
    <3>3. b \notin Ids' /\ x \in Ids' /\ node'[x].names[q + 1] = b /\ q + 1 \in DOMAIN node'[x].names
      BY <1>6, <1>7, <2>2, <3>1, <3>2
    <3> QED
      BY <1>26, <2>2, <3>1, <3>3 DEF Found
  <2>3. CASE b \in {V, K}
    <3>1. b \notin Ids'
      <4>1. CASE b \notin heap
        BY <1>7, <4>1 DEF Typed
      <4>2. CASE b \in heap
        <5>1. kd[b] \in {"vals", "keys"}
          BY <1>9, <1>20, <1>21, <2>3, <4>2
        <5>2. Found(kd, ix, no, b)
          BY <1>1, <4>2 DEF OwnedBy
        <5> QED
          BY <1>7, <5>1, <5>2 DEF Found
      <4> QED
        BY <4>1, <4>2
    <3>2. CASE b = V
      BY <1>6, <1>7, <1>26, <3>1, <3>2 DEF Found
    <3>3. CASE b = K
      <4>1. K # NULL
        BY <1>25, <3>3
      <4> QED
        BY <1>6, <1>7, <1>26, <3>1, <3>3, <4>1 DEF Found
    <3> QED
      BY <2>3, <3>2, <3>3
  <2>4. CASE b \notin {ret, c, V, K}
    <3>1. b \in heap /\ b # n.keys /\ b # n.vals
      BY <1>9, <2>4
    <3>2. Found(kd, ix, no, b)
      BY <1>1, <3>1 DEF OwnedBy
    <3>3. kd2[b] = kd[b] /\ ix2[b] = ix[b] /\ no2[b] = no[b]
      BY <1>26, <2>4
    <3>4. CASE kd[b] \in Fields /\ ix[b] # x
      <4>1. ix[b] \in Ids
        BY <3>2, <3>4 DEF Found, Fields
      <4>2. node'[ix[b]] = node[ix[b]]
        BY <1>7, <3>4, <4>1
      <4> QED
        BY <1>7, <3>2, <3>3, <3>4, <4>1, <4>2 DEF Found, Fields
    <3>5. CASE kd[b] \in Fields /\ ix[b] = x
      <4>1. kd[b] \notin {"keys", "vals"}
        BY <1>5, <3>1, <3>2, <3>5 DEF Found
      <4>2. CASE kd[b] = "str"
        BY <1>5, <1>6, <1>7, <3>2, <3>3, <3>5, <4>2 DEF Found
      <4>3. CASE kd[b] = "names"
        <5>1. b \notin Ids /\ no[b] \in 1 .. q /\ n.names[no[b]] = b
          BY <1>5, <1>14, <3>2, <3>5, <4>3 DEF Found
        <5>2. n.type = "OBJECT"
          BY <1>12, <1>14, <5>1
        <5>3. no[b] \in DOMAIN m.names /\ m.names[no[b]] = b
          BY <1>14, <1>15, <5>1, <5>2
        <5> QED
          BY <1>6, <1>7, <3>3, <3>5, <4>3, <5>1, <5>3 DEF Found
      <4>4. CASE kd[b] = "kids"
        <5>1. b \in Ids /\ no[b] \in 1 .. p /\ n.kids[no[b]] = b
          BY <1>5, <1>10, <3>2, <3>5, <4>4 DEF Found
        <5>2. no[b] \in DOMAIN m.kids /\ m.kids[no[b]] = b
          BY <1>13, <5>1
        <5> QED
          BY <1>6, <1>7, <3>3, <3>5, <4>4, <5>1, <5>2 DEF Found
      <4> QED
        BY <3>5, <4>1, <4>2, <4>3, <4>4 DEF Fields
    <3>6. CASE kd[b] = "node"
      <4>1. b \in Ids /\ ix[b] \in 1 .. l /\ no[b] = 0 /\ stack[ix[b]].node = b
        BY <1>2, <3>2, <3>6 DEF Found
      <4>2. ix[b] \in DOMAIN stack' /\ stack'[ix[b]].node = b
        BY <1>8, <4>1
      <4> QED
        BY <1>7, <3>3, <3>6, <4>1, <4>2 DEF Found
    <3>7. CASE kd[b] = "key"
      <4>1. b \notin Ids /\ ix[b] \in 1 .. l /\ no[b] = 0 /\ stack[ix[b]].key = b
        BY <1>2, <3>2, <3>7 DEF Found
      <4>2. ix[b] # l
        BY <1>4, <2>4, <4>1
      <4>3. ix[b] \in DOMAIN stack' /\ stack'[ix[b]].key = b
        BY <1>8, <4>1, <4>2
      <4> QED
        BY <1>7, <3>3, <3>7, <4>1, <4>3 DEF Found
    <3>8. kd[b] # "ret"
      BY <2>4, <3>2 DEF Found
    <3> QED
      BY <3>2, <3>4, <3>5, <3>6, <3>7, <3>8 DEF Found, Fields
  <2> QED
    BY <2>1, <2>2, <2>3, <2>4
<1>29. ASSUME NEW i \in Ids' PROVE NodeOwns(kd2, ix2, no2, node[i], i)'
  <2>1. CASE i # x
    <3>1. NodeOwns(kd, ix, no, node[i], i) /\ node'[i] = node[i]
      BY <1>1, <1>7, <2>1 DEF OwnedBy
    <3>2. \A b, f, k : f \in Fields /\ Owner(kd, ix, no, b, f, i, k) => Owner(kd2, ix2, no2, b, f, i, k)'
      BY <1>27, <2>1 DEF Fields
    <3> QED
      BY <3>1, <3>2 DEF NodeOwns, Fields
  <2>2. CASE i = x
    <3>1. NodeOwns(kd, ix, no, n, x)
      BY <1>1, <1>5 DEF OwnedBy
    <3>2. \A b, f, k : f \in {"str", "names", "kids"} /\ Owner(kd, ix, no, b, f, x, k)
                         => Owner(kd2, ix2, no2, b, f, x, k)'
      BY <1>27
    <3>3. m.str # NULL => Owner(kd2, ix2, no2, m.str, "str", x, 0)'
      BY <1>7, <3>1, <3>2 DEF NodeOwns
    <3>4. /\ K # NULL => Owner(kd2, ix2, no2, K, "keys", x, 0)'
          /\ Owner(kd2, ix2, no2, V, "vals", x, 0)'
          /\ Owner(kd2, ix2, no2, ret, "kids", x, p + 1)'
          /\ c # NULL => Owner(kd2, ix2, no2, c, "names", x, q + 1)'
      BY <1>8, <1>25, <1>26 DEF Owner
    <3>5. ASSUME NEW k \in DOMAIN m.kids PROVE Owner(kd2, ix2, no2, m.kids[k], "kids", x, k)'
      <4>1. CASE k = p + 1
        BY <1>8, <1>13, <3>4, <4>1
      <4>2. CASE k # p + 1
        <5>1. k \in 1 .. p /\ k \in DOMAIN n.kids /\ m.kids[k] = n.kids[k]
          BY <1>10, <1>13, <4>2
        <5> QED
          BY <3>1, <3>2, <5>1 DEF NodeOwns
      <4> QED
        BY <4>1, <4>2
    <3>6. ASSUME NEW k \in DOMAIN m.names PROVE Owner(kd2, ix2, no2, m.names[k], "names", x, k)'
      <4>1. n.type = "OBJECT"
        <5>1. SUFFICES ASSUME n.type = "ARRAY" PROVE FALSE
          BY <1>11
        <5>2. q = 0 /\ k \in 1 .. q
          BY <1>7, <1>12, <1>14, <5>1
        <5> QED
          BY <5>2
      <4>2. CASE k = q + 1
        BY <1>11, <1>15, <3>4, <4>1, <4>2
      <4>3. CASE k # q + 1
        <5>1. k \in 1 .. q /\ k \in DOMAIN n.names /\ m.names[k] = n.names[k]
          <6>1. DOMAIN m.names = 1 .. q + 1 /\ \A j \in 1 .. q : m.names[j] = n.names[j]
            BY <1>15, <4>1
          <6>2. k \in 1 .. q
            BY <4>3, <6>1
          <6> QED
            BY <1>14, <6>1, <6>2
        <5> QED
          BY <3>1, <3>2, <5>1 DEF NodeOwns
      <4> QED
        BY <4>2, <4>3
    <3>7. NodeOwns(kd2, ix2, no2, m, x)'
      BY <1>7, <3>3, <3>4, <3>5, <3>6 DEF NodeOwns
    <3> QED
      BY <1>6, <2>2, <3>7
  <2> QED
    BY <2>1, <2>2
<1>30. ASSUME NEW k \in DOMAIN stack'
       PROVE  /\ Owner(kd2, ix2, no2, stack[k].node, "node", k, 0)'
              /\ stack'[k].key # NULL => Owner(kd2, ix2, no2, stack[k].key, "key", k, 0)'
  <2>1. /\ k \in 1 .. l
        /\ Owner(kd, ix, no, stack[k].node, "node", k, 0)
        /\ stack[k].key # NULL => Owner(kd, ix, no, stack[k].key, "key", k, 0)
    BY <1>1, <1>2, <1>8 DEF OwnedBy
  <2>2. PICK y : y = stack'[k].node /\ y = stack[k].node
    BY <1>8, <2>1
  <2>3. Owner(kd2, ix2, no2, y, "node", k, 0)'
    BY <1>27, <2>1, <2>2
  <2>4. Owner(kd2, ix2, no2, stack[k].node, "node", k, 0)'
    BY <2>2, <2>3 DEF Owner
  <2>5. CASE k = l
    BY <1>8, <2>4, <2>5
  <2>6. CASE k # l
    <3>1. PICK z : z = stack'[k].key /\ z = stack[k].key
      BY <1>8, <2>1, <2>6
    <3>2. z # NULL => Owner(kd2, ix2, no2, z, "key", k, 0)'
      BY <1>27, <2>1, <2>6, <3>1
    <3>3. stack'[k].key # NULL => Owner(kd2, ix2, no2, stack[k].key, "key", k, 0)'
      BY <3>1, <3>2 DEF Owner
    <3> QED
      BY <2>4, <3>3
  <2> QED
    BY <2>5, <2>6
<1>31. OwnedBy(kd2, ix2, no2)'
  BY <1>8, <1>28, <1>29, <1>30 DEF OwnedBy
<1> QED
  BY <1>8, <1>17, <1>18, <1>19, <1>31 DEF Owned

-----------------------------------------------------------------------------
(* Every step keeps the invariant.                                         *)

(* Counting one more, and what is not more.                                *)
LEMMA OneMore ==
  ASSUME NEW n \in Nat, NEW m \in Nat
  PROVE  /\ ~(n > m) => n <= m
         /\ n <= m => n + 1 <= m + 1
         /\ n < m => ~(n + 1 > m)
  OBVIOUS

(* A token is read: past the last one there is only the end, and what read *)
(* it is over then.                                                        *)
LEMMA ReadInv ==
  ASSUME ReadBounded, NEW t \in Terminals, Read(t), pc \notin {"done", "freed"},
         ~(pc = "return" /\ ret = NULL),
         t # "EOF" \/ pc' = "done" \/ (pc' = "return" /\ ret' = NULL)
  PROVE  ReadBounded'
<1>1. MaxTokens \in Nat /\ t # ""
  BY JsonAssumption DEF Terminals
<1>2. look' = "" /\ read' = Append(read, t) /\ read \in Seq(Terminals)
  BY DEF Read, ReadBounded
<1>3. PICK A : A = Terminals
  OBVIOUS
<1>4. PICK s \in Seq(A) : s = read /\ read' = Append(s, t) /\ t \in A
  BY <1>2, <1>3, Zenon
<1>5. PICK n \in Nat : n = Len(s)
  <2>1. Len(s) \in Nat
    OBVIOUS
  <2> QED
    BY <2>1, Zenon
<1>6. PICK r \in Seq(A) : r = read' /\ Len(r) = n + 1
  <2>1. Append(s, t) \in Seq(A) /\ Len(Append(s, t)) = n + 1
    BY <1>4, <1>5
  <2> QED
    BY <1>4, <2>1, Zenon
<1>7. n <= MaxTokens
  <2>1. n \in Nat /\ n = Len(read)
    BY <1>4, <1>5, Zenon
  <2>2. Len(read) > MaxTokens => pc \in {"done", "freed"} \/ (pc = "return" /\ ret = NULL)
    BY Zenon DEF ReadBounded
  <2>3. ~(n > MaxTokens)
    BY <2>1, <2>2, Zenon
  <2> QED
    BY <1>1, <2>3, OneMore, Zenon
<1>8. t = "EOF" \/ n < MaxTokens
  <2>1. look = t \/ t = "EOF" \/ Len(read) < MaxTokens
    BY Zenon DEF Read, Token
  <2>2. t \notin {"", "EOF"} /\ look = t => Len(read) < MaxTokens
    BY Zenon DEF ReadBounded
  <2>3. Len(read) = n
    BY <1>4, <1>5, Zenon
  <2> QED
    BY <1>1, <2>1, <2>2, <2>3
<1>9. Len(read') = n + 1 /\ read' \in Seq(Terminals) /\ look' \in {""}
  BY <1>2, <1>3, <1>6, Zenon
<1>10. n + 1 <= MaxTokens + 1 /\ (n + 1 > MaxTokens => t = "EOF")
  BY <1>1, <1>7, <1>8, OneMore, Zenon
<1>11. Len(read') <= MaxTokens + 1 /\ (Len(read') > MaxTokens => t = "EOF")
  BY <1>9, <1>10, Zenon
<1>12. look' \in Terminals \cup {""} /\ (look' \notin {"", "EOF"} => Len(read') < MaxTokens)
  BY <1>2
<1>13. Len(read') > MaxTokens => pc' \in {"done", "freed"} \/ (pc' = "return" /\ ret' = NULL)
  BY <1>11
<1> QED
  BY <1>9, <1>11, <1>12, <1>13, Zenon DEF ReadBounded

(* Nothing is read, and if all is read the parse is still over.            *)
LEMMA NoReadInv ==
  ASSUME ReadBounded, look' = look, read' = read,
         pc \in {"done", "freed"} \/ (pc = "return" /\ ret = NULL)
           => pc' \in {"done", "freed"} \/ (pc' = "return" /\ ret' = NULL)
  PROVE  ReadBounded'
  BY DEF ReadBounded

(* The tokens of a text are terminals.                                     *)
LEMMA TokensAre == Tokens \cup {"EOF"} \subseteq Terminals
  BY JsonAssumption DEF Terminals

(* A call that holds nothing gives up.                                     *)
LEMMA FailInv ==
  ASSUME Forest, pc = "value", Fail, oom' \in BOOLEAN
  PROVE  Forest' /\ pc' = "return" /\ ret' = NULL /\ status' = status
<1> USE DEF Forest
<1>1. /\ heap' = heap /\ fresh' = fresh /\ node' = node /\ stack' = stack /\ status' = status
      /\ pc' = "return" /\ ret' = NULL /\ Ids' = Ids
  BY DEF Fail, Return, Ids
<1>2. Typed'
  BY <1>1 DEF Typed
<1>3. Shaped'
  BY <1>1 DEF Shaped, ShapedNode
<1>4. Stacked'
  BY <1>1 DEF Stacked
<1>5. PICK kd, ix, no : OwnedBy(kd, ix, no)
  BY DEF Owned
<1>6. \A b \in heap : Found(kd, ix, no, b)'
  BY <1>1, <1>5 DEF OwnedBy, Found
<1>7. OwnedBy(kd, ix, no)'
  BY <1>1, <1>5, <1>6 DEF OwnedBy, NodeOwns, Owner
<1> QED
  BY <1>1, <1>2, <1>3, <1>4, <1>7 DEF Owned

\* What is done next after a bracket, a colon or a comma.
Goes == \/ pc' = "value" /\ (pc = "colon" \/ IsArray)
        \/ pc' = "key" /\ pc # "colon" /\ ~IsArray

(* Only what is done next changes.                                         *)
LEMMA MoveInv ==
  ASSUME Forest, stack # <<>>, pc \in {"first", "colon", "after"}, Goes,
         heap' = heap, fresh' = fresh, node' = node, stack' = stack, ret' = ret,
         oom' = oom, status' = status
  PROVE  Forest'
<1> USE DEF Forest, Goes
<1>1. Ids' = Ids
  BY DEF Ids
<1>2. Typed'
  BY <1>1 DEF Typed
<1>3. Shaped'
  BY <1>1 DEF Shaped, ShapedNode
<1>4. Stacked'
  <2>1. PICK l \in Nat : /\ l = Len(stack) /\ l > 0 /\ l \in DOMAIN stack
                         /\ DOMAIN stack = 1 .. l /\ Top = stack[l]
    BY TopIs
  <2>2. node[stack[l].node].type \in {"ARRAY", "OBJECT"}
    BY <2>1 DEF Stacked
  <2>3. IsArray <=> node[stack[l].node].type = "ARRAY"
    BY <2>1 DEF IsArray
  <2>4. ASSUME NEW k \in DOMAIN stack
        PROVE  /\ stack[k].node \in Ids /\ node[stack[k].node].type \in {"ARRAY", "OBJECT"}
               /\ stack[k].key # NULL <=> /\ node[stack[k].node].type = "OBJECT"
                                          /\ k < l \/ pc' \in {"colon", "value", "return"}
               /\ k > 1 => stack[k - 1].node < stack[k].node
    <3>1. CASE k = l
      <4>1. pc = "colon" => node[stack[l].node].type = "OBJECT"
        BY <2>1 DEF Stacked
      <4> QED
        BY <2>1, <2>2, <2>3, <3>1, <4>1 DEF Stacked
    <3>2. CASE k # l
      <4>1. k < l
        BY <2>1, <3>2
      <4> QED
        BY <2>1, <4>1 DEF Stacked
    <3> QED
      BY <3>1, <3>2
  <2>5. pc' = "key" => node[stack[l].node].type = "OBJECT"
    BY <2>2, <2>3
  <2> QED
    BY <1>1, <2>1, <2>4, <2>5 DEF Stacked
<1>5. PICK kd, ix, no : OwnedBy(kd, ix, no)
  BY DEF Owned
<1>6. \A b \in heap : Found(kd, ix, no, b)'
  BY <1>1, <1>5 DEF OwnedBy, Found
<1>7. OwnedBy(kd, ix, no)'
  BY <1>1, <1>5, <1>6 DEF OwnedBy, NodeOwns, Owner
<1> QED
  BY <1>2, <1>3, <1>4, <1>7 DEF Owned

(* parse_value.                                                            *)
LEMMA ParseValueInv ==
  ASSUME JsonInv, parse_value
  PROVE  JsonInv'
<1>1. pc = "value" /\ status = "running" /\ Forest /\ ReadBounded
  BY DEF parse_value, At, JsonInv, Forest
<1>2. SUFFICES Forest' /\ ReadBounded' /\ status' = "running"
  BY DEF JsonInv, Forest, Faultless
<1>3. oom \in BOOLEAN /\ {"N", "S", "[", "{", "EOF", "]", "}", ",", ":", "Q", "X"} \subseteq Terminals
  BY <1>1 DEF Forest, Typed, Terminals
<1>4. ASSUME NEW t \in Terminals, Read(t), Fail, oom' \in BOOLEAN
      PROVE  Forest' /\ ReadBounded' /\ status' = "running"
  <2>1. Forest' /\ pc' = "return" /\ ret' = NULL /\ status' = status
    BY <1>1, <1>4, FailInv
  <2> QED
    BY <1>1, <1>4, <2>1, ReadInv
<1>5. CASE parse_null_bool_number
  <2>1. Read("N") /\ "N" # "EOF"
    BY <1>5 DEF parse_null_bool_number
  <2>2. CASE create_node(Leaf("SCALAR", NULL)) /\ Return(fresh) /\ UNCHANGED <<stack, oom, status>>
    <3>1. Forest'
      BY <1>1, <2>2, ScalarInv
    <3>2. ReadBounded'
      BY <1>1, <1>3, <2>1, ReadInv
    <3> QED
      BY <1>1, <2>2, <3>1, <3>2
  <2>3. CASE Fail /\ oom' = TRUE
    BY <1>3, <1>4, <2>1, <2>3
  <2> QED
    BY <1>5, <2>2, <2>3 DEF parse_null_bool_number
<1>6. CASE parse_string
  <2>1. Read("S") /\ "S" # "EOF"
    BY <1>6 DEF parse_string
  <2>2. CASE /\ heap' = heap \cup {fresh, fresh + 1} /\ fresh' = fresh + 2
             /\ node' = [i \in DOMAIN node \cup {fresh + 1} |->
                           IF i = fresh + 1 THEN Leaf("STRING", fresh) ELSE node[i]]
             /\ Return(fresh + 1) /\ UNCHANGED <<stack, oom, status>>
    <3>1. Forest'
      BY <1>1, <2>2, StringInv
    <3>2. ReadBounded'
      BY <1>1, <1>3, <2>1, ReadInv
    <3> QED
      BY <1>1, <2>2, <3>1, <3>2
  <2>3. CASE Fail /\ oom' = TRUE
    BY <1>3, <1>4, <2>1, <2>3
  <2> QED
    BY <1>6, <2>2, <2>3 DEF parse_string
<1>7. ASSUME NEW t \in {"[", "{"}, NEW type \in {"ARRAY", "OBJECT"}, parse_open(t, type)
      PROVE  Forest' /\ ReadBounded' /\ status' = "running"
  <2>1. Read(t) /\ t # "EOF" /\ t \in Terminals
    BY <1>3, <1>7 DEF parse_open
  <2>2. CASE /\ create_node(Leaf(type, NULL))
             /\ stack' = Append(stack, [node |-> fresh, key |-> NULL])
             /\ pc' = "first" /\ UNCHANGED <<ret, oom, status>>
    <3>1. Forest'
      BY <1>1, <2>2, OpenInv
    <3>2. ReadBounded'
      BY <1>1, <2>1, ReadInv
    <3> QED
      BY <1>1, <2>2, <3>1, <3>2
  <2>3. CASE Fail /\ oom' = TRUE
    BY <1>4, <2>1, <2>3
  <2> QED
    BY <1>7, <2>2, <2>3 DEF parse_open
<1>8. CASE /\ \E t \in {"EOF", "]", "}", ",", ":", "Q", "X"} : Read(t)
           /\ Fail /\ UNCHANGED oom
  <2>1. PICK t \in {"EOF", "]", "}", ",", ":", "Q", "X"} : Read(t)
    BY <1>8
  <2> QED
    BY <1>3, <1>4, <1>8, <2>1
<1> QED
  BY <1>5, <1>6, <1>7, <1>8 DEF parse_value

(* What the call on top of the stack holds besides its node.               *)
LEMMA KeyHeld ==
  ASSUME Forest, stack # <<>>, NEW kd, NEW ix, NEW no, OwnedBy(kd, ix, no)
  PROVE  /\ Top.node \in Ids /\ node[Top.node].type \in {"ARRAY", "OBJECT"}
         /\ IsArray <=> node[Top.node].type = "ARRAY"
         /\ Top.key # NULL => Cut(kd, ix, {Top.key}, {Top.key})
         /\ pc \in {"first", "key", "after"} => Top.key = NULL
         /\ pc = "colon" => Top.key # NULL
         /\ pc = "return" => (Top.key = NULL <=> IsArray)
<1> USE DEF Forest
<1>1. PICK l \in Nat : /\ l = Len(stack) /\ l > 0 /\ l \in DOMAIN stack
                       /\ DOMAIN stack = 1 .. l /\ Top = stack[l]
  BY TopIs
<1>2. PICK x : x = stack[l].node /\ x = Top.node
  BY <1>1
<1>3. PICK c : c = stack[l].key /\ c = Top.key
  BY <1>1
<1>4. /\ x \in Ids /\ node[x].type \in {"ARRAY", "OBJECT"}
      /\ c # NULL <=> node[x].type = "OBJECT" /\ pc \in {"colon", "value", "return"}
      /\ pc = "colon" => node[x].type = "OBJECT"
  BY <1>1, <1>2, <1>3 DEF Stacked
<1>5. IsArray <=> node[x].type = "ARRAY"
  BY <1>2 DEF IsArray
<1>6. ASSUME c # NULL PROVE Cut(kd, ix, {c}, {c})
  <2>1. c \in heap /\ kd[c] = "key"
    BY <1>1, <1>3, <1>6 DEF OwnedBy, Owner
  <2>2. c \notin Ids
    BY <2>1 DEF OwnedBy, Found
  <2> QED
    BY <2>1, <2>2, CutOne
<1> QED
  BY <1>2, <1>3, <1>4, <1>5, <1>6

\* A call gives up: extra is what it holds besides its node, its key and the value
\* that was returned to it, and all that goes besides that is in the node.
GivesUp(extra, gone) ==
  /\ Abandon(gone) /\ fresh' = fresh /\ oom' \in BOOLEAN
  /\ extra = (({Top.key} \ {NULL}) \cup IF pc = "return" /\ ret # NULL THEN Tree[ret] ELSE {})
  /\ extra \subseteq gone /\ gone \ extra \subseteq Tree[Top.node]
  /\ gone = extra \/ RegrowFails

(* A call that gives up, whatever it holds.                                *)
LEMMA AbandonStep ==
  ASSUME JsonInv, stack # <<>>, NEW extra, NEW gone, GivesUp(extra, gone), ReadBounded'
  PROVE  JsonInv'
<1> USE DEF GivesUp
<1>1. Forest
  BY DEF JsonInv, Forest
<1>2. PICK kd, ix, no : OwnedBy(kd, ix, no)
  BY DEF JsonInv, Owned
<1>3. PICK C : C = {Top.key} \ {NULL}
  OBVIOUS
<1>4. Cut(kd, ix, C, C)
  <2>1. CASE Top.key = NULL
    <3>1. C = {}
      BY <1>3, <2>1
    <3> QED
      BY <3>1, CutNone
  <2>2. CASE Top.key # NULL
    <3>1. C = {Top.key}
      BY <1>3, <2>2
    <3>2. Cut(kd, ix, {Top.key}, {Top.key})
      BY <1>1, <1>2, <2>2, KeyHeld
    <3> QED
      BY <3>1, <3>2
  <2> QED
    BY <2>1, <2>2
<1>5. PICK S : S = IF pc = "return" /\ ret # NULL THEN {ret} ELSE {}
  OBVIOUS
<1>6. PICK T : T = IF pc = "return" /\ ret # NULL THEN Tree[ret] ELSE {}
  OBVIOUS
<1>7. Cut(kd, ix, T, S)
  <2>1. CASE pc = "return" /\ ret # NULL
    <3>1. ret \in Ids /\ Typed /\ Shaped
      BY <1>1, <2>1 DEF Forest, Typed
    <3>2. Cut(kd, ix, Tree[ret], {ret})
      BY <1>2, <3>1, TreeCut
    <3> QED
      BY <1>5, <1>6, <2>1, <3>2
  <2>2. CASE ~(pc = "return" /\ ret # NULL)
    <3>1. S = {} /\ T = {}
      BY <1>5, <1>6, <2>2
    <3> QED
      BY <3>1, CutNone
  <2> QED
    BY <2>1, <2>2
<1>8. PICK R : R = C \cup S
  OBVIOUS
<1>9. extra = C \cup T
  BY <1>3, <1>6
<1>10. Cut(kd, ix, extra, R)
  BY <1>4, <1>7, <1>8, <1>9, CutBoth
<1>11. PICK other : other = gone \ extra
  OBVIOUS
<1>12. gone = extra \cup other /\ other \subseteq Tree[Top.node] /\ (other = {} \/ RegrowFails)
  BY <1>11
<1>13. \A b \in R : b # NULL /\ (b = Top.key \/ (pc = "return" /\ b = ret))
  BY <1>3, <1>5, <1>8
<1>14. /\ Top.key # NULL => Top.key \in R
       /\ pc = "return" /\ ret # NULL => ret \in R
  BY <1>3, <1>5, <1>8
<1>15. /\ Forest' /\ pc' = "return" /\ ret' = NULL
       /\ other = {} => status' = "running"
  BY <1>1, <1>2, <1>10, <1>12, <1>13, <1>14, AbandonInv
<1>16. Faultless'
  BY <1>12, <1>15 DEF Faultless
<1> QED
  BY <1>15, <1>16 DEF JsonInv, Forest

(* parse_array and parse_object, at the look at what follows the bracket.  *)
LEMMA ParseFirstInv ==
  ASSUME JsonInv, parse_first
  PROVE  JsonInv'
<1>1. pc = "first" /\ status = "running" /\ Forest /\ ReadBounded /\ stack # <<>>
  BY DEF parse_first, At, JsonInv, Forest, Stacked
<1>2. SUFFICES Forest' /\ ReadBounded' /\ status' = "running"
  BY DEF JsonInv, Forest, Faultless
<1>3. CASE Read(Closing) /\ Close
  <2>1. Forest'
    BY <1>1, <1>3, CloseInv
  <2>2. Closing \in Terminals /\ Closing # "EOF"
    BY DEF Closing, Terminals
  <2>3. ReadBounded'
    BY <1>1, <1>3, <2>2, ReadInv
  <2> QED
    BY <1>1, <1>3, <2>1, <2>3 DEF Close
<1>4. CASE /\ \E t \in Tokens \cup {"EOF"} : t # Closing /\ Token(t) /\ look' = t
           /\ pc' = IF IsArray THEN "value" ELSE "key"
           /\ UNCHANGED <<heap, fresh, node, stack, ret, read, oom, status>>
  <2>1. Forest'
    <3>1. Goes
      BY <1>1, <1>4 DEF Goes
    <3> QED
      BY <1>1, <1>4, <3>1, MoveInv
  <2>2. PICK t \in Tokens \cup {"EOF"} : Token(t) /\ look' = t
    BY <1>4
  <2>3. t \in Terminals /\ t # ""
    BY <2>2, JsonAssumption DEF Terminals
  <2>4. t \notin {"", "EOF"} => Len(read) < MaxTokens
    BY <2>2, <2>3, <1>1 DEF Token, ReadBounded
  <2>5. read' = read /\ (Len(read) > MaxTokens => FALSE)
    BY <1>1, <1>4 DEF ReadBounded
  <2>6. ReadBounded'
    BY <1>1, <2>2, <2>3, <2>4, <2>5 DEF ReadBounded
  <2> QED
    BY <1>1, <1>4, <2>1, <2>6
<1> QED
  BY <1>3, <1>4 DEF parse_first

(* parse_object, at a key.                                                 *)
LEMMA ParseKeyInv ==
  ASSUME JsonInv, parse_key
  PROVE  JsonInv'
<1>1. pc = "key" /\ status = "running" /\ Forest /\ ReadBounded /\ stack # <<>> /\ oom \in BOOLEAN
  BY DEF parse_key, At, JsonInv, Forest, Stacked, Typed
<1>2. ASSUME NEW t \in Tokens \cup {"EOF", "S"}, Read(t), Abandon({}), fresh' = fresh, oom' \in BOOLEAN
      PROVE  JsonInv'
  <2>1. pc' = "return" /\ ret' = NULL
    BY <1>2 DEF Abandon, Return
  <2>2. t \in Terminals
    BY JsonAssumption DEF Terminals
  <2>3. ReadBounded'
    BY <1>1, <1>2, <2>1, <2>2, ReadInv
  <2>4. Top.key = NULL
    BY <1>1, KeyHeld DEF Forest, Owned
  <2>5. PICK e : e = {}
    OBVIOUS
  <2>6. e = (({Top.key} \ {NULL}) \cup IF pc = "return" /\ ret # NULL THEN Tree[ret] ELSE {})
    BY <1>1, <2>4, <2>5
  <2>7. Abandon(e) /\ e \subseteq e /\ e \ e \subseteq Tree[Top.node]
    BY <1>2, <2>5
  <2>8. GivesUp(e, e)
    BY <1>2, <2>6, <2>7 DEF GivesUp
  <2> QED
    BY <1>1, <2>3, <2>8, AbandonStep
<1>3. CASE /\ Read("S")
           /\ heap' = heap \cup {fresh} /\ fresh' = fresh + 1
           /\ stack' = [stack EXCEPT ![Len(stack)].key = fresh]
           /\ pc' = "colon" /\ UNCHANGED <<node, ret, oom, status>>
  <2>1. Forest'
    BY <1>1, <1>3, KeyInv
  <2>2. "S" \in Terminals /\ "S" # "EOF"
    BY DEF Terminals
  <2>3. ReadBounded'
    BY <1>1, <1>3, <2>2, ReadInv
  <2> QED
    BY <1>1, <1>3, <2>1, <2>3 DEF JsonInv, Forest, Faultless
<1>4. CASE Read("S") /\ Abandon({}) /\ oom' = TRUE /\ UNCHANGED fresh
  BY <1>2, <1>4
<1>5. CASE /\ \E t \in (Tokens \cup {"EOF"}) \ {"S"} : Read(t)
           /\ Abandon({}) /\ UNCHANGED <<fresh, oom>>
  <2>1. PICK t \in Tokens \cup {"EOF", "S"} : Read(t)
    BY <1>5
  <2> QED
    BY <1>1, <1>2, <1>5, <2>1
<1> QED
  BY <1>3, <1>4, <1>5 DEF parse_key

(* parse_object, at the colon.                                             *)
LEMMA ParseColonInv ==
  ASSUME JsonInv, parse_colon
  PROVE  JsonInv'
<1>1. pc = "colon" /\ status = "running" /\ Forest /\ ReadBounded /\ stack # <<>> /\ oom \in BOOLEAN
  BY DEF parse_colon, At, JsonInv, Forest, Stacked, Typed
<1>2. CASE /\ Read(":") /\ pc' = "value"
           /\ UNCHANGED <<heap, fresh, node, stack, ret, oom, status>>
  <2>1. Forest'
    <3>1. Goes
      BY <1>1, <1>2 DEF Goes
    <3> QED
      BY <1>1, <1>2, <3>1, MoveInv
  <2>2. ":" \in Terminals /\ ":" # "EOF"
    BY DEF Terminals
  <2>3. ReadBounded'
    BY <1>1, <1>2, <2>2, ReadInv
  <2> QED
    BY <1>1, <1>2, <2>1, <2>3 DEF JsonInv, Forest, Faultless
<1>3. CASE /\ \E t \in (Tokens \cup {"EOF"}) \ {":"} : Read(t)
           /\ Abandon({Top.key}) /\ UNCHANGED <<fresh, oom>>
  <2>1. PICK t \in Tokens \cup {"EOF"} : Read(t)
    BY <1>3
  <2>2. pc' = "return" /\ ret' = NULL
    BY <1>3 DEF Abandon, Return
  <2>3. ReadBounded'
    BY <1>1, <2>1, <2>2, TokensAre, ReadInv
  <2>4. Top.key # NULL
    BY <1>1, KeyHeld DEF Forest, Owned
  <2>5. PICK e : e = {Top.key}
    OBVIOUS
  <2>6. e = (({Top.key} \ {NULL}) \cup IF pc = "return" /\ ret # NULL THEN Tree[ret] ELSE {})
    BY <1>1, <2>4, <2>5
  <2>7. Abandon(e) /\ e \subseteq e /\ e \ e \subseteq Tree[Top.node]
    BY <1>3, <2>5
  <2>8. fresh' = fresh /\ oom' \in BOOLEAN
    BY <1>1, <1>3
  <2>9. GivesUp(e, e)
    BY <2>6, <2>7, <2>8 DEF GivesUp
  <2> QED
    BY <1>1, <2>3, <2>9, AbandonStep
<1> QED
  BY <1>2, <1>3 DEF parse_colon

(* A value was not there: its call gives up too.                           *)
LEMMA ItemFailsInv ==
  ASSUME JsonInv, item_fails
  PROVE  JsonInv'
<1>1. pc = "return" /\ ret = NULL /\ stack # <<>> /\ oom \in BOOLEAN /\ ReadBounded
  BY DEF item_fails, At, JsonInv, Typed
<1>2. PICK e : e = {Top.key} \ {NULL}
  OBVIOUS
<1>3. Abandon(e) /\ fresh' = fresh /\ oom' = oom /\ look' = look /\ read' = read
  BY <1>2 DEF item_fails, NoRead
<1>4. pc' = "return" /\ ret' = NULL
  BY <1>3 DEF Abandon, Return
<1>5. ReadBounded'
  BY <1>1, <1>3, <1>4, NoReadInv
<1>6. GivesUp(e, e)
  BY <1>1, <1>2, <1>3 DEF GivesUp
<1> QED
  BY <1>1, <1>5, <1>6, AbandonStep

(* The vectors of the node a value is stored in.                           *)
LEMMA VectorsAre ==
  ASSUME Forest, stack # <<>>, NEW n, n = node[Top.node]
  PROVE  /\ n \in Nodes /\ n.type \in {"ARRAY", "OBJECT"}
         /\ IsArray <=> n.type = "ARRAY"
         /\ n.cap \in Nat /\ Len(n.kids) \in Nat /\ Len(n.kids) <= n.cap
         /\ n.cap = 0 => n.keys = NULL /\ n.vals = NULL
         /\ n.cap > 0 => n.vals # NULL
         /\ n.type # "OBJECT" => n.keys = NULL
         /\ n.keys # NULL => n.keys \in heap /\ n.keys # n.vals
         /\ n.vals # NULL => n.vals \in heap
         /\ n.keys \in Nat /\ n.vals \in Nat
         /\ {n.keys, n.vals} \ {NULL} \subseteq Tree[Top.node]
<1> USE DEF Forest
<1>1. PICK kd, ix, no : OwnedBy(kd, ix, no)
  BY DEF Owned
<1>2. PICK x \in Ids : x = Top.node /\ n = node[x] /\ n.type \in {"ARRAY", "OBJECT"}
  BY <1>1, KeyHeld
<1>3. n \in Nodes /\ ShapedNode(n, x)
  BY <1>2 DEF Typed, Shaped
<1>4. n.kids \in Seq(Nat) /\ n.cap \in Nat /\ n.keys \in Nat /\ n.vals \in Nat
  BY <1>3 DEF Nodes
<1>5. Len(n.kids) \in Nat
  BY <1>4
<1>6. NodeOwns(kd, ix, no, n, x)
  BY <1>1, <1>2 DEF OwnedBy
<1>7. /\ n.keys # NULL => n.keys \in heap /\ kd[n.keys] = "keys"
      /\ n.vals # NULL => n.vals \in heap /\ kd[n.vals] = "vals"
  BY <1>6 DEF NodeOwns, Owner
<1>8. n.keys # NULL => n.keys # n.vals
  BY <1>7
<1>9. {n.keys, n.vals} \ {NULL} \subseteq Tree[x]
  BY <1>2, TreeIs DEF Self
<1>10. IsArray <=> n.type = "ARRAY"
  BY <1>2 DEF IsArray
<1> QED
  BY <1>2, <1>3, <1>4, <1>5, <1>7, <1>8, <1>9, <1>10 DEF ShapedNode

(* There is room: the value is stored.                                     *)
LEMMA StoreItemInv ==
  ASSUME JsonInv, store_item
  PROVE  JsonInv'
<1>1. /\ pc = "return" /\ ret # NULL /\ stack # <<>> /\ status = "running" /\ ~Full
      /\ heap' = heap /\ fresh' = fresh
  BY DEF store_item, At
<1>2. Forest /\ ReadBounded
  BY DEF JsonInv, Forest
<1>3. PICK n : n = node[Top.node]
  OBVIOUS
<1>4. /\ n \in Nodes /\ n.type \in {"ARRAY", "OBJECT"}
      /\ n.cap \in Nat /\ Len(n.kids) \in Nat
      /\ n.cap > 0 => n.vals # NULL
      /\ n.type # "OBJECT" => n.keys = NULL
      /\ n.keys # NULL => n.keys \in heap /\ n.keys # n.vals
      /\ n.vals # NULL => n.vals \in heap
      /\ n.keys \in Nat /\ n.vals \in Nat
  BY <1>1, <1>2, <1>3, VectorsAre
<1>5. Len(n.kids) < n.cap
  <2>1. ~(Len(n.kids) >= n.cap)
    BY <1>1, <1>3 DEF Full
  <2> QED
    BY <1>4, <2>1
<1>6. n.vals # NULL /\ n.keys # n.vals
  <2>1. n.cap > 0
    BY <1>4, <1>5
  <2> QED
    BY <1>4, <2>1
<1>7. Store(n.keys, n.vals, n.cap)
  BY <1>3 DEF store_item
<1>8. \A b \in heap : b < fresh /\ b \in Nat
  BY <1>2, FreshIs DEF Forest
<1>9. fresh \in Nat /\ fresh > 0
  BY <1>2 DEF Forest, Typed
<1>10. Vectors(n, n.keys, n.vals, n.cap)
  <2>1. n.vals < fresh' /\ n.keys < fresh'
    BY <1>1, <1>4, <1>6, <1>8, <1>9 DEF NULL
  <2>2. heap' = (heap \ {n.keys, n.vals}) \cup ({n.keys, n.vals} \ {NULL})
    <3>1. NULL \notin heap
      BY <1>2, FreshIs DEF Forest, NULL
    <3> QED
      BY <1>1, <1>4, <1>6, <3>1
  <2>3. fresh' \in Nat /\ fresh <= fresh'
    BY <1>1, <1>9
  <2> QED
    BY <1>4, <1>5, <1>6, <2>1, <2>2, <2>3 DEF Vectors
<1>11. Forest' /\ pc' = "after" /\ status' = status
  BY <1>1, <1>2, <1>3, <1>4, <1>7, <1>10, StoreInv
<1>12. look' = look /\ read' = read
  BY <1>7 DEF Store, NoRead
<1>13. ReadBounded'
  BY <1>1, <1>2, <1>12, NoReadInv
<1> QED
  BY <1>1, <1>11, <1>13 DEF JsonInv, Forest, Faultless

(* The vectors have grown, and perhaps moved: the value is stored.         *)
LEMMA GrowOkInv ==
  ASSUME JsonInv, grow_ok
  PROVE  JsonInv'
<1>1. /\ pc = "return" /\ ret # NULL /\ stack # <<>> /\ status = "running" /\ Full
      /\ fresh' = fresh + 2
  BY DEF grow_ok, At
<1>2. Forest /\ ReadBounded
  BY DEF JsonInv, Forest
<1>3. PICK n : n = node[Top.node]
  OBVIOUS
<1>4. /\ n \in Nodes /\ n.type \in {"ARRAY", "OBJECT"} /\ (IsArray <=> n.type = "ARRAY")
      /\ n.cap \in Nat /\ Len(n.kids) \in Nat /\ Len(n.kids) <= n.cap
      /\ n.keys # NULL => n.keys \in heap /\ n.keys # n.vals
      /\ n.vals # NULL => n.vals \in heap
      /\ n.keys \in Nat /\ n.vals \in Nat
  BY <1>1, <1>2, <1>3, VectorsAre
<1>5. PICK cap : cap = NewCap
  OBVIOUS
<1>6. cap \in Nat /\ Len(n.kids) < cap
  <2>1. cap = IF n.cap = 0 THEN FirstCap ELSE 2 * n.cap
    BY <1>3, <1>5 DEF NewCap
  <2>2. FirstCap \in Nat /\ FirstCap > 0
    <3>1. FirstCap \in Nat \ {0}
      BY JsonAssumption, Zenon
    <3> QED
      BY <3>1
  <2> QED
    BY <1>4, <2>1, <2>2
<1>7. PICK V \in Moved(n.vals, fresh), K \in IF IsArray THEN {NULL} ELSE Moved(n.keys, fresh + 1) :
        /\ Store(K, V, cap)
        /\ heap' = (heap \ {n.keys, n.vals}) \cup ({K, V} \ {NULL})
  BY <1>3, <1>5 DEF grow_ok
<1>8. /\ fresh \in Nat /\ fresh > 0 /\ fresh # NULL
      /\ \A b \in heap : b \in Nat /\ 0 < b /\ b < fresh
  BY <1>2, FreshIs DEF Forest
<1>9. V # NULL /\ (V = n.vals \/ V = fresh)
  BY <1>7 DEF Moved
<1>10. /\ n.type = "ARRAY" => K = NULL
       /\ K = NULL \/ K = n.keys \/ K = fresh + 1
  BY <1>4, <1>7 DEF Moved
<1>11. K \in Nat /\ V \in Nat
  BY <1>4, <1>8, <1>9, <1>10 DEF NULL
<1>12. K # V
  <2>1. CASE K = NULL
    BY <1>9, <2>1
  <2>2. CASE K = n.keys /\ K # NULL
    BY <1>4, <1>8, <1>9, <2>2
  <2>3. CASE K = fresh + 1
    BY <1>4, <1>8, <1>9, <2>3
  <2> QED
    BY <1>10, <2>1, <2>2, <2>3
<1>13. V < fresh' /\ (V = n.vals \/ V \notin heap)
  BY <1>1, <1>4, <1>8, <1>9
<1>14. K < fresh' /\ (K = NULL \/ K = n.keys \/ K \notin heap)
  <2>1. CASE K = NULL
    BY <1>1, <1>8, <2>1 DEF NULL
  <2>2. CASE K = n.keys /\ K # NULL
    BY <1>1, <1>4, <1>8, <2>2
  <2>3. CASE K = fresh + 1
    BY <1>1, <1>8, <2>3
  <2> QED
    BY <1>10, <2>1, <2>2, <2>3
<1>15. Vectors(n, K, V, cap)
  <2>1. fresh' \in Nat /\ fresh <= fresh'
    BY <1>1, <1>8
  <2> QED
    BY <1>6, <1>7, <1>9, <1>10, <1>11, <1>12, <1>13, <1>14, <2>1 DEF Vectors
<1>16. Forest' /\ pc' = "after" /\ status' = status
  BY <1>1, <1>2, <1>3, <1>6, <1>7, <1>11, <1>15, StoreInv
<1>17. look' = look /\ read' = read
  BY <1>7 DEF Store, NoRead
<1>18. ReadBounded'
  BY <1>1, <1>2, <1>17, NoReadInv
<1> QED
  BY <1>1, <1>16, <1>18 DEF JsonInv, Forest, Faultless

(* The vector of an array does not grow: the value goes with the array.    *)
LEMMA GrowArrayFailsInv ==
  ASSUME JsonInv, grow_array_fails
  PROVE  JsonInv'
<1>1. pc = "return" /\ ret # NULL /\ stack # <<>> /\ IsArray /\ ReadBounded /\ Forest
  BY DEF grow_array_fails, At, JsonInv, Forest
<1>2. PICK e : e = Tree[ret]
  OBVIOUS
<1>3. Abandon(e) /\ fresh' = fresh /\ oom' = TRUE /\ look' = look /\ read' = read
  BY <1>2 DEF grow_array_fails, NoRead
<1>4. ReadBounded'
  BY <1>1, <1>3, NoReadInv
<1>5. Top.key = NULL
  BY <1>1, KeyHeld DEF Forest, Owned
<1>6. GivesUp(e, e)
  BY <1>1, <1>2, <1>3, <1>5 DEF GivesUp
<1> QED
  BY <1>1, <1>4, <1>6, AbandonStep

(* A vector of an object does not grow: the key and the value go with it.  *)
LEMMA GrowObjectFailsInv ==
  ASSUME JsonInv, grow_object_fails
  PROVE  JsonInv'
<1>1. pc = "return" /\ ret # NULL /\ stack # <<>> /\ ~IsArray /\ ReadBounded /\ Forest
  BY DEF grow_object_fails, At, JsonInv, Forest
<1>2. PICK n : n = node[Top.node]
  OBVIOUS
<1>3. PICK other \in {{}, {n.keys}, {n.vals}} : Abandon({Top.key} \cup Tree[ret] \cup (other \ {NULL}))
  BY <1>2 DEF grow_object_fails
<1>4. /\ fresh' = fresh /\ oom' = TRUE /\ look' = look /\ read' = read
      /\ n.cap > 0 => RegrowFails
  BY <1>2 DEF grow_object_fails, NoRead
<1>5. Top.key # NULL
  BY <1>1, KeyHeld DEF Forest, Owned
<1>6. PICK extra : extra = {Top.key} \cup Tree[ret]
  OBVIOUS
<1>7. PICK gone : gone = {Top.key} \cup Tree[ret] \cup (other \ {NULL})
  OBVIOUS
<1>8. /\ n.cap \in Nat /\ (n.cap = 0 => n.keys = NULL /\ n.vals = NULL)
      /\ {n.keys, n.vals} \ {NULL} \subseteq Tree[Top.node]
  BY <1>1, <1>2, VectorsAre
<1>9. gone = extra \/ RegrowFails
  <2>1. CASE n.cap = 0
    <3>1. other \ {NULL} = {}
      BY <1>3, <1>8, <2>1
    <3> QED
      BY <1>6, <1>7, <3>1
  <2>2. CASE n.cap # 0
    BY <1>4, <1>8, <2>2
  <2> QED
    BY <2>1, <2>2
<1>10. extra \subseteq gone /\ gone \ extra \subseteq Tree[Top.node]
  BY <1>3, <1>6, <1>7, <1>8
<1>11. extra = (({Top.key} \ {NULL}) \cup IF pc = "return" /\ ret # NULL THEN Tree[ret] ELSE {})
  BY <1>1, <1>5, <1>6
<1>12. GivesUp(extra, gone)
  BY <1>3, <1>4, <1>7, <1>9, <1>10, <1>11 DEF GivesUp
<1>13. ReadBounded'
  BY <1>1, <1>4, NoReadInv
<1> QED
  BY <1>1, <1>12, <1>13, AbandonStep

(* parse_array and parse_object, after a value.                            *)
LEMMA ParseAfterInv ==
  ASSUME JsonInv, parse_after
  PROVE  JsonInv'
<1>1. pc = "after" /\ status = "running" /\ Forest /\ ReadBounded /\ stack # <<>> /\ oom \in BOOLEAN
  BY DEF parse_after, At, JsonInv, Forest, Stacked, Typed
<1>2. CASE Read(Closing) /\ Close
  <2>1. Forest'
    BY <1>1, <1>2, CloseInv
  <2>2. Closing \in Terminals /\ Closing # "EOF"
    BY DEF Closing, Terminals
  <2>3. ReadBounded'
    BY <1>1, <1>2, <2>2, ReadInv
  <2> QED
    BY <1>1, <1>2, <2>1, <2>3 DEF Close, JsonInv, Forest, Faultless
<1>3. CASE /\ Read(",")
           /\ pc' = IF IsArray THEN "value" ELSE "key"
           /\ UNCHANGED <<heap, fresh, node, stack, ret, oom, status>>
  <2>1. Forest'
    <3>1. Goes
      BY <1>1, <1>3 DEF Goes
    <3> QED
      BY <1>1, <1>3, <3>1, MoveInv
  <2>2. "," \in Terminals /\ "," # "EOF"
    BY DEF Terminals
  <2>3. ReadBounded'
    BY <1>1, <1>3, <2>2, ReadInv
  <2> QED
    BY <1>1, <1>3, <2>1, <2>3 DEF JsonInv, Forest, Faultless
<1>4. CASE /\ \E t \in (Tokens \cup {"EOF"}) \ {",", Closing} : Read(t)
           /\ Abandon({}) /\ UNCHANGED <<fresh, oom>>
  <2>1. PICK t \in Tokens \cup {"EOF"} : Read(t)
    BY <1>4
  <2>2. pc' = "return" /\ ret' = NULL
    BY <1>4 DEF Abandon, Return
  <2>3. ReadBounded'
    BY <1>1, <2>1, <2>2, TokensAre, ReadInv
  <2>4. Top.key = NULL
    BY <1>1, KeyHeld DEF Forest, Owned
  <2>5. PICK e : e = {}
    OBVIOUS
  <2>6. e = (({Top.key} \ {NULL}) \cup IF pc = "return" /\ ret # NULL THEN Tree[ret] ELSE {})
    BY <1>1, <2>4, <2>5
  <2>7. Abandon(e) /\ e \subseteq e /\ e \ e \subseteq Tree[Top.node]
    BY <1>4, <2>5
  <2>8. GivesUp(e, e)
    BY <1>1, <1>4, <2>6, <2>7 DEF GivesUp
  <2> QED
    BY <1>1, <2>3, <2>8, AbandonStep
<1> QED
  BY <1>2, <1>3, <1>4 DEF parse_after

(* The whole tree is freed.                                                *)
LEMMA TreeFreed ==
  ASSUME Forest, stack = <<>>, pc \in {"return", "done"}, ret # NULL,
         heap' = heap \ Tree[ret], node' = Without(Tree[ret]), ret' = NULL,
         pc' \in {"done", "freed"}, fresh' = fresh, stack' = stack, oom' = oom, status' = status
  PROVE  Forest'
<1> USE DEF Forest
<1>1. PICK kd, ix, no : OwnedBy(kd, ix, no)
  BY DEF Owned
<1>2. ret \in Ids /\ kd[ret] = "ret"
  BY <1>1 DEF Typed, OwnedBy, Owner
<1>3. PICK G : G = Tree[ret]
  OBVIOUS
<1>4. PICK R : R = {ret}
  OBVIOUS
<1>5. Cut(kd, ix, G, R)
  BY <1>1, <1>2, <1>3, <1>4, TreeCut
<1>6. DOMAIN stack = {} /\ DOMAIN stack' = {}
  OBVIOUS
<1>7. /\ Ids' = Ids \ G /\ \A i \in Ids' : node'[i] = node[i]
      /\ node' = [i \in Ids' |-> node'[i]]
      /\ Shaped' /\ OwnedBy(kd, ix, no)'
  <2>1. \A b \in R : kd[b] \notin Fields
    BY <1>2, <1>4 DEF Fields
  <2>2. ret \in R
    BY <1>4
  <2> QED
    BY <1>1, <1>3, <1>5, <1>6, <2>1, <2>2, CutOut
<1>8. Typed'
  <2>1. heap' \subseteq 1 .. fresh' - 1 /\ Ids' \subseteq heap'
    BY <1>3, <1>7 DEF Typed
  <2>2. \A i \in Ids' : node'[i] \in Nodes
    BY <1>7 DEF Typed
  <2> QED
    BY <1>7, <2>1, <2>2 DEF Typed
<1>9. Stacked'
  BY <1>6 DEF Stacked
<1> QED
  BY <1>7, <1>8, <1>9 DEF Owned

(* Nothing changes but that json_parse is over.                            *)
LEMMA OverInv ==
  ASSUME Forest, stack = <<>>, pc = "return", pc' = "done", heap' = heap, node' = node, ret' = ret,
         fresh' = fresh, stack' = stack, oom' = oom, status' = status
  PROVE  Forest'
<1> USE DEF Forest
<1>1. Ids' = Ids /\ DOMAIN stack = {} /\ DOMAIN stack' = {}
  BY DEF Ids
<1>2. Typed'
  BY <1>1 DEF Typed
<1>3. Shaped'
  BY <1>1 DEF Shaped, ShapedNode
<1>4. Stacked'
  BY <1>1 DEF Stacked
<1>5. PICK kd, ix, no : OwnedBy(kd, ix, no)
  BY DEF Owned
<1>6. \A b \in heap : Found(kd, ix, no, b)'
  BY <1>1, <1>5 DEF OwnedBy, Found
<1>7. OwnedBy(kd, ix, no)'
  BY <1>1, <1>5, <1>6 DEF OwnedBy, NodeOwns, Owner
<1> QED
  BY <1>2, <1>3, <1>4, <1>7 DEF Owned

(* The end of json_parse, and json_free.                                   *)
LEMMA EndInv ==
  ASSUME JsonInv, json_parse_end \/ json_parse_fails \/ json_free
  PROVE  JsonInv'
<1>1. Forest /\ ReadBounded
  BY DEF JsonInv, Forest
<1>2. CASE json_parse_end
  <2>1. /\ pc = "return" /\ stack = <<>> /\ pc' = "done" /\ status = "running"
        /\ fresh' = fresh /\ stack' = stack /\ oom' = oom /\ status' = status
    BY <1>2 DEF json_parse_end, At
  <2>2. PICK t \in Tokens \cup {"EOF"} :
          /\ ret # NULL /\ Read(t)
          /\ IF t = "EOF" THEN UNCHANGED <<heap, node, ret>>
             ELSE heap' = heap \ Tree[ret] /\ node' = Without(Tree[ret]) /\ ret' = NULL
    BY <1>2 DEF json_parse_end
  <2>3. ReadBounded'
    BY <1>1, <2>1, <2>2, TokensAre, ReadInv
  <2>4. CASE t = "EOF"
    <3>1. Forest'
      BY <1>1, <2>1, <2>2, <2>4, OverInv
    <3> QED
      BY <2>1, <2>3, <3>1 DEF JsonInv, Forest, Faultless
  <2>5. CASE t # "EOF"
    <3>1. Forest'
      BY <1>1, <2>1, <2>2, <2>5, TreeFreed
    <3> QED
      BY <2>1, <2>3, <3>1 DEF JsonInv, Forest, Faultless
  <2> QED
    BY <2>4, <2>5
<1>3. CASE json_parse_fails
  <2>1. /\ pc = "return" /\ stack = <<>> /\ pc' = "done" /\ ret = NULL /\ status = "running"
        /\ look' = look /\ read' = read /\ heap' = heap /\ node' = node /\ ret' = ret
        /\ fresh' = fresh /\ stack' = stack /\ oom' = oom /\ status' = status
    BY <1>3 DEF json_parse_fails, At, NoRead
  <2>2. Forest'
    BY <1>1, <2>1, OverInv
  <2>3. ReadBounded'
    BY <1>1, <2>1, NoReadInv
  <2> QED
    BY <2>1, <2>2, <2>3 DEF JsonInv, Forest, Faultless
<1>4. CASE json_free
  <2>1. /\ pc = "done" /\ pc' = "freed" /\ ret # NULL /\ status = "running"
        /\ heap' = heap \ Tree[ret] /\ node' = Without(Tree[ret]) /\ ret' = NULL
        /\ look' = look /\ read' = read
        /\ fresh' = fresh /\ stack' = stack /\ oom' = oom /\ status' = status
    BY <1>4 DEF json_free, At, NoRead
  <2>2. stack = <<>>
    BY <1>1, <2>1 DEF Forest, Stacked
  <2>3. Forest'
    BY <1>1, <2>1, <2>2, TreeFreed
  <2>4. ReadBounded'
    BY <1>1, <2>1, NoReadInv
  <2> QED
    BY <2>1, <2>3, <2>4 DEF JsonInv, Forest, Faultless
<1> QED
  BY <1>2, <1>3, <1>4

(* The invariant holds before the parse.                                   *)
LEMMA JsonStart ==
  ASSUME JsonInit
  PROVE  JsonInv
<1>1. /\ heap = {} /\ fresh = 1 /\ node = <<>> /\ stack = <<>> /\ pc = "value" /\ ret = NULL
      /\ look = "" /\ read = <<>> /\ oom = FALSE /\ status = "running"
  BY DEF JsonInit
<1>2. DOMAIN stack = {} /\ Ids = {} /\ node = [i \in Ids |-> node[i]]
  <2>1. PICK e \in Seq(Nat) : e = <<>> /\ Len(e) = 0
    <3>1. <<>> \in Seq(Nat) /\ Len(<<>>) = 0
      BY EmptySeq, Zenon
    <3> QED
      BY <3>1, Zenon
  <2>2. DOMAIN e = {}
    BY <2>1
  <2>3. PICK D : D = DOMAIN e
    OBVIOUS
  <2>4. e = [i \in D |-> e[i]]
    BY <2>3
  <2>5. node = e /\ stack = e
    BY <1>1, <2>1, Zenon
  <2>6. Ids = D /\ DOMAIN stack = D
    BY <2>3, <2>5, Zenon DEF Ids
  <2>7. node = [i \in Ids |-> node[i]]
    BY <2>4, <2>5, <2>6, Zenon
  <2> QED
    BY <2>2, <2>3, <2>6, <2>7, Zenon
<1>3. Typed
  <2>1. stack \in Seq([node : Nat, key : Nat])
    BY <1>1, EmptySeq, Zenon
  <2>2. fresh \in Nat /\ fresh > 0
    <3>1. fresh = 1
      BY <1>1, Zenon
    <3> QED
      BY <3>1
  <2>3. heap \subseteq 1 .. fresh - 1 /\ Ids \subseteq heap /\ \A i \in Ids : node[i] \in Nodes
    BY <1>1, <1>2
  <2>4. /\ pc \in {"value", "first", "key", "colon", "return", "after", "done", "freed"}
        /\ ret \in Ids \cup {NULL} /\ oom \in BOOLEAN /\ status \in {"running", "undefined"}
    BY <1>1
  <2> QED
    BY <1>2, <2>1, <2>2, <2>3, <2>4, Zenon DEF Typed
<1>4. Shaped
  BY <1>2 DEF Shaped
<1>5. Stacked
  BY <1>1, <1>2 DEF Stacked
<1>6. ReadBounded
  <2>1. MaxTokens \in Nat
    BY JsonAssumption
  <2>2. PICK A : A = Terminals
    OBVIOUS
  <2>3. read \in Seq(A) /\ Len(read) = 0
    BY <1>1, EmptySeq, Zenon
  <2>4. Len(read) <= MaxTokens + 1 /\ ~(Len(read) > MaxTokens)
    BY <2>1, <2>3
  <2>5. look = "" /\ look \in {""}
    BY <1>1
  <2> QED
    BY <2>2, <2>3, <2>4, <2>5 DEF ReadBounded
<1>7. Faultless
  BY <1>1 DEF Faultless
<1>8. OwnedBy(<<>>, <<>>, <<>>)
  BY <1>1, <1>2 DEF OwnedBy
<1>9. Owned
  BY <1>8, Zenon DEF Owned
<1> QED
  BY <1>3, <1>4, <1>5, <1>6, <1>7, <1>9 DEF JsonInv

(* A step that changes nothing.                                            *)
LEMMA JsonStutter ==
  ASSUME JsonInv, UNCHANGED jsonVars
  PROVE  JsonInv'
<1>1. /\ heap' = heap /\ fresh' = fresh /\ node' = node /\ stack' = stack /\ pc' = pc
      /\ ret' = ret /\ look' = look /\ read' = read /\ oom' = oom /\ status' = status /\ Ids' = Ids
  BY DEF jsonVars, Ids
<1>2. Typed'
  BY <1>1 DEF JsonInv, Typed
<1>3. Shaped'
  BY <1>1 DEF JsonInv, Shaped, ShapedNode
<1>4. Stacked'
  BY <1>1 DEF JsonInv, Stacked
<1>5. ReadBounded' /\ Faultless'
  BY <1>1 DEF JsonInv, ReadBounded, Faultless
<1>6. PICK kd, ix, no : OwnedBy(kd, ix, no)
  BY DEF JsonInv, Owned
<1>7. \A b \in heap : Found(kd, ix, no, b)'
  BY <1>1, <1>6 DEF OwnedBy, Found
<1>8. OwnedBy(kd, ix, no)'
  BY <1>1, <1>6, <1>7 DEF OwnedBy, NodeOwns, Owner
<1> QED
  BY <1>2, <1>3, <1>4, <1>5, <1>8 DEF JsonInv, Owned

(* The invariant is inductive.                                             *)
LEMMA JsonInductive ==
  JsonInv /\ [JsonNext]_jsonVars => JsonInv'
<1>1. SUFFICES ASSUME JsonInv, [JsonNext]_jsonVars PROVE JsonInv'
  OBVIOUS
<1>2. CASE parse_value
  BY <1>1, <1>2, ParseValueInv
<1>3. CASE parse_first
  BY <1>1, <1>3, ParseFirstInv
<1>4. CASE parse_key
  BY <1>1, <1>4, ParseKeyInv
<1>5. CASE parse_colon
  BY <1>1, <1>5, ParseColonInv
<1>6. CASE item_fails
  BY <1>1, <1>6, ItemFailsInv
<1>7. CASE store_item
  BY <1>1, <1>7, StoreItemInv
<1>8. CASE grow_ok
  BY <1>1, <1>8, GrowOkInv
<1>9. CASE grow_array_fails
  BY <1>1, <1>9, GrowArrayFailsInv
<1>10. CASE grow_object_fails
  BY <1>1, <1>10, GrowObjectFailsInv
<1>11. CASE parse_after
  BY <1>1, <1>11, ParseAfterInv
<1>12. CASE json_parse_end \/ json_parse_fails \/ json_free
  BY <1>1, <1>12, EndInv
<1>13. CASE UNCHANGED jsonVars
  BY <1>1, <1>13, JsonStutter
<1> QED
  BY <1>1, <1>2, <1>3, <1>4, <1>5, <1>6, <1>7, <1>8, <1>9, <1>10, <1>11, <1>12, <1>13 DEF JsonNext

-----------------------------------------------------------------------------
(* Results.                                                                *)

(* The types of the state.                                                 *)
LEMMA JsonTypes ==
  ASSUME JsonInv
  PROVE  JsonTypeOK
<1>1. Typed /\ Shaped /\ Stacked /\ ReadBounded
  BY DEF JsonInv
<1>2. ASSUME NEW i \in DOMAIN node
      PROVE  /\ node[i].type \in {"SCALAR", "STRING", "ARRAY", "OBJECT"}
             /\ Len(node[i].kids) <= node[i].cap
             /\ Len(node[i].names) = IF node[i].type = "OBJECT" THEN Len(node[i].kids) ELSE 0
  BY <1>1 DEF Typed, Ids, Nodes, Shaped, ShapedNode
<1>3. heap \subseteq 1 .. fresh - 1 /\ DOMAIN node \subseteq heap /\ ret \in DOMAIN node \cup {NULL}
  BY <1>1 DEF Typed, Ids
<1>4. \A k \in DOMAIN stack : stack[k].node \in DOMAIN node
  BY <1>1 DEF Stacked, Ids
<1>5. /\ pc \in {"value", "first", "key", "colon", "return", "after", "done", "freed"}
      /\ oom \in BOOLEAN /\ status \in {"running", "undefined"}
  BY <1>1 DEF Typed
<1>6. Len(read) <= MaxTokens + 1
  BY <1>1 DEF ReadBounded
<1> QED
  BY <1>2, <1>3, <1>4, <1>5, <1>6 DEF JsonTypeOK

(* The pointers to a block are its owner.                                  *)
LEMMA OnePointer ==
  ASSUME Typed, NEW kd, NEW ix, NEW no, OwnedBy(kd, ix, no), NEW b \in Nat, b # NULL
  PROVE  Pointers(b) = IF b \in heap THEN {<<kd[b], ix[b], no[b]>>} ELSE {}
<1> DEFINE D == DOMAIN node
           A1 == {<<"str", i, 0>> : i \in {j \in D : node[j].str = b}}
           A2 == {<<"keys", i, 0>> : i \in {j \in D : node[j].keys = b}}
           A3 == {<<"vals", i, 0>> : i \in {j \in D : node[j].vals = b}}
           A4 == UNION {{<<"names", i, k>> : k \in {l \in DOMAIN node[i].names : node[i].names[l] = b}} : i \in D}
           A5 == UNION {{<<"kids", i, k>> : k \in {l \in DOMAIN node[i].kids : node[i].kids[l] = b}} : i \in D}
           A6 == {<<"node", k, 0>> : k \in {j \in DOMAIN stack : stack[j].node = b}}
           A7 == {<<"key", k, 0>> : k \in {j \in DOMAIN stack : stack[j].key = b}}
           A8 == {<<"ret", k, 0>> : k \in {j \in {0} : pc \in {"return", "done"} /\ ret = b}}
<1>1. Pointers(b) = A1 \cup A2 \cup A3 \cup A4 \cup A5 \cup A6 \cup A7 \cup A8
  BY DEF Pointers
<1>2. D = Ids
  BY DEF Ids
<1>3. ASSUME NEW f, NEW i, NEW k, Owner(kd, ix, no, b, f, i, k)
      PROVE  b \in heap /\ <<f, i, k>> = <<kd[b], ix[b], no[b]>>
  BY <1>3 DEF Owner
<1>4. \A i \in D : NodeOwns(kd, ix, no, node[i], i)
  BY <1>2 DEF OwnedBy
<1>5. ASSUME NEW p \in Pointers(b)
      PROVE  b \in heap /\ p = <<kd[b], ix[b], no[b]>>
  <2>1. CASE p \in A1
    <3>1. PICK i \in D : node[i].str = b /\ p = <<"str", i, 0>>
      BY <2>1
    <3>2. Owner(kd, ix, no, b, "str", i, 0)
      BY <1>4, <3>1 DEF NodeOwns
    <3> QED
      BY <1>3, <3>1, <3>2, Zenon
  <2>2. CASE p \in A2
    <3>1. PICK i \in D : node[i].keys = b /\ p = <<"keys", i, 0>>
      BY <2>2
    <3>2. Owner(kd, ix, no, b, "keys", i, 0)
      BY <1>4, <3>1 DEF NodeOwns
    <3> QED
      BY <1>3, <3>1, <3>2, Zenon
  <2>3. CASE p \in A3
    <3>1. PICK i \in D : node[i].vals = b /\ p = <<"vals", i, 0>>
      BY <2>3
    <3>2. Owner(kd, ix, no, b, "vals", i, 0)
      BY <1>4, <3>1 DEF NodeOwns
    <3> QED
      BY <1>3, <3>1, <3>2, Zenon
  <2>4. CASE p \in A4
    <3>1. PICK i \in D : p \in {<<"names", i, k>> : k \in {l \in DOMAIN node[i].names : node[i].names[l] = b}}
      BY <2>4
    <3>2. PICK k \in DOMAIN node[i].names : node[i].names[k] = b /\ p = <<"names", i, k>>
      BY <3>1
    <3>3. Owner(kd, ix, no, b, "names", i, k)
      BY <1>4, <3>1, <3>2 DEF NodeOwns
    <3> QED
      BY <1>3, <3>2, <3>3, Zenon
  <2>5. CASE p \in A5
    <3>1. PICK i \in D : p \in {<<"kids", i, k>> : k \in {l \in DOMAIN node[i].kids : node[i].kids[l] = b}}
      BY <2>5
    <3>2. PICK k \in DOMAIN node[i].kids : node[i].kids[k] = b /\ p = <<"kids", i, k>>
      BY <3>1
    <3>3. Owner(kd, ix, no, b, "kids", i, k)
      BY <1>4, <3>1, <3>2 DEF NodeOwns
    <3> QED
      BY <1>3, <3>2, <3>3, Zenon
  <2>6. CASE p \in A6
    <3>1. PICK k \in DOMAIN stack : stack[k].node = b /\ p = <<"node", k, 0>>
      BY <2>6
    <3>2. Owner(kd, ix, no, b, "node", k, 0)
      BY <3>1 DEF OwnedBy
    <3> QED
      BY <1>3, <3>1, <3>2, Zenon
  <2>7. CASE p \in A7
    <3>1. PICK k \in DOMAIN stack : stack[k].key = b /\ p = <<"key", k, 0>>
      BY <2>7
    <3>2. Owner(kd, ix, no, b, "key", k, 0)
      BY <3>1 DEF OwnedBy
    <3> QED
      BY <1>3, <3>1, <3>2, Zenon
  <2>8. CASE p \in A8
    <3>1. p = <<"ret", 0, 0>> /\ pc \in {"return", "done"} /\ ret = b
      BY <2>8
    <3>2. Owner(kd, ix, no, b, "ret", 0, 0)
      BY <3>1 DEF OwnedBy
    <3> QED
      BY <1>3, <3>1, <3>2, Zenon
  <2> HIDE DEF A1, A2, A3, A4, A5, A6, A7, A8
  <2> QED
    BY <1>1, <1>5, <2>1, <2>2, <2>3, <2>4, <2>5, <2>6, <2>7, <2>8
<1>6. ASSUME b \in heap
      PROVE  <<kd[b], ix[b], no[b]>> \in Pointers(b)
  <2>1. PICK f, i, k : f = kd[b] /\ i = ix[b] /\ k = no[b]
    OBVIOUS
  <2>2. Found(kd, ix, no, b)
    BY <1>6 DEF OwnedBy
  <2>3. \/ f = "str" /\ i \in D /\ k = 0 /\ node[i].str = b
        \/ f = "keys" /\ i \in D /\ k = 0 /\ node[i].keys = b
        \/ f = "vals" /\ i \in D /\ k = 0 /\ node[i].vals = b
        \/ f = "names" /\ i \in D /\ k \in DOMAIN node[i].names /\ node[i].names[k] = b
        \/ f = "kids" /\ i \in D /\ k \in DOMAIN node[i].kids /\ node[i].kids[k] = b
        \/ f = "node" /\ i \in DOMAIN stack /\ k = 0 /\ stack[i].node = b
        \/ f = "key" /\ i \in DOMAIN stack /\ k = 0 /\ stack[i].key = b
        \/ f = "ret" /\ i = 0 /\ k = 0 /\ pc \in {"return", "done"} /\ ret = b
    BY <1>2, <2>1, <2>2 DEF Found
  <2>4. PICK p : p = <<f, i, k>>
    OBVIOUS
  <2>5. CASE f = "str"
    <3>1. p \in A1
      BY <2>3, <2>4, <2>5
    <3> QED
      BY <1>1, <2>1, <2>4, <3>1, Zenon
  <2>6. CASE f = "keys"
    <3>1. p \in A2
      BY <2>3, <2>4, <2>6
    <3> QED
      BY <1>1, <2>1, <2>4, <3>1, Zenon
  <2>7. CASE f = "vals"
    <3>1. p \in A3
      BY <2>3, <2>4, <2>7
    <3> QED
      BY <1>1, <2>1, <2>4, <3>1, Zenon
  <2>8. CASE f = "names"
    <3>1. p \in A4
      BY <2>3, <2>4, <2>8
    <3> QED
      BY <1>1, <2>1, <2>4, <3>1, Zenon
  <2>9. CASE f = "kids"
    <3>1. p \in A5
      BY <2>3, <2>4, <2>9
    <3> QED
      BY <1>1, <2>1, <2>4, <3>1, Zenon
  <2>10. CASE f = "node"
    <3>1. p \in A6
      BY <2>3, <2>4, <2>10
    <3> QED
      BY <1>1, <2>1, <2>4, <3>1, Zenon
  <2>11. CASE f = "key"
    <3>1. p \in A7
      BY <2>3, <2>4, <2>11
    <3> QED
      BY <1>1, <2>1, <2>4, <3>1, Zenon
  <2>12. CASE f = "ret"
    <3>1. p \in A8
      BY <2>3, <2>4, <2>12
    <3> QED
      BY <1>1, <2>1, <2>4, <3>1, Zenon
  <2> HIDE DEF A1, A2, A3, A4, A5, A6, A7, A8
  <2> QED
    BY <2>3, <2>5, <2>6, <2>7, <2>8, <2>9, <2>10, <2>11, <2>12
<1> QED
  BY <1>5, <1>6

(* After a failed parse, and after json_free, nothing is allocated: the    *)
(* oldest node would have no owner.                                        *)
LEMMA NothingLeft ==
  ASSUME JsonInv, pc \in {"done", "freed"}, ret = NULL
  PROVE  heap = {}
<1>1. Typed /\ Shaped /\ Stacked
  BY DEF JsonInv
<1>2. PICK kd, ix, no : OwnedBy(kd, ix, no)
  BY DEF JsonInv, Owned
<1>3. DOMAIN stack = {}
  <2>1. stack = <<>>
    BY <1>1 DEF Stacked
  <2> QED
    BY <2>1
<1>4. ASSUME NEW b \in heap
      PROVE  kd[b] \in Fields /\ ix[b] \in Ids
  <2>1. Found(kd, ix, no, b) /\ b # NULL
    BY <1>1, <1>2 DEF OwnedBy, Typed, NULL
  <2> QED
    BY <1>3, <2>1 DEF Found, Fields
<1>5. ASSUME NEW b \in heap PROVE FALSE
  <2>1. Ids # {} /\ Ids \in SUBSET Nat
    BY <1>1, <1>4 DEF Typed
  <2>2. PICK x \in Ids : \A y \in Ids : x <= y
    BY <2>1, LeastNat
  <2>3. x \in heap /\ x \in Nat
    BY <1>1 DEF Typed
  <2>4. kd[x] = "kids" /\ ix[x] \in Ids /\ no[x] \in DOMAIN node[ix[x]].kids
        /\ node[ix[x]].kids[no[x]] = x
    <3>1. Found(kd, ix, no, x) /\ kd[x] \in Fields
      BY <1>2, <1>4, <2>3 DEF OwnedBy
    <3> QED
      BY <3>1 DEF Found, Fields
  <2>5. ix[x] < x
    BY <1>1, <2>4 DEF Shaped, ShapedNode
  <2>6. ix[x] \in Nat /\ x <= ix[x]
    BY <2>1, <2>2, <2>4
  <2> QED
    BY <2>3, <2>5, <2>6
<1> QED
  BY <1>5

(* The invariant holds in every state.                                     *)
LEMMA JsonAlways == JsonSpec => []JsonInv
<1>1. JsonInit => JsonInv
  BY JsonStart
<1> QED
  BY <1>1, JsonInductive, PTL DEF JsonSpec

(* Every block the parser has allocated has one pointer to it, and no      *)
(* pointer leads to a freed one, for texts of any length, whichever token  *)
(* is wrong and whichever allocation fails; and when json_parse has        *)
(* returned NULL, or json_free is done, no block is left.                  *)
THEOREM OneOwner == JsonSpec => []HeapOwned
<1>1. JsonInv => HeapOwned
  <2>1. SUFFICES ASSUME JsonInv PROVE HeapOwned
    OBVIOUS
  <2>2. JsonTypeOK
    BY <2>1, JsonTypes
  <2>3. ASSUME NEW b \in 1 .. fresh - 1
        PROVE  Cardinality(Pointers(b)) = IF b \in heap THEN 1 ELSE 0
    <3>1. Typed
      BY <2>1 DEF JsonInv
    <3>2. PICK kd, ix, no : OwnedBy(kd, ix, no)
      BY <2>1 DEF JsonInv, Owned
    <3>3. b \in Nat /\ b # NULL
      BY <3>1 DEF Typed, NULL
    <3>4. Pointers(b) = IF b \in heap THEN {<<kd[b], ix[b], no[b]>>} ELSE {}
      BY <3>1, <3>2, <3>3, OnePointer
    <3>5. PICK p : p = <<kd[b], ix[b], no[b]>>
      OBVIOUS
    <3>6. Cardinality({p}) = 1 /\ Cardinality({}) = 0
      BY FS_Singleton, FS_EmptySet
    <3> QED
      BY <3>4, <3>5, <3>6
  <2>4. pc \in {"done", "freed"} /\ ret = NULL => heap = {}
    BY <2>1, NothingLeft
  <2> QED
    BY <2>2, <2>3, <2>4 DEF HeapOwned
<1> QED
  BY <1>1, JsonAlways, PTL

(* json_free never reads a vector that was freed, as long as the vectors   *)
(* of an object that has some can be grown.                                *)
THEOREM NoFreedVectorRead ==
  ASSUME ~RegrowFails
  PROVE  JsonSpec => []NoFault
<1>1. JsonInv => NoFault
  BY DEF JsonInv, Faultless, NoFault
<1> QED
  BY <1>1, JsonAlways, PTL
=============================================================================
