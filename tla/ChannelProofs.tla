--------------------------- MODULE ChannelProofs ----------------------------
(***************************************************************************)
(* Proofs about Channel for any threads, receivers and blocks, for clients *)
(* that give a pointer up when they send it: its inductive invariant, that *)
(* it implements MessageQueue, and that the ownership calls it makes are   *)
(* steps of Lifecycle.                                                     *)
(***************************************************************************)
EXTENDS Channel, FiniteSetTheorems, FunctionTheorems, WellFoundedInduction, TLAPS

(* What the steps write in a header is a header, with no borrows.          *)
LEMMA FreshHeader ==
  /\ NoMeta \in Meta /\ NoMeta.state = "INVALID" /\ NoMeta.borrow_count = 0
  /\ \A t \in Threads : /\ NewMeta(t) \in Meta /\ NewMeta(t).state = "OWNED"
                         /\ NewMeta(t).borrow_count = 0 /\ NewMeta(t).owner_thread = t
  BY DEF Meta, State, NewMeta, NoMeta

(* Free, share and claim keep the borrow count of a header; a claim makes  *)
(* the thread its owner.                                                   *)
LEMMA HeaderFacts ==
  ASSUME NEW m \in Meta, NEW t \in Threads
  PROVE  /\ Freed(m) \in Meta /\ Freed(m).state = "FREED"
         /\ Freed(m).borrow_count = m.borrow_count
         /\ Shared(m) \in Meta /\ Shared(m).state = "SHARED"
         /\ Shared(m).borrow_count = m.borrow_count
         /\ Claimed(m, t) \in Meta /\ Claimed(m, t).state = "OWNED"
         /\ Claimed(m, t).owner_thread = t
         /\ Claimed(m, t).borrow_count = m.borrow_count
  BY DEF Meta, State, Freed, Shared, Claimed

-----------------------------------------------------------------------------
(* The list.                                                               *)

(* A node is put behind the last one.                                      *)
LEMMA AppendLinked ==
  ASSUME NEW q \in Seq(Blocks), NEW n \in Blocks, n \notin Members(q)
  PROVE  /\ Append(q, n) \in Seq(Blocks) /\ Append(q, n) # <<>>
         /\ Members(Append(q, n)) = Members(q) \cup {n}
         /\ Append(q, n)[Len(Append(q, n))] = n
         /\ \A first :
              /\ Linked(q, first) /\ next[n] = NULL
              /\ next' = IF q = <<>> THEN next ELSE [next EXCEPT ![q[Len(q)]] = n]
              /\ next \in [Blocks -> BlockOrNull]
              => Linked(Append(q, n), IF q = <<>> THEN n ELSE first)'
<1> DEFINE r == Append(q, n)
<1>1. DOMAIN q = 1 .. Len(q) /\ Len(q) \in Nat /\ \A i \in 1 .. Len(q) : q[i] \in Blocks
  OBVIOUS
<1>2. /\ r \in Seq(Blocks) /\ Len(r) = Len(q) + 1 /\ DOMAIN r = 1 .. (Len(q) + 1)
      /\ r # <<>> /\ r[Len(q) + 1] = n /\ \A i \in 1 .. Len(q) : r[i] = q[i]
  OBVIOUS
<1> HIDE DEF r
<1>3. Members(r) = Members(q) \cup {n}
  <2>1. 1 .. (Len(q) + 1) = (1 .. Len(q)) \cup {Len(q) + 1}
    BY <1>1
  <2>2. \A i \in 1 .. Len(q) : q[i] \in Members(r)
    BY <1>2, <2>1 DEF Members
  <2>3. n \in Members(r)
    BY <1>2, <2>1 DEF Members
  <2>4. \A i \in DOMAIN r : r[i] \in Members(q) \cup {n}
    BY <1>1, <1>2, <2>1 DEF Members
  <2>5. \A b : b \in Members(r) <=> b \in Members(q) \cup {n}
    BY <1>1, <2>2, <2>3, <2>4 DEF Members
  <2> QED
    BY <2>5
<1>4. \A i \in 1 .. Len(q) : q[i] # n
  BY <1>1 DEF Members
<1>5. ASSUME NEW first, Linked(q, first), next[n] = NULL,
             next' = IF q = <<>> THEN next ELSE [next EXCEPT ![q[Len(q)]] = n],
             next \in [Blocks -> BlockOrNull]
      PROVE  Linked(r, IF q = <<>> THEN n ELSE first)'
  <2>1. \A i, j \in DOMAIN r : r[i] = r[j] => i = j
    BY <1>1, <1>2, <1>4, <1>5 DEF Linked
  <2>2. (IF q = <<>> THEN n ELSE first) = r[1]
    BY <1>1, <1>2, <1>5 DEF Linked
  <2>3. q # <<>> => Len(q) \in 1 .. Len(q) /\ q[Len(q)] \in Blocks
    BY <1>1
  <2>4. /\ q # <<>> => next'[q[Len(q)]] = n
        /\ \A b \in Blocks : (q # <<>> => b # q[Len(q)]) => next'[b] = next[b]
    BY <1>5, <2>3
  <2>5. next'[n] = NULL
    BY <1>4, <1>5, <2>3, <2>4
  <2>6. \A i \in 1 .. Len(q) : i # Len(q) => next'[q[i]] = q[i + 1]
    BY <1>1, <1>5, <2>3, <2>4 DEF Linked
  <2>7. ASSUME NEW i \in DOMAIN r
        PROVE  next'[r[i]] = IF i = Len(r) THEN NULL ELSE r[i + 1]
    <3>1. CASE i = Len(q) + 1
      BY <1>2, <2>5, <3>1
    <3>2. CASE i \in 1 .. Len(q) /\ i = Len(q)
      <4>1. PICK k \in Nat : k = Len(q) /\ k = i /\ i \in 1 .. k
        BY <1>1, <3>2
      <4>2. k # 0 /\ k # k + 1
        BY <4>1
      <4>3. i + 1 = Len(q) + 1 /\ i # Len(r) /\ Len(q) # 0
        BY <1>2, <4>1, <4>2
      <4>4. r[i] = q[Len(q)] /\ r[i + 1] = n
        BY <1>2, <3>2, <4>3
      <4>5. q # <<>>
        BY <4>3
      <4> QED
        BY <2>4, <4>3, <4>4, <4>5
    <3>3. CASE i \in 1 .. Len(q) /\ i # Len(q)
      <4>1. r[i] = q[i] /\ r[i + 1] = q[i + 1] /\ i # Len(r)
        BY <1>1, <1>2, <3>3
      <4> QED
        BY <2>6, <3>3, <4>1
    <3> QED
      BY <1>1, <1>2, <3>1, <3>2, <3>3
  <2> QED
    BY <1>2, <2>1, <2>2, <2>7 DEF Linked
<1> QED
  BY <1>2, <1>3, <1>5 DEF r

(* The first node is taken off.                                            *)
LEMMA TailLinked ==
  ASSUME NEW q \in Seq(Blocks), NEW first \in Blocks, Linked(q, first), NULL \notin Blocks
  PROVE  /\ q # <<>> /\ Tail(q) \in Seq(Blocks) /\ first = q[1]
         /\ Members(q) = Members(Tail(q)) \cup {first} /\ first \notin Members(Tail(q))
         /\ Linked(Tail(q), next[first])
         /\ next[first] = NULL <=> Tail(q) = <<>>
         /\ Tail(q) # <<>> => Tail(q)[Len(Tail(q))] = q[Len(q)]
         /\ Len(Tail(q)) = Len(q) - 1
<1> DEFINE r == Tail(q)
<1>1. DOMAIN q = 1 .. Len(q) /\ Len(q) \in Nat /\ \A i \in 1 .. Len(q) : q[i] \in Blocks
  OBVIOUS
<1>2. q # <<>> /\ first = q[1] /\ Len(q) > 0
  <2>1. q # <<>> /\ first = q[1]
    BY DEF Linked
  <2> QED
    BY <1>1, <2>1
<1>3. /\ r \in Seq(Blocks) /\ Len(r) = Len(q) - 1 /\ DOMAIN r = 1 .. (Len(q) - 1)
      /\ \A i \in 1 .. (Len(q) - 1) : r[i] = q[i + 1]
  BY <1>1, <1>2
<1>4. r = <<>> <=> Len(q) = 1
  <2>1. r = <<>> <=> Len(r) = 0
    BY <1>3
  <2> QED
    BY <1>1, <1>2, <1>3, <2>1
<1> HIDE DEF r
<1>5. \A b : b \in Members(q) <=> b \in Members(r) \cup {first}
  <2>1. ASSUME NEW i \in 1 .. Len(q)
        PROVE  q[i] \in Members(r) \cup {first}
    <3>1. CASE i = 1
      BY <1>2, <3>1
    <3>2. CASE i # 1
      <4>1. i - 1 \in 1 .. (Len(q) - 1) /\ r[i - 1] = q[i]
        BY <1>1, <1>3, <3>2
      <4> QED
        BY <1>3, <4>1 DEF Members
    <3> QED
      BY <3>1, <3>2
  <2>2. ASSUME NEW i \in 1 .. (Len(q) - 1)
        PROVE  r[i] \in Members(q)
    <3>1. i + 1 \in DOMAIN q /\ r[i] = q[i + 1]
      BY <1>1, <1>3
    <3> QED
      BY <3>1 DEF Members
  <2>3. first \in Members(q)
    <3>1. 1 \in DOMAIN q
      BY <1>1, <1>2
    <3> QED
      BY <1>2, <3>1 DEF Members
  <2> QED
    BY <1>1, <1>3, <2>1, <2>2, <2>3 DEF Members
<1>6. \A i \in 1 .. (Len(q) - 1) : r[i] # first
  BY <1>1, <1>2, <1>3, SMTT(30) DEF Linked
<1>7. first \notin Members(r)
  BY <1>3, <1>6 DEF Members
<1>8. next[first] = IF Len(q) = 1 THEN NULL ELSE q[2]
  BY <1>1, <1>2 DEF Linked
<1>9. Linked(r, next[first])
  <2>1. next[first] = IF r = <<>> THEN NULL ELSE r[1]
    BY <1>1, <1>2, <1>3, <1>4, <1>8
  <2>2. \A i, j \in DOMAIN r : r[i] = r[j] => i = j
    BY <1>1, <1>3 DEF Linked
  <2>3. ASSUME NEW i \in DOMAIN r
        PROVE  next[r[i]] = IF i = Len(r) THEN NULL ELSE r[i + 1]
    <3>1. /\ i \in 1 .. (Len(q) - 1) /\ i + 1 \in DOMAIN q /\ r[i] = q[i + 1]
          /\ i = Len(r) <=> i + 1 = Len(q)
      BY <1>1, <1>2, <1>3
    <3>2. next[q[i + 1]] = IF i + 1 = Len(q) THEN NULL ELSE q[(i + 1) + 1]
      BY <3>1 DEF Linked
    <3>3. i # Len(r) => r[i + 1] = q[(i + 1) + 1]
      BY <1>1, <1>3, <3>1
    <3> QED
      BY <3>1, <3>2, <3>3
  <2> QED
    BY <2>1, <2>2, <2>3 DEF Linked
<1>10. next[first] = NULL <=> r = <<>>
  BY <1>1, <1>2, <1>4, <1>8
<1>11. r # <<>> => r[Len(r)] = q[Len(q)]
  BY <1>1, <1>2, <1>3, <1>4
<1> QED
  BY <1>2, <1>3, <1>5, <1>7, <1>9, <1>10, <1>11 DEF r

-----------------------------------------------------------------------------
(* The uses of a block, by the kind of place.                              *)

Busy(b) == {t \in AsNode(b) : pc[t] # "free"}
OnList(q, b) == Members(q) \cap {b}
InList(q, b) == {k \in Members(q) : data[k] = b}

AtMostOne(H, P, N, L, M) ==
  /\ \A x, y \in H : x = y
  /\ \A x, y \in P : x = y
  /\ \A x, y \in N : x = y
  /\ \A x, y \in L : x = y
  /\ \A x, y \in M : x = y
  /\ H # {} => P = {} /\ N = {} /\ L = {} /\ M = {}
  /\ P # {} => N = {} /\ L = {} /\ M = {}
  /\ N # {} => L = {} /\ M = {}
  /\ L # {} => M = {}

Some(H, P, N, L, M) == H # {} \/ P # {} \/ N # {} \/ L # {} \/ M # {}

All(H, P, N, L, M) ==
  {<<"hand", t>> : t \in H} \cup {<<"ptr", t>> : t \in P}
  \cup {<<"node", t>> : t \in N} \cup {<<"queued", n>> : n \in L}
  \cup {<<"message", n>> : n \in M}

(* The uses are told apart by the kind of place and the place.             *)
LEMMA UsesByKind ==
  ASSUME NEW H, NEW P, NEW N, NEW L, NEW M
  PROVE  /\ (\A u, v \in All(H, P, N, L, M) : u = v) <=> AtMostOne(H, P, N, L, M)
         /\ All(H, P, N, L, M) # {} <=> Some(H, P, N, L, M)
<1> DEFINE U == All(H, P, N, L, M)
<1>1. /\ \A x \in H : <<"hand", x>> \in U
      /\ \A x \in P : <<"ptr", x>> \in U
      /\ \A x \in N : <<"node", x>> \in U
      /\ \A x \in L : <<"queued", x>> \in U
      /\ \A x \in M : <<"message", x>> \in U
  BY DEF All
<1>2. \A u \in U : \/ \E x \in H : u = <<"hand", x>>
                   \/ \E x \in P : u = <<"ptr", x>>
                   \/ \E x \in N : u = <<"node", x>>
                   \/ \E x \in L : u = <<"queued", x>>
                   \/ \E x \in M : u = <<"message", x>>
  BY DEF All
<1> HIDE DEF U
<1>3. AtMostOne(H, P, N, L, M) => \A u, v \in U : u = v
  BY <1>1, <1>2 DEF AtMostOne
<1>4. ASSUME \A u, v \in U : u = v
      PROVE  AtMostOne(H, P, N, L, M)
  <2>1. (\A x, y \in H : x = y) /\ (\A x, y \in P : x = y)
    BY <1>1, <1>4
  <2>2. (\A x, y \in N : x = y) /\ (\A x, y \in L : x = y)
    BY <1>1, <1>4
  <2>3. \A x, y \in M : x = y
    BY <1>1, <1>4
  <2>4. H # {} => P = {} /\ N = {} /\ L = {} /\ M = {}
    BY <1>1, <1>4
  <2>5. P # {} => N = {} /\ L = {} /\ M = {}
    BY <1>1, <1>4
  <2>6. (N # {} => L = {} /\ M = {}) /\ (L # {} => M = {})
    BY <1>1, <1>4
  <2> QED
    BY <2>1, <2>2, <2>3, <2>4, <2>5, <2>6 DEF AtMostOne
<1>5. U # {} <=> Some(H, P, N, L, M)
  BY <1>1, <1>2 DEF Some
<1> QED
  BY <1>3, <1>4, <1>5 DEF U

(* UsedOnce, with the kinds of uses kept apart.                            *)
Once(q, b) ==
  /\ AtMostOne(InHand(b), OnTheWay(b), Busy(b), OnList(q, b), InList(q, b))
  /\ Some(InHand(b), OnTheWay(b), Busy(b), OnList(q, b), InList(q, b)) => Live(meta[b])
  /\ Live(meta[b]) => \/ Some(InHand(b), OnTheWay(b), Busy(b), OnList(q, b), InList(q, b))
                      \/ Left(b)

(* The places of a block counted kind by kind are the places counted       *)
(* together, before and after a step.                                      *)
LEMMA UsedByKind ==
  ASSUME NEW q
  PROVE  /\ UsedOnce(q) <=> \A b \in Blocks : Once(q, b)
         /\ UsedOnce(q)' <=> \A b \in Blocks : Once(q, b)'
<1>1. ASSUME NEW b \in Blocks
      PROVE  /\ Places(q, b) =
                  All(InHand(b), OnTheWay(b), Busy(b), OnList(q, b), InList(q, b))
             /\ Places(q, b)' =
                  All(InHand(b), OnTheWay(b), Busy(b), OnList(q, b), InList(q, b))'
  BY DEF Places, All, Busy, OnList, InList
<1>2. ASSUME NEW b \in Blocks
      PROVE  /\ (\A u, v \in Places(q, b) : u = v) <=>
                  AtMostOne(InHand(b), OnTheWay(b), Busy(b), OnList(q, b), InList(q, b))
             /\ Places(q, b) # {} <=>
                  Some(InHand(b), OnTheWay(b), Busy(b), OnList(q, b), InList(q, b))
  BY <1>1, UsesByKind
<1>3. ASSUME NEW b \in Blocks
      PROVE  /\ (\A u, v \in Places(q, b)' : u = v) <=>
                  AtMostOne(InHand(b), OnTheWay(b), Busy(b), OnList(q, b), InList(q, b))'
             /\ Places(q, b)' # {} <=>
                  Some(InHand(b), OnTheWay(b), Busy(b), OnList(q, b), InList(q, b))'
  BY <1>1, UsesByKind
<1>4. ASSUME NEW b \in Blocks
      PROVE  /\ Once(q, b) <=> /\ \A u, v \in Places(q, b) : u = v
                               /\ Places(q, b) # {} => Live(meta[b])
                               /\ Live(meta[b]) => Places(q, b) # {} \/ Left(b)
             /\ Once(q, b)' <=> /\ \A u, v \in Places(q, b)' : u = v
                                /\ Places(q, b)' # {} => Live(meta[b])'
                                /\ Live(meta[b])' => Places(q, b)' # {} \/ Left(b)'
  BY <1>2, <1>3 DEF Once
<1>5. UsedOnce(q) <=> \A b \in Blocks : Once(q, b)
  BY <1>4 DEF UsedOnce
<1>6. UsedOnce(q)' <=> \A b \in Blocks : Once(q, b)'
  BY <1>4 DEF UsedOnce
<1> QED
  BY <1>5, <1>6

-----------------------------------------------------------------------------
(* What a step leaves alone.                                               *)

(* The block b is used by the thread t alone, or by nobody.                *)
Apart(q, b, t) ==
  /\ \A u \in Threads \ {t} : b \notin hand[u] /\ ptr[u] # b /\ node[u] # b
  /\ b \notin Members(q) /\ \A n \in Members(q) : data[n] # b

(* What a thread has, and what nobody uses, no other thread has.           *)
LEMMA OwnApart ==
  ASSUME NEW q, Inv(q), NEW t \in Threads, NEW b \in Blocks,
         \/ ~Live(meta[b]) \/ b \in hand[t] \/ ptr[t] = b
         \/ node[t] = b /\ pc[t] # "free"
  PROVE  Apart(q, b, t)
<1>1. Once(q, b)
  BY UsedByKind DEF Inv
<1>2. /\ InHand(b) \subseteq {t} /\ OnTheWay(b) \subseteq {t} /\ Busy(b) \subseteq {t}
      /\ OnList(q, b) = {} /\ InList(q, b) = {}
  <2>1. CASE ~Live(meta[b])
    BY <1>1, <2>1 DEF Once, Some
  <2>2. CASE b \in hand[t]
    <3>1. t \in InHand(b)
      BY <2>2 DEF InHand
    <3> QED
      BY <1>1, <3>1 DEF Once, AtMostOne
  <2>3. CASE ptr[t] = b
    <3>1. t \in OnTheWay(b)
      BY <2>3 DEF OnTheWay
    <3> QED
      BY <1>1, <3>1 DEF Once, AtMostOne
  <2>4. CASE node[t] = b /\ pc[t] # "free"
    <3>1. t \in Busy(b)
      BY <2>4 DEF Busy, AsNode
    <3> QED
      BY <1>1, <3>1 DEF Once, AtMostOne
  <2> QED
    BY <2>1, <2>2, <2>3, <2>4
<1>3. b \notin Members(q) /\ \A n \in Members(q) : data[n] # b
  BY <1>2 DEF OnList, InList
<1>4. \A u \in Threads : pc[u] = "free" => node[u] # b
  <2> SUFFICES ASSUME NEW u \in Threads, pc[u] = "free", node[u] = b PROVE FALSE
    OBVIOUS
  <2>1. Linked(q, b)
    BY DEF Inv, ListOK
  <2>2. q # <<>> /\ b = q[1]
    BY <2>1, ChannelAssumption DEF Linked
  <2>3. 1 \in DOMAIN q
    BY <2>2 DEF Inv, ListOK
  <2> QED
    BY <1>3, <2>2, <2>3 DEF Members
<1> QED
  BY <1>2, <1>3, <1>4 DEF Apart, InHand, OnTheWay, Busy, AsNode

(* A thread that a step, which touches the blocks D, leaves alone.          *)
LEMMA Bystander ==
  ASSUME NEW q, Inv(q), NEW u \in Threads, NEW D \in SUBSET Blocks,
         ptr[u] \notin D, node[u] \notin D,
         \A b \in Blocks \ D : meta'[b] = meta[b] /\ data'[b] = data[b] /\ next'[b] = next[b],
         pc'[u] = pc[u], ptr'[u] = ptr[u], node'[u] = node[u],
         pc[u] = "free" => /\ meta'[Chan] = meta[Chan]
                           /\ \A v \in Threads \ {u} : pc'[v] = "idle",
         pc[u] # "idle" => ch' = ch,
         mutex' = u <=> mutex = u
  PROVE  CallOK(u)'
<1>1. CallOK(u) /\ ptr[u] \in BlockOrNull /\ node[u] \in BlockOrNull
  BY DEF Inv, TypeOK
<1>2. ptr[u] # NULL => meta'[ptr[u]] = meta[ptr[u]]
  BY <1>1 DEF BlockOrNull
<1>3. node[u] # NULL => /\ meta'[node[u]] = meta[node[u]] /\ data'[node[u]] = data[node[u]]
                        /\ next'[node[u]] = next[node[u]]
  BY <1>1 DEF BlockOrNull
<1> QED
  BY <1>1, <1>2, <1>3 DEF CallOK, Sending, Taken, HasNode

(* The list, when no node of it and no message in it is touched.           *)
LEMMA ListKept ==
  ASSUME NEW q, Inv(q), NEW D \in SUBSET Blocks,
         \A n \in Members(q) : n \notin D /\ data[n] \notin D,
         \A b \in Blocks \ D : meta'[b] = meta[b] /\ data'[b] = data[b] /\ next'[b] = next[b],
         UNCHANGED <<ch, head, tail>>,
         \A u \in Threads : pc'[u] = "free" => pc[u] = "free" /\ node'[u] = node[u]
  PROVE  ListOK(q)'
<1>1. ListOK(q) /\ q \in Seq(Blocks)
  BY DEF Inv, ListOK
<1>2. \A n \in Members(q) : n \in Blocks /\ n \notin D
  BY <1>1 DEF Members
<1>3. \A n \in Members(q) : data[n] \in Blocks /\ data[n] \notin D
  BY <1>1 DEF ListOK
<1>4. \A n \in Members(q) : /\ meta'[n] = meta[n] /\ data'[n] = data[n] /\ next'[n] = next[n]
                            /\ meta'[data[n]] = meta[data[n]]
  BY <1>2, <1>3
<1>5. \A i \in DOMAIN q : next'[q[i]] = next[q[i]]
  BY <1>4 DEF Members
<1>6. \A x : Linked(q, x) => Linked(q, x)'
  BY <1>5 DEF Linked
<1>7. ch' = "open" => Linked(q, head)' /\ tail' = IF q = <<>> THEN NULL ELSE q[Len(q)]
  <2>1. PICK h : h = head
    OBVIOUS
  <2>2. ch = "open" => Linked(q, h) /\ head' = h
    BY <1>1, <2>1 DEF ListOK
  <2> QED
    BY <1>1, <1>6, <2>2 DEF ListOK, Linked
<1>8. ASSUME NEW u \in Threads, pc'[u] = "free"
      PROVE  Linked(q, node[u])'
  <2>1. PICK h : h = node[u]
    OBVIOUS
  <2>2. Linked(q, h) /\ node'[u] = h
    BY <1>1, <1>8, <2>1 DEF ListOK
  <2>3. Linked(q, h)'
    BY <1>6, <2>2
  <2> QED
    BY <2>2, <2>3 DEF Linked
<1> QED
  BY <1>1, <1>4, <1>7, <1>8 DEF ListOK

(* What clients have, when the step touches only what t has.               *)
LEMMA HandsKept ==
  ASSUME NEW q, Inv(q), NEW t \in Threads, NEW D \in SUBSET Blocks,
         \A b \in D : Apart(q, b, t),
         \A b \in Blocks \ D : meta'[b] = meta[b],
         hand' \in [Threads -> SUBSET Blocks],
         \A u \in Threads \ {t} : hand'[u] = hand[u],
         \A b \in hand'[t] : \/ b \in hand[t] /\ b \notin D
                             \/ meta'[b].state = "OWNED" /\ meta'[b].owner_thread = t
  PROVE  HandsOwn'
<1>1. \A u \in Threads \ {t} : \A b \in hand[u] : b \in Blocks \ D
  BY DEF Apart, Inv, TypeOK
<1>2. HandsOwn /\ hand[t] \subseteq Blocks
  BY DEF Inv, TypeOK
<1> QED
  BY <1>1, <1>2 DEF HandsOwn

(* A block whose uses the step leaves alone.                               *)
LEMMA OnceKept ==
  ASSUME NEW q, Inv(q), NEW b \in Blocks,
         Live(meta[b])' <=> Live(meta[b]),
         Left(b) => Left(b)',
         \A u \in Threads : /\ b \in hand'[u] <=> b \in hand[u]
                            /\ ptr'[u] = b <=> ptr[u] = b
                            /\ (node'[u] = b /\ pc'[u] # "free") <=>
                               (node[u] = b /\ pc[u] # "free"),
         \A n \in Members(q) : data'[n] = b <=> data[n] = b
  PROVE  Once(q, b)'
<1>1. Once(q, b)
  BY UsedByKind DEF Inv
<1>2. /\ InHand(b)' = InHand(b) /\ OnTheWay(b)' = OnTheWay(b) /\ Busy(b)' = Busy(b)
      /\ OnList(q, b)' = OnList(q, b) /\ InList(q, b)' = InList(q, b)
  BY DEF InHand, OnTheWay, Busy, AsNode, OnList, InList
<1> QED
  BY <1>1, <1>2 DEF Once

(* A block that only t had, after the step of t: freed, or with one use.   *)
LEMMA OnceMoved ==
  ASSUME NEW q, Inv(q), NEW t \in Threads, NEW b \in Blocks, Apart(q, b, t),
         \A u \in Threads \ {t} :
           hand'[u] = hand[u] /\ ptr'[u] = ptr[u] /\ node'[u] = node[u],
         \A n \in Members(q) : data'[n] = data[n],
         \/ ~Live(meta[b])' /\ b \notin hand'[t] /\ ptr'[t] # b /\ node'[t] # b
         \/ Live(meta[b])' /\ b \in hand'[t] /\ ptr'[t] # b /\ node'[t] # b
         \/ Live(meta[b])' /\ b \notin hand'[t] /\ ptr'[t] = b /\ node'[t] # b
         \/ /\ Live(meta[b])' /\ b \notin hand'[t] /\ ptr'[t] # b /\ node'[t] = b
            /\ pc'[t] # "free"
  PROVE  Once(q, b)'
<1>1. /\ OnList(q, b)' = {} /\ InList(q, b)' = {}
      /\ InHand(b)' = IF b \in hand'[t] THEN {t} ELSE {}
      /\ OnTheWay(b)' = IF ptr'[t] = b THEN {t} ELSE {}
      /\ Busy(b)' = IF node'[t] = b /\ pc'[t] # "free" THEN {t} ELSE {}
  BY DEF InHand, OnTheWay, Busy, AsNode, OnList, InList, Apart
<1> QED
  BY <1>1 DEF Once, AtMostOne, Some

-----------------------------------------------------------------------------
(* Every action preserves the invariant, one lemma for each.               *)

(* The steps that only move a thread to the mutex, or to its wait.         *)
LEMMA MovesPreserve ==
  ASSUME NEW q, Inv(q), NEW t \in Threads,
         \/ lock(t) \/ ownedc_channel_recv(t) \/ recv_wait(t) \/ spurious_wakeup(t)
  PROVE  Inv(q)'
<1>1. PICK l \in Locations \ {"idle", "free"} :
        /\ pc' = [pc EXCEPT ![t] = l]
        /\ UNCHANGED <<meta, data, next, ch, head, tail, ptr, node, hand, status>>
        /\ pc[t] \in Sending \cup Taken <=> l \in Sending \cup Taken
        /\ pc[t] \in HasNode <=> l \in HasNode
        /\ l \in {"send_lock", "link"} => pc[t] \in {"send_lock", "link"}
        /\ l # "claim_node" /\ l # "share" /\ pc[t] # "share" /\ pc[t] # "claim_node"
        /\ pc[t] # "free"
        /\ l \in {"link", "take"} <=> mutex' = t
        /\ \A u \in Threads \ {t} : mutex' = u <=> mutex = u
        /\ mutex' \in Threads \cup {NoThread}
        /\ ch = "open"
  <2>1. TypeOK /\ CallOK(t)
    BY DEF Inv
  <2>2. CASE lock(t) /\ pc[t] = "send_lock"
    <3>1. /\ pc' = [pc EXCEPT ![t] = "link"] /\ mutex = NoThread /\ mutex' = t
          /\ UNCHANGED <<meta, data, next, ch, head, tail, ptr, node, hand, status>>
      BY <2>2 DEF lock, At, Goto, list, locals
    <3> QED
      BY <2>1, <2>2, <3>1, NoThreadAssumption
         DEF CallOK, Locations, Sending, Taken, HasNode
  <2>3. CASE lock(t) /\ pc[t] # "send_lock"
    <3>1. /\ pc' = [pc EXCEPT ![t] = "take"] /\ mutex = NoThread /\ mutex' = t
          /\ pc[t] = "recv_lock"
          /\ UNCHANGED <<meta, data, next, ch, head, tail, ptr, node, hand, status>>
      BY <2>3 DEF lock, At, Goto, list, locals
    <3> QED
      BY <2>1, <3>1, NoThreadAssumption DEF CallOK, Locations, Sending, Taken, HasNode
  <2>4. CASE ownedc_channel_recv(t)
    <3>1. /\ pc' = [pc EXCEPT ![t] = "recv_lock"] /\ ch = "open" /\ mutex' = mutex
          /\ pc[t] = "idle"
          /\ UNCHANGED <<meta, data, next, ch, head, tail, ptr, node, hand, status>>
      BY <2>4 DEF ownedc_channel_recv, At, Goto, list, locals
    <3> QED
      BY <2>1, <3>1 DEF CallOK, Locations, Sending, Taken, HasNode, TypeOK
  <2>5. CASE recv_wait(t)
    <3>1. /\ pc' = [pc EXCEPT ![t] = "waiting"] /\ mutex' = NoThread /\ pc[t] = "take"
          /\ UNCHANGED <<meta, data, next, ch, head, tail, ptr, node, hand, status>>
      BY <2>5 DEF recv_wait, At, Goto, list, locals
    <3> QED
      BY <2>1, <3>1, NoThreadAssumption DEF CallOK, Locations, Sending, Taken, HasNode
  <2>6. CASE spurious_wakeup(t)
    <3>1. /\ pc' = [pc EXCEPT ![t] = "recv_lock"] /\ mutex' = mutex /\ pc[t] = "waiting"
          /\ UNCHANGED <<meta, data, next, ch, head, tail, ptr, node, hand, status>>
      BY <2>6 DEF spurious_wakeup, At, Goto, list, locals
    <3> QED
      BY <2>1, <3>1 DEF CallOK, Locations, Sending, Taken, HasNode, TypeOK
  <2> QED
    BY <2>2, <2>3, <2>4, <2>5, <2>6
<1>2. TypeOK /\ CallOK(t)
  BY DEF Inv
<1>3. pc'[t] = l /\ \A u \in Threads \ {t} : pc'[u] = pc[u]
  BY <1>1, <1>2 DEF TypeOK
<1>4. TypeOK' /\ HeadersOK' /\ HandsOwn'
  BY <1>1 DEF Inv, TypeOK, HeadersOK, HandsOwn
<1>5. CallOK(t)'
  BY <1>1, <1>2, <1>3 DEF CallOK
<1>6. \A u \in Threads : pc[u] # "free"
  BY <1>1 DEF Inv, CallOK
<1>7. PICK D \in SUBSET Blocks : D = {}
  OBVIOUS
<1>8. ASSUME NEW u \in Threads \ {t}
      PROVE  CallOK(u)'
  BY <1>1, <1>3, <1>6, <1>7, Bystander
<1>9. ListOK(q)'
  BY <1>1, <1>3, <1>6, <1>7, ListKept
<1>10. \A b \in Blocks : Once(q, b)'
  BY <1>1, <1>3, <1>6, OnceKept DEF Left
<1> QED
  BY <1>4, <1>5, <1>8, <1>9, <1>10, UsedByKind DEF Inv

(* The program stops, and nothing else changes.                            *)
LEMMA StopPreserves ==
  ASSUME NEW q, Inv(q), status' \in {"running", "aborted", "crashed"},
         UNCHANGED <<meta, mutex, pc, list, locals>>
  PROVE  Inv(q)'
<1>1. UNCHANGED <<meta, data, next, ch, head, tail, mutex, pc, ptr, node, hand>>
  BY DEF list, locals
<1>2. TypeOK' /\ HeadersOK' /\ HandsOwn'
  BY <1>1 DEF Inv, TypeOK, HeadersOK, HandsOwn
<1>3. \A t \in Threads : CallOK(t)'
  BY <1>1 DEF Inv, CallOK
<1>4. ListOK(q)'
  BY <1>1 DEF Inv, ListOK, Linked
<1>5. \A b \in Blocks : Once(q, b)'
  BY <1>1, OnceKept DEF Left
<1> QED
  BY <1>2, <1>3, <1>4, <1>5, UsedByKind DEF Inv

(* A step of t that leaves the list and the channel alone and touches the  *)
(* block b, which has one use by t afterwards, or is freed.                *)
LocalMove(t, b, m, l) ==
  /\ pc[t] # "free" /\ l # "free" /\ \A u \in Threads : pc[u] = "free" => l = "idle"
  /\ meta' = [meta EXCEPT ![b] = m] /\ m.borrow_count = 0 /\ m.state # "BORROWED"
  /\ pc' = [pc EXCEPT ![t] = l]
  /\ data' \in [Blocks -> BlockOrNull] /\ next' \in [Blocks -> BlockOrNull]
  /\ ptr' \in [Threads -> BlockOrNull] /\ node' \in [Threads -> BlockOrNull]
  /\ hand' \in [Threads -> SUBSET Blocks]
  /\ \A c \in Blocks \ {b} : data'[c] = data[c] /\ next'[c] = next[c]
  /\ \A u \in Threads \ {t} :
       hand'[u] = hand[u] /\ ptr'[u] = ptr[u] /\ node'[u] = node[u]
  /\ \A c \in Blocks \ {b} : /\ c \in hand'[t] <=> c \in hand[t]
                             /\ ptr'[t] = c <=> ptr[t] = c
                             /\ node'[t] = c <=> node[t] = c
  /\ b \in hand'[t] => m.state = "OWNED" /\ m.owner_thread = t
  /\ \/ ~Live(m) /\ b \notin hand'[t] /\ ptr'[t] # b /\ node'[t] # b
     \/ Live(m) /\ b \in hand'[t] /\ ptr'[t] # b /\ node'[t] # b
     \/ Live(m) /\ b \notin hand'[t] /\ ptr'[t] = b /\ node'[t] # b
     \/ Live(m) /\ b \notin hand'[t] /\ ptr'[t] # b /\ node'[t] = b
  /\ UNCHANGED <<ch, head, tail, mutex, status>>

(* A step of t that touches one block, which is not in the list and in the *)
(* hands of no other thread.                                               *)
LEMMA LocalStep ==
  ASSUME NEW q, Inv(q), NEW t \in Threads, NEW b \in Blocks, NEW m \in Meta,
         NEW l \in Locations, Apart(q, b, t), LocalMove(t, b, m, l), CallOK(t)'
  PROVE  Inv(q)'
<1> USE DEF LocalMove
<1>1. TypeOK
  BY DEF Inv
<1>2. /\ meta'[b] = m /\ \A c \in (Blocks \cup {Chan}) \ {b} : meta'[c] = meta[c]
      /\ pc'[t] = l /\ \A u \in Threads \ {t} : pc'[u] = pc[u]
      /\ b # Chan /\ meta'[Chan] = meta[Chan]
  BY <1>1, ChannelAssumption DEF TypeOK
<1>3. TypeOK'
  BY <1>1 DEF TypeOK
<1>4. HeadersOK'
  BY <1>2 DEF Inv, HeadersOK
<1>5. PICK D \in SUBSET Blocks : D = {b}
  OBVIOUS
<1>6. /\ \A c \in D : Apart(q, c, t)
      /\ \A c \in Blocks \ D : /\ meta'[c] = meta[c] /\ data'[c] = data[c]
                               /\ next'[c] = next[c]
  BY <1>2, <1>5
<1>7. HandsOwn'
  <2>1. \A c \in hand'[t] : \/ c \in hand[t] /\ c \notin D
                            \/ meta'[c].state = "OWNED" /\ meta'[c].owner_thread = t
    BY <1>1, <1>2, <1>5 DEF TypeOK
  <2>2. \A c \in Blocks \ D : meta'[c] = meta[c]
    BY <1>2, <1>5
  <2>3. \A u \in Threads \ {t} : hand'[u] = hand[u]
    OBVIOUS
  <2> QED
    BY <1>6, <2>1, <2>2, <2>3, HandsKept
<1>8. ASSUME NEW u \in Threads \ {t}
      PROVE  CallOK(u)'
  <2>1. pc[u] = "free" => \A v \in Threads \ {u} : pc'[v] = "idle"
    BY <1>2 DEF Inv, CallOK
  <2>2. ptr[u] \notin D /\ node[u] \notin D
    BY <1>6 DEF Apart
  <2>3. /\ ptr'[u] = ptr[u] /\ node'[u] = node[u] /\ pc'[u] = pc[u] /\ ch' = ch
        /\ mutex' = mutex /\ meta'[Chan] = meta[Chan]
    BY <1>2
  <2> HIDE DEF LocalMove
  <2> QED
    BY <1>6, <2>1, <2>2, <2>3, Bystander
<1>9. ListOK(q)'
  <2>1. \A n \in Members(q) : n \notin D /\ data[n] \notin D
    BY <1>6 DEF Apart
  <2>2. UNCHANGED <<ch, head, tail>>
    OBVIOUS
  <2>3. \A u \in Threads : pc'[u] = "free" => pc[u] = "free" /\ node'[u] = node[u]
    BY <1>2
  <2> HIDE DEF LocalMove
  <2> QED
    BY <1>6, <2>1, <2>2, <2>3, ListKept
<1>10. \A n \in Members(q) : data'[n] = data[n]
  <2>1. \A n \in Members(q) : n \in Blocks /\ n # b
    BY DEF Inv, ListOK, Members, Apart
  <2> QED
    BY <2>1
<1>11. ASSUME NEW c \in Blocks \ {b}
       PROVE  Once(q, c)'
  <2>1. Live(meta[c])' <=> Live(meta[c])
    BY <1>2 DEF Live
  <2>2. \A u \in Threads : /\ c \in hand'[u] <=> c \in hand[u]
                           /\ ptr'[u] = c <=> ptr[u] = c
                           /\ node'[u] = c <=> node[u] = c
                           /\ pc'[u] = "free" <=> pc[u] = "free"
    BY <1>2
  <2>3. Left(c) => Left(c)'
    BY <1>2 DEF Left
  <2> QED
    BY <1>10, <2>1, <2>2, <2>3, OnceKept
<1>12. Once(q, b)'
  <2>1. Live(meta[b])' <=> Live(m)
    BY <1>2 DEF Live
  <2> QED
    BY <1>2, <1>10, <2>1, OnceMoved
<1> QED
  BY <1>3, <1>4, <1>7, <1>8, <1>9, <1>11, <1>12, UsedByKind DEF Inv

(* A thread outside the calls has no message and no node, and while one    *)
(* thread frees the channel the others are there.                          *)
LEMMA WhereThreadsAre ==
  ASSUME NEW q, Inv(q), NEW t \in Threads
  PROVE  /\ pc[t] = "idle" => ptr[t] = NULL /\ node[t] = NULL /\ mutex # t
         /\ pc[t] \notin {"idle", "free"} => \A u \in Threads : pc[u] # "free"
         /\ ch = "open" => pc[t] # "free"
         /\ meta[Chan] \in Meta /\ \A b \in Blocks : meta[b] \in Meta /\ meta[b].borrow_count = 0
<1>1. TypeOK /\ \A u \in Threads : CallOK(u)
  BY DEF Inv
<1>2. \A b \in Blocks : meta[b].borrow_count = 0
  BY DEF Inv, HeadersOK
<1>3. CallOK(t)
  BY <1>1
<1>4. pc[t] = "idle" => ptr[t] = NULL /\ node[t] = NULL /\ mutex # t
  BY <1>3 DEF CallOK, Sending, Taken, HasNode
<1>5. pc[t] \notin {"idle", "free"} => \A u \in Threads : pc[u] # "free"
  BY <1>1 DEF CallOK
<1>6. ch = "open" => pc[t] # "free"
  BY <1>3 DEF CallOK
<1> QED
  BY <1>1, <1>2, <1>4, <1>5, <1>6 DEF TypeOK

(* owner_malloc gives a client a block nobody has.                         *)
LEMMA MallocPreserves ==
  ASSUME NEW q, Inv(q), NEW t \in Threads, NEW b \in Blocks, owner_malloc(t, b)
  PROVE  Inv(q)'
<1>1. /\ pc[t] = "idle" /\ meta[b].state = "INVALID"
      /\ meta' = [meta EXCEPT ![b] = NewMeta(t)] /\ pc' = [pc EXCEPT ![t] = "idle"]
      /\ hand' = [hand EXCEPT ![t] = hand[t] \cup {b}]
      /\ UNCHANGED <<data, next, ch, head, tail, mutex, ptr, node, status>>
  BY DEF owner_malloc, Runtime, Goto, At, list
<1>2. TypeOK /\ CallOK(t) /\ b # NULL
  BY ChannelAssumption DEF Inv
<1>3. ptr[t] = NULL /\ node[t] = NULL /\ mutex # t
  BY <1>1, WhereThreadsAre
<1>4. ~Live(meta[b])
  BY <1>1 DEF Live
<1>5. Apart(q, b, t)
  BY <1>4, OwnApart
<1>6. /\ hand' \in [Threads -> SUBSET Blocks] /\ hand'[t] = hand[t] \cup {b}
      /\ \A u \in Threads \ {t} : hand'[u] = hand[u]
  BY <1>1, <1>2 DEF TypeOK
<1>7. /\ NewMeta(t) \in Meta /\ NewMeta(t).borrow_count = 0 /\ NewMeta(t).state = "OWNED"
      /\ NewMeta(t).owner_thread = t /\ Live(NewMeta(t)) /\ "idle" \in Locations
  BY FreshHeader DEF Live, Locations
<1>8. pc'[t] = "idle"
  BY <1>1, <1>2 DEF TypeOK
<1>9. CallOK(t)'
  BY <1>1, <1>3, <1>8 DEF CallOK, Sending, Taken, HasNode
<1>10. b \notin hand[t]
  BY <1>1 DEF Inv, HandsOwn
<1>11. \A c \in hand'[t] : \/ c \in hand[t] /\ c # b
                           \/ c = b /\ NewMeta(t).state = "OWNED" /\ NewMeta(t).owner_thread = t
  BY <1>6, <1>7, <1>10
<1>12. /\ data' \in [Blocks -> BlockOrNull] /\ next' \in [Blocks -> BlockOrNull]
       /\ ptr' \in [Threads -> BlockOrNull] /\ node' \in [Threads -> BlockOrNull]
  BY <1>1, <1>2 DEF TypeOK
<1>13. LocalMove(t, b, NewMeta(t), "idle")
  BY <1>1, <1>2, <1>3, <1>6, <1>7, <1>11, <1>12 DEF LocalMove
<1> QED
  BY <1>5, <1>7, <1>9, <1>13, LocalStep

(* A client frees a block it owns.                                         *)
LEMMA FreePreserves ==
  ASSUME NEW q, Inv(q), NEW t \in Threads, NEW b \in Blocks, owner_free(t, b)
  PROVE  Inv(q)' /\ UNCHANGED status
<1>1. pc[t] = "idle" /\ b \in hand[t] /\ TypeOK /\ CallOK(t) /\ b # NULL
  BY ChannelAssumption DEF owner_free, At, Inv
<1>2. ~free_fault(meta[b], t)
  BY <1>1, WhereThreadsAre DEF Inv, HandsOwn, free_fault, Foreign
<1>3. /\ meta' = [meta EXCEPT ![b] = Freed(meta[b])] /\ pc' = [pc EXCEPT ![t] = "idle"]
      /\ hand' = [hand EXCEPT ![t] = hand[t] \ {b}]
      /\ UNCHANGED <<data, next, ch, head, tail, mutex, ptr, node, status>>
  BY <1>2 DEF owner_free, Runtime, Goto, list
<1>4. ptr[t] = NULL /\ node[t] = NULL /\ mutex # t
  BY <1>1, WhereThreadsAre
<1>5. Apart(q, b, t)
  BY <1>1, OwnApart
<1>6. /\ hand' \in [Threads -> SUBSET Blocks] /\ hand'[t] = hand[t] \ {b}
      /\ \A u \in Threads \ {t} : hand'[u] = hand[u]
  BY <1>1, <1>3 DEF TypeOK
<1>7. /\ Freed(meta[b]) \in Meta /\ Freed(meta[b]).borrow_count = 0
      /\ Freed(meta[b]).state # "BORROWED" /\ ~Live(Freed(meta[b])) /\ "idle" \in Locations
  BY HeaderFacts, WhereThreadsAre DEF Live, Locations
<1>8. pc'[t] = "idle"
  BY <1>1, <1>3 DEF TypeOK
<1>9. CallOK(t)'
  BY <1>3, <1>4, <1>8 DEF CallOK, Sending, Taken, HasNode
<1>10. \A c \in hand'[t] : c \in hand[t] /\ c # b
  BY <1>6
<1>11. /\ data' \in [Blocks -> BlockOrNull] /\ next' \in [Blocks -> BlockOrNull]
       /\ ptr' \in [Threads -> BlockOrNull] /\ node' \in [Threads -> BlockOrNull]
  BY <1>1, <1>3 DEF TypeOK
<1>12. LocalMove(t, b, Freed(meta[b]), "idle")
  BY <1>1, <1>3, <1>4, <1>6, <1>7, <1>10, <1>11 DEF LocalMove
<1>13. Inv(q)'
  BY <1>5, <1>7, <1>9, <1>12, LocalStep
<1> QED
  BY <1>3, <1>13

(* What is to be sent goes from the client's hands into the call.          *)
LEMMA SendPreserves ==
  ASSUME NEW q, Inv(q), "detach" \in Careful, NEW t \in Threads, NEW b \in Blocks,
         ownedc_channel_send(t, b)
  PROVE  Inv(q)'
<1>1. /\ pc[t] = "idle" /\ ch = "open" /\ b \in hand[t]
      /\ ptr' = [ptr EXCEPT ![t] = b] /\ hand' = [hand EXCEPT ![t] = hand[t] \ {b}]
      /\ pc' = [pc EXCEPT ![t] = "share"]
      /\ UNCHANGED <<meta, data, next, ch, head, tail, mutex, node, status>>
  BY DEF ownedc_channel_send, At, Goto, list
<1>2. TypeOK /\ CallOK(t) /\ b # NULL
  BY ChannelAssumption DEF Inv
<1>3. ptr[t] = NULL /\ node[t] = NULL /\ mutex # t
  BY <1>1, WhereThreadsAre
<1>4. Apart(q, b, t)
  BY <1>1, OwnApart
<1>5. PICK m \in Meta : m = meta[b] /\ m.borrow_count = 0 /\ m.state = "OWNED"
                        /\ m.owner_thread = t
  BY <1>1, WhereThreadsAre DEF Inv, HandsOwn
<1>6. meta' = [meta EXCEPT ![b] = m]
  BY <1>1, <1>2, <1>5 DEF TypeOK
<1>7. /\ hand' \in [Threads -> SUBSET Blocks] /\ hand'[t] = hand[t] \ {b}
      /\ ptr' \in [Threads -> BlockOrNull] /\ ptr'[t] = b
      /\ \A u \in Threads \ {t} : hand'[u] = hand[u] /\ ptr'[u] = ptr[u]
      /\ data' \in [Blocks -> BlockOrNull] /\ next' \in [Blocks -> BlockOrNull]
      /\ node' \in [Threads -> BlockOrNull] /\ pc'[t] = "share"
  BY <1>1, <1>2 DEF TypeOK, BlockOrNull
<1>8. CallOK(t)'
  BY <1>1, <1>2, <1>3, <1>5, <1>7 DEF CallOK, Sending, Taken, HasNode
<1>9. "share" \in Locations /\ Live(m)
  BY <1>5 DEF Locations, Sending, Live
<1>10. \A u \in Threads : pc[u] # "free"
  BY <1>1, WhereThreadsAre
<1>11. \A c \in hand'[t] : c \in hand[t] /\ c # b
  BY <1>7
<1>12. \A c \in Blocks \ {b} : /\ c \in hand'[t] <=> c \in hand[t]
                               /\ ptr'[t] = c <=> ptr[t] = c
                               /\ node'[t] = c <=> node[t] = c
  BY <1>1, <1>3, <1>7, ChannelAssumption
<1>13. b \notin hand'[t] /\ ptr'[t] = b /\ node'[t] # b
  BY <1>1, <1>2, <1>3, <1>7
<1>14. LocalMove(t, b, m, "share")
  BY <1>1, <1>5, <1>6, <1>7, <1>9, <1>10, <1>11, <1>12, <1>13, ZenonT(40) DEF LocalMove
<1> QED
  BY <1>4, <1>8, <1>9, <1>14, LocalStep

(* The message is shared, which its sender may.                            *)
LEMMA SharePreserves ==
  ASSUME NEW q, Inv(q), NEW t \in Threads, send_share(t)
  PROVE  Inv(q)' /\ UNCHANGED status
<1>1. pc[t] = "share" /\ TypeOK /\ CallOK(t)
  BY DEF send_share, At, Inv
<1>2. PICK b \in Blocks : /\ b = ptr[t] /\ b # NULL /\ meta[b].state = "OWNED"
                          /\ meta[b].owner_thread = t
  BY <1>1, ChannelAssumption DEF CallOK, Sending, TypeOK, BlockOrNull
<1>3. /\ meta' = [meta EXCEPT ![b] = Shared(meta[b])] /\ pc' = [pc EXCEPT ![t] = "node"]
      /\ UNCHANGED <<data, next, ch, head, tail, mutex, ptr, node, hand, status>>
  BY <1>2 DEF send_share, share_fault, Runtime, Goto, list, locals
<1>4. PICK m \in Meta : m = Shared(meta[b]) /\ m.borrow_count = 0 /\ m.state = "SHARED"
                        /\ Live(m)
  BY HeaderFacts, WhereThreadsAre DEF Live
<1>5. Apart(q, b, t)
  BY <1>2, OwnApart
<1>6. /\ pc'[t] = "node" /\ meta'[b] = m /\ "node" \in Locations
      /\ data' \in [Blocks -> BlockOrNull] /\ next' \in [Blocks -> BlockOrNull]
      /\ ptr' \in [Threads -> BlockOrNull] /\ node' \in [Threads -> BlockOrNull]
      /\ hand' \in [Threads -> SUBSET Blocks]
  BY <1>1, <1>2, <1>3, <1>4 DEF TypeOK, Locations, Sending
<1>7. node[t] = NULL /\ mutex # t /\ \A u \in Threads : pc[u] # "free"
  BY <1>1, WhereThreadsAre DEF CallOK, HasNode
<1>8. CallOK(t)'
  BY <1>1, <1>2, <1>3, <1>4, <1>6, <1>7 DEF CallOK, Sending, Taken, HasNode
<1>9. b \notin hand[t]
  <2>1. Once(q, b) /\ t \in OnTheWay(b)
    BY <1>2, UsedByKind DEF Inv, OnTheWay
  <2> QED
    BY <2>1 DEF Once, AtMostOne, InHand
<1>10. LocalMove(t, b, m, "node")
  BY <1>1, <1>2, <1>3, <1>4, <1>6, <1>7, <1>9 DEF LocalMove
<1>11. Inv(q)'
  BY <1>5, <1>6, <1>8, <1>10, LocalStep
<1> QED
  BY <1>3, <1>11

(* A fresh node is filled in.                                              *)
LEMMA NodePreserves ==
  ASSUME NEW q, Inv(q), NEW t \in Threads, NEW n \in Blocks, send_node(t, n)
  PROVE  Inv(q)'
<1>1. /\ pc[t] = "node" /\ meta[n].state = "INVALID"
      /\ meta' = [meta EXCEPT ![n] = NewMeta(t)] /\ pc' = [pc EXCEPT ![t] = "send_lock"]
      /\ data' = [data EXCEPT ![n] = ptr[t]] /\ next' = [next EXCEPT ![n] = NULL]
      /\ node' = [node EXCEPT ![t] = n]
      /\ UNCHANGED <<ch, head, tail, mutex, ptr, hand, status>>
  BY DEF send_node, Runtime, Goto, At
<1>2. TypeOK /\ CallOK(t) /\ n # NULL
  BY ChannelAssumption DEF Inv
<1>3. /\ node[t] = NULL /\ mutex # t /\ ptr[t] # NULL /\ meta[ptr[t]].state = "SHARED"
      /\ ptr[t] # n /\ \A u \in Threads : pc[u] # "free"
  BY <1>1, <1>2, WhereThreadsAre DEF CallOK, HasNode, Sending
<1>4. ~Live(meta[n])
  BY <1>1 DEF Live
<1>5. Apart(q, n, t)
  BY <1>4, OwnApart
<1>6. PICK m \in Meta : /\ m = NewMeta(t) /\ m.borrow_count = 0 /\ m.state = "OWNED"
                        /\ m.owner_thread = t /\ Live(m)
  BY FreshHeader DEF Live
<1>7. /\ data' \in [Blocks -> BlockOrNull] /\ data'[n] = ptr[t]
      /\ next' \in [Blocks -> BlockOrNull] /\ next'[n] = NULL
      /\ \A c \in Blocks \ {n} : data'[c] = data[c] /\ next'[c] = next[c]
      /\ node' \in [Threads -> BlockOrNull] /\ node'[t] = n
      /\ \A u \in Threads \ {t} : node'[u] = node[u]
      /\ ptr' \in [Threads -> BlockOrNull] /\ hand' \in [Threads -> SUBSET Blocks]
      /\ pc'[t] = "send_lock" /\ "send_lock" \in Locations
  BY <1>1, <1>2 DEF TypeOK, BlockOrNull, Locations, Sending
<1>8. /\ meta'[n] = m /\ meta'[ptr[t]] = meta[ptr[t]]
  BY <1>1, <1>2, <1>3, <1>6 DEF TypeOK, BlockOrNull
<1>9. CallOK(t)'
  BY <1>1, <1>2, <1>3, <1>6, <1>7, <1>8 DEF CallOK, Sending, Taken, HasNode
<1>10. n \notin hand[t]
  BY <1>1 DEF Inv, HandsOwn
<1>11. \A c \in Blocks \ {n} : node'[t] = c <=> node[t] = c
  BY <1>3, <1>7, ChannelAssumption
<1>12. LocalMove(t, n, m, "send_lock")
  BY <1>1, <1>3, <1>6, <1>7, <1>10, <1>11 DEF LocalMove
<1> QED
  BY <1>5, <1>7, <1>9, <1>12, LocalStep

(* The receiver claims the node it has taken off.                          *)
LEMMA ClaimNodePreserves ==
  ASSUME NEW q, Inv(q), NEW t \in Threads, recv_claim_node(t)
  PROVE  Inv(q)'
<1>1. /\ pc[t] = "claim_node" /\ TypeOK /\ CallOK(t)
      /\ meta' = [meta EXCEPT ![node[t]] = Claimed(meta[node[t]], t)]
      /\ pc' = [pc EXCEPT ![t] = "free_node"]
      /\ UNCHANGED <<data, next, ch, head, tail, mutex, ptr, node, hand, status>>
  BY DEF recv_claim_node, At, Inv, Runtime, Goto, list, locals
<1>2. PICK n \in Blocks : n = node[t] /\ n # NULL /\ meta[n].state = "OWNED"
  BY <1>1, ChannelAssumption DEF CallOK, HasNode, TypeOK, BlockOrNull
<1>3. PICK m \in Meta : /\ m = Claimed(meta[n], t) /\ m.borrow_count = 0
                        /\ m.state = "OWNED" /\ m.owner_thread = t /\ Live(m)
  BY HeaderFacts, WhereThreadsAre, SMTT(30) DEF Live
<1>4. Apart(q, n, t)
  BY <1>1, <1>2, OwnApart
<1>5. n \notin hand[t] /\ ptr[t] # n /\ ptr[t] # NULL /\ meta[ptr[t]].state = "SHARED"
  <2>1. Once(q, n) /\ t \in Busy(n)
    BY <1>1, <1>2, UsedByKind DEF Inv, Busy, AsNode
  <2>2. n \notin hand[t] /\ ptr[t] # n
    BY <2>1 DEF Once, AtMostOne, InHand, OnTheWay
  <2> QED
    BY <1>1, <2>2 DEF CallOK, Taken
<1>6. /\ pc'[t] = "free_node" /\ meta'[n] = m /\ meta'[ptr[t]] = meta[ptr[t]]
      /\ "free_node" \in Locations
      /\ data' \in [Blocks -> BlockOrNull] /\ next' \in [Blocks -> BlockOrNull]
      /\ ptr' \in [Threads -> BlockOrNull] /\ node' \in [Threads -> BlockOrNull]
      /\ hand' \in [Threads -> SUBSET Blocks]
  BY <1>1, <1>2, <1>3, <1>5 DEF TypeOK, Locations, Taken, BlockOrNull
<1>7. \A u \in Threads : pc[u] # "free"
  BY <1>1, WhereThreadsAre
<1>8. CallOK(t)'
  BY <1>1, <1>2, <1>3, <1>5, <1>6 DEF CallOK, Sending, Taken, HasNode
<1>9. LocalMove(t, n, m, "free_node")
  BY <1>1, <1>2, <1>3, <1>5, <1>6, <1>7 DEF LocalMove
<1> QED
  BY <1>4, <1>6, <1>8, <1>9, LocalStep

(* ... and frees it, which it may now.                                     *)
LEMMA FreeNodePreserves ==
  ASSUME NEW q, Inv(q), NEW t \in Threads, recv_free_node(t)
  PROVE  Inv(q)' /\ UNCHANGED status
<1>1. pc[t] = "free_node" /\ TypeOK /\ CallOK(t)
  BY DEF recv_free_node, At, Inv
<1>2. PICK n \in Blocks : /\ n = node[t] /\ n # NULL /\ meta[n].state = "OWNED"
                          /\ meta[n].owner_thread = t
  BY <1>1, ChannelAssumption DEF CallOK, HasNode, TypeOK, BlockOrNull
<1>3. ~free_fault(meta[n], t)
  BY <1>2, WhereThreadsAre DEF free_fault, Foreign
<1>4. /\ meta' = [meta EXCEPT ![n] = Freed(meta[n])] /\ pc' = [pc EXCEPT ![t] = "claim"]
      /\ node' = [node EXCEPT ![t] = NULL]
      /\ UNCHANGED <<data, next, ch, head, tail, mutex, ptr, hand, status>>
  BY <1>2, <1>3 DEF recv_free_node, Runtime, Goto, list
<1>5. PICK m \in Meta : /\ m = Freed(meta[n]) /\ m.borrow_count = 0
                        /\ m.state # "BORROWED" /\ ~Live(m)
  BY HeaderFacts, WhereThreadsAre DEF Live
<1>6. Apart(q, n, t)
  BY <1>1, <1>2, OwnApart
<1>7. n \notin hand[t] /\ ptr[t] # n /\ ptr[t] # NULL /\ meta[ptr[t]].state = "SHARED"
  <2>1. Once(q, n) /\ t \in Busy(n)
    BY <1>1, <1>2, UsedByKind DEF Inv, Busy, AsNode
  <2>2. n \notin hand[t] /\ ptr[t] # n
    BY <2>1 DEF Once, AtMostOne, InHand, OnTheWay
  <2> QED
    BY <1>1, <2>2 DEF CallOK, Taken
<1>8. /\ pc'[t] = "claim" /\ meta'[ptr[t]] = meta[ptr[t]] /\ "claim" \in Locations
      /\ data' \in [Blocks -> BlockOrNull] /\ next' \in [Blocks -> BlockOrNull]
      /\ ptr' \in [Threads -> BlockOrNull] /\ node' \in [Threads -> BlockOrNull]
      /\ node'[t] = NULL /\ \A u \in Threads \ {t} : node'[u] = node[u]
      /\ hand' \in [Threads -> SUBSET Blocks]
  BY <1>1, <1>4, <1>7 DEF TypeOK, Locations, Taken, BlockOrNull
<1>9. \A u \in Threads : pc[u] # "free"
  BY <1>1, WhereThreadsAre
<1>10. CallOK(t)'
  BY <1>1, <1>4, <1>7, <1>8 DEF CallOK, Sending, Taken, HasNode
<1>11. \A c \in Blocks \ {n} : node'[t] = c <=> node[t] = c
  BY <1>2, <1>8, ChannelAssumption
<1>12. LocalMove(t, n, m, "claim")
  BY <1>1, <1>2, <1>4, <1>5, <1>7, <1>8, <1>9, <1>11 DEF LocalMove
<1>13. Inv(q)'
  BY <1>6, <1>8, <1>10, <1>12, LocalStep
<1> QED
  BY <1>4, <1>13

(* The message is claimed and returned: its receiver owns it.              *)
LEMMA ClaimPreserves ==
  ASSUME NEW q, Inv(q), NEW t \in Threads, recv_claim(t)
  PROVE  Inv(q)'
<1>1. /\ pc[t] = "claim" /\ TypeOK /\ CallOK(t)
      /\ meta' = [meta EXCEPT ![ptr[t]] = Claimed(meta[ptr[t]], t)]
      /\ pc' = [pc EXCEPT ![t] = "idle"]
      /\ hand' = [hand EXCEPT ![t] = hand[t] \cup {ptr[t]}]
      /\ ptr' = [ptr EXCEPT ![t] = NULL]
      /\ UNCHANGED <<data, next, ch, head, tail, mutex, node, status>>
  BY DEF recv_claim, At, Inv, Runtime, Goto, list
<1>2. PICK b \in Blocks : b = ptr[t] /\ b # NULL
  BY <1>1, ChannelAssumption DEF CallOK, Taken, TypeOK, BlockOrNull
<1>3. PICK m \in Meta : /\ m = Claimed(meta[b], t) /\ m.borrow_count = 0
                        /\ m.state = "OWNED" /\ m.owner_thread = t /\ Live(m)
  BY HeaderFacts, WhereThreadsAre, SMTT(30) DEF Live
<1>4. Apart(q, b, t)
  BY <1>1, <1>2, OwnApart
<1>5. b \notin hand[t] /\ node[t] = NULL /\ mutex # t
  <2>1. Once(q, b) /\ t \in OnTheWay(b)
    BY <1>1, <1>2, UsedByKind DEF Inv, OnTheWay
  <2>2. b \notin hand[t]
    BY <2>1 DEF Once, AtMostOne, InHand
  <2> QED
    BY <1>1, <2>2 DEF CallOK, HasNode
<1>6. /\ pc'[t] = "idle" /\ "idle" \in Locations
      /\ data' \in [Blocks -> BlockOrNull] /\ next' \in [Blocks -> BlockOrNull]
      /\ ptr' \in [Threads -> BlockOrNull] /\ node' \in [Threads -> BlockOrNull]
      /\ hand' \in [Threads -> SUBSET Blocks] /\ hand'[t] = hand[t] \cup {b}
      /\ ptr'[t] = NULL /\ \A u \in Threads \ {t} : ptr'[u] = ptr[u] /\ hand'[u] = hand[u]
  BY <1>1, <1>2 DEF TypeOK, Locations, BlockOrNull
<1>7. CallOK(t)'
  BY <1>1, <1>5, <1>6 DEF CallOK, Sending, Taken, HasNode
<1>8. \A c \in Blocks \ {b} : /\ ptr'[t] = c <=> ptr[t] = c
                              /\ c \in hand'[t] <=> c \in hand[t]
  BY <1>2, <1>6, ChannelAssumption
<1>9. \A c \in hand'[t] : \/ c \in hand[t] /\ c # b
                          \/ c = b /\ m.state = "OWNED" /\ m.owner_thread = t
  BY <1>3, <1>5, <1>6
<1>10. LocalMove(t, b, m, "idle")
  BY <1>1, <1>2, <1>3, <1>5, <1>6, <1>8, <1>9 DEF LocalMove
<1> QED
  BY <1>4, <1>6, <1>7, <1>10, LocalStep

(* A block that is not live has no use at all.                             *)
LEMMA DeadUnused ==
  ASSUME NEW q, Inv(q), NEW b \in Blocks, ~Live(meta[b])
  PROVE  /\ \A u \in Threads : b \notin hand[u] /\ ptr[u] # b /\ node[u] # b
         /\ \A n \in Members(q) : n # b /\ data[n] # b
<1>1. Once(q, b)
  BY UsedByKind DEF Inv
<1>2. InHand(b) = {} /\ OnTheWay(b) = {} /\ Busy(b) = {}
  BY <1>1 DEF Once, Some
<1>3. \A u \in Threads : /\ b \notin hand[u] /\ ptr[u] # b
                         /\ pc[u] # "free" => node[u] # b
  BY <1>2 DEF InHand, OnTheWay, Busy, AsNode
<1>4. \A n \in Members(q) : n # b /\ data[n] # b
  BY <1>1 DEF Once, Some, OnList, InList
<1>5. ASSUME NEW u \in Threads, pc[u] = "free"
      PROVE  node[u] # b
  <2>1. Linked(q, node[u]) /\ q \in Seq(Blocks)
    BY <1>5 DEF Inv, ListOK
  <2>2. node[u] = IF q = <<>> THEN NULL ELSE q[1]
    BY <2>1 DEF Linked
  <2>3. q # <<>> => q[1] \in Members(q)
    BY <2>1 DEF Members
  <2> QED
    BY <1>4, <2>2, <2>3, ChannelAssumption
<1> QED
  BY <1>3, <1>4, <1>5

(* The quarantine gives the memory of a freed block back.                  *)
LEMMA RecyclePreserves ==
  ASSUME NEW q, Inv(q), NEW b \in Blocks, Recycle(b)
  PROVE  Inv(q)'
<1>1. /\ meta[b].state = "FREED" /\ meta' = [meta EXCEPT ![b] = NoMeta]
      /\ data' = [data EXCEPT ![b] = NULL] /\ next' = [next EXCEPT ![b] = NULL]
      /\ UNCHANGED <<ch, head, tail, mutex, pc, ptr, node, hand, status>>
  BY DEF Recycle, locals
<1>2. TypeOK /\ b # Chan /\ ~Live(meta[b])
  BY <1>1, ChannelAssumption DEF Inv, Live
<1>3. /\ \A u \in Threads : b \notin hand[u] /\ ptr[u] # b /\ node[u] # b
      /\ \A n \in Members(q) : n # b /\ data[n] # b
  BY <1>2, DeadUnused
<1>4. /\ meta'[b] = NoMeta /\ meta'[Chan] = meta[Chan]
      /\ \A c \in Blocks \ {b} :
           meta'[c] = meta[c] /\ data'[c] = data[c] /\ next'[c] = next[c]
  BY <1>1, <1>2 DEF TypeOK
<1>5. TypeOK'
  BY <1>1, <1>2, FreshHeader DEF TypeOK, BlockOrNull
<1>6. HeadersOK'
  BY <1>1, <1>4, FreshHeader DEF Inv, HeadersOK
<1>7. HandsOwn'
  BY <1>1, <1>2, <1>3, <1>4 DEF Inv, HandsOwn, TypeOK
<1>8. PICK D \in SUBSET Blocks : D = {b}
  OBVIOUS
<1>9. \A c \in Blocks \ D : meta'[c] = meta[c] /\ data'[c] = data[c] /\ next'[c] = next[c]
  BY <1>4, <1>8
<1>10. ASSUME NEW u \in Threads
       PROVE  CallOK(u)'
  <2>1. ptr[u] \notin D /\ node[u] \notin D
    BY <1>3, <1>8
  <2>2. pc[u] = "free" => \A v \in Threads \ {u} : pc'[v] = "idle"
    BY <1>1 DEF Inv, CallOK
  <2> QED
    BY <1>1, <1>4, <1>9, <2>1, <2>2, Bystander
<1>11. ListOK(q)'
  <2>1. \A n \in Members(q) : n \notin D /\ data[n] \notin D
    BY <1>3, <1>8
  <2> QED
    BY <1>1, <1>9, <2>1, ListKept
<1>12. ASSUME NEW c \in Blocks
       PROVE  Once(q, c)'
  <2>1. Live(meta[c])' <=> Live(meta[c])
    BY <1>2, <1>4, FreshHeader DEF Live
  <2>2. \A n \in Members(q) : data'[n] = data[n]
    BY <1>3, <1>4 DEF Inv, ListOK, Members
  <2>3. Left(c) => Left(c)'
    BY <1>1, <1>2, <1>4 DEF Left
  <2> QED
    BY <1>1, <2>1, <2>2, <2>3, OnceKept
<1> QED
  BY <1>5, <1>6, <1>7, <1>10, <1>11, <1>12, UsedByKind DEF Inv

(* The channel is created, empty.                                          *)
LEMMA CreatePreserves ==
  ASSUME NEW q, Inv(q), NEW t \in Threads, ownedc_channel_create(t)
  PROVE  Inv(q)'
<1>1. /\ pc[t] = "idle" /\ ch = "none" /\ ch' = "open"
      /\ meta' = [meta EXCEPT ![Chan] = NewMeta(t)] /\ pc' = [pc EXCEPT ![t] = "idle"]
      /\ UNCHANGED <<data, next, head, tail, mutex, ptr, node, hand, status>>
  BY DEF ownedc_channel_create, Runtime, Goto, At, locals
<1>2. TypeOK /\ \A u \in Threads : CallOK(u) /\ pc[u] = "idle"
  BY <1>1 DEF Inv, CallOK
<1>3. pc' = pc /\ meta'[Chan] = NewMeta(t) /\ \A b \in Blocks : meta'[b] = meta[b]
  BY <1>1, <1>2, ChannelAssumption DEF TypeOK
<1>4. TypeOK'
  BY <1>1, <1>2, FreshHeader DEF TypeOK, Locations
<1>5. HeadersOK' /\ HandsOwn'
  BY <1>1, <1>2, <1>3, FreshHeader DEF Inv, HeadersOK, HandsOwn, TypeOK
<1>6. \A u \in Threads : CallOK(u)'
  BY <1>1, <1>2, <1>3 DEF CallOK, Sending, Taken, HasNode
<1>7. q = <<>> /\ head = NULL /\ tail = NULL
  BY <1>1 DEF Inv, ListOK
<1>8. ListOK(q)'
  <2>1. Linked(q, head)' /\ Members(q) = {}
    BY <1>1, <1>7 DEF Linked, Members
  <2> QED
    BY <1>1, <1>2, <1>3, <1>7, <2>1 DEF ListOK, Members
<1>9. ASSUME NEW b \in Blocks
      PROVE  Once(q, b)'
  <2>1. Live(meta[b])' <=> Live(meta[b])
    BY <1>3 DEF Live
  <2>2. ~Left(b)
    BY <1>1 DEF Left
  <2> QED
    BY <1>1, <1>3, <2>1, <2>2, OnceKept
<1> QED
  BY <1>4, <1>5, <1>6, <1>8, <1>9, UsedByKind DEF Inv

(* ownedc_channel_free begins, with every thread outside the channel.      *)
LEMMA ChannelFreePreserves ==
  ASSUME NEW q, Inv(q), NEW t \in Threads, ownedc_channel_free(t)
  PROVE  Inv(q)'
<1>1. /\ ch = "open" /\ ch' = "closing" /\ \A u \in Threads : pc[u] = "idle"
      /\ "creator" \in Careful => meta[Chan].owner_thread = t
      /\ "drain" \in Careful => head = NULL
      /\ node' = [node EXCEPT ![t] = head] /\ pc' = [pc EXCEPT ![t] = "free"]
      /\ UNCHANGED <<meta, data, next, head, tail, mutex, ptr, hand, status>>
  BY DEF ownedc_channel_free, Goto
<1>2. TypeOK /\ \A u \in Threads : CallOK(u)
  BY DEF Inv
<1>3. /\ pc'[t] = "free" /\ node'[t] = head
      /\ \A u \in Threads \ {t} : pc'[u] = "idle" /\ node'[u] = node[u]
  BY <1>1, <1>2 DEF TypeOK
<1>4. TypeOK' /\ HeadersOK' /\ HandsOwn'
  BY <1>1, <1>2 DEF Inv, TypeOK, HeadersOK, HandsOwn, Locations
<1>5. \A u \in Threads : ptr[u] = NULL /\ node[u] = NULL /\ mutex # u
  BY <1>1, WhereThreadsAre
<1>6. CallOK(t)'
  BY <1>1, <1>3, <1>5 DEF CallOK, Sending, Taken, HasNode
<1>7. \A u \in Threads \ {t} : CallOK(u)'
  BY <1>1, <1>3, <1>5 DEF CallOK, Sending, Taken, HasNode
<1>8. ListOK(q)'
  <2>1. PICK h : h = head
    OBVIOUS
  <2>2. ListOK(q) /\ Linked(q, h)
    BY <1>1, <2>1 DEF Inv, ListOK
  <2>3. Linked(q, h)' /\ node'[t] = h
    BY <1>1, <1>3, <2>1, <2>2 DEF Linked
  <2>4. Linked(q, node[t])'
    BY <2>3 DEF Linked
  <2>5. "drain" \in Careful => q = <<>>
    <3> SUFFICES ASSUME "drain" \in Careful, q # <<>> PROVE FALSE
      OBVIOUS
    <3>1. q[1] \in Blocks
      BY <2>2 DEF ListOK
    <3> QED
      BY <1>1, <2>1, <2>2, <3>1, ChannelAssumption DEF Linked
  <2> QED
    BY <1>1, <1>3, <2>2, <2>4, <2>5 DEF ListOK
<1>9. ASSUME NEW b \in Blocks
      PROVE  Once(q, b)'
  <2>1. \A u \in Threads : node[u] # b
    BY <1>5, ChannelAssumption
  <2>2. \A u \in Threads : ~(node'[u] = b /\ pc'[u] # "free")
    BY <1>3, <2>1
  <2>3. ~Left(b)
    BY <1>1 DEF Left
  <2> QED
    BY <1>1, <2>1, <2>2, <2>3, OnceKept DEF Live
<1> QED
  BY <1>4, <1>6, <1>7, <1>8, <1>9, UsedByKind DEF Inv

(* ownedc_channel_free frees the next node, if it may: one that another    *)
(* thread allocated is the fault it meets.                                 *)
LEMMA FreeNextPreserves ==
  ASSUME NEW q, Inv(q), NEW t \in Threads, free_next(t)
  PROVE  \/ Inv(q)' /\ "drain" \notin Careful /\ status' = "aborted" /\ pc'[t] = "free"
                    /\ node'[t] # NULL /\ meta'[node'[t]].owner_thread # t
         \/ Tail(q) \in Seq(Blocks) /\ Inv(Tail(q))' /\ UNCHANGED status
<1>1. pc[t] = "free" /\ node[t] # NULL /\ TypeOK /\ CallOK(t) /\ q \in Seq(Blocks)
  BY DEF free_next, At, Inv, ListOK
<1>2. PICK n \in Blocks : n = node[t]
  BY <1>1 DEF TypeOK, BlockOrNull
<1>3. Linked(q, n) /\ ListOK(q) /\ ch = "closing" /\ \A u \in Threads \ {t} : pc[u] = "idle"
  BY <1>1, <1>2 DEF Inv, ListOK, CallOK
<1>4. PICK r \in Seq(Blocks) :
        /\ r = Tail(q) /\ Members(q) = Members(r) \cup {n} /\ n \notin Members(r)
        /\ Linked(r, next[n]) /\ q # <<>>
  BY <1>1, <1>3, TailLinked, ChannelAssumption
<1>5. "drain" \notin Careful
  BY <1>3, <1>4 DEF ListOK
<1>6. meta[n].state = "OWNED" /\ meta[n].borrow_count = 0 /\ meta[n] \in Meta /\ n # Chan
  BY <1>3, <1>4, WhereThreadsAre, ChannelAssumption DEF ListOK
<1>7. CASE free_fault(meta[n], t)
  <2>1. UNCHANGED <<meta, mutex, pc, list, locals>> /\ status' = "aborted"
    BY <1>2, <1>7 DEF free_next, ownedc_diagnostics_fatal
  <2>2. Inv(q)'
    BY <2>1, StopPreserves
  <2>3. meta[n].owner_thread # t
    BY <1>6, <1>7 DEF free_fault, Foreign
  <2>4. pc' = pc /\ node' = node /\ meta' = meta
    BY <2>1 DEF locals
  <2> QED
    BY <1>1, <1>2, <1>5, <2>1, <2>2, <2>3, <2>4
<1>8. CASE ~free_fault(meta[n], t)
  <2>1. /\ meta' = [meta EXCEPT ![n] = Freed(meta[n])] /\ pc' = [pc EXCEPT ![t] = "free"]
        /\ node' = [node EXCEPT ![t] = next[n]]
        /\ UNCHANGED <<data, next, ch, head, tail, mutex, ptr, hand, status>>
    BY <1>2, <1>8 DEF free_next, Runtime, Goto, list
  <2>2. PICK m \in Meta : /\ m = Freed(meta[n]) /\ m.borrow_count = 0
                          /\ m.state = "FREED" /\ ~Live(m)
    BY <1>6, HeaderFacts DEF Live
  <2>3. /\ pc' = pc /\ node'[t] = next[n] /\ \A u \in Threads \ {t} : node'[u] = node[u]
        /\ meta'[n] = m /\ meta'[Chan] = meta[Chan]
        /\ \A b \in Blocks \ {n} : meta'[b] = meta[b]
    BY <1>1, <1>6, <2>1, <2>2 DEF TypeOK
  <2>4. TypeOK'
    BY <1>1, <2>1, <2>2 DEF TypeOK
  <2>5. HeadersOK'
    BY <2>1, <2>2, <2>3 DEF Inv, HeadersOK
  <2>6. \A b \in Blocks : Once(q, b)
    BY UsedByKind DEF Inv
  <2>7. /\ \A u \in Threads : n \notin hand[u] /\ ptr[u] # n
        /\ \A k \in Members(q) : data[k] # n
    <3>1. n \in OnList(q, n)
      BY <1>4 DEF OnList
    <3>2. InHand(n) = {} /\ OnTheWay(n) = {} /\ InList(q, n) = {}
      BY <2>6, <3>1 DEF Once, AtMostOne
    <3> QED
      BY <3>2 DEF InHand, OnTheWay, InList
  <2>8. HandsOwn'
    BY <1>1, <2>1, <2>3, <2>7 DEF Inv, HandsOwn, TypeOK
  <2>9. CallOK(t)'
    BY <1>1, <2>1, <2>3 DEF CallOK, Sending, Taken, HasNode
  <2>10. \A u \in Threads \ {t} : CallOK(u)'
    <3>1. \A u \in Threads \ {t} : ptr[u] = NULL /\ node[u] = NULL /\ mutex # u
      BY <1>3, WhereThreadsAre
    <3> QED
      BY <1>3, <2>1, <2>3, <3>1 DEF CallOK, Sending, Taken, HasNode
  <2>11. ListOK(r)'
    <3>1. PICK h : h = next[n]
      OBVIOUS
    <3>2. Linked(r, h)' /\ node'[t] = h
      BY <1>4, <2>1, <2>3, <3>1 DEF Linked
    <3>3. Linked(r, node[t])'
      BY <3>2 DEF Linked
    <3>4. \A k \in Members(r) : /\ k \in Blocks \ {n} /\ data[k] \in Blocks \ {n}
                                /\ meta[k].state = "OWNED" /\ meta[data[k]].state = "SHARED"
      BY <1>3, <1>4, <2>7 DEF ListOK, Members
    <3>5. \A u \in Threads : pc'[u] = "free" => u = t
      BY <1>3, <2>3
    <3> QED
      BY <1>3, <1>5, <2>1, <2>3, <3>3, <3>4, <3>5 DEF ListOK
  <2>12. ASSUME NEW b \in Blocks
         PROVE  Once(r, b)'
    <3>1. Live(meta[b])' <=> Live(meta[b]) /\ b # n
      BY <2>2, <2>3, <1>6 DEF Live
    <3>2. /\ InHand(b)' = InHand(b) /\ OnTheWay(b)' = OnTheWay(b) /\ Busy(b)' = Busy(b)
          /\ OnList(r, b)' \subseteq OnList(q, b) /\ InList(r, b)' \subseteq InList(q, b)
      BY <1>1, <1>4, <2>1, <2>3 DEF InHand, OnTheWay, Busy, AsNode, OnList, InList
    <3>3. CASE b = n
      <4>1. n \in OnList(q, n)
        BY <1>4 DEF OnList
      <4>2. InHand(b) = {} /\ OnTheWay(b) = {} /\ Busy(b) = {} /\ InList(q, b) = {}
        BY <2>6, <3>3, <4>1 DEF Once, AtMostOne
      <4>3. OnList(r, b)' = {} /\ InList(r, b)' = {}
        BY <1>4, <3>2, <3>3, <4>2 DEF OnList
      <4> QED
        BY <3>1, <3>2, <3>3, <4>2, <4>3 DEF Once, AtMostOne, Some
    <3>4. CASE b # n
      <4>1. Once(q, b)
        BY <2>6
      <4>2. meta'[b] = meta[b] /\ (Left(b) => Left(b)')
        BY <2>1, <2>3, <3>4 DEF Left
      <4>3. OnList(r, b)' = OnList(q, b)
        BY <1>4, <3>4 DEF OnList
      <4>4. InList(r, b)' = InList(q, b) \/ Left(b)'
        <5>1. CASE n \in InList(q, b)
          <6>1. meta[b].state = "SHARED"
            BY <1>3, <5>1 DEF InList, ListOK
          <6> QED
            BY <1>3, <1>5, <2>1, <4>2, <6>1 DEF Left
        <5>2. CASE n \notin InList(q, b)
          BY <1>4, <2>1, <5>2 DEF InList
        <5> QED
          BY <5>1, <5>2
      <4> QED
        BY <3>1, <3>2, <3>4, <4>1, <4>2, <4>3, <4>4 DEF Once, AtMostOne, Some
    <3> QED
      BY <3>3, <3>4
  <2>13. Inv(r)'
    BY <2>4, <2>5, <2>8, <2>9, <2>10, <2>11, <2>12, UsedByKind DEF Inv
  <2> QED
    BY <1>4, <2>1, <2>13
<1> QED
  BY <1>7, <1>8

(* ... and last the channel itself, which its creator may.                 *)
LEMMA FreeChannelPreserves ==
  ASSUME NEW q, Inv(q), NEW t \in Threads, free_channel(t)
  PROVE  /\ Inv(q)'
         /\ \/ UNCHANGED status
            \/ /\ "creator" \notin Careful /\ status' = "aborted" /\ pc'[t] = "free"
               /\ node'[t] = NULL /\ meta'[Chan].owner_thread # t
<1>1. pc[t] = "free" /\ node[t] = NULL /\ TypeOK /\ CallOK(t) /\ q \in Seq(Blocks)
  BY DEF free_channel, At, Inv, ListOK
<1>2. /\ ch = "closing" /\ \A u \in Threads \ {t} : pc[u] = "idle"
      /\ "creator" \in Careful => meta[Chan].owner_thread = t
  BY <1>1 DEF CallOK
<1>3. /\ meta[Chan].state = "OWNED" /\ meta[Chan].borrow_count = 0 /\ meta[Chan] \in Meta
  BY <1>2, WhereThreadsAre DEF Inv, HeadersOK
<1>4. CASE free_fault(meta[Chan], t)
  <2>1. UNCHANGED <<meta, mutex, pc, list, locals>> /\ status' = "aborted"
    BY <1>4 DEF free_channel, ownedc_diagnostics_fatal
  <2>2. Inv(q)'
    BY <2>1, StopPreserves
  <2>3. meta[Chan].owner_thread # t
    BY <1>3, <1>4 DEF free_fault, Foreign
  <2>4. pc' = pc /\ node' = node /\ meta' = meta
    BY <2>1 DEF locals
  <2> QED
    BY <1>1, <1>2, <2>1, <2>2, <2>3, <2>4
<1>5. CASE ~free_fault(meta[Chan], t)
  <2>1. /\ meta' = [meta EXCEPT ![Chan] = Freed(meta[Chan])] /\ pc' = [pc EXCEPT ![t] = "idle"]
        /\ ch' = "freed"
        /\ UNCHANGED <<data, next, head, tail, mutex, ptr, node, hand, status>>
    BY <1>5 DEF free_channel, Runtime, Goto, locals
  <2>2. /\ Freed(meta[Chan]) \in Meta /\ Freed(meta[Chan]).borrow_count = 0
        /\ Freed(meta[Chan]).state = "FREED"
    BY <1>3, HeaderFacts
  <2>3. /\ pc'[t] = "idle" /\ \A u \in Threads : pc'[u] = "idle"
        /\ meta'[Chan] = Freed(meta[Chan]) /\ \A b \in Blocks : meta'[b] = meta[b]
    BY <1>1, <1>2, <2>1, ChannelAssumption DEF TypeOK
  <2>4. TypeOK'
    BY <1>1, <2>1, <2>2 DEF TypeOK, Locations
  <2>5. HeadersOK' /\ HandsOwn'
    BY <1>1, <2>1, <2>2, <2>3 DEF Inv, HeadersOK, HandsOwn, TypeOK
  <2>6. \A u \in Threads : ptr[u] = NULL /\ node[u] = NULL /\ mutex # u
    <3>1. \A u \in Threads \ {t} : ptr[u] = NULL /\ node[u] = NULL /\ mutex # u
      BY <1>2, WhereThreadsAre
    <3> QED
      BY <1>1, <3>1 DEF CallOK, Sending, Taken
  <2>7. \A u \in Threads : CallOK(u)'
    BY <2>1, <2>3, <2>6 DEF CallOK, Sending, Taken, HasNode
  <2>8. q = <<>>
    <3> SUFFICES ASSUME q # <<>> PROVE FALSE
      OBVIOUS
    <3>1. q[1] \in Blocks /\ Linked(q, node[t])
      BY <1>1 DEF Inv, ListOK
    <3> QED
      BY <1>1, <3>1, ChannelAssumption DEF Linked
  <2>9. ListOK(q)'
    BY <2>1, <2>3, <2>8 DEF ListOK, Members
  <2>10. ASSUME NEW b \in Blocks
         PROVE  Once(q, b)'
    <3>1. Live(meta[b])' <=> Live(meta[b])
      BY <2>3 DEF Live
    <3>2. \A u \in Threads : node[u] # b
      BY <2>6, ChannelAssumption
    <3>3. Left(b) => Left(b)'
      BY <2>1, <2>3 DEF Left
    <3> QED
      BY <2>1, <3>1, <3>2, <3>3, OnceKept
  <2>11. Inv(q)'
    BY <2>4, <2>5, <2>7, <2>9, <2>10, UsedByKind DEF Inv
  <2> QED
    BY <2>1, <2>11
<1> QED
  BY <1>4, <1>5

(* The node of t is put on the list and one waiter is woken: the message   *)
(* is the node's now.                                                      *)
LEMMA LinkPreserves ==
  ASSUME NEW q, Inv(q), NEW t \in Threads, send_link(t)
  PROVE  \E r \in Seq(Blocks) : r = Append(q, node[t]) /\ Inv(r)'
<1>1. /\ pc[t] = "link" /\ TypeOK /\ CallOK(t) /\ ListOK(q) /\ q \in Seq(Blocks)
      /\ HeadersOK /\ HandsOwn
  BY DEF send_link, At, Inv, ListOK
<1>2. PICK n \in Blocks, p \in Blocks :
        /\ n = node[t] /\ p = ptr[t] /\ meta[n].state = "OWNED" /\ meta[p].state = "SHARED"
        /\ next[n] = NULL /\ data[n] = p /\ n # p
  <2>1. /\ node[t] # NULL /\ ptr[t] # NULL /\ meta[node[t]].state = "OWNED"
        /\ meta[ptr[t]].state = "SHARED" /\ next[node[t]] = NULL /\ data[node[t]] = ptr[t]
    BY <1>1 DEF CallOK, HasNode, Sending
  <2> QED
    BY <1>1, <2>1 DEF TypeOK, BlockOrNull
<1>3. ch = "open" /\ mutex = t /\ \A u \in Threads : pc[u] # "free"
  BY <1>1, WhereThreadsAre DEF CallOK
<1>4. Apart(q, n, t) /\ Apart(q, p, t) /\ n \notin Members(q)
  BY <1>1, <1>2, OwnApart DEF Apart
<1>5. PICK r \in Seq(Blocks) :
        /\ r = Append(q, n) /\ r # <<>> /\ Members(r) = Members(q) \cup {n} /\ r[Len(r)] = n
  BY <1>1, <1>4, AppendLinked
<1>6. /\ tail = IF q = <<>> THEN NULL ELSE q[Len(q)]
      /\ q # <<>> => tail \in Members(q) /\ tail \in Blocks
      /\ tail = NULL <=> q = <<>>
  <2>1. tail = IF q = <<>> THEN NULL ELSE q[Len(q)]
    BY <1>1, <1>3 DEF ListOK
  <2>2. q # <<>> => Len(q) \in DOMAIN q
    BY <1>1
  <2>3. q # <<>> => tail \in Members(q) /\ tail \in Blocks
    BY <1>1, <2>1, <2>2 DEF Members
  <2> QED
    BY <2>1, <2>3, ChannelAssumption
<1>7. /\ next' = IF q = <<>> THEN next ELSE [next EXCEPT ![q[Len(q)]] = n]
      /\ head' = IF q = <<>> THEN n ELSE head
      /\ tail' = n /\ mutex' = NoThread
      /\ ptr' = [ptr EXCEPT ![t] = NULL] /\ node' = [node EXCEPT ![t] = NULL]
      /\ UNCHANGED <<meta, data, ch, hand, status>>
  BY <1>2, <1>6 DEF send_link
<1>8. /\ pc' \in [Threads -> Locations] /\ pc'[t] = "idle"
      /\ \A u \in Threads \ {t} : \/ pc'[u] = pc[u]
                                  \/ pc[u] = "waiting" /\ pc'[u] = "recv_lock"
  <2>1. CASE Waiting = {}
    BY <1>1, <2>1 DEF send_link, Goto, TypeOK, Locations
  <2>2. CASE Waiting # {}
    <3>1. PICK u \in Waiting : pc' = [pc EXCEPT ![t] = "idle", ![u] = "recv_lock"]
      BY <2>2 DEF send_link
    <3>2. u \in Threads /\ pc[u] = "waiting" /\ u # t
      BY <1>1 DEF Waiting
    <3> QED
      BY <1>1, <3>1, <3>2 DEF TypeOK, Locations
  <2> QED
    BY <2>1, <2>2
<1>9. /\ ptr'[t] = NULL /\ node'[t] = NULL
      /\ \A u \in Threads \ {t} : ptr'[u] = ptr[u] /\ node'[u] = node[u]
  BY <1>1, <1>7 DEF TypeOK
<1>10. next' \in [Blocks -> BlockOrNull] /\ \A b \in Blocks \ {tail} : next'[b] = next[b]
  BY <1>1, <1>6, <1>7 DEF TypeOK, BlockOrNull
<1>11. TypeOK'
  <2>1. head' \in BlockOrNull /\ tail' \in BlockOrNull
    BY <1>1, <1>7 DEF TypeOK, BlockOrNull
  <2> QED
    BY <1>1, <1>7, <1>8, <1>10, <2>1 DEF TypeOK, BlockOrNull
<1>12. HeadersOK' /\ HandsOwn'
  BY <1>1, <1>7 DEF HeadersOK, HandsOwn
<1>13. CallOK(t)'
  BY <1>7, <1>8, <1>9, NoThreadAssumption DEF CallOK, Sending, Taken, HasNode
<1>14. \A b \in Blocks : Once(q, b)
  BY UsedByKind DEF Inv
<1>15. ASSUME NEW u \in Threads \ {t}
       PROVE  CallOK(u)'
  <2>1. /\ mutex' # u /\ mutex # u
    BY <1>3, <1>7, NoThreadAssumption
  <2>2. CASE pc'[u] = pc[u]
    <3>1. PICK D \in SUBSET Blocks : D = {tail} \cap Blocks
      OBVIOUS
    <3>2. ptr[u] \notin D /\ node[u] \notin D
      <4> SUFFICES ASSUME q # <<>> PROVE ptr[u] # tail /\ node[u] # tail
        BY <1>6, <3>1, ChannelAssumption
      <4>1. tail \in OnList(q, tail) /\ tail \in Blocks
        BY <1>6 DEF OnList
      <4>2. OnTheWay(tail) = {} /\ Busy(tail) = {}
        BY <1>14, <4>1 DEF Once, AtMostOne
      <4> QED
        BY <1>3, <4>2 DEF OnTheWay, Busy, AsNode
    <3>3. \A b \in Blocks \ D : meta'[b] = meta[b] /\ data'[b] = data[b] /\ next'[b] = next[b]
      BY <1>7, <1>10, <3>1
    <3>4. ptr'[u] = ptr[u] /\ node'[u] = node[u] /\ pc[u] # "free" /\ ch' = ch
      BY <1>3, <1>7, <1>9
    <3> QED
      BY <2>1, <2>2, <3>2, <3>3, <3>4, Bystander
  <2>3. CASE pc[u] = "waiting" /\ pc'[u] = "recv_lock"
    <3>1. ptr[u] = NULL /\ node[u] = NULL
      BY <2>3 DEF Inv, CallOK, Sending, Taken, HasNode
    <3> QED
      BY <1>3, <1>7, <1>9, <2>1, <2>3, <3>1 DEF CallOK, Sending, Taken, HasNode
  <2> QED
    BY <1>8, <2>2, <2>3
<1>16. ListOK(r)'
  <2>1. PICK h : h = head
    OBVIOUS
  <2>2. Linked(q, h)
    BY <1>1, <1>3, <2>1 DEF ListOK
  <2>3. next \in [Blocks -> BlockOrNull]
    BY <1>1 DEF TypeOK
  <2>4. Linked(Append(q, n), IF q = <<>> THEN n ELSE h)'
    BY <1>1, <1>2, <1>4, <1>7, <2>2, <2>3, AppendLinked
  <2>5. Linked(r, head)'
    BY <1>5, <1>7, <2>1, <2>4 DEF Linked
  <2>6. \A u \in Threads : pc'[u] # "free"
    BY <1>3, <1>8
  <2>7. \A k \in Members(r) : /\ meta[k].state = "OWNED" /\ data[k] \in Blocks
                              /\ meta[data[k]].state = "SHARED"
    BY <1>1, <1>2, <1>5 DEF ListOK
  <2> QED
    BY <1>3, <1>5, <1>7, <2>5, <2>6, <2>7 DEF ListOK
<1>17. /\ \A b \in Blocks : InHand(b)' = InHand(b)
       /\ \A b \in Blocks : OnTheWay(b)' = IF b = p THEN {} ELSE OnTheWay(b)
       /\ \A b \in Blocks : Busy(b)' = IF b = n THEN {} ELSE Busy(b)
       /\ \A b \in Blocks : OnList(r, b)' = IF b = n THEN {n} ELSE OnList(q, b)
       /\ \A b \in Blocks : InList(r, b)' = IF b = p THEN {n} ELSE InList(q, b)
  <2>1. \A b \in Blocks : InHand(b)' = InHand(b)
    BY <1>7 DEF InHand
  <2>2. ASSUME NEW b \in Blocks
        PROVE  OnTheWay(b)' = IF b = p THEN {} ELSE OnTheWay(b)
    <3>1. b # NULL
      BY ChannelAssumption
    <3> QED
      BY <1>2, <1>4, <1>9, <3>1 DEF OnTheWay, Apart
  <2>3. ASSUME NEW b \in Blocks
        PROVE  Busy(b)' = IF b = n THEN {} ELSE Busy(b)
    <3>1. b # NULL /\ \A u \in Threads : pc[u] # "free" /\ pc'[u] # "free"
      BY <1>3, <1>8, ChannelAssumption
    <3> QED
      BY <1>2, <1>4, <1>9, <3>1 DEF Busy, AsNode, Apart
  <2>4. \A b \in Blocks : OnList(r, b)' = IF b = n THEN {n} ELSE OnList(q, b)
    BY <1>5 DEF OnList
  <2>5. \A b \in Blocks : InList(r, b)' = IF b = p THEN {n} ELSE InList(q, b)
    BY <1>2, <1>4, <1>5, <1>7 DEF InList, Apart
  <2> QED
    BY <2>1, <2>2, <2>3, <2>4, <2>5
<1>18. ASSUME NEW b \in Blocks
       PROVE  Once(r, b)'
  <2>1. Live(meta[b])' <=> Live(meta[b])
    BY <1>7 DEF Live
  <2>2. Once(q, b)
    BY <1>14
  <2>3. CASE b = n
    <3>1. t \in Busy(n) /\ Live(meta[n])
      BY <1>1, <1>2 DEF Busy, AsNode, Live
    <3>2. InHand(b) = {} /\ OnTheWay(b) = {} /\ InList(q, b) = {}
      BY <2>2, <2>3, <3>1 DEF Once, AtMostOne
    <3>3. /\ InHand(b)' = {} /\ OnTheWay(b)' = {} /\ Busy(b)' = {} /\ OnList(r, b)' = {n}
          /\ InList(r, b)' = {}
      BY <1>2, <1>17, <2>3, <3>2
    <3> QED
      BY <2>1, <2>3, <3>1, <3>3 DEF Once, AtMostOne, Some
  <2>4. CASE b = p
    <3>1. t \in OnTheWay(p) /\ Live(meta[p])
      BY <1>2 DEF OnTheWay, Live
    <3>2. InHand(b) = {} /\ Busy(b) = {} /\ OnList(q, b) = {}
      BY <2>2, <2>4, <3>1 DEF Once, AtMostOne
    <3>3. /\ InHand(b)' = {} /\ OnTheWay(b)' = {} /\ Busy(b)' = {} /\ OnList(r, b)' = {}
          /\ InList(r, b)' = {n}
      BY <1>2, <1>17, <2>4, <3>2
    <3> QED
      BY <2>1, <2>4, <3>1, <3>3 DEF Once, AtMostOne, Some
  <2>5. CASE b # n /\ b # p
    <3>1. /\ InHand(b)' = InHand(b) /\ OnTheWay(b)' = OnTheWay(b) /\ Busy(b)' = Busy(b)
          /\ OnList(r, b)' = OnList(q, b) /\ InList(r, b)' = InList(q, b)
      BY <1>17, <2>5
    <3>2. ~Left(b)
      BY <1>3 DEF Left
    <3> QED
      BY <2>1, <2>2, <3>1, <3>2 DEF Once
  <2> QED
    BY <2>3, <2>4, <2>5
<1>19. Inv(r)'
  BY <1>11, <1>12, <1>13, <1>15, <1>16, <1>18, UsedByKind DEF Inv
<1> QED
  BY <1>2, <1>5, <1>19

(* The first node comes off the list, and its message with it.             *)
LEMMA TakePreserves ==
  ASSUME NEW q, Inv(q), NEW t \in Threads, recv_take(t)
  PROVE  Tail(q) \in Seq(Blocks) /\ Inv(Tail(q))'
<1>1. /\ pc[t] = "take" /\ TypeOK /\ CallOK(t) /\ ListOK(q) /\ q \in Seq(Blocks)
      /\ HeadersOK /\ HandsOwn /\ head # NULL
  BY DEF recv_take, At, Inv, ListOK
<1>2. /\ ch = "open" /\ mutex = t /\ ptr[t] = NULL /\ node[t] = NULL
      /\ \A u \in Threads : pc[u] # "free"
  BY <1>1, WhereThreadsAre DEF CallOK, Sending, Taken, HasNode
<1>3. PICK n \in Blocks : n = head
  BY <1>1 DEF TypeOK, BlockOrNull
<1>4. Linked(q, n)
  BY <1>1, <1>2, <1>3 DEF ListOK
<1>5. PICK r \in Seq(Blocks) :
        /\ r = Tail(q) /\ Members(q) = Members(r) \cup {n} /\ n \notin Members(r)
        /\ Linked(r, next[n]) /\ q # <<>>
        /\ next[n] = NULL <=> r = <<>>
        /\ r # <<>> => r[Len(r)] = q[Len(q)]
  BY <1>1, <1>4, TailLinked, ChannelAssumption, ZenonT(40)
<1>6. PICK p \in Blocks : /\ p = data[n] /\ meta[n].state = "OWNED"
                          /\ meta[p].state = "SHARED" /\ n # p
  BY <1>1, <1>5 DEF ListOK
<1>7. /\ node' = [node EXCEPT ![t] = n] /\ ptr' = [ptr EXCEPT ![t] = p]
      /\ head' = next[n] /\ tail' = IF next[n] = NULL THEN NULL ELSE tail
      /\ mutex' = NoThread /\ pc' = [pc EXCEPT ![t] = "claim_node"]
      /\ UNCHANGED <<meta, data, next, ch, hand, status>>
  BY <1>3, <1>6 DEF recv_take, Goto
<1>8. /\ pc'[t] = "claim_node" /\ ptr'[t] = p /\ node'[t] = n
      /\ \A u \in Threads \ {t} : pc'[u] = pc[u] /\ ptr'[u] = ptr[u] /\ node'[u] = node[u]
  BY <1>1, <1>7 DEF TypeOK
<1>9. TypeOK'
  BY <1>1, <1>7 DEF TypeOK, BlockOrNull, Locations, Taken
<1>10. HeadersOK' /\ HandsOwn'
  BY <1>1, <1>7 DEF HeadersOK, HandsOwn
<1>11. CallOK(t)'
  BY <1>2, <1>6, <1>7, <1>8, NoThreadAssumption, ChannelAssumption
     DEF CallOK, Sending, Taken, HasNode
<1>12. ASSUME NEW u \in Threads \ {t}
       PROVE  CallOK(u)'
  <2>1. PICK D \in SUBSET Blocks : D = {}
    OBVIOUS
  <2>2. mutex' # u /\ mutex # u
    BY <1>2, <1>7, NoThreadAssumption
  <2> QED
    BY <1>2, <1>7, <1>8, <2>1, <2>2, Bystander
<1>13. ListOK(r)'
  <2>1. PICK h : h = next[n]
    OBVIOUS
  <2>2. Linked(r, h)' /\ head' = h
    BY <1>5, <1>7, <2>1 DEF Linked
  <2>3. Linked(r, head)'
    BY <2>2 DEF Linked
  <2>4. \A u \in Threads : pc'[u] # "free"
    BY <1>2, <1>8
  <2>5. tail' = IF r = <<>> THEN NULL ELSE r[Len(r)]
    BY <1>1, <1>2, <1>5, <1>7 DEF ListOK
  <2>6. \A k \in Members(r) : /\ meta[k].state = "OWNED" /\ data[k] \in Blocks
                              /\ meta[data[k]].state = "SHARED"
    BY <1>1, <1>5 DEF ListOK
  <2> QED
    BY <1>2, <1>7, <2>3, <2>4, <2>5, <2>6 DEF ListOK
<1>14. \A b \in Blocks : Once(q, b)
  BY UsedByKind DEF Inv
<1>15. /\ n \in OnList(q, n) /\ n \in InList(q, p) /\ Live(meta[n]) /\ Live(meta[p])
       /\ \A k \in InList(q, p) : k = n
  <2>1. n \in OnList(q, n) /\ n \in InList(q, p) /\ Live(meta[n]) /\ Live(meta[p])
    BY <1>5, <1>6 DEF OnList, InList, Live
  <2> QED
    BY <1>14, <2>1 DEF Once, AtMostOne
<1>16. /\ \A b \in Blocks : InHand(b)' = InHand(b)
       /\ \A b \in Blocks : OnTheWay(b)' = IF b = p THEN OnTheWay(b) \cup {t} ELSE OnTheWay(b)
       /\ \A b \in Blocks : Busy(b)' = IF b = n THEN Busy(b) \cup {t} ELSE Busy(b)
       /\ \A b \in Blocks : OnList(r, b)' = IF b = n THEN {} ELSE OnList(q, b)
       /\ \A b \in Blocks : InList(r, b)' = IF b = p THEN {} ELSE InList(q, b)
  <2>1. \A b \in Blocks : InHand(b)' = InHand(b)
    BY <1>7 DEF InHand
  <2>2. ASSUME NEW b \in Blocks
        PROVE  OnTheWay(b)' = IF b = p THEN OnTheWay(b) \cup {t} ELSE OnTheWay(b)
    <3>1. b # NULL
      BY ChannelAssumption
    <3> QED
      BY <1>2, <1>8, <3>1 DEF OnTheWay
  <2>3. ASSUME NEW b \in Blocks
        PROVE  Busy(b)' = IF b = n THEN Busy(b) \cup {t} ELSE Busy(b)
    <3>1. b # NULL /\ \A u \in Threads : pc[u] # "free" /\ pc'[u] # "free"
      BY <1>2, <1>8, ChannelAssumption
    <3> QED
      BY <1>2, <1>8, <3>1 DEF Busy, AsNode
  <2>4. \A b \in Blocks : OnList(r, b)' = IF b = n THEN {} ELSE OnList(q, b)
    BY <1>5 DEF OnList
  <2>5. \A b \in Blocks : InList(r, b)' = IF b = p THEN {} ELSE InList(q, b)
    BY <1>5, <1>6, <1>7, <1>15 DEF InList
  <2> QED
    BY <2>1, <2>2, <2>3, <2>4, <2>5
<1>17. ASSUME NEW b \in Blocks
       PROVE  Once(r, b)'
  <2>1. Live(meta[b])' <=> Live(meta[b])
    BY <1>7 DEF Live
  <2>2. Once(q, b)
    BY <1>14
  <2>3. CASE b = n
    <3>1. InHand(b) = {} /\ OnTheWay(b) = {} /\ Busy(b) = {} /\ InList(q, b) = {}
      BY <1>15, <2>2, <2>3 DEF Once, AtMostOne
    <3>2. /\ InHand(b)' = {} /\ OnTheWay(b)' = {} /\ Busy(b)' = {t} /\ OnList(r, b)' = {}
          /\ InList(r, b)' = {}
      BY <1>6, <1>16, <2>3, <3>1
    <3> QED
      BY <1>15, <2>1, <2>3, <3>2 DEF Once, AtMostOne, Some
  <2>4. CASE b = p
    <3>1. InHand(b) = {} /\ OnTheWay(b) = {} /\ Busy(b) = {} /\ OnList(q, b) = {}
      BY <1>15, <2>2, <2>4 DEF Once, AtMostOne
    <3>2. /\ InHand(b)' = {} /\ OnTheWay(b)' = {t} /\ Busy(b)' = {} /\ OnList(r, b)' = {}
          /\ InList(r, b)' = {}
      BY <1>6, <1>16, <2>4, <3>1
    <3> QED
      BY <1>15, <2>1, <2>4, <3>2 DEF Once, AtMostOne, Some
  <2>5. CASE b # n /\ b # p
    <3>1. /\ InHand(b)' = InHand(b) /\ OnTheWay(b)' = OnTheWay(b) /\ Busy(b)' = Busy(b)
          /\ OnList(r, b)' = OnList(q, b) /\ InList(r, b)' = InList(q, b)
      BY <1>16, <2>5
    <3>2. ~Left(b)
      BY <1>2 DEF Left
    <3> QED
      BY <2>1, <2>2, <3>1, <3>2 DEF Once
  <2> QED
    BY <2>3, <2>4, <2>5
<1>18. Inv(r)'
  BY <1>9, <1>10, <1>11, <1>12, <1>13, <1>17, UsedByKind DEF Inv
<1> QED
  BY <1>5, <1>18

-----------------------------------------------------------------------------
(* The invariant.                                                          *)

(* What a fault of the program looks like, and which care was not taken.   *)
Fault(t) ==
  /\ pc[t] = "free"
  /\ \/ /\ node[t] = NULL /\ "creator" \notin Careful
        /\ meta[Chan].owner_thread # t
     \/ /\ node[t] # NULL /\ "drain" \notin Careful
        /\ meta[node[t]].owner_thread # t

FaultOK == status = "aborted" => \E t \in Threads : Fault(t)

(* At first there is no channel, and no block is in use.                   *)
LEMMA InitOK == Init => IInv /\ FaultOK
<1> SUFFICES ASSUME Init PROVE IInv /\ FaultOK
  OBVIOUS
<1>1. PICK q \in Seq(Blocks) : q = <<>>
  <2>1. <<>> \in Seq(Blocks)
    OBVIOUS
  <2> QED
    BY <2>1, Zenon
<1>2. TypeOK
  BY FreshHeader DEF Init, TypeOK, BlockOrNull, Locations
<1>3. HeadersOK /\ HandsOwn /\ \A b \in Blocks : ~Live(meta[b])
  BY FreshHeader, ChannelAssumption DEF Init, HeadersOK, HandsOwn, Live
<1>4. \A t \in Threads : CallOK(t)
  BY NoThreadAssumption DEF Init, CallOK, Sending, Taken, HasNode
<1>5. Members(q) = {}
  BY <1>1 DEF Members
<1>6. ListOK(q)
  BY <1>1, <1>5 DEF Init, ListOK
<1>7. ASSUME NEW b \in Blocks
      PROVE  Once(q, b)
  <2>1. b # NULL
    BY ChannelAssumption
  <2>2. /\ InHand(b) = {} /\ OnTheWay(b) = {} /\ Busy(b) = {}
        /\ OnList(q, b) = {} /\ InList(q, b) = {}
    BY <1>5, <2>1 DEF Init, InHand, OnTheWay, Busy, AsNode, OnList, InList
  <2> QED
    BY <1>3, <2>2 DEF Once, AtMostOne, Some
<1>8. Inv(q)
  BY <1>2, <1>3, <1>4, <1>6, <1>7, UsedByKind DEF Inv
<1> QED
  BY <1>8 DEF IInv, FaultOK, Init

(* A call of a client.                                                     *)
LEMMA ClientPreserves ==
  ASSUME NEW q \in Seq(Blocks), Inv(q), "detach" \in Careful, NEW t \in Threads, Client(t)
  PROVE  Inv(q)' /\ status' = "running"
<1>1. CASE ownedc_channel_create(t)
  BY <1>1, CreatePreserves DEF ownedc_channel_create, At, Runtime
<1>2. CASE ownedc_channel_recv(t)
  BY <1>2, MovesPreserve DEF ownedc_channel_recv, At
<1>3. CASE ownedc_channel_free(t)
  BY <1>3, ChannelFreePreserves DEF ownedc_channel_free, At
<1>4. ASSUME NEW b \in Blocks, owner_malloc(t, b)
      PROVE  Inv(q)' /\ status' = "running"
  BY <1>4, MallocPreserves DEF owner_malloc, At, Runtime
<1>5. ASSUME NEW b \in Blocks, owner_free(t, b)
      PROVE  Inv(q)' /\ status' = "running"
  BY <1>5, FreePreserves DEF owner_free, At
<1>6. ASSUME NEW b \in Blocks, ownedc_channel_send(t, b)
      PROVE  Inv(q)' /\ status' = "running"
  BY <1>6, SendPreserves DEF ownedc_channel_send, At
<1> QED
  BY <1>1, <1>2, <1>3, <1>4, <1>5, <1>6 DEF Client

(* A step of a thread inside a call.                                       *)
LEMMA ContinuePreserves ==
  ASSUME NEW q \in Seq(Blocks), Inv(q), NEW t \in Threads, Continue(t)
  PROVE  /\ \E r \in Seq(Blocks) : Inv(r)'
         /\ status' \in {"running", "crashed"} \/ Fault(t)'
<1>1. CASE send_share(t)
  BY <1>1, SharePreserves DEF send_share, At
<1>2. ASSUME NEW n \in Blocks, send_node(t, n)
      PROVE  Inv(q)' /\ status' = "running"
  BY <1>2, NodePreserves DEF send_node, At, Runtime
<1>3. CASE send_node_null(t)
  BY <1>3, StopPreserves DEF send_node_null
<1>4. CASE lock(t)
  BY <1>4, MovesPreserve DEF lock
<1>5. CASE send_link(t)
  BY <1>5, LinkPreserves DEF send_link, At
<1>6. CASE recv_wait(t)
  BY <1>6, MovesPreserve DEF recv_wait, At
<1>7. CASE recv_take(t)
  BY <1>7, TakePreserves DEF recv_take, At
<1>8. CASE recv_claim_node(t)
  BY <1>8, ClaimNodePreserves DEF recv_claim_node, At, Runtime
<1>9. CASE recv_free_node(t)
  BY <1>9, FreeNodePreserves DEF recv_free_node, At
<1>10. CASE recv_claim(t)
  BY <1>10, ClaimPreserves DEF recv_claim, At, Runtime
<1>11. CASE free_next(t)
  <2>1. status = "running"
    BY <1>11 DEF free_next, At
  <2> QED
    BY <1>11, <2>1, FreeNextPreserves DEF Fault
<1>12. CASE free_channel(t)
  <2>1. status = "running"
    BY <1>12 DEF free_channel, At
  <2> QED
    BY <1>12, <2>1, FreeChannelPreserves DEF Fault
<1> QED
  BY <1>1, <1>2, <1>3, <1>4, <1>5, <1>6, <1>7, <1>8, <1>9, <1>10, <1>11, <1>12 DEF Continue

(* Every step.                                                             *)
LEMMA NextPreserves ==
  ASSUME "detach" \in Careful, IInv, FaultOK, [Next]_vars
  PROVE  IInv' /\ FaultOK'
<1>1. PICK q \in Seq(Blocks) : Inv(q)
  BY DEF IInv
<1>2. ASSUME NEW t \in Threads, Client(t)
      PROVE  IInv' /\ FaultOK'
  BY <1>1, <1>2, ClientPreserves DEF IInv, FaultOK
<1>3. ASSUME NEW t \in Threads, Continue(t)
      PROVE  IInv' /\ FaultOK'
  BY <1>1, <1>3, ContinuePreserves DEF IInv, FaultOK
<1>4. ASSUME NEW t \in Threads, spurious_wakeup(t)
      PROVE  IInv' /\ FaultOK'
  <2>1. status' = "running"
    BY <1>4 DEF spurious_wakeup, At
  <2>2. Inv(q)'
    BY <1>1, <1>4, MovesPreserve
  <2> QED
    BY <2>1, <2>2 DEF IInv, FaultOK
<1>5. ASSUME NEW b \in Blocks, Recycle(b)
      PROVE  IInv' /\ FaultOK'
  <2>1. status' = "running"
    BY <1>5 DEF Recycle
  <2>2. Inv(q)'
    BY <1>1, <1>5, RecyclePreserves
  <2> QED
    BY <2>1, <2>2 DEF IInv, FaultOK
<1>6. CASE UNCHANGED vars
  <2>1. UNCHANGED <<meta, mutex, pc, list, locals, status>>
    BY <1>6 DEF vars, list, locals
  <2>2. Inv(q)'
    BY <1>1, <2>1, StopPreserves DEF Inv, TypeOK
  <2>3. FaultOK'
    BY <2>1 DEF FaultOK, Fault, locals
  <2> QED
    BY <2>2, <2>3 DEF IInv
<1> QED
  BY <1>2, <1>3, <1>4, <1>5, <1>6 DEF Next, Terminated

(* The inductive invariant holds for all clients that give up what they    *)
(* send, and no fault but those of ownedc_channel_free ever happens.       *)
THEOREM ChannelInvariant ==
  ASSUME "detach" \in Careful
  PROVE  Spec => [](IInv /\ FaultOK)
<1>1. Init => IInv /\ FaultOK
  BY InitOK
<1>2. IInv /\ FaultOK /\ [Next]_vars => (IInv /\ FaultOK)'
  BY NextPreserves
<1> QED
  BY <1>1, <1>2, PTL DEF Spec

-----------------------------------------------------------------------------
(* Chain, the list as the properties walk it, against the nodes on it.     *)

(* A set of natural numbers has a least one.                               *)
LEMMA Least ==
  ASSUME NEW T \in SUBSET Nat, T # {}
  PROVE  \E x \in T : \A y \in T : x <= y
<1> DEFINE R == {ss \in Nat \X Nat : ss[1] < ss[2]}
<1>1. IsWellFoundedOn(OpToRel(<, Nat), Nat)
  BY NatLessThanWellFounded
<1>2. \E x \in T : \A y \in T : ~(<<y, x>> \in OpToRel(<, Nat))
  BY <1>1, WFMin
<1>3. OpToRel(<, Nat) = R
  BY DEF OpToRel
<1>4. PICK x \in T : \A y \in T : ~(<<y, x>> \in R)
  BY <1>2, <1>3
<1>5. \A y \in T : x \in Nat /\ y \in Nat /\ ~(y < x)
  BY <1>4
<1> HIDE DEF R
<1> QED
  BY <1>5

(* No node is twice on the list, so it is no longer than there are blocks. *)
LEMMA ListIsShort ==
  ASSUME NEW q \in Seq(Blocks), NEW first, Linked(q, first)
  PROVE  /\ Len(q) \in Nat /\ Cardinality(Blocks) \in Nat
         /\ Len(q) <= Cardinality(Blocks)
         /\ IsFiniteSet(Members(q)) /\ Cardinality(Members(q)) = Len(q)
<1>1. Len(q) \in Nat /\ DOMAIN q = 1 .. Len(q)
  OBVIOUS
<1>2. IsFiniteSet(1 .. Len(q)) /\ Cardinality(1 .. Len(q)) = Len(q)
  <2>1. PICK k \in Nat : k = Len(q)
    BY <1>1
  <2>2. IsFiniteSet(1 .. k) /\ Cardinality(1 .. k) = k
    BY FS_Interval
  <2> QED
    BY <2>1, <2>2
<1>3. q \in Bijection(1 .. Len(q), Members(q))
  <2>1. \A i \in 1 .. Len(q) : q[i] \in Members(q)
    BY <1>1 DEF Members
  <2>2. q \in [1 .. Len(q) -> Members(q)]
    <3>1. q = [i \in 1 .. Len(q) |-> q[i]]
      BY <1>1
    <3> QED
      BY <2>1, <3>1
  <2>3. \A i, j \in 1 .. Len(q) : q[i] = q[j] => i = j
    BY <1>1 DEF Linked
  <2>4. \A n \in Members(q) : \E i \in 1 .. Len(q) : q[i] = n
    BY <1>1 DEF Members
  <2> QED
    BY <2>2, <2>3, <2>4, Fun_IsBij
<1>4. ExistsBijection(1 .. Len(q), Members(q))
  BY <1>3 DEF ExistsBijection
<1>5. IsFiniteSet(Members(q)) /\ Cardinality(Members(q)) = Len(q)
  BY <1>2, <1>4, FS_Bijection
<1>6. Members(q) \in SUBSET Blocks
  BY <1>1 DEF Members
<1>7. Cardinality(Blocks) \in Nat /\ Cardinality(Members(q)) <= Cardinality(Blocks)
  BY <1>6, ChannelAssumption, FS_Subset, FS_CardinalityType
<1> QED
  BY <1>1, <1>5, <1>7

(* The walk from head along next passes q, and then stays at NULL.         *)
LEMMA ChainIs ==
  ASSUME NEW q \in Seq(Blocks), Linked(q, head)
  PROVE  Chain = [i \in 0 .. Cardinality(Blocks) |->
                    IF i < Len(q) THEN q[i + 1] ELSE NULL]
<1> DEFINE N == Cardinality(Blocks)
           e == [i \in 0 .. N |-> IF i < Len(q) THEN q[i + 1] ELSE NULL]
           Walk(c) == [i \in 0 .. N |->
                         IF i = 0 THEN head
                         ELSE IF c[i - 1] = NULL THEN NULL ELSE next[c[i - 1]]]
<1>1. Chain = CHOOSE c : c = Walk(c)
  BY DEF Chain
<1>2. /\ Len(q) \in Nat /\ N \in Nat /\ Len(q) <= N /\ DOMAIN q = 1 .. Len(q)
      /\ \A i \in 1 .. Len(q) : q[i] \in Blocks /\ q[i] # NULL
  BY ListIsShort, ChannelAssumption
<1> HIDE DEF N
<1>3. \A i \in 0 .. N : e[i] = IF i < Len(q) THEN q[i + 1] ELSE NULL
  OBVIOUS
<1>4. ASSUME NEW i \in 0 .. N
      PROVE  e[i] = IF i = 0 THEN head
                    ELSE IF e[i - 1] = NULL THEN NULL ELSE next[e[i - 1]]
  <2>1. CASE i = 0
    <3>1. q = <<>> <=> Len(q) = 0
      OBVIOUS
    <3> QED
      BY <1>2, <1>3, <2>1, <3>1 DEF Linked
  <2>2. CASE i # 0 /\ i - 1 < Len(q)
    <3>1. PICK k \in 1 .. Len(q) : k = i /\ k \in DOMAIN q
      BY <1>2, <2>2
    <3>2. next[q[k]] = IF k = Len(q) THEN NULL ELSE q[k + 1]
      BY <3>1 DEF Linked
    <3>3. i - 1 \in 0 .. N /\ (i - 1) + 1 = k
      BY <1>2, <2>2, <3>1
    <3>4. e[i - 1] = q[k] /\ q[k] # NULL
      BY <1>2, <1>3, <2>2, <3>1, <3>3
    <3>5. e[i] = IF k = Len(q) THEN NULL ELSE q[k + 1]
      <4>1. k < Len(q) <=> k # Len(q)
        <5>1. PICK l \in Nat : l = Len(q) /\ k \in 1 .. l
          BY <1>2
        <5>2. k < l <=> k # l
          BY <5>1
        <5> QED
          BY <5>1, <5>2
      <4>2. e[k] = IF k < Len(q) THEN q[k + 1] ELSE NULL
        BY <1>3, <3>1
      <4> QED
        BY <3>1, <4>1, <4>2
    <3> QED
      BY <2>2, <3>2, <3>4, <3>5
  <2>3. CASE i # 0 /\ ~(i - 1 < Len(q))
    <3>1. i - 1 \in 0 .. N /\ ~(i < Len(q))
      BY <1>2, <2>3
    <3> QED
      BY <1>3, <2>3, <3>1
  <2> QED
    BY <2>1, <2>2, <2>3
<1>5. e = Walk(e)
  BY <1>4
<1>6. ASSUME NEW c, c = Walk(c)
      PROVE  c = e
  <2>1. DOMAIN c = 0 .. N /\ c = [i \in 0 .. N |-> c[i]]
    BY <1>6
  <2>2. \A i \in 0 .. N : c[i] = IF i = 0 THEN head
                                 ELSE IF c[i - 1] = NULL THEN NULL ELSE next[c[i - 1]]
    BY <1>6
  <2>3. \A i \in 0 .. N : c[i] = e[i]
    <3> DEFINE T == {i \in 0 .. N : c[i] # e[i]}
    <3> SUFFICES ASSUME T # {} PROVE FALSE
      OBVIOUS
    <3>1. PICK k \in T : \A j \in T : k <= j
      <4>1. T \in SUBSET Nat
        BY <1>2
      <4> HIDE DEF T
      <4> QED
        BY <4>1, Least
    <3>2. k \in 0 .. N /\ c[k] # e[k]
      OBVIOUS
    <3>3. CASE k = 0
      BY <1>4, <2>2, <3>2, <3>3
    <3>4. CASE k # 0
      <4>1. k - 1 \in 0 .. N /\ ~(k <= k - 1)
        BY <1>2, <3>2, <3>4
      <4>2. c[k - 1] = e[k - 1]
        BY <3>1, <4>1
      <4> QED
        BY <1>4, <2>2, <3>2, <3>4, <4>2
    <3> QED
      BY <3>3, <3>4
  <2> HIDE DEF e
  <2>4. e = [i \in 0 .. N |-> e[i]]
    BY DEF e
  <2> QED
    BY <2>1, <2>3, <2>4
<1> HIDE DEF e, Walk
<1>7. (CHOOSE c : c = Walk(c)) = e
  BY <1>5, <1>6
<1> QED
  BY <1>1, <1>7 DEF e, N

(* The nodes the properties see on an open channel are those of the        *)
(* invariant, and the walk along them ends.                                *)
LEMMA QueuedIs ==
  ASSUME NEW q \in Seq(Blocks), Inv(q)
  PROVE  /\ ch = "open" => /\ Queued = Members(q) /\ Cardinality(Queued) = Len(q)
                           /\ Chain[Cardinality(Blocks)] = NULL
                           /\ \A i \in DOMAIN q : Chain[i - 1] = q[i]
         /\ ch # "open" => Queued = {}
<1>1. ASSUME ch = "open"
      PROVE  /\ Queued = Members(q) /\ Chain[Cardinality(Blocks)] = NULL
             /\ \A i \in DOMAIN q : Chain[i - 1] = q[i]
  <2>1. Linked(q, head)
    BY <1>1 DEF Inv, ListOK
  <2>2. PICK h : Linked(q, h)
    BY <2>1
  <2>3. PICK N \in Nat : N = Cardinality(Blocks) /\ Len(q) <= N /\ Len(q) \in Nat
    BY <2>2, ListIsShort
  <2>4. Chain = [i \in 0 .. N |-> IF i < Len(q) THEN q[i + 1] ELSE NULL]
    BY <2>1, <2>3, ChainIs
  <2>5. DOMAIN q = 1 .. Len(q) /\ \A i \in 1 .. Len(q) : q[i] \in Blocks /\ q[i] # NULL
    BY ChannelAssumption
  <2>6. DOMAIN Chain = 0 .. N
    BY <2>4
  <2>7. Chain[N] = NULL
    BY <2>3, <2>4
  <2>8. ASSUME NEW i \in 1 .. Len(q)
        PROVE  i - 1 \in 0 .. N /\ Chain[i - 1] = q[i]
    <3>1. i - 1 \in 0 .. N /\ i - 1 < Len(q) /\ (i - 1) + 1 = i
      BY <2>3
    <3> QED
      BY <2>4, <3>1
  <2>9. ASSUME NEW i \in 0 .. N, Chain[i] # NULL
        PROVE  Chain[i] \in Members(q)
    <3>1. i < Len(q) /\ Chain[i] = q[i + 1]
      BY <2>4, <2>9
    <3>2. i + 1 \in DOMAIN q
      BY <2>3, <2>5, <3>1
    <3> QED
      BY <3>1, <3>2 DEF Members
  <2>10. \A n : n \in Members(q) <=> n \in {Chain[i] : i \in 0 .. N} \ {NULL}
    BY <2>5, <2>8, <2>9 DEF Members
  <2> QED
    BY <1>1, <2>3, <2>5, <2>6, <2>7, <2>8, <2>10 DEF Queued
<1>2. ASSUME ch = "open"
      PROVE  Cardinality(Queued) = Len(q)
  <2>1. PICK h : Linked(q, h)
    BY <1>2 DEF Inv, ListOK
  <2> QED
    BY <1>1, <1>2, <2>1, ListIsShort
<1>3. ch # "open" => Queued = {}
  BY DEF Queued
<1> QED
  BY <1>1, <1>2, <1>3

-----------------------------------------------------------------------------
(* The theorems.                                                           *)

(* The list of an open channel stays whole, what is in it can be claimed   *)
(* and what came out of it belongs to the thread that has it: send_link    *)
(* and recv_take, in any order and by any threads, do not break it.        *)
THEOREM ChannelStaysOK ==
  ASSUME "detach" \in Careful
  PROVE  Spec => []ChannelOK
<1>1. ASSUME IInv
      PROVE  ChannelOK
  <2>1. PICK q \in Seq(Blocks) : Inv(q)
    BY <1>1 DEF IInv
  <2>2. TypeOK /\ HandsOwn /\ ListOK(q) /\ \A t \in Threads : CallOK(t)
    BY <2>1 DEF Inv
  <2>3. ASSUME ch = "open"
        PROVE  /\ Queued = Members(q) /\ Chain[Cardinality(Blocks)] = NULL
               /\ Linked(q, head) /\ tail = IF q = <<>> THEN NULL ELSE q[Len(q)]
    BY <2>1, <2>2, <2>3, QueuedIs DEF ListOK
  <2>4. /\ DOMAIN q = 1 .. Len(q) /\ Len(q) \in Nat
        /\ \A i \in 1 .. Len(q) : q[i] \in Blocks /\ q[i] # NULL
        /\ q # <<>> => Len(q) \in 1 .. Len(q) /\ 1 \in 1 .. Len(q)
    BY ChannelAssumption
  <2>5. ch = "open" => (head = NULL <=> tail = NULL)
    BY <2>3, <2>4 DEF Linked
  <2>6. ASSUME ch = "open", NEW n \in Queued
        PROVE  meta[n].state = "OWNED" /\ (next[n] = NULL <=> n = tail)
    <3>1. PICK i \in 1 .. Len(q) : n = q[i]
      BY <2>3, <2>4, <2>6 DEF Members
    <3>2. next[n] = IF i = Len(q) THEN NULL ELSE q[i + 1]
      BY <2>3, <2>4, <2>6, <3>1 DEF Linked
    <3>3. i # Len(q) => q[i + 1] # NULL
      <4>1. PICK l \in Nat : l = Len(q) /\ i \in 1 .. l
        BY <2>4
      <4>2. i # l => i + 1 \in 1 .. l
        BY <4>1
      <4> QED
        BY <2>4, <4>1, <4>2
    <3>4. q # <<>> /\ tail = q[Len(q)]
      BY <2>3, <2>4, <2>6
    <3>5. n = tail <=> i = Len(q)
      BY <2>3, <2>4, <2>6, <3>1, <3>4 DEF Linked
    <3> QED
      BY <2>2, <2>3, <2>6, <3>2, <3>3, <3>5 DEF ListOK
  <2>7. ListWhole
    BY <2>2, <2>3, <2>5, <2>6 DEF ListWhole, CallOK
  <2>8. \A n \in Queued : ch = "open"
    BY <2>1, QueuedIs
  <2>9. ReceiverOwns
    BY <2>2, <2>3, <2>8 DEF ReceiverOwns, ListOK
  <2> QED
    BY <2>2, <2>7, <2>9 DEF ChannelOK
<1> QED
  BY <1>1, ChannelInvariant, PTL

(* No message and no node is lost, delivered twice or freed while someone  *)
(* can reach it, for clients that also empty the channel before they free  *)
(* it.                                                                     *)
THEOREM ChannelOnePlace ==
  ASSUME {"detach", "drain"} \subseteq Careful
  PROVE  Spec => []OnePlace
<1>1. "detach" \in Careful /\ "drain" \in Careful
  OBVIOUS
<1>2. ASSUME IInv
      PROVE  OnePlace
  <2>1. PICK q \in Seq(Blocks) : Inv(q)
    BY <1>2 DEF IInv
  <2>2. Queued = Members(q)
    <3>1. CASE ch = "open"
      BY <2>1, <3>1, QueuedIs
    <3>2. CASE ch # "open"
      <4>1. Queued = {}
        BY <2>1, <3>2, QueuedIs
      <4>2. q = <<>>
        BY <1>1, <2>1, <3>2 DEF Inv, ListOK, TypeOK
      <4>3. Members(q) = {}
        BY <4>2 DEF Members
      <4> QED
        BY <4>1, <4>3
    <3> QED
      BY <3>1, <3>2
  <2>3. ASSUME NEW b \in Blocks, NEW t \in AsNode(b)
        PROVE  pc[t] # "free"
    <3> SUFFICES ASSUME pc[t] = "free" PROVE FALSE
      OBVIOUS
    <3>1. t \in Threads /\ node[t] = b /\ b # NULL
      BY <2>3, ChannelAssumption DEF AsNode
    <3>2. Linked(q, node[t]) /\ q = <<>>
      BY <1>1, <2>1, <3>1 DEF Inv, ListOK, CallOK
    <3> QED
      BY <3>1, <3>2 DEF Linked
  <2>4. ASSUME NEW b \in Blocks
        PROVE  Uses(b) = Places(q, b)
    <3>1. AsNode(b) = {u \in AsNode(b) : pc[u] # "free"}
      BY <2>3
    <3>2. AsMessage(b) = {k \in Members(q) : data[k] = b}
      BY <2>2 DEF AsMessage
    <3> HIDE <2>1
    <3> QED
      BY <2>2, <3>1, <3>2 DEF Uses, Places
  <2>5. ASSUME NEW b \in Blocks
        PROVE  Cardinality(Uses(b)) = IF Live(meta[b]) THEN 1 ELSE 0
    <3>1. UsedOnce(q)
      BY <2>1 DEF Inv
    <3>2. /\ \A u, v \in Uses(b) : u = v
          /\ Uses(b) # {} <=> Live(meta[b])
      BY <1>1, <2>4, <3>1 DEF UsedOnce, Left
    <3>3. CASE Uses(b) = {}
      BY <3>2, <3>3, FS_EmptySet
    <3>4. CASE Uses(b) # {}
      <4>1. PICK u : Uses(b) = {u}
        BY <3>2, <3>4
      <4> QED
        BY <3>2, <3>4, <4>1, FS_Singleton
    <3> QED
      BY <3>3, <3>4
  <2> QED
    BY <2>5 DEF OnePlace
<1> QED
  BY <1>1, <1>2, ChannelInvariant, PTL

(* Whatever the clients have lost was left in the channel they freed: send *)
(* and recv lose nothing, and ownedc_channel_free, which does not touch    *)
(* the messages, gives every node back.                                    *)
THEOREM ChannelOnlyRemainingLeak ==
  ASSUME "detach" \in Careful
  PROVE  Spec => []OnlyRemainingLeak
<1>1. ASSUME IInv
      PROVE  OnlyRemainingLeak
  <2>1. PICK q \in Seq(Blocks) : Inv(q)
    BY <1>1 DEF IInv
  <2> SUFFICES ASSUME ch # "closing", NEW b \in Blocks, Live(meta[b]), Uses(b) = {}
               PROVE  ch = "freed" /\ meta[b].state = "SHARED"
    BY DEF OnlyRemainingLeak
  <2>2. Queued = Members(q)
    <3>1. CASE ch = "open"
      BY <2>1, <3>1, QueuedIs
    <3>2. CASE ch # "open"
      <4>1. Queued = {}
        BY <2>1, <3>2, QueuedIs
      <4>2. q = <<>>
        BY <2>1, <3>2 DEF Inv, ListOK, TypeOK
      <4>3. Members(q) = {}
        BY <4>2 DEF Members
      <4> QED
        BY <4>1, <4>3
    <3> QED
      BY <3>1, <3>2
  <2>3. AsNode(b) = {u \in AsNode(b) : pc[u] # "free"}
    BY <2>1 DEF Inv, CallOK, AsNode
  <2>4. AsMessage(b) = {k \in Members(q) : data[k] = b}
    BY <2>2 DEF AsMessage
  <2>5. UsedOnce(q)
    BY <2>1 DEF Inv
  <2> HIDE <2>1
  <2>6. Uses(b) = Places(q, b)
    BY <2>2, <2>3, <2>4 DEF Uses, Places
  <2>7. Left(b)
    BY <2>5, <2>6 DEF UsedOnce
  <2> QED
    BY <2>7 DEF Left
<1> QED
  BY <1>1, ChannelInvariant, PTL

(* Send and recv never meet a fault; ownedc_channel_free does only when it *)
(* frees what another thread allocated.                                    *)
THEOREM ChannelFaultsOnlyInFree ==
  ASSUME "detach" \in Careful
  PROVE  Spec => []FaultsOnlyInFree
<1>1. FaultOK => FaultsOnlyInFree
  BY DEF FaultOK, Fault, FaultsOnlyInFree
<1> QED
  BY <1>1, ChannelInvariant, PTL

(* Clients that take every care meet no fault at all.                      *)
THEOREM ChannelNoFault ==
  ASSUME Careful = Cares
  PROVE  Spec => []NoFault
<1>1. "detach" \in Careful
  BY DEF Cares
<1>2. FaultOK => NoFault
  BY DEF FaultOK, Fault, NoFault, Cares
<1> QED
  BY <1>1, <1>2, ChannelInvariant, PTL

-----------------------------------------------------------------------------
(* No signal is missing.                                                   *)

Ready == {t \in Threads : pc[t] \in {"recv_lock", "take"}}

Counted ==
  \A q \in Seq(Blocks) : Inv(q) => /\ Waiting # {} => ch = "open"
                                   /\ ch = "open" => Cardinality(Queued) = Len(q)

(* A receiver waits only at an open channel, whose list has one node for   *)
(* each queued message.                                                    *)
LEMMA CountedQueue == Counted
<1> SUFFICES ASSUME NEW q \in Seq(Blocks), Inv(q)
             PROVE  /\ Waiting # {} => ch = "open"
                    /\ ch = "open" => Cardinality(Queued) = Len(q)
  BY DEF Counted
<1>1. Waiting # {} => ch = "open"
  BY DEF Waiting, Inv, CallOK
<1> QED
  BY <1>1, QueuedIs

(* A step that keeps the list, makes no thread wait and takes no receiver  *)
(* off its way to the mutex.                                               *)
LEMMA WakeupKept ==
  ASSUME NEW q \in Seq(Blocks), Inv(q), Inv(q)', WakeupPending, IsFiniteSet(Threads),
         \A u \in Threads : /\ pc'[u] = "waiting" => pc[u] = "waiting"
                            /\ pc[u] \in {"recv_lock", "take"} =>
                                 pc'[u] \in {"recv_lock", "take"}
  PROVE  WakeupPending'
<1> SUFFICES ASSUME Waiting' # {}
             PROVE  Cardinality(Queued)' <= Cardinality(Ready)'
  BY DEF WakeupPending, Ready
<1>1. Waiting # {}
  BY DEF Waiting
<1>2. Counted /\ Counted'
  BY CountedQueue, PTL
<1>3. Cardinality(Queued) = Len(q) /\ Cardinality(Queued)' = Len(q) /\ Len(q) \in Nat
  BY <1>1, <1>2 DEF Counted
<1>4. Cardinality(Queued) <= Cardinality(Ready)
  BY <1>1 DEF WakeupPending, Ready
<1>5. PICK R, S : R = Ready /\ S = Ready' /\ R \subseteq S /\ S \subseteq Threads
  <2>1. Ready \subseteq Ready' /\ Ready' \subseteq Threads
    BY DEF Ready
  <2> QED
    BY <2>1, Zenon
<1>6. IsFiniteSet(S) /\ Cardinality(R) <= Cardinality(S)
  BY <1>5, FS_Subset
<1>7. Cardinality(S) \in Nat /\ Cardinality(R) \in Nat
  BY <1>5, <1>6, FS_Subset, FS_CardinalityType
<1> QED
  BY <1>3, <1>4, <1>5, <1>6, <1>7

(* One more message, and one more receiver on the way if there is a waiter.*)
LEMMA WakeupLink ==
  ASSUME NEW q \in Seq(Blocks), Inv(q), WakeupPending, IsFiniteSet(Threads),
         NEW t \in Threads, send_link(t)
  PROVE  WakeupPending'
<1>1. PICK r \in Seq(Blocks) : r = Append(q, node[t]) /\ Inv(r)'
  BY LinkPreserves
<1>2. pc[t] = "link" /\ pc \in [Threads -> Locations]
  BY DEF send_link, At, Inv, TypeOK
<1> SUFFICES ASSUME Waiting' # {}
             PROVE  Cardinality(Queued)' <= Cardinality(Ready)'
  BY DEF WakeupPending, Ready
<1>3. Waiting # {}
  <2> SUFFICES ASSUME Waiting = {} PROVE FALSE
    OBVIOUS
  <2>1. pc' = [pc EXCEPT ![t] = "idle"]
    BY DEF send_link, Goto
  <2> QED
    BY <1>2, <2>1 DEF Waiting
<1>4. PICK u \in Waiting : pc' = [pc EXCEPT ![t] = "idle", ![u] = "recv_lock"]
  BY <1>3 DEF send_link
<1>5. u \in Threads /\ pc[u] = "waiting" /\ u # t
  BY <1>2 DEF Waiting
<1>6. PICK R, S : R = Ready /\ S = Ready' /\ S = R \cup {u} /\ u \notin R /\ R \subseteq Threads
  <2>1. /\ pc'[u] = "recv_lock" /\ pc'[t] = "idle"
        /\ \A v \in Threads \ {t, u} : pc'[v] = pc[v]
    BY <1>2, <1>4, <1>5
  <2>2. \A v : v \in Ready' <=> v \in Ready \cup {u}
    BY <1>2, <1>5, <2>1 DEF Ready
  <2>3. Ready' = Ready \cup {u} /\ u \notin Ready /\ Ready \subseteq Threads
    BY <1>5, <2>2 DEF Ready
  <2> QED
    BY <2>3, Zenon
<1>7. IsFiniteSet(R) /\ Cardinality(R) \in Nat /\ Cardinality(S) = Cardinality(R) + 1
  BY <1>6, FS_Subset, FS_CardinalityType, FS_AddElement
<1>8. Counted /\ Counted'
  BY CountedQueue, PTL
<1>9. Cardinality(Queued) = Len(q) /\ Cardinality(Queued)' = Len(r)
  BY <1>1, <1>3, <1>8 DEF Counted
<1>10. Len(r) = Len(q) + 1 /\ Len(q) \in Nat
  BY <1>1
<1>11. Cardinality(Queued) <= Cardinality(Ready)
  BY <1>3 DEF WakeupPending, Ready
<1> QED
  BY <1>6, <1>7, <1>9, <1>10, <1>11

(* One message less, and the receiver that took it.                        *)
LEMMA WakeupTake ==
  ASSUME NEW q \in Seq(Blocks), Inv(q), WakeupPending, IsFiniteSet(Threads),
         NEW t \in Threads, recv_take(t)
  PROVE  WakeupPending'
<1>1. PICK r \in Seq(Blocks) : r = Tail(q) /\ Inv(r)'
  BY TakePreserves
<1>2. /\ pc[t] = "take" /\ pc \in [Threads -> Locations] /\ head # NULL /\ head \in BlockOrNull
      /\ pc' = [pc EXCEPT ![t] = "claim_node"]
  BY DEF recv_take, At, Goto, Inv, TypeOK
<1> SUFFICES ASSUME Waiting' # {}
             PROVE  Cardinality(Queued)' <= Cardinality(Ready)'
  BY DEF WakeupPending, Ready
<1>3. Waiting # {}
  BY <1>2 DEF Waiting
<1>4. PICK R, S : R = Ready /\ S = Ready' /\ S = R \ {t} /\ t \in R /\ R \subseteq Threads
  BY <1>2 DEF Ready
<1>5. IsFiniteSet(R) /\ Cardinality(R) \in Nat /\ Cardinality(S) = Cardinality(R) - 1
  BY <1>4, FS_Subset, FS_CardinalityType, FS_RemoveElement
<1>6. Counted /\ Counted'
  BY CountedQueue, PTL
<1>7. ch = "open" /\ Cardinality(Queued) = Len(q) /\ Cardinality(Queued)' = Len(r)
  BY <1>1, <1>3, <1>6 DEF Counted
<1>8. Len(r) = Len(q) - 1 /\ Len(q) \in Nat
  <2>1. PICK n \in Blocks : n = head
    BY <1>2 DEF BlockOrNull
  <2>2. Linked(q, n)
    BY <1>7, <2>1 DEF Inv, ListOK
  <2> QED
    BY <1>1, <2>2, TailLinked, ChannelAssumption
<1>9. Cardinality(Queued) <= Cardinality(Ready)
  BY <1>3 DEF WakeupPending, Ready
<1> QED
  BY <1>4, <1>5, <1>7, <1>8, <1>9

(* A receiver goes to wait only when there is no message.                  *)
LEMMA WakeupWait ==
  ASSUME NEW q \in Seq(Blocks), Inv(q), IsFiniteSet(Threads), NEW t \in Threads, recv_wait(t)
  PROVE  WakeupPending'
<1>1. Inv(q)'
  BY MovesPreserve
<1>2. Counted'
  BY CountedQueue, PTL
<1>3. q = <<>>
  <2> SUFFICES ASSUME q # <<>> PROVE FALSE
    OBVIOUS
  <2>1. ch = "open" /\ head = NULL
    BY DEF recv_wait, At, Inv, CallOK
  <2>2. q[1] \in Blocks /\ Linked(q, head)
    BY <2>1 DEF Inv, ListOK
  <2> QED
    BY <2>1, <2>2, ChannelAssumption DEF Linked
<1>4. PICK S : S = Ready' /\ S \subseteq Threads
  BY DEF Ready
<1>5. Cardinality(S) \in Nat
  BY <1>4, FS_Subset, FS_CardinalityType
<1>6. Waiting' # {} => Cardinality(Queued)' = 0
  BY <1>1, <1>2, <1>3 DEF Counted
<1> QED
  BY <1>4, <1>5, <1>6 DEF WakeupPending, Ready

(* Every other step leaves what the receivers wait for alone.              *)
LEMMA WakeupOthers ==
  ASSUME NEW q \in Seq(Blocks), Inv(q), "detach" \in Careful, WakeupPending,
         IsFiniteSet(Threads), NEW t \in Threads,
         \/ Client(t) \/ spurious_wakeup(t) \/ lock(t)
         \/ send_share(t) \/ (\E n \in Blocks : send_node(t, n)) \/ send_node_null(t)
         \/ recv_claim_node(t) \/ recv_free_node(t) \/ recv_claim(t) \/ free_channel(t)
  PROVE  WakeupPending'
<1>1. Inv(q)'
  <2>1. CASE Client(t)
    BY <2>1, ClientPreserves
  <2>2. CASE send_node_null(t)
    BY <2>2, StopPreserves DEF send_node_null
  <2> QED
    BY <2>1, <2>2, MovesPreserve, SharePreserves, NodePreserves, ClaimNodePreserves,
       FreeNodePreserves, ClaimPreserves, FreeChannelPreserves
<1>2. pc \in [Threads -> Locations]
  BY DEF Inv, TypeOK
<1>3. \/ pc' = pc
      \/ \E l \in Locations :
           /\ pc' = [pc EXCEPT ![t] = l] /\ l # "waiting"
           /\ pc[t] \notin {"recv_lock", "take"} \/ l = "take"
  <2>1. CASE Client(t)
    BY <2>1 DEF Client, ownedc_channel_create, ownedc_channel_recv, ownedc_channel_free,
                owner_malloc, owner_free, ownedc_channel_send, ownedc_diagnostics_fatal,
                Runtime, Goto, At, Locations, Sending
  <2>2. CASE spurious_wakeup(t) \/ lock(t)
    BY <2>2 DEF spurious_wakeup, lock, Goto, At, Locations, Sending
  <2>3. CASE send_share(t) \/ (\E n \in Blocks : send_node(t, n)) \/ send_node_null(t)
    BY <2>3 DEF send_share, send_node, send_node_null, ownedc_diagnostics_fatal,
                Runtime, Goto, At, Locations, Sending
  <2>4. CASE recv_claim_node(t) \/ recv_free_node(t) \/ recv_claim(t) \/ free_channel(t)
    BY <2>4 DEF recv_claim_node, recv_free_node, recv_claim, free_channel,
                ownedc_diagnostics_fatal, Runtime, Goto, At, Locations, Taken
  <2> QED
    BY <2>1, <2>2, <2>3, <2>4
<1>4. \A u \in Threads : /\ pc'[u] = "waiting" => pc[u] = "waiting"
                         /\ pc[u] \in {"recv_lock", "take"} =>
                              pc'[u] \in {"recv_lock", "take"}
  BY <1>2, <1>3
<1> QED
  BY <1>1, <1>4, WakeupKept

(* While a receiver waits, every message in the channel has a receiver of  *)
(* its own on the way to the mutex, for any number of senders, receivers   *)
(* and messages: one signal for each message is enough.                    *)
THEOREM ChannelWakeup ==
  ASSUME "detach" \in Careful, IsFiniteSet(Threads)
  PROVE  Spec => []WakeupPending
<1>1. Init => WakeupPending
  BY DEF Init, WakeupPending, Waiting
<1>2. ASSUME IInv, WakeupPending, [Next]_vars
      PROVE  WakeupPending'
  <2>1. PICK q \in Seq(Blocks) : Inv(q)
    BY <1>2 DEF IInv
  <2>2. ASSUME NEW t \in Threads, free_next(t)
        PROVE  WakeupPending'
    <3>1. pc \in [Threads -> Locations] /\ pc[t] = "free" /\ CallOK(t)
      BY <2>1, <2>2 DEF free_next, At, Inv, TypeOK
    <3>2. pc' = pc \/ pc' = [pc EXCEPT ![t] = "free"]
      BY <2>2 DEF free_next, ownedc_diagnostics_fatal, Runtime, Goto
    <3>3. \A u \in Threads : pc'[u] # "waiting"
      BY <3>1, <3>2 DEF CallOK
    <3> QED
      BY <3>3 DEF WakeupPending, Waiting
  <2>3. ASSUME NEW t \in Threads, Client(t) \/ Continue(t) \/ spurious_wakeup(t)
        PROVE  WakeupPending'
    BY <1>2, <2>1, <2>2, <2>3, WakeupOthers, WakeupLink, WakeupTake, WakeupWait DEF Continue
  <2>4. ASSUME NEW b \in Blocks, Recycle(b)
        PROVE  WakeupPending'
    <3>1. Inv(q)' /\ pc' = pc
      BY <2>1, <2>4, RecyclePreserves DEF Recycle
    <3> QED
      BY <1>2, <2>1, <3>1, WakeupKept
  <2>5. CASE UNCHANGED vars
    <3>1. UNCHANGED <<meta, mutex, pc, list, locals, status>>
      BY <2>5 DEF vars, list, locals
    <3>2. Inv(q)'
      BY <2>1, <3>1, StopPreserves DEF Inv, TypeOK
    <3> QED
      BY <1>2, <2>1, <3>1, <3>2, WakeupKept
  <2> QED
    BY <1>2, <2>3, <2>4, <2>5 DEF Next, Terminated
<1> QED
  BY <1>1, <1>2, ChannelInvariant, PTL DEF Spec

-----------------------------------------------------------------------------
(* The life of the blocks.                                                 *)

AllBlocks == Blocks \cup {Chan}

(* The header of one block is written.                                     *)
LEMMA OneHeader ==
  ASSUME meta \in [AllBlocks -> Meta], NEW a \in AllBlocks, NEW m,
         meta' = [meta EXCEPT ![a] = m]
  PROVE  /\ life' = [life EXCEPT ![a] = LifeOf(m)]
         /\ borrows' = [borrows EXCEPT ![a] = m.borrow_count]
         /\ owner' = [owner EXCEPT ![a] = m.owner_thread]
         /\ life[a] = LifeOf(meta[a]) /\ borrows[a] = meta[a].borrow_count
         /\ owner[a] = meta[a].owner_thread
         /\ [life EXCEPT ![a] = life[a]] = life
         /\ [borrows EXCEPT ![a] = borrows[a]] = borrows
         /\ [owner EXCEPT ![a] = owner[a]] = owner
<1>1. meta'[a] = m /\ \A b \in AllBlocks \ {a} : meta'[b] = meta[b]
  OBVIOUS
<1>2. /\ life' = [life EXCEPT ![a] = LifeOf(m)]
      /\ borrows' = [borrows EXCEPT ![a] = m.borrow_count]
      /\ owner' = [owner EXCEPT ![a] = m.owner_thread]
  BY <1>1 DEF life, borrows, owner, AllBlocks
<1>3. /\ life[a] = LifeOf(meta[a]) /\ borrows[a] = meta[a].borrow_count
      /\ owner[a] = meta[a].owner_thread
  BY DEF life, borrows, owner, AllBlocks
<1>4. /\ [life EXCEPT ![a] = life[a]] = life
      /\ [borrows EXCEPT ![a] = borrows[a]] = borrows
      /\ [owner EXCEPT ![a] = owner[a]] = owner
  BY DEF life, borrows, owner, AllBlocks
<1> QED
  BY <1>2, <1>3, <1>4

(* The calls of the runtime that the channel and its clients make, by what *)
(* they find in the header and what they write there.                      *)
Allocates(t, a, m) == meta[a].state = "INVALID" /\ m.state = "OWNED" /\ m.owner_thread = t
Frees(t, a, m) ==
  /\ meta[a].state = "OWNED" /\ meta[a].owner_thread = t
  /\ m.state = "FREED" /\ m.owner_thread = t
Claims(t, a, m) ==
  meta[a].state \in {"OWNED", "SHARED"} /\ m.state = "OWNED" /\ m.owner_thread = t
Shares(t, a, m) ==
  /\ meta[a].state = "OWNED" /\ meta[a].owner_thread = t
  /\ m.state = "SHARED" /\ m.owner_thread = t

Call(t, a, m) ==
  /\ meta' = [meta EXCEPT ![a] = m]
  /\ m.borrow_count = 0 /\ meta[a].borrow_count = 0
  /\ Allocates(t, a, m) \/ Frees(t, a, m) \/ Claims(t, a, m) \/ Shares(t, a, m)

(* Each of them is a step of Lifecycle.                                    *)
LEMMA CallIsStep ==
  ASSUME meta \in [AllBlocks -> Meta], NEW t \in Threads, NEW a \in AllBlocks, NEW m,
         Call(t, a, m)
  PROVE  Abstract!Next
<1>1. /\ life' = [life EXCEPT ![a] = LifeOf(m)]
      /\ borrows' = [borrows EXCEPT ![a] = m.borrow_count]
      /\ owner' = [owner EXCEPT ![a] = m.owner_thread]
      /\ life[a] = LifeOf(meta[a]) /\ borrows[a] = meta[a].borrow_count
      /\ owner[a] = meta[a].owner_thread
      /\ [borrows EXCEPT ![a] = borrows[a]] = borrows
      /\ [owner EXCEPT ![a] = owner[a]] = owner
  BY OneHeader DEF Call
<1>2. borrows[a] = 0 /\ UNCHANGED borrows
  BY <1>1 DEF Call
<1>3. CASE Allocates(t, a, m)
  <2>1. life[a] = "absent" /\ LifeOf(m) = "owned" /\ m.owner_thread = t
    BY <1>1, <1>3 DEF Allocates, LifeOf
  <2>2. Abstract!Allocate(t, a)
    BY <1>1, <1>2, <2>1 DEF Abstract!Allocate
  <2> QED
    BY <2>2 DEF Abstract!Next, AllBlocks
<1>4. CASE Frees(t, a, m)
  <2>1. life[a] = "owned" /\ owner[a] = t /\ LifeOf(m) = "freed" /\ m.owner_thread = owner[a]
    BY <1>1, <1>4 DEF Frees, LifeOf
  <2>2. Abstract!Free(t, a)
    BY <1>1, <1>2, <2>1 DEF Abstract!Free, Abstract!Entitled
  <2> QED
    BY <2>2 DEF Abstract!Next, AllBlocks
<1>5. CASE Claims(t, a, m)
  <2>1. life[a] \in {"owned", "shared"} /\ LifeOf(m) = "owned" /\ m.owner_thread = t
    BY <1>1, <1>5 DEF Claims, LifeOf
  <2>2. Abstract!Claim(t, a)
    BY <1>1, <1>2, <2>1 DEF Abstract!Claim, Abstract!Alive
  <2> QED
    BY <2>2 DEF Abstract!Next, AllBlocks
<1>6. CASE Shares(t, a, m)
  <2>1. life[a] = "owned" /\ owner[a] = t /\ LifeOf(m) = "shared" /\ m.owner_thread = owner[a]
    BY <1>1, <1>6 DEF Shares, LifeOf
  <2>2. Abstract!Share(t, a)
    BY <1>1, <1>2, <2>1 DEF Abstract!Share, Abstract!Alive
  <2> QED
    BY <2>2 DEF Abstract!Next, AllBlocks
<1> QED
  BY <1>3, <1>4, <1>5, <1>6 DEF Call

(* A free and a share do not change who owns a block.                      *)
LEMMA HeaderOwners ==
  ASSUME NEW m \in Meta, NEW t \in Threads
  PROVE  /\ Freed(m).owner_thread = m.owner_thread
         /\ Shared(m).owner_thread = m.owner_thread
  BY DEF Meta, Freed, Shared

(* The calls of a client.                                                  *)
LEMMA ClientLife ==
  ASSUME NEW q \in Seq(Blocks), Inv(q), NEW t \in Threads, Client(t)
  PROVE  UNCHANGED meta \/ \E a \in AllBlocks : \E m \in Meta : Call(t, a, m)
<1>1. /\ \A a \in AllBlocks : meta[a] \in Meta /\ meta[a].borrow_count = 0
      /\ HandsOwn /\ HeadersOK /\ \A b \in Blocks : b \in AllBlocks
  BY DEF Inv, TypeOK, HeadersOK, AllBlocks
<1>2. CASE ownedc_channel_create(t)
  <2>1. Chan \in AllBlocks /\ meta[Chan].state = "INVALID"
    BY <1>1, <1>2 DEF AllBlocks, ownedc_channel_create, HeadersOK
  <2>2. Call(t, Chan, NewMeta(t))
    BY <1>1, <1>2, <2>1, FreshHeader DEF ownedc_channel_create, Runtime, Call, Allocates
  <2> QED
    BY <2>1, <2>2, FreshHeader
<1>3. CASE ownedc_channel_recv(t) \/ ownedc_channel_free(t)
  BY <1>3 DEF ownedc_channel_recv, ownedc_channel_free
<1>4. ASSUME NEW b \in Blocks, owner_malloc(t, b)
      PROVE  Call(t, b, NewMeta(t)) /\ NewMeta(t) \in Meta
  BY <1>1, <1>4, FreshHeader DEF owner_malloc, Runtime, Call, Allocates
<1>5. ASSUME NEW b \in Blocks, owner_free(t, b)
      PROVE  Call(t, b, Freed(meta[b])) /\ Freed(meta[b]) \in Meta
  <2>1. meta[b].state = "OWNED" /\ meta[b].owner_thread = t
    BY <1>1, <1>5 DEF owner_free, HandsOwn
  <2>2. ~free_fault(meta[b], t)
    BY <1>1, <2>1 DEF free_fault, Foreign
  <2>3. meta' = [meta EXCEPT ![b] = Freed(meta[b])]
    BY <1>5, <2>2 DEF owner_free, Runtime
  <2> QED
    BY <1>1, <2>1, <2>3, HeaderFacts, HeaderOwners DEF Call, Frees
<1>6. ASSUME NEW b \in Blocks, ownedc_channel_send(t, b)
      PROVE  UNCHANGED meta
  BY <1>6 DEF ownedc_channel_send
<1> QED
  BY <1>1, <1>2, <1>3, <1>4, <1>5, <1>6 DEF Client

(* The calls that send, recv and ownedc_channel_free make.                 *)
LEMMA ContinueLife ==
  ASSUME NEW q \in Seq(Blocks), Inv(q), NEW t \in Threads, Continue(t)
  PROVE  UNCHANGED meta \/ \E a \in AllBlocks : \E m \in Meta : Call(t, a, m)
<1>1. /\ \A a \in AllBlocks : meta[a] \in Meta /\ meta[a].borrow_count = 0
      /\ TypeOK /\ CallOK(t) /\ HeadersOK /\ \A b \in Blocks : b \in AllBlocks
      /\ ListOK(q) /\ Chan \in AllBlocks
  BY DEF Inv, TypeOK, HeadersOK, AllBlocks
<1>2. CASE send_share(t)
  <2>1. PICK b \in Blocks : b = ptr[t] /\ meta[b].state = "OWNED" /\ meta[b].owner_thread = t
    BY <1>1, <1>2 DEF send_share, At, CallOK, Sending, TypeOK, BlockOrNull
  <2>2. meta' = [meta EXCEPT ![b] = Shared(meta[b])]
    BY <1>2, <2>1 DEF send_share, share_fault, Runtime
  <2>3. Call(t, b, Shared(meta[b])) /\ Shared(meta[b]) \in Meta
    BY <1>1, <2>1, <2>2, HeaderFacts, HeaderOwners DEF Call, Shares
  <2> QED
    BY <1>1, <2>3
<1>3. ASSUME NEW n \in Blocks, send_node(t, n)
      PROVE  Call(t, n, NewMeta(t)) /\ NewMeta(t) \in Meta
  BY <1>1, <1>3, FreshHeader DEF send_node, Runtime, Call, Allocates
<1>4. CASE send_node_null(t) \/ lock(t) \/ send_link(t) \/ recv_wait(t) \/ recv_take(t)
  BY <1>4 DEF send_node_null, lock, send_link, recv_wait, recv_take
<1>5. CASE recv_claim_node(t)
  <2>1. PICK n \in Blocks : n = node[t] /\ meta[n].state = "OWNED"
    BY <1>1, <1>5 DEF recv_claim_node, At, CallOK, HasNode, TypeOK, BlockOrNull
  <2>2. meta' = [meta EXCEPT ![n] = Claimed(meta[n], t)]
    BY <1>5, <2>1 DEF recv_claim_node, Runtime
  <2>3. PICK m \in Meta : /\ m = Claimed(meta[n], t) /\ m.borrow_count = 0
                          /\ m.state = "OWNED" /\ m.owner_thread = t
    BY <1>1, <2>1, HeaderFacts, SMTT(30)
  <2>4. Call(t, n, m)
    BY <1>1, <2>1, <2>2, <2>3 DEF Call, Claims
  <2> QED
    BY <1>1, <2>4
<1>6. CASE recv_free_node(t)
  <2>1. PICK n \in Blocks : n = node[t] /\ meta[n].state = "OWNED" /\ meta[n].owner_thread = t
    BY <1>1, <1>6 DEF recv_free_node, At, CallOK, HasNode, TypeOK, BlockOrNull
  <2>2. ~free_fault(meta[n], t)
    BY <1>1, <2>1 DEF free_fault, Foreign
  <2>3. meta' = [meta EXCEPT ![n] = Freed(meta[n])]
    BY <1>6, <2>1, <2>2 DEF recv_free_node, Runtime
  <2>4. Call(t, n, Freed(meta[n])) /\ Freed(meta[n]) \in Meta
    BY <1>1, <2>1, <2>3, HeaderFacts, HeaderOwners DEF Call, Frees
  <2> QED
    BY <1>1, <2>4
<1>7. CASE recv_claim(t)
  <2>1. PICK b \in Blocks : b = ptr[t] /\ meta[b].state = "SHARED"
    BY <1>1, <1>7 DEF recv_claim, At, CallOK, Taken, TypeOK, BlockOrNull
  <2>2. meta' = [meta EXCEPT ![b] = Claimed(meta[b], t)]
    BY <1>7, <2>1 DEF recv_claim, Runtime
  <2>3. PICK m \in Meta : /\ m = Claimed(meta[b], t) /\ m.borrow_count = 0
                          /\ m.state = "OWNED" /\ m.owner_thread = t
    BY <1>1, <2>1, HeaderFacts
  <2>4. Call(t, b, m)
    BY <1>1, <2>1, <2>2, <2>3 DEF Call, Claims
  <2> QED
    BY <1>1, <2>4
<1>8. CASE free_next(t)
  <2>1. PICK n \in Blocks : n = node[t]
    BY <1>1, <1>8 DEF free_next, TypeOK, BlockOrNull
  <2>2. Linked(q, n)
    BY <1>1, <1>8, <2>1 DEF free_next, At, ListOK
  <2>3. n \in Members(q)
    BY <2>2, TailLinked, ChannelAssumption
  <2>4. meta[n].state = "OWNED"
    BY <1>1, <2>3 DEF ListOK
  <2>5. CASE free_fault(meta[n], t)
    BY <1>8, <2>1, <2>5 DEF free_next, ownedc_diagnostics_fatal
  <2>6. CASE ~free_fault(meta[n], t)
    <3>1. meta' = [meta EXCEPT ![n] = Freed(meta[n])]
      BY <1>8, <2>1, <2>6 DEF free_next, Runtime
    <3>2. meta[n].owner_thread = t
      BY <2>4, <2>6 DEF free_fault, Foreign
    <3>3. Call(t, n, Freed(meta[n])) /\ Freed(meta[n]) \in Meta
      BY <1>1, <2>4, <3>1, <3>2, HeaderFacts, HeaderOwners DEF Call, Frees
    <3> QED
      BY <1>1, <3>3
  <2> QED
    BY <2>5, <2>6
<1>9. CASE free_channel(t)
  <2>1. meta[Chan].state = "OWNED"
    BY <1>1, <1>9 DEF free_channel, At, CallOK, HeadersOK
  <2>2. CASE free_fault(meta[Chan], t)
    BY <1>9, <2>2 DEF free_channel, ownedc_diagnostics_fatal
  <2>3. CASE ~free_fault(meta[Chan], t)
    <3>1. meta' = [meta EXCEPT ![Chan] = Freed(meta[Chan])]
      BY <1>9, <2>3 DEF free_channel, Runtime
    <3>2. meta[Chan].owner_thread = t
      BY <2>1, <2>3 DEF free_fault, Foreign
    <3>3. Call(t, Chan, Freed(meta[Chan])) /\ Freed(meta[Chan]) \in Meta
      BY <1>1, <2>1, <3>1, <3>2, HeaderFacts, HeaderOwners DEF Call, Frees
    <3> QED
      BY <1>1, <3>3
  <2> QED
    BY <2>2, <2>3
<1> QED
  BY <1>1, <1>2, <1>3, <1>4, <1>5, <1>6, <1>7, <1>8, <1>9 DEF Continue

(* The memory of a freed block goes back.                                  *)
LEMMA RecycleLife ==
  ASSUME meta \in [AllBlocks -> Meta], \A a \in AllBlocks : meta[a].borrow_count = 0,
         NEW b \in Blocks, Recycle(b)
  PROVE  Abstract!Next
<1>1. b \in AllBlocks /\ meta[b].state = "FREED" /\ meta' = [meta EXCEPT ![b] = NoMeta]
  BY DEF AllBlocks, Recycle
<1>2. meta'[b] = NoMeta /\ \A a \in AllBlocks \ {b} : meta'[a] = meta[a]
  BY <1>1
<1>3. PICK S \in SUBSET AllBlocks : S = {b}
  BY <1>1
<1>4. life' = [a \in AllBlocks |-> IF a \in S THEN "absent" ELSE life[a]]
  BY <1>2, <1>3 DEF life, LifeOf, NoMeta, AllBlocks
<1>5. owner' = [a \in AllBlocks |-> IF a \in S THEN NoThread ELSE owner[a]]
  BY <1>2, <1>3 DEF owner, NoMeta, AllBlocks
<1>6. UNCHANGED borrows
  BY <1>1, <1>2 DEF borrows, NoMeta, AllBlocks
<1>7. \A a \in S : life[a] = "freed"
  BY <1>1, <1>3 DEF life, LifeOf, AllBlocks
<1>8. Abstract!Recycle(S)
  BY <1>4, <1>5, <1>6, <1>7 DEF Abstract!Recycle, AllBlocks
<1> QED
  BY <1>8 DEF Abstract!Next, AllBlocks

(* ImplementsLifecycle: whatever send, recv and ownedc_channel_free do to  *)
(* messages and nodes is legal in the life of a block; no dead block is    *)
(* claimed and nothing is freed by a thread that does not own it.          *)
THEOREM ChannelImplementsLifecycle ==
  ASSUME "detach" \in Careful
  PROVE  Spec => ImplementsLifecycle
<1>1. Init => Abstract!Init
  BY DEF Init, Abstract!Init, life, borrows, owner, LifeOf, NoMeta
<1>2. ASSUME IInv, [Next]_vars
      PROVE  [Abstract!Next]_(Abstract!vars)
  <2>1. PICK q \in Seq(Blocks) : Inv(q)
    BY <1>2 DEF IInv
  <2>2. meta \in [AllBlocks -> Meta] /\ \A a \in AllBlocks : meta[a].borrow_count = 0
    BY <2>1 DEF Inv, TypeOK, HeadersOK, AllBlocks
  <2>3. UNCHANGED meta => UNCHANGED Abstract!vars
    BY DEF Abstract!vars, life, borrows, owner
  <2>4. ASSUME NEW t \in Threads, Client(t) \/ Continue(t) \/ spurious_wakeup(t)
        PROVE  [Abstract!Next]_(Abstract!vars)
    <3>1. UNCHANGED meta \/ \E a \in AllBlocks : \E m \in Meta : Call(t, a, m)
      BY <2>1, <2>4, ClientLife, ContinueLife DEF spurious_wakeup
    <3> QED
      BY <2>2, <2>3, <3>1, CallIsStep
  <2>5. ASSUME NEW b \in Blocks, Recycle(b)
        PROVE  [Abstract!Next]_(Abstract!vars)
    BY <2>2, <2>5, RecycleLife
  <2>6. CASE UNCHANGED vars
    BY <2>3, <2>6 DEF vars
  <2> QED
    BY <1>2, <2>4, <2>5, <2>6 DEF Next, Terminated
<1> QED
  BY <1>1, <1>2, ChannelInvariant, PTL DEF Spec, ImplementsLifecycle, Abstract!Spec

-----------------------------------------------------------------------------
(* The queue.                                                              *)

Contents(q) == [i \in 1 .. Len(q) |-> data[q[i]]]

QueueShape ==
  \A q \in Seq(Blocks) : Inv(q) => queue = IF ch = "open" THEN Contents(q) ELSE <<>>

(* The queue that MessageQueue sees is made of the messages of the nodes.  *)
LEMMA QueueIs == QueueShape
<1> SUFFICES ASSUME NEW q \in Seq(Blocks), Inv(q)
             PROVE  queue = IF ch = "open" THEN Contents(q) ELSE <<>>
  BY DEF QueueShape
<1>1. CASE ch = "open"
  <2>1. /\ Cardinality(Queued) = Len(q) /\ DOMAIN q = 1 .. Len(q)
        /\ \A i \in 1 .. Len(q) : Chain[i - 1] = q[i]
    BY <1>1, QueuedIs
  <2> QED
    BY <1>1, <2>1 DEF queue, Contents
<1>2. CASE ch # "open"
  <2>1. Cardinality(Queued) = 0
    BY <1>2, QueuedIs, FS_EmptySet
  <2>2. queue = [i \in 1 .. 0 |-> data[Chain[i - 1]]]
    BY <2>1 DEF queue
  <2>3. 1 .. 0 = {}
    OBVIOUS
  <2>4. queue = <<>>
    BY <2>2, <2>3
  <2> QED
    BY <1>2, <2>4
<1> QED
  BY <1>1, <1>2

(* The nodes and their messages stay, or there are none.                   *)
LEMMA QueueKept ==
  ASSUME NEW q \in Seq(Blocks), Inv(q), Inv(q)',
         \A n \in Members(q) : data'[n] = data[n],
         (ch' = "open" <=> ch = "open") \/ q = <<>>
  PROVE  queue' = queue
<1>1. QueueShape /\ QueueShape'
  BY QueueIs, PTL
<1>2. \A i \in 1 .. Len(q) : data'[q[i]] = data[q[i]]
  BY DEF Members
<1>3. Contents(q)' = Contents(q)
  BY <1>2 DEF Contents
<1>4. q = <<>> => Contents(q) = <<>>
  <2> SUFFICES ASSUME q = <<>> PROVE Contents(q) = <<>>
    OBVIOUS
  <2>1. Len(q) = 0 /\ 1 .. 0 = {}
    OBVIOUS
  <2> QED
    BY <2>1 DEF Contents
<1>5. queue = IF ch = "open" THEN Contents(q) ELSE <<>>
  BY <1>1 DEF QueueShape
<1>6. queue' = IF ch' = "open" THEN Contents(q)' ELSE <<>>
  BY <1>1 DEF QueueShape
<1> QED
  BY <1>3, <1>4, <1>5, <1>6

(* A thread has one message: the one it sends or the one it has taken.     *)
LEMMA Boxes ==
  ASSUME NEW t \in Threads
  PROVE  /\ outbox[t] = IF pc[t] \in Sending THEN ptr[t] ELSE NULL
         /\ inbox[t] = IF pc[t] \in Taken THEN ptr[t] ELSE NULL
         /\ outbox'[t] = IF pc'[t] \in Sending THEN ptr'[t] ELSE NULL
         /\ inbox'[t] = IF pc'[t] \in Taken THEN ptr'[t] ELSE NULL
  BY DEF outbox, inbox

(* The step of t changes what t has and nothing of the others.             *)
LEMMA BoxesStep ==
  ASSUME NEW t \in Threads, NEW x, NEW y,
         x = (IF pc'[t] \in Sending THEN ptr'[t] ELSE NULL),
         y = (IF pc'[t] \in Taken THEN ptr'[t] ELSE NULL),
         \A u \in Threads \ {t} : /\ ptr'[u] = ptr[u]
                                  /\ pc'[u] \in Sending <=> pc[u] \in Sending
                                  /\ pc'[u] \in Taken <=> pc[u] \in Taken
  PROVE  /\ outbox' = [outbox EXCEPT ![t] = x] /\ (x = outbox[t] => outbox' = outbox)
         /\ inbox' = [inbox EXCEPT ![t] = y] /\ (y = inbox[t] => inbox' = inbox)
<1>1. outbox' = [outbox EXCEPT ![t] = x] /\ (x = outbox[t] => outbox' = outbox)
  BY DEF outbox
<1>2. inbox' = [inbox EXCEPT ![t] = y] /\ (y = inbox[t] => inbox' = inbox)
  BY DEF inbox
<1> QED
  BY <1>1, <1>2

(* A step within a call, or outside of the calls.                          *)
Inside ==
  /\ ptr' = ptr
  /\ \A u \in Threads : /\ pc'[u] \in Sending <=> pc[u] \in Sending
                        /\ pc'[u] \in Taken <=> pc[u] \in Taken

(* Such a step leaves what is in flight between clients and channel as it  *)
(* was.                                                                    *)
LEMMA InsideKeepsBoxes ==
  ASSUME Inside
  PROVE  outbox' = outbox /\ inbox' = inbox
<1>1. outbox' = outbox
  BY DEF Inside, outbox
<1>2. inbox' = inbox
  BY DEF Inside, inbox
<1> QED
  BY <1>1, <1>2

(* A send call begins: the sender has a message of its own.                *)
LEMMA SendBegins ==
  ASSUME NEW q \in Seq(Blocks), Inv(q), "detach" \in Careful, NEW t \in Threads,
         NEW b \in Blocks, ownedc_channel_send(t, b)
  PROVE  Messages!BeginSend(t, b)
<1>1. /\ pc[t] = "idle" /\ ptr' = [ptr EXCEPT ![t] = b] /\ pc' = [pc EXCEPT ![t] = "share"]
      /\ ch' = ch /\ data' = data
      /\ pc \in [Threads -> Locations] /\ ptr \in [Threads -> BlockOrNull]
  BY DEF ownedc_channel_send, At, Goto, list, Inv, TypeOK
<1>2. /\ pc'[t] = "share" /\ ptr'[t] = b
      /\ \A u \in Threads \ {t} : ptr'[u] = ptr[u] /\ pc'[u] = pc[u]
  BY <1>1
<1>3. outbox[t] = NULL /\ inbox[t] = NULL
  BY <1>1, Boxes DEF Sending, Taken
<1>4. PICK y : y = NULL
  OBVIOUS
<1>5. outbox' = [outbox EXCEPT ![t] = b] /\ inbox' = inbox
  BY <1>2, <1>3, <1>4, BoxesStep DEF Sending, Taken
<1>6. Inv(q)'
  BY SendPreserves
<1>7. queue' = queue
  BY <1>1, <1>6, QueueKept
<1> QED
  BY <1>3, <1>5, <1>7 DEF Messages!BeginSend, Messages!Idle

(* The message is in the queue once its node is on the list.               *)
LEMMA LinkSends ==
  ASSUME NEW q \in Seq(Blocks), Inv(q), NEW t \in Threads, send_link(t)
  PROVE  Messages!Send(t)
<1>1. /\ pc[t] = "link" /\ TypeOK /\ CallOK(t) /\ ch' = ch /\ data' = data
      /\ ptr' = [ptr EXCEPT ![t] = NULL]
  BY DEF send_link, At, Inv
<1>2. PICK p \in Blocks, n \in Blocks : p = ptr[t] /\ n = node[t] /\ data[n] = p /\ p # NULL
  BY <1>1, ChannelAssumption DEF CallOK, Sending, HasNode, TypeOK, BlockOrNull
<1>3. PICK r \in Seq(Blocks) : r = Append(q, n) /\ Inv(r)'
  BY <1>2, LinkPreserves
<1>4. ch = "open"
  BY <1>1 DEF CallOK
<1>5. /\ pc'[t] = "idle" /\ ptr'[t] = NULL
      /\ \A u \in Threads \ {t} : /\ ptr'[u] = ptr[u]
                                  /\ pc'[u] \in Sending <=> pc[u] \in Sending
                                  /\ pc'[u] \in Taken <=> pc[u] \in Taken
  <2>1. CASE Waiting = {}
    BY <1>1, <2>1 DEF send_link, Goto, TypeOK
  <2>2. CASE Waiting # {}
    <3>1. PICK u \in Waiting : pc' = [pc EXCEPT ![t] = "idle", ![u] = "recv_lock"]
      BY <2>2 DEF send_link
    <3>2. u \in Threads /\ pc[u] = "waiting" /\ u # t
      BY <1>1 DEF Waiting
    <3> QED
      BY <1>1, <3>1, <3>2 DEF TypeOK, Sending, Taken
  <2> QED
    BY <2>1, <2>2
<1>6. outbox[t] = p /\ inbox[t] = NULL
  BY <1>1, <1>2, Boxes DEF Sending, Taken
<1>7. PICK x : x = NULL
  OBVIOUS
<1>8. outbox' = [outbox EXCEPT ![t] = NULL] /\ inbox' = inbox
  BY <1>5, <1>6, <1>7, BoxesStep DEF Sending, Taken
<1>9. queue = Contents(q) /\ queue' = Contents(r)'
  <2>1. QueueShape /\ QueueShape'
    BY QueueIs, PTL
  <2> QED
    BY <1>1, <1>3, <1>4, <2>1 DEF QueueShape
<1>10. Contents(r)' = Append(Contents(q), p)
  <2>1. /\ Len(r) = Len(q) + 1 /\ Len(q) \in Nat /\ r[Len(q) + 1] = n
        /\ \A i \in 1 .. Len(q) : r[i] = q[i]
    BY <1>3
  <2>2. PICK c : c = Contents(q)
    OBVIOUS
  <2>3. c = [i \in 1 .. Len(q) |-> data[q[i]]] /\ Len(c) = Len(q) /\ c \in Seq(BlockOrNull)
    BY <1>1, <2>1, <2>2 DEF Contents, TypeOK
  <2>4. PICK d : d = Contents(r)'
    OBVIOUS
  <2>5. d = [i \in 1 .. (Len(q) + 1) |-> data[r[i]]]
    BY <1>1, <2>1, <2>4 DEF Contents
  <2>6. Append(c, p) = [i \in 1 .. (Len(q) + 1) |-> IF i = Len(q) + 1 THEN p ELSE c[i]]
    BY <2>1, <2>3
  <2>7. ASSUME NEW i \in 1 .. (Len(q) + 1)
        PROVE  data[r[i]] = IF i = Len(q) + 1 THEN p ELSE c[i]
    BY <1>2, <2>1, <2>3
  <2> QED
    BY <2>2, <2>4, <2>5, <2>6, <2>7
<1> QED
  BY <1>2, <1>6, <1>8, <1>9, <1>10 DEF Messages!Send

(* The oldest message leaves the queue with its node.                      *)
LEMMA TakeReceives ==
  ASSUME NEW q \in Seq(Blocks), Inv(q), NEW t \in Threads, recv_take(t)
  PROVE  Messages!Receive(t)
<1>1. /\ pc[t] = "take" /\ TypeOK /\ CallOK(t) /\ head # NULL
      /\ ptr' = [ptr EXCEPT ![t] = data[head]] /\ pc' = [pc EXCEPT ![t] = "claim_node"]
      /\ ch' = ch /\ data' = data
  BY DEF recv_take, At, Goto, Inv
<1>2. PICK n \in Blocks : n = head
  BY <1>1 DEF TypeOK, BlockOrNull
<1>3. ch = "open" /\ Linked(q, n)
  BY <1>1, <1>2 DEF CallOK, Inv, ListOK
<1>4. PICK r \in Seq(Blocks) : r = Tail(q) /\ Inv(r)'
  BY TakePreserves
<1>5. q # <<>> /\ n = q[1]
  BY <1>3, TailLinked, ChannelAssumption
<1>6. PICK p : p = data[n]
  OBVIOUS
<1>7. /\ pc'[t] = "claim_node" /\ ptr'[t] = p
      /\ \A u \in Threads \ {t} : ptr'[u] = ptr[u] /\ pc'[u] = pc[u]
  BY <1>1, <1>2, <1>6 DEF TypeOK
<1>8. outbox[t] = NULL /\ inbox[t] = NULL
  BY <1>1, Boxes DEF Sending, Taken
<1>9. PICK x : x = NULL
  OBVIOUS
<1>10. inbox' = [inbox EXCEPT ![t] = p] /\ outbox' = outbox
  BY <1>7, <1>8, <1>9, BoxesStep DEF Sending, Taken
<1>11. queue = Contents(q) /\ queue' = Contents(r)'
  <2>1. QueueShape /\ QueueShape'
    BY QueueIs, PTL
  <2> QED
    BY <1>1, <1>3, <1>4, <2>1 DEF QueueShape
<1>12. PICK c \in Seq(BlockOrNull) :
         /\ c = Contents(q) /\ c = [i \in 1 .. Len(q) |-> data[q[i]]] /\ Len(c) = Len(q)
  <2>1. Len(q) \in Nat /\ \A i \in 1 .. Len(q) : data[q[i]] \in BlockOrNull
    BY <1>1 DEF TypeOK
  <2>2. PICK c : c = [i \in 1 .. Len(q) |-> data[q[i]]]
    OBVIOUS
  <2>3. c \in Seq(BlockOrNull) /\ Len(c) = Len(q)
    BY <2>1, <2>2
  <2> QED
    BY <2>2, <2>3 DEF Contents
<1>13. /\ Len(q) \in Nat /\ Len(q) > 0 /\ Len(r) = Len(q) - 1
       /\ \A i \in 1 .. (Len(q) - 1) : r[i] = q[i + 1]
  BY <1>4, <1>5
<1>14. c # <<>> /\ Head(c) = p
  BY <1>5, <1>6, <1>12, <1>13
<1>15. Contents(r)' = Tail(c)
  <2>1. PICK d : d = Contents(r)'
    OBVIOUS
  <2>2. d = [i \in 1 .. (Len(q) - 1) |-> data[r[i]]]
    BY <1>1, <1>13, <2>1 DEF Contents
  <2>3. Tail(c) = [i \in 1 .. (Len(q) - 1) |-> c[i + 1]]
    BY <1>12, <1>13, <1>14
  <2>4. ASSUME NEW i \in 1 .. (Len(q) - 1)
        PROVE  data[r[i]] = c[i + 1]
    BY <1>12, <1>13
  <2> QED
    BY <2>1, <2>2, <2>3, <2>4
<1> QED
  BY <1>8, <1>10, <1>11, <1>12, <1>14, <1>15 DEF Messages!Receive, Messages!Idle

(* recv returns the message it has taken.                                  *)
LEMMA ClaimReturns ==
  ASSUME NEW q \in Seq(Blocks), Inv(q), NEW t \in Threads, recv_claim(t)
  PROVE  Messages!Return(t)
<1>1. /\ pc[t] = "claim" /\ TypeOK /\ CallOK(t)
      /\ ptr' = [ptr EXCEPT ![t] = NULL] /\ pc' = [pc EXCEPT ![t] = "idle"]
      /\ ch' = ch /\ data' = data
  BY DEF recv_claim, At, Runtime, Goto, Inv, list
<1>2. /\ pc'[t] = "idle" /\ ptr'[t] = NULL
      /\ \A u \in Threads \ {t} : ptr'[u] = ptr[u] /\ pc'[u] = pc[u]
  BY <1>1 DEF TypeOK
<1>3. outbox[t] = NULL /\ inbox[t] = ptr[t] /\ ptr[t] # NULL
  BY <1>1, Boxes DEF Sending, Taken, CallOK
<1>4. PICK x : x = NULL
  OBVIOUS
<1>5. inbox' = [inbox EXCEPT ![t] = NULL] /\ outbox' = outbox
  BY <1>2, <1>3, <1>4, BoxesStep DEF Sending, Taken
<1>6. Inv(q)'
  BY ClaimPreserves
<1>7. queue' = queue
  BY <1>1, <1>6, QueueKept
<1> QED
  BY <1>3, <1>5, <1>7 DEF Messages!Return

(* The channel is closed when nobody is in a call.                         *)
LEMMA FreeCloses ==
  ASSUME NEW q \in Seq(Blocks), Inv(q), NEW t \in Threads, ownedc_channel_free(t)
  PROVE  Messages!Close
<1>1. /\ \A u \in Threads : pc[u] = "idle"
      /\ pc \in [Threads -> Locations] /\ pc' = [pc EXCEPT ![t] = "free"]
      /\ ch' = "closing" /\ ptr' = ptr
  BY DEF ownedc_channel_free, Goto, Inv, TypeOK
<1>2. \A u \in Threads : pc'[u] \in {"idle", "free"}
  BY <1>1
<1>3. Inside
  BY <1>1, <1>2 DEF Inside, Sending, Taken
<1>4. outbox' = outbox /\ inbox' = inbox
  BY <1>3, InsideKeepsBoxes
<1>5. \A u \in Threads : outbox[u] = NULL /\ inbox[u] = NULL
  BY <1>1, Boxes DEF Sending, Taken
<1>6. Inv(q)'
  BY ChannelFreePreserves
<1>7. QueueShape'
  BY QueueIs, PTL
<1>8. queue' = <<>>
  BY <1>1, <1>6, <1>7 DEF QueueShape
<1> QED
  BY <1>4, <1>5, <1>8 DEF Messages!Close, Messages!Idle

(* Every other step: nothing enters or leaves the queue or the calls.      *)
LEMMA OthersStutter ==
  ASSUME NEW q \in Seq(Blocks), Inv(q), NEW t \in Threads,
         \/ ownedc_channel_create(t) \/ ownedc_channel_recv(t)
         \/ \E b \in Blocks : owner_malloc(t, b) \/ owner_free(t, b)
         \/ spurious_wakeup(t) \/ lock(t) \/ recv_wait(t)
         \/ send_share(t) \/ (\E n \in Blocks : send_node(t, n)) \/ send_node_null(t)
         \/ recv_claim_node(t) \/ recv_free_node(t) \/ free_channel(t)
  PROVE  UNCHANGED <<queue, outbox, inbox>>
<1>1. TypeOK /\ CallOK(t) /\ ListOK(q)
  BY DEF Inv
<1>2. Inv(q)'
  <2>1. CASE send_node_null(t)
    BY <2>1, StopPreserves DEF send_node_null
  <2> QED
    BY <2>1, CreatePreserves, MallocPreserves, FreePreserves, MovesPreserve, SharePreserves,
       NodePreserves, ClaimNodePreserves, FreeNodePreserves, FreeChannelPreserves
<1>3. /\ ptr' = ptr
      /\ \/ pc' = pc
         \/ \E l \in Locations : /\ pc' = [pc EXCEPT ![t] = l]
                                 /\ l \in Sending <=> pc[t] \in Sending
                                 /\ l \in Taken <=> pc[t] \in Taken
  <2>1. CASE ownedc_channel_create(t) \/ ownedc_channel_recv(t)
    BY <2>1 DEF ownedc_channel_create, ownedc_channel_recv, Runtime, Goto, At, locals,
                Locations, Sending, Taken
  <2>2. CASE \E b \in Blocks : owner_malloc(t, b) \/ owner_free(t, b)
    BY <2>2 DEF owner_malloc, owner_free, ownedc_diagnostics_fatal, Runtime, Goto, At, locals,
                Locations, Sending, Taken
  <2>3. CASE spurious_wakeup(t) \/ lock(t) \/ recv_wait(t)
    BY <2>3 DEF spurious_wakeup, lock, recv_wait, Goto, At, locals, Locations, Sending, Taken
  <2>4. CASE send_share(t) \/ (\E n \in Blocks : send_node(t, n)) \/ send_node_null(t)
    BY <2>4 DEF send_share, send_node, send_node_null, ownedc_diagnostics_fatal,
                Runtime, Goto, At, locals, Locations, Sending, Taken
  <2>5. CASE recv_claim_node(t) \/ recv_free_node(t) \/ free_channel(t)
    BY <2>5 DEF recv_claim_node, recv_free_node, free_channel, ownedc_diagnostics_fatal,
                Runtime, Goto, At, locals, Locations, Sending, Taken
  <2> QED
    BY <2>1, <2>2, <2>3, <2>4, <2>5
<1>4. Inside
  BY <1>1, <1>3 DEF Inside, TypeOK
<1>5. (ch' = "open" <=> ch = "open") \/ q = <<>>
  <2>1. CASE ownedc_channel_create(t)
    BY <1>1, <2>1 DEF ownedc_channel_create, ListOK
  <2>2. CASE free_channel(t)
    <3>1. ch = "closing"
      BY <1>1, <2>2 DEF free_channel, At, CallOK
    <3>2. ch' # "open"
      BY <2>2, <3>1 DEF free_channel, ownedc_diagnostics_fatal, list
    <3> QED
      BY <3>1, <3>2
  <2>3. CASE ~ownedc_channel_create(t) /\ ~free_channel(t)
    <3>1. ch' = ch
      BY <2>3 DEF ownedc_channel_recv, owner_malloc, owner_free, spurious_wakeup, lock,
                  recv_wait, send_share, send_node, send_node_null, recv_claim_node,
                  recv_free_node, ownedc_diagnostics_fatal, list
    <3> QED
      BY <3>1
  <2> QED
    BY <2>1, <2>2, <2>3
<1>6. \A n \in Members(q) : data'[n] = data[n]
  <2>1. CASE \E n \in Blocks : send_node(t, n)
    <3>1. PICK n \in Blocks : send_node(t, n)
      BY <2>1
    <3>2. ~Live(meta[n]) /\ data' = [data EXCEPT ![n] = ptr[t]]
      BY <3>1 DEF send_node, Live
    <3>3. \A k \in Members(q) : k # n /\ k \in Blocks
      BY <1>1, <3>2, DeadUnused DEF ListOK, Members
    <3> QED
      BY <1>1, <3>2, <3>3 DEF TypeOK
  <2>2. CASE ~\E n \in Blocks : send_node(t, n)
    <3>1. data' = data
      BY <2>2 DEF ownedc_channel_create, ownedc_channel_recv, owner_malloc, owner_free,
                  spurious_wakeup, lock, recv_wait, send_share, send_node_null,
                  recv_claim_node, recv_free_node, free_channel, ownedc_diagnostics_fatal, list
    <3> QED
      BY <3>1
  <2> QED
    BY <2>1, <2>2
<1>7. queue' = queue
  BY <1>2, <1>5, <1>6, QueueKept
<1> QED
  BY <1>4, <1>7, InsideKeepsBoxes

(* ownedc_channel_free works on a channel that is no queue any more.       *)
LEMMA FreeNextStutters ==
  ASSUME NEW q \in Seq(Blocks), Inv(q), NEW t \in Threads, free_next(t)
  PROVE  UNCHANGED <<queue, outbox, inbox>>
<1>1. pc[t] = "free" /\ TypeOK /\ CallOK(t)
  BY DEF free_next, At, Inv
<1>2. PICK r \in Seq(Blocks) : Inv(r)'
  BY FreeNextPreserves
<1>3. ch = "closing" /\ ch' = ch /\ ptr' = ptr /\ (pc' = pc \/ pc' = [pc EXCEPT ![t] = "free"])
  BY <1>1 DEF CallOK, free_next, ownedc_diagnostics_fatal, Runtime, Goto, list, locals
<1>4. pc' = pc
  BY <1>1, <1>3 DEF TypeOK
<1>5. Inside
  BY <1>3, <1>4 DEF Inside
<1>6. QueueShape /\ QueueShape'
  BY QueueIs, PTL
<1>7. queue' = queue
  BY <1>2, <1>3, <1>6 DEF QueueShape
<1> QED
  BY <1>5, <1>7, InsideKeepsBoxes

(* Recycled memory was on no list.                                         *)
LEMMA RecycleStutters ==
  ASSUME NEW q \in Seq(Blocks), Inv(q), NEW b \in Blocks, Recycle(b)
  PROVE  UNCHANGED <<queue, outbox, inbox>>
<1>1. /\ ~Live(meta[b]) /\ data' = [data EXCEPT ![b] = NULL] /\ ch' = ch
      /\ pc' = pc /\ ptr' = ptr /\ TypeOK /\ ListOK(q)
  BY DEF Recycle, Live, locals, Inv
<1>2. \A n \in Members(q) : n # b /\ n \in Blocks
  BY <1>1, DeadUnused DEF ListOK, Members
<1>3. \A n \in Members(q) : data'[n] = data[n]
  BY <1>1, <1>2 DEF TypeOK
<1>4. Inv(q)'
  BY RecyclePreserves
<1>5. queue' = queue
  BY <1>1, <1>3, <1>4, QueueKept
<1>6. Inside
  BY <1>1 DEF Inside
<1> QED
  BY <1>5, <1>6, InsideKeepsBoxes

(* ImplementsQueue: for any senders, receivers and messages and however    *)
(* their calls interleave, messages come out in the order they went in,    *)
(* each of them once.                                                      *)
THEOREM ChannelImplementsQueue ==
  ASSUME "detach" \in Careful
  PROVE  Spec => ImplementsQueue
<1>1. Init => Messages!Init
  <2> SUFFICES ASSUME Init PROVE Messages!Init
    OBVIOUS
  <2>1. PICK q \in Seq(Blocks) : Inv(q)
    BY InitOK DEF IInv
  <2>2. queue = <<>>
    BY <2>1, QueueIs DEF Init, QueueShape
  <2>3. outbox = [t \in Threads |-> NULL] /\ inbox = [t \in Threads |-> NULL]
    BY DEF Init, outbox, inbox, Sending, Taken
  <2> QED
    BY <2>2, <2>3 DEF Messages!Init
<1>2. ASSUME IInv, [Next]_vars
      PROVE  [Messages!Next]_(Messages!vars)
  <2>1. PICK q \in Seq(Blocks) : Inv(q)
    BY <1>2 DEF IInv
  <2>2. ASSUME NEW t \in Threads, Client(t) \/ Continue(t) \/ spurious_wakeup(t)
        PROVE  Messages!Next \/ UNCHANGED <<queue, outbox, inbox>>
    <3>1. CASE send_link(t) \/ recv_take(t) \/ recv_claim(t) \/ ownedc_channel_free(t)
      BY <2>1, <3>1, LinkSends, TakeReceives, ClaimReturns, FreeCloses DEF Messages!Next
    <3>2. ASSUME NEW b \in Blocks, ownedc_channel_send(t, b)
          PROVE  Messages!Next
      BY <2>1, <3>2, SendBegins DEF Messages!Next
    <3>3. CASE free_next(t)
      BY <2>1, <3>3, FreeNextStutters
    <3> QED
      BY <2>1, <2>2, <3>1, <3>2, <3>3, OthersStutter DEF Client, Continue
  <2>3. ASSUME NEW b \in Blocks, Recycle(b)
        PROVE  UNCHANGED <<queue, outbox, inbox>>
    BY <2>1, <2>3, RecycleStutters
  <2>4. CASE UNCHANGED vars
    <3>1. UNCHANGED <<meta, mutex, pc, list, locals, status>>
      BY <2>4 DEF vars, list, locals
    <3>2. Inv(q)'
      BY <2>1, <3>1, StopPreserves DEF Inv, TypeOK
    <3>3. data' = data /\ ch' = ch /\ pc' = pc /\ ptr' = ptr
      BY <2>4 DEF vars
    <3>4. queue' = queue
      BY <2>1, <3>2, <3>3, QueueKept
    <3>5. Inside
      BY <3>3 DEF Inside
    <3> QED
      BY <3>4, <3>5, InsideKeepsBoxes DEF Messages!vars
  <2> QED
    BY <1>2, <2>2, <2>3, <2>4 DEF Next, Terminated, Messages!vars
<1> QED
  BY <1>1, <1>2, ChannelInvariant, PTL DEF Spec, ImplementsQueue, Messages!Spec
=============================================================================
