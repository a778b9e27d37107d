------------------------------ MODULE Channel -------------------------------
(***************************************************************************)
(* The channel of src/src/ownedc_channel.c: a linked list of nodes under a *)
(* mutex, with a condition variable the receiver waits on.  A message is a *)
(* pointer to a block; a node is a block too, so the ownership calls the   *)
(* channel makes on both (share the message, claim and free the node,      *)
(* claim the message) are part of the model.  Each of these calls is one   *)
(* step: Registry shows that it behaves so.                                *)
(*                                                                         *)
(* ownedc_diagnostics_fatal stops the program here; Registry has what      *)
(* other threads may still do meanwhile.                                   *)
(***************************************************************************)
EXTENDS OwnershipOps, Sequences, FiniteSets

CONSTANTS Blocks,      \* blocks the allocator hands out, for messages and nodes
          Chan,        \* the channel's own block
          NULL,
          Receivers,   \* the threads that receive
          Careful      \* what the clients take care of, see Cares

Cares == {"detach",    \* a client drops a pointer when it sends it
          "creator",   \* the channel is freed by the thread that created it
          "drain"}     \* the channel is freed when it is empty

ASSUME ChannelAssumption ==
  /\ Chan \notin Blocks
  /\ NULL \notin Blocks \cup {Chan}
  /\ Receivers \subseteq Threads
  /\ Careful \subseteq Cares
  /\ IsFiniteSet(Blocks)

VARIABLES
  meta,            \* meta[b]: the header of the block b
  data, next,      \* data[n], next[n]: the contents of the node n
  ch,              \* the life of the channel: none, open, closing, freed
  head, tail,
  mutex,           \* the thread that holds the channel's mutex
  pc, ptr, node,   \* where each thread is, its message and its node
  hand,            \* hand[t]: the pointers the client in thread t has
  status           \* running; aborted: the runtime met a fault; crashed

vars == <<meta, data, next, ch, head, tail, mutex, pc, ptr, node, hand, status>>

list == <<data, next, ch, head, tail>>
locals == <<ptr, node, hand>>

BlockOrNull == Blocks \cup {NULL}

Sending == {"share", "node", "send_lock", "link"}

Taken == {"claim_node", "free_node", "claim"}

Locations == {"idle", "recv_lock", "take", "waiting", "free"} \cup Sending \cup Taken

TypeOK ==
  /\ meta \in [Blocks \cup {Chan} -> Meta]
  /\ data \in [Blocks -> BlockOrNull]
  /\ next \in [Blocks -> BlockOrNull]
  /\ ch \in {"none", "open", "closing", "freed"}
  /\ head \in BlockOrNull
  /\ tail \in BlockOrNull
  /\ mutex \in Threads \cup {NoThread}
  /\ pc \in [Threads -> Locations]
  /\ ptr \in [Threads -> BlockOrNull]
  /\ node \in [Threads -> BlockOrNull]
  /\ hand \in [Threads -> SUBSET Blocks]
  /\ status \in {"running", "aborted", "crashed"}

Init ==
  /\ meta = [b \in Blocks \cup {Chan} |-> NoMeta]
  /\ data = [b \in Blocks |-> NULL]
  /\ next = [b \in Blocks |-> NULL]
  /\ ch = "none"
  /\ head = NULL
  /\ tail = NULL
  /\ mutex = NoThread
  /\ pc = [t \in Threads |-> "idle"]
  /\ ptr = [t \in Threads |-> NULL]
  /\ node = [t \in Threads |-> NULL]
  /\ hand = [t \in Threads |-> {}]
  /\ status = "running"

-----------------------------------------------------------------------------
(* The runtime calls, each on the header of one block.                     *)

At(t, l) == status = "running" /\ pc[t] = l

Goto(t, l) == pc' = [pc EXCEPT ![t] = l]

ownedc_diagnostics_fatal ==
  /\ status' = "aborted"
  /\ UNCHANGED <<meta, mutex, pc, list, locals>>

\* The call writes m in b's header and the thread goes on to l.
Runtime(t, b, m, l) ==
  /\ meta' = [meta EXCEPT ![b] = m]
  /\ Goto(t, l)
  /\ UNCHANGED <<mutex, status>>

-----------------------------------------------------------------------------
(* The clients.                                                            *)

owner_malloc(t, b) ==
  /\ At(t, "idle")
  /\ meta[b].state = "INVALID"
  /\ Runtime(t, b, NewMeta(t), "idle")
  /\ hand' = [hand EXCEPT ![t] = @ \cup {b}]
  /\ UNCHANGED <<list, ptr, node>>

owner_free(t, b) ==
  /\ At(t, "idle")
  /\ b \in hand[t]
  /\ IF free_fault(meta[b], t)
       THEN ownedc_diagnostics_fatal
       ELSE /\ Runtime(t, b, Freed(meta[b]), "idle")
            /\ hand' = [hand EXCEPT ![t] = @ \ {b}]
            /\ UNCHANGED <<list, ptr, node>>

\* The quarantine gives freed memory back, once no pointer to it is left.
Recycle(b) ==
  /\ status = "running"
  /\ meta[b].state = "FREED"
  /\ \A t \in Threads : b \notin hand[t] /\ ptr[t] # b
  /\ \A n \in Blocks : data[n] # b \/ meta[n].state # "OWNED"
  /\ meta' = [meta EXCEPT ![b] = NoMeta]
  /\ data' = [data EXCEPT ![b] = NULL]
  /\ next' = [next EXCEPT ![b] = NULL]
  /\ UNCHANGED <<ch, head, tail, mutex, pc, locals, status>>

ownedc_channel_create(t) ==
  /\ At(t, "idle")
  /\ ch = "none"
  /\ Runtime(t, Chan, NewMeta(t), "idle")
  /\ ch' = "open"
  /\ UNCHANGED <<data, next, head, tail, locals>>

-----------------------------------------------------------------------------
(* ownedc_channel_send.                                                    *)

ownedc_channel_send(t, p) ==
  /\ At(t, "idle")
  /\ ch = "open"
  /\ p \in hand[t]
  /\ ptr' = [ptr EXCEPT ![t] = p]
  /\ hand' = IF "detach" \in Careful THEN [hand EXCEPT ![t] = @ \ {p}] ELSE hand
  /\ Goto(t, "share")
  /\ UNCHANGED <<meta, mutex, node, list, status>>

send_share(t) ==
  LET m == meta[ptr[t]]
  IN  /\ At(t, "share")
      /\ IF share_fault(m, t)
           THEN ownedc_diagnostics_fatal
           ELSE Runtime(t, ptr[t], Shared(m), "node") /\ UNCHANGED <<list, locals>>

\* The new node, filled in before any other thread can see it.
send_node(t, n) ==
  /\ At(t, "node")
  /\ meta[n].state = "INVALID"
  /\ Runtime(t, n, NewMeta(t), "send_lock")
  /\ data' = [data EXCEPT ![n] = ptr[t]]
  /\ next' = [next EXCEPT ![n] = NULL]
  /\ node' = [node EXCEPT ![t] = n]
  /\ UNCHANGED <<ch, head, tail, ptr, hand>>

\* owner_malloc returned NULL, and the code stores through it all the same.
send_node_null(t) ==
  /\ At(t, "node")
  /\ status' = "crashed"
  /\ UNCHANGED <<meta, mutex, pc, list, locals>>

lock(t) ==
  /\ status = "running"
  /\ mutex = NoThread
  /\ \/ At(t, "send_lock") /\ Goto(t, "link")
     \/ At(t, "recv_lock") /\ Goto(t, "take")
  /\ mutex' = t
  /\ UNCHANGED <<meta, list, locals, status>>

Waiting == {u \in Threads : pc[u] = "waiting"}

\* Mutant: the new node is not linked behind the tail but put in its place.
send_link_drops_tail(t) ==
  /\ At(t, "link")
  /\ head' = IF tail = NULL THEN node[t] ELSE head
  /\ tail' = node[t]
  /\ IF Waiting = {}
       THEN Goto(t, "idle")
       ELSE \E u \in Waiting : pc' = [pc EXCEPT ![t] = "idle", ![u] = "recv_lock"]
  /\ mutex' = NoThread
  /\ ptr' = [ptr EXCEPT ![t] = NULL]
  /\ node' = [node EXCEPT ![t] = NULL]
  /\ UNCHANGED <<meta, data, next, ch, hand, status>>

\* Mutant: no signal.
send_link_no_signal(t) ==
  /\ At(t, "link")
  /\ next' = IF tail = NULL THEN next ELSE [next EXCEPT ![tail] = node[t]]
  /\ head' = IF tail = NULL THEN node[t] ELSE head
  /\ tail' = node[t]
  /\ Goto(t, "idle")
  /\ mutex' = NoThread
  /\ ptr' = [ptr EXCEPT ![t] = NULL]
  /\ node' = [node EXCEPT ![t] = NULL]
  /\ UNCHANGED <<meta, data, ch, hand, status>>

\* Link the node, signal one waiter if there is any, unlock and return.
send_link(t) ==
  /\ At(t, "link")
  /\ next' = IF tail = NULL THEN next ELSE [next EXCEPT ![tail] = node[t]]
  /\ head' = IF tail = NULL THEN node[t] ELSE head
  /\ tail' = node[t]
  /\ IF Waiting = {}
       THEN Goto(t, "idle")
       ELSE \E u \in Waiting : pc' = [pc EXCEPT ![t] = "idle", ![u] = "recv_lock"]
  /\ mutex' = NoThread
  /\ ptr' = [ptr EXCEPT ![t] = NULL]
  /\ node' = [node EXCEPT ![t] = NULL]
  /\ UNCHANGED <<meta, data, ch, hand, status>>

-----------------------------------------------------------------------------
(* ownedc_channel_recv.                                                    *)

ownedc_channel_recv(t) ==
  /\ At(t, "idle")
  /\ ch = "open"
  /\ t \in Receivers
  /\ Goto(t, "recv_lock")
  /\ UNCHANGED <<meta, mutex, list, locals, status>>

\* pthread_cond_wait gives the mutex up in the same step.
recv_wait(t) ==
  /\ At(t, "take")
  /\ head = NULL
  /\ mutex' = NoThread
  /\ Goto(t, "waiting")
  /\ UNCHANGED <<meta, list, locals, status>>

\* pthread_cond_wait may return without a signal.
spurious_wakeup(t) ==
  /\ At(t, "waiting")
  /\ Goto(t, "recv_lock")
  /\ UNCHANGED <<meta, mutex, list, locals, status>>

\* Mutant: the tail is left where it was when the list becomes empty.
recv_take_no_tail(t) ==
  /\ At(t, "take")
  /\ head # NULL
  /\ node' = [node EXCEPT ![t] = head]
  /\ ptr' = [ptr EXCEPT ![t] = data[head]]
  /\ head' = next[head]
  /\ mutex' = NoThread
  /\ Goto(t, "claim_node")
  /\ UNCHANGED <<meta, data, next, ch, tail, hand, status>>

\* Unlink the first node, unlock and read the message.
recv_take(t) ==
  /\ At(t, "take")
  /\ head # NULL
  /\ node' = [node EXCEPT ![t] = head]
  /\ ptr' = [ptr EXCEPT ![t] = data[head]]
  /\ head' = next[head]
  /\ tail' = IF next[head] = NULL THEN NULL ELSE tail
  /\ mutex' = NoThread
  /\ Goto(t, "claim_node")
  /\ UNCHANGED <<meta, data, next, ch, hand, status>>

\* Mutant: the node is freed as it is, without being claimed.
recv_claim_node_skipped(t) ==
  /\ At(t, "claim_node")
  /\ Goto(t, "free_node")
  /\ UNCHANGED <<meta, mutex, status, list, locals>>

recv_claim_node(t) ==
  /\ At(t, "claim_node")
  /\ Runtime(t, node[t], Claimed(meta[node[t]], t), "free_node")
  /\ UNCHANGED <<list, locals>>

\* Mutant: the message is freed in place of its node.
recv_free_node_wrong_block(t) ==
  LET m == meta[ptr[t]]
  IN  /\ At(t, "free_node")
      /\ IF free_fault(m, t)
           THEN ownedc_diagnostics_fatal
           ELSE /\ Runtime(t, ptr[t], Freed(m), "claim")
                /\ node' = [node EXCEPT ![t] = NULL]
                /\ UNCHANGED <<list, ptr, hand>>

recv_free_node(t) ==
  LET m == meta[node[t]]
  IN  /\ At(t, "free_node")
      /\ IF free_fault(m, t)
           THEN ownedc_diagnostics_fatal
           ELSE /\ Runtime(t, node[t], Freed(m), "claim")
                /\ node' = [node EXCEPT ![t] = NULL]
                /\ UNCHANGED <<list, ptr, hand>>

\* Mutant: the message is returned as it was sent, shared.
recv_claim_skipped(t) ==
  /\ At(t, "claim")
  /\ Goto(t, "idle")
  /\ hand' = [hand EXCEPT ![t] = @ \cup {ptr[t]}]
  /\ ptr' = [ptr EXCEPT ![t] = NULL]
  /\ UNCHANGED <<meta, mutex, status, list, node>>

\* Claim the message and return it.
recv_claim(t) ==
  /\ At(t, "claim")
  /\ Runtime(t, ptr[t], Claimed(meta[ptr[t]], t), "idle")
  /\ hand' = [hand EXCEPT ![t] = @ \cup {ptr[t]}]
  /\ ptr' = [ptr EXCEPT ![t] = NULL]
  /\ UNCHANGED <<list, node>>

-----------------------------------------------------------------------------
(* ownedc_channel_free, when every other user of the channel is done.      *)

\* Mutant: the list is not given back, only the channel.
ownedc_channel_free_no_list(t) ==
  /\ At(t, "idle")
  /\ ch = "open"
  /\ \A u \in Threads : pc[u] = "idle"
  /\ "creator" \in Careful => meta[Chan].owner_thread = t
  /\ "drain" \in Careful => head = NULL
  /\ ch' = "closing"
  /\ node' = [node EXCEPT ![t] = NULL]
  /\ Goto(t, "free")
  /\ UNCHANGED <<meta, data, next, head, tail, mutex, ptr, hand, status>>

ownedc_channel_free(t) ==
  /\ At(t, "idle")
  /\ ch = "open"
  /\ \A u \in Threads : pc[u] = "idle"
  /\ "creator" \in Careful => meta[Chan].owner_thread = t
  /\ "drain" \in Careful => head = NULL
  /\ ch' = "closing"
  /\ node' = [node EXCEPT ![t] = head]
  /\ Goto(t, "free")
  /\ UNCHANGED <<meta, data, next, head, tail, mutex, ptr, hand, status>>

free_next(t) ==
  LET m == meta[node[t]]
  IN  /\ At(t, "free")
      /\ node[t] # NULL
      /\ IF free_fault(m, t)
           THEN ownedc_diagnostics_fatal
           ELSE /\ Runtime(t, node[t], Freed(m), "free")
                /\ node' = [node EXCEPT ![t] = next[node[t]]]
                /\ UNCHANGED <<list, ptr, hand>>

free_channel(t) ==
  /\ At(t, "free")
  /\ node[t] = NULL
  /\ IF free_fault(meta[Chan], t)
       THEN ownedc_diagnostics_fatal
       ELSE /\ Runtime(t, Chan, Freed(meta[Chan]), "idle")
            /\ ch' = "freed"
            /\ UNCHANGED <<data, next, head, tail, locals>>

Terminated == status # "running" /\ UNCHANGED vars

-----------------------------------------------------------------------------
\* A thread goes on with the call it is in.
Continue(t) ==
  \/ send_share(t) \/ (\E n \in Blocks : send_node(t, n)) \/ send_node_null(t)
  \/ lock(t) \/ send_link(t)
  \/ recv_wait(t) \/ recv_take(t)
  \/ recv_claim_node(t) \/ recv_free_node(t) \/ recv_claim(t)
  \/ free_next(t) \/ free_channel(t)

\* A thread makes a call.
Client(t) ==
  \/ ownedc_channel_create(t) \/ ownedc_channel_recv(t) \/ ownedc_channel_free(t)
  \/ \E b \in Blocks :
       owner_malloc(t, b) \/ owner_free(t, b) \/ ownedc_channel_send(t, b)

Next ==
  \/ \E t \in Threads : Client(t) \/ Continue(t) \/ spurious_wakeup(t)
  \/ \E b \in Blocks : Recycle(b)
  \/ Terminated

Spec == Init /\ [][Next]_vars

\* A thread inside a call is scheduled; no spurious wakeup is promised, and
\* nothing obliges a client to make a call.
FairSpec == Spec /\ \A t \in Threads : WF_vars(Continue(t))

-----------------------------------------------------------------------------
(* Properties.                                                             *)

\* The nodes on the list in order, then NULL; Blocks bounds its length.
Chain ==
  LET c[i \in 0 .. Cardinality(Blocks)] ==
        IF i = 0 THEN head
        ELSE IF c[i - 1] = NULL THEN NULL ELSE next[c[i - 1]]
  IN  c

Queued ==
  IF ch = "open" THEN {Chain[i] : i \in DOMAIN Chain} \ {NULL} ELSE {}

(* send_link and recv_take keep the list whole: it ends, at the tail; it   *)
(* is empty for head and tail alike; its nodes are live and of no other    *)
(* use; and nobody is inside the critical section without the mutex.       *)
ListWhole ==
  /\ ch = "open" =>
       /\ Chain[Cardinality(Blocks)] = NULL
       /\ head = NULL <=> tail = NULL
       /\ \A n \in Queued : /\ meta[n].state = "OWNED"
                            /\ next[n] = NULL <=> n = tail
  /\ \A t \in Threads : pc[t] \in {"link", "take"} <=> mutex = t

(* The uses of the block b: a client has it, a thread is sending or        *)
(* receiving it, a thread has it as its node, it is a node on the list, or *)
(* the message of one.                                                     *)
InHand(b) == {t \in Threads : b \in hand[t]}
OnTheWay(b) == {t \in Threads : ptr[t] = b}
AsNode(b) == {t \in Threads : node[t] = b}
AsMessage(b) == {n \in Queued : data[n] = b}

Uses(b) ==
  {<<"hand", t>> : t \in InHand(b)} \cup {<<"ptr", t>> : t \in OnTheWay(b)}
  \cup {<<"node", t>> : t \in AsNode(b)}
  \cup {<<"queued", n>> : n \in Queued \cap {b}}
  \cup {<<"message", n>> : n \in AsMessage(b)}

(* Between clients that give a pointer up when they send it, no block is   *)
(* ever lost or in two places: a live block has exactly one use and a      *)
(* freed block has none, so each message is received once and no message   *)
(* or node is freed while someone can still reach it.                      *)
OnePlace ==
  \A b \in Blocks :
    Cardinality(Uses(b)) = IF Live(meta[b]) THEN 1 ELSE 0

HandsOwn ==
  \A t \in Threads : \A b \in hand[t] :
    meta[b].state = "OWNED" /\ meta[b].owner_thread = t

(* What recv returned, or malloc, is owned by the thread that has it, as   *)
(* the header says: "Ownership is claimed by the receiver"; what is in the *)
(* channel is alive and shared, so whoever receives it can claim it.       *)
ReceiverOwns ==
  /\ HandsOwn
  /\ \A n \in Queued : meta[data[n]].state = "SHARED"

(* What the channel keeps in order for its clients: the types, the list    *)
(* and the ownership of what is in the channel and of what came out of it. *)
ChannelOK == TypeOK /\ ListWhole /\ ReceiverOwns

(* Clients that take care never meet a fault of the runtime: no send, recv *)
(* or free of theirs, in any order and on any thread, is a violation.      *)
NoFault == status # "aborted"

(* What the clients cannot reach any more is what was left in the channel  *)
(* that was freed: "The channel should be empty, otherwise remaining items *)
(* leak" (ownedc_channel.h).  The messages leak, and nothing else does:    *)
(* not before the free, and not the list of nodes, which                   *)
(* ownedc_channel_free gives back.                                         *)
OnlyRemainingLeak ==
  ch # "closing" =>
    \A b \in Blocks :
      Live(meta[b]) /\ Uses(b) = {} => ch = "freed" /\ meta[b].state = "SHARED"

(* The same sentence says that the free of a channel with messages in it   *)
(* is no more than a leak: the free itself comes to its end.               *)
RemainingItemsLeak ==
  \A t \in Threads : pc[t] = "free" => status # "aborted"

(* Of clients that only give up what they send, the one fault is that of   *)
(* ownedc_channel_free, called for a channel, or one with a node in it,    *)
(* that another thread allocated; send and recv never meet one.            *)
FaultsOnlyInFree ==
  status = "aborted" =>
    \E t \in Threads :
      /\ pc[t] = "free"
      /\ meta[IF node[t] = NULL THEN Chan ELSE node[t]].owner_thread # t

\* The channel's messages in order, for MessageQueue.
queue ==
  LET length == Cardinality(Queued)
  IN  [i \in 1 .. length |-> data[Chain[i - 1]]]
outbox == [t \in Threads |-> IF pc[t] \in Sending THEN ptr[t] ELSE NULL]
inbox == [t \in Threads |-> IF pc[t] \in Taken THEN ptr[t] ELSE NULL]

Messages == INSTANCE MessageQueue

(* The channel is a queue: first in, first out, each message taken once.   *)
ImplementsQueue == Messages!Spec

life == [b \in Blocks \cup {Chan} |-> LifeOf(meta[b])]
borrows == [b \in Blocks \cup {Chan} |-> meta[b].borrow_count]
owner == [b \in Blocks \cup {Chan} |-> meta[b].owner_thread]

Abstract == INSTANCE Lifecycle WITH Addrs <- Blocks \cup {Chan}

(* The ownership calls send and recv make are legal steps in the life of   *)
(* every block: above all, recv claims only blocks that are alive.         *)
ImplementsLifecycle == Abstract!Spec

(* While a receiver waits, every message in the channel has a receiver of  *)
(* its own on the way to the mutex: one signal for each message is enough, *)
(* even when a receiver that never waited takes the message first.         *)
WakeupPending ==
  Waiting # {} =>
    Cardinality(Queued) <=
      Cardinality({t \in Threads : pc[t] \in {"recv_lock", "take"}})

(* No wakeup is lost: once the clients stop making calls, no receiver is   *)
(* left waiting while there is a message in the channel.                   *)
NoLostWakeup ==
  <>[][\A t \in Threads : ~Client(t)]_vars =>
    <>[](status # "running" \/ Waiting = {} \/ head = NULL)

-----------------------------------------------------------------------------
(* The inductive invariant, for clients that keep "detach".  It is about   *)
(* the nodes q that are on the list, in order; ownedc_channel_free takes   *)
(* them off one by one too.                                                *)

Linked(q, first) ==
  /\ first = IF q = <<>> THEN NULL ELSE q[1]
  /\ \A i, j \in DOMAIN q : q[i] = q[j] => i = j
  /\ \A i \in DOMAIN q : next[q[i]] = IF i = Len(q) THEN NULL ELSE q[i + 1]

Members(q) == {q[i] : i \in DOMAIN q}

ListOK(q) ==
  /\ q \in Seq(Blocks)
  /\ ch = "open" => Linked(q, head) /\ tail = IF q = <<>> THEN NULL ELSE q[Len(q)]
  /\ \A t \in Threads : pc[t] = "free" => Linked(q, node[t])
  /\ ch \in {"none", "freed"} \/ (ch = "closing" /\ "drain" \in Careful) => q = <<>>
  /\ ch = "none" => head = NULL /\ tail = NULL
  /\ \A n \in Members(q) :
       meta[n].state = "OWNED" /\ data[n] \in Blocks /\ meta[data[n]].state = "SHARED"

\* No block is borrowed, and the channel's own block is there while it is open.
HeadersOK ==
  /\ \A b \in Blocks \cup {Chan} :
       meta[b].borrow_count = 0 /\ meta[b].state # "BORROWED"
  /\ meta[Chan].state = CASE ch = "none" -> "INVALID" [] ch = "freed" -> "FREED"
                          [] OTHER -> "OWNED"

HasNode == {"send_lock", "link", "claim_node", "free_node"}

\* Where a thread is tells what it has in hand, and in which state.
CallOK(t) ==
  /\ pc[t] \notin {"idle", "free"} => ch = "open"
  /\ pc[t] = "free" => /\ ch = "closing"
                       /\ \A u \in Threads \ {t} : pc[u] = "idle"
                       /\ "creator" \in Careful => meta[Chan].owner_thread = t
  /\ pc[t] \in {"link", "take"} <=> mutex = t
  /\ ptr[t] # NULL <=> pc[t] \in Sending \cup Taken
  /\ pc[t] # "free" => (node[t] # NULL <=> pc[t] \in HasNode)
  /\ pc[t] = "share" => meta[ptr[t]].state = "OWNED" /\ meta[ptr[t]].owner_thread = t
  /\ ptr[t] # NULL /\ pc[t] # "share" => meta[ptr[t]].state = "SHARED"
  /\ pc[t] \in HasNode => meta[node[t]].state = "OWNED"
  /\ pc[t] \in HasNode \ {"claim_node"} => meta[node[t]].owner_thread = t
  /\ pc[t] \in {"send_lock", "link"} => next[node[t]] = NULL /\ data[node[t]] = ptr[t]

\* The uses of b, with the nodes that ownedc_channel_free has still to free.
Places(q, b) ==
  {<<"hand", t>> : t \in InHand(b)} \cup {<<"ptr", t>> : t \in OnTheWay(b)}
  \cup {<<"node", t>> : t \in {u \in AsNode(b) : pc[u] # "free"}}
  \cup {<<"queued", n>> : n \in Members(q) \cap {b}}
  \cup {<<"message", n>> : n \in {k \in Members(q) : data[k] = b}}

\* b was in a channel that is freed, or about to be.
Left(b) ==
  "drain" \notin Careful /\ ch \in {"closing", "freed"} /\ meta[b].state = "SHARED"

UsedOnce(q) ==
  \A b \in Blocks :
    /\ \A u, v \in Places(q, b) : u = v
    /\ Places(q, b) # {} => Live(meta[b])
    /\ Live(meta[b]) => Places(q, b) # {} \/ Left(b)

Inv(q) ==
  /\ TypeOK /\ HeadersOK /\ HandsOwn
  /\ \A t \in Threads : CallOK(t)
  /\ ListOK(q) /\ UsedOnce(q)

\* q has no node twice: TLC may take the q of at most Cardinality(Blocks) nodes.
IInv == \E q \in Seq(Blocks) : Inv(q)
=============================================================================
