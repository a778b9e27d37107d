--------------------------- MODULE HandlesProofs ----------------------------
(***************************************************************************)
(* Proofs about Handles for any threads, wrappers, streams, descriptors    *)
(* and mutexes and any depth of scopes.                                    *)
(***************************************************************************)
EXTENDS Handles, FiniteSetTheorems, TLAPS

(* The handle variables after a declaration.                               *)
LEMMA AppendFacts ==
  ASSUME NEW S, NEW s \in Seq(S), NEW x \in S
  PROVE  /\ Append(s, x) \in Seq(S) /\ Len(Append(s, x)) = Len(s) + 1
         /\ Range(Append(s, x)) = Range(s) \cup {x}
         /\ \A i \in DOMAIN Append(s, x) : \/ i \in DOMAIN s /\ Append(s, x)[i] = s[i]
                                           \/ i = Len(s) + 1 /\ Append(s, x)[i] = x
<1>1. DOMAIN s = 1..Len(s) /\ Len(s) \in Nat
  OBVIOUS
<1>2. DOMAIN Append(s, x) = 1..(Len(s) + 1) /\ Len(Append(s, x)) = Len(s) + 1
      /\ Append(s, x) \in Seq(S)
  OBVIOUS
<1>3. \A i \in 1..Len(s) : Append(s, x)[i] = s[i]
  OBVIOUS
<1>4. Append(s, x)[Len(s) + 1] = x
  OBVIOUS
<1>5. 1..(Len(s) + 1) = (1..Len(s)) \cup {Len(s) + 1}
  BY <1>1
<1>6. Range(Append(s, x)) = Range(s) \cup {x}
  <2>1. PICK m, e : m = Len(s) + 1 /\ e = Append(s, x)
    OBVIOUS
  <2>2. DOMAIN e = DOMAIN s \cup {m} /\ e[m] = x /\ \A i \in DOMAIN s : e[i] = s[i]
    BY <1>1, <1>2, <1>3, <1>4, <1>5, <2>1
  <2>3. Range(e) = Range(s) \cup {x}
    BY <2>2 DEF Range
  <2> QED
    BY <2>1, <2>3
<1>7. \A i \in DOMAIN Append(s, x) : \/ i \in DOMAIN s /\ Append(s, x)[i] = s[i]
                                     \/ i = Len(s) + 1 /\ Append(s, x)[i] = x
  BY <1>1, <1>2, <1>3, <1>4, <1>5
<1> QED
  BY <1>2, <1>6, <1>7

(* The handle variables after the innermost scope has ended.               *)
LEMMA FrontFacts ==
  ASSUME NEW S, NEW s \in Seq(S), s # <<>>
  PROVE  /\ Front(s) \in Seq(S) /\ Len(Front(s)) = Len(s) - 1
         /\ Last(s) \in S /\ Last(s) = s[Len(s)] /\ Len(s) \in DOMAIN s
         /\ Range(s) = Range(Front(s)) \cup {Last(s)}
         /\ \A i \in DOMAIN Front(s) : /\ i \in DOMAIN s /\ i # Len(s)
                                       /\ Front(s)[i] = s[i]
<1>1. DOMAIN s = 1..Len(s) /\ Len(s) \in Nat /\ Len(s) > 0
  OBVIOUS
<1>2. /\ Front(s) \in Seq(S) /\ Len(Front(s)) = Len(s) - 1
      /\ \A i \in 1..(Len(s) - 1) : Front(s)[i] = s[i]
  BY <1>1 DEF Front
<1>3. DOMAIN Front(s) = 1..(Len(s) - 1)
  BY <1>2
<1>4. Last(s) \in S /\ Last(s) = s[Len(s)] /\ Len(s) \in DOMAIN s
  BY <1>1 DEF Last
<1>5. 1..Len(s) = (1..(Len(s) - 1)) \cup {Len(s)}
  BY <1>1
<1>6. Range(s) = Range(Front(s)) \cup {Last(s)}
  BY <1>1, <1>2, <1>3, <1>4, <1>5, ZenonT(30) DEF Range
<1>7. \A i \in DOMAIN Front(s) : i \in DOMAIN s /\ i # Len(s) /\ Front(s)[i] = s[i]
  BY <1>1, <1>2, <1>3
<1> QED
  BY <1>2, <1>4, <1>6, <1>7

(* The handle variables after one of them is set to NULL.                  *)
LEMMA ClearFacts ==
  ASSUME NEW S, NEW s \in Seq(S), NEW i \in DOMAIN s, NEW x \in S
  PROVE  /\ [s EXCEPT ![i] = x] \in Seq(S) /\ Len([s EXCEPT ![i] = x]) = Len(s)
         /\ s[i] \in S /\ s[i] \in Range(s)
         /\ Range([s EXCEPT ![i] = x]) \subseteq Range(s) \cup {x}
         /\ Range(s) \subseteq Range([s EXCEPT ![i] = x]) \cup {s[i]}
         /\ DOMAIN [s EXCEPT ![i] = x] = DOMAIN s
         /\ \A j \in DOMAIN s : [s EXCEPT ![i] = x][j] = IF j = i THEN x ELSE s[j]
<1> DEFINE r == [s EXCEPT ![i] = x]
<1>1. DOMAIN s = 1..Len(s) /\ Len(s) \in Nat
  OBVIOUS
<1>2. DOMAIN r = DOMAIN s /\ \A j \in DOMAIN s : r[j] = IF j = i THEN x ELSE s[j]
  OBVIOUS
<1>3. r \in Seq(S) /\ Len(r) = Len(s)
  OBVIOUS
<1>4. s[i] \in S /\ s[i] \in Range(s)
  BY DEF Range
<1> HIDE DEF r
<1>5. Range(r) \subseteq Range(s) \cup {x}
  BY <1>2 DEF Range
<1>6. Range(s) \subseteq Range(r) \cup {s[i]}
  BY <1>2 DEF Range
<1> QED
  BY <1>2, <1>3, <1>4, <1>5, <1>6 DEF r

-----------------------------------------------------------------------------
(* What a step leaves alone.                                               *)

USE DEF Has

(* What a thread has are wrappers.                                         *)
LEMMA HasWrappers ==
  ASSUME TypeOK, NEW t \in Threads
  PROVE  Has(t) \subseteq Wrappers /\ Range(scope[t]) \subseteq Wrappers \cup {NULL}
<1>1. scope[t] \in Seq(Wrappers \cup {NULL}) /\ cur[t] \in Wrappers \cup {NULL}
  BY DEF TypeOK
<1>2. \A i \in DOMAIN scope[t] : scope[t][i] \in Wrappers \cup {NULL}
  BY <1>1
<1>3. Range(scope[t]) \subseteq Wrappers \cup {NULL}
  BY <1>2 DEF Range
<1> QED
  BY <1>1, <1>3

(* A thread that the step does not touch.                                  *)
LEMMA Bystander ==
  ASSUME NEW u \in Threads, ThreadOK(u),
         pc'[u] = pc[u], cur'[u] = cur[u], raw'[u] = raw[u], scope'[u] = scope[u],
         thr'[u] \in {"none", "ended"} => thr[u] \in {"none", "ended"},
         \A w \in Has(u) : obj'[w] = obj[w],
         \A m \in Mutexes : holder'[m] = u <=> holder[m] = u
  PROVE  ThreadOK(u)'
<1>1. cur[u] # NULL => obj'[cur[u]] = obj[cur[u]]
  OBVIOUS
<1>2. \A w \in Has(u) : Live(w)' <=> Live(w)
  BY DEF Live
<1>3. CallOK(u)'
  BY <1>1, <1>2 DEF ThreadOK, CallOK, Locking, Cleaning
<1>4. KindOK(u)'
  BY <1>2 DEF ThreadOK, KindOK
<1>5. ASSUME NEW m \in Mutexes
      PROVE  LockOK(u, m)'
  <2>1. Flagged(u, m)' = Flagged(u, m)
    BY <1>2 DEF Flagged
  <2>2. Late(u, m)' <=> Late(u, m)
    BY <1>1 DEF Late, ThreadOK, CallOK, Locking, Cleaning
  <2>3. pc[u] = "lock" => obj'[cur[u]] = obj[cur[u]]
    BY <1>1 DEF ThreadOK, CallOK, Locking
  <2>4. LockOK(u, m)
    BY DEF ThreadOK
  <2> QED
    BY <2>1, <2>2, <2>3, <2>4 DEF LockOK, One
<1> QED
  BY <1>3, <1>4, <1>5 DEF ThreadOK

(* A step of the thread t, which touches only wrappers t has or makes.     *)
LEMMA StepOf ==
  ASSUME IInv, NEW t \in Threads, TypeOK', ThreadOK(t)',
         \A u \in Threads \ {t} :
           /\ pc'[u] = pc[u] /\ cur'[u] = cur[u] /\ raw'[u] = raw[u]
           /\ scope'[u] = scope[u]
           /\ thr'[u] \in {"none", "ended"} => thr[u] \in {"none", "ended"}
           /\ \A m \in Mutexes : holder'[m] = u <=> holder[m] = u,
         \A w \in Wrappers : obj'[w] = obj[w] \/ w \in Has(t) \/ obj[w].life = "none",
         \A w \in Has(t)' : w \in Has(t) \/ obj[w].life = "none",
         \A w \in Wrappers : Live(w)' /\ (w \in Has(t) \/ ~Live(w)) => w \in Has(t)',
         \A r \in Raws : RawOK(r)',
         \A u \in Threads \ Mains : JoinOK(u)',
         \A u \in Mains : thr'[u] = "running"
  PROVE  IInv'
<1>1. ASSUME NEW u \in Threads \ {t}, NEW w \in Has(u)
      PROVE  w \in Wrappers /\ w \notin Has(t) /\ obj[w].life # "none" /\ obj'[w] = obj[w]
  <2>1. w \in Wrappers /\ w \notin Has(t)
    BY HasWrappers DEF IInv, HandsOK
  <2>2. obj[w].life # "none"
    BY DEF IInv, ThreadOK, KindOK
  <2> QED
    BY <2>1, <2>2
<1>2. \A u \in Threads \ {t} : Has(u)' = Has(u)
  OBVIOUS
<1>3. ASSUME NEW u \in Threads \ {t}
      PROVE  ThreadOK(u)'
  BY <1>1, Bystander DEF IInv
<1>4. HandsOK'
  <2>1. \A u \in Threads \ {t} : Has(t)' \cap Has(u)' = {}
    BY <1>1, <1>2 DEF IInv, HandsOK
  <2>2. \A u, v \in Threads \ {t} : u # v => Has(u)' \cap Has(v)' = {}
    BY <1>2 DEF IInv, HandsOK
  <2> QED
    BY <2>1, <2>2 DEF HandsOK
<1>5. NoWrapperLeaks'
  <2> SUFFICES ASSUME NEW w \in Wrappers, Live(w)'
               PROVE  \E u \in Threads : w \in Has(u)'
    BY DEF NoWrapperLeaks
  <2>1. CASE w \in Has(t) \/ ~Live(w)
    BY <2>1
  <2>2. CASE w \notin Has(t) /\ Live(w)
    <3>1. PICK u \in Threads : w \in Has(u)
      BY <2>2 DEF IInv, NoWrapperLeaks
    <3> QED
      BY <1>2, <2>2, <3>1
  <2> QED
    BY <2>1, <2>2
<1> QED
  BY <1>3, <1>4, <1>5 DEF IInv

(* Streams and descriptors, and the wrappers that are to close them.       *)
LEMMA RawsKept ==
  ASSUME \A r \in Raws : RawOK(r),
         open' = open, raw' = raw,
         \A w \in Wrappers :
           LET Closer == Live(w) /\ obj[w].kind \in {"file", "socket"} /\ ~obj[w].flag
           IN  (Closer' <=> Closer) /\ (Closer => obj'[w].raw = obj[w].raw)
  PROVE  \A r \in Raws : RawOK(r)'
<1> SUFFICES ASSUME NEW r \in Raws PROVE RawOK(r)'
  OBVIOUS
<1>1. Owners(r)' = Owners(r)
  BY DEF Owners
<1>2. Carriers(r)' = Carriers(r)
  BY DEF Carriers
<1> QED
  BY <1>1, <1>2 DEF RawOK, One

(* Threads, and the wrappers that are to join them.                        *)
LEMMA JoinsKept ==
  ASSUME \A u \in Threads \ Mains : JoinOK(u),
         \A u \in Threads \ Mains :
           thr'[u] \in {"running", "ended"} <=> thr[u] \in {"running", "ended"},
         \A w \in Wrappers :
           LET Joiner == Live(w) /\ obj[w].kind = "thread" /\ obj[w].flag
           IN  (Joiner' <=> Joiner) /\ (Joiner => obj'[w].raw = obj[w].raw)
  PROVE  \A u \in Threads \ Mains : JoinOK(u)'
<1> SUFFICES ASSUME NEW u \in Threads \ Mains PROVE JoinOK(u)'
  OBVIOUS
<1>1. Joiners(u)' = Joiners(u)
  BY DEF Joiners
<1> QED
  BY <1>1 DEF JoinOK, One

(* Mutexes, for a thread outside the calls that lock and unlock.           *)
LEMMA LocksKept ==
  ASSUME NEW t \in Threads, \A m \in Mutexes : LockOK(t, m),
         {pc[t], pc'[t]} \cap (Locking \cup {"cleanup_unlocked"}) = {},
         \A m \in Mutexes : holder'[m] = t <=> holder[m] = t,
         \A w \in Has(t) \cup Has(t)' :
           LET Locked == w \in Has(t) /\ Live(w) /\ obj[w].kind = "mutex" /\ obj[w].flag
           IN  (Locked' <=> Locked) /\ (Locked => obj'[w].raw = obj[w].raw)
  PROVE  \A m \in Mutexes : LockOK(t, m)'
<1> SUFFICES ASSUME NEW m \in Mutexes PROVE LockOK(t, m)'
  OBVIOUS
<1>1. Flagged(t, m)' = Flagged(t, m)
  BY DEF Flagged
<1>2. ~Late(t, m)' /\ ~Late(t, m) /\ pc'[t] # "lock"
  BY DEF Late, Locking
<1> QED
  BY <1>1, <1>2 DEF LockOK, One

-----------------------------------------------------------------------------
(* Every action preserves the invariant, one lemma for each.               *)

(* A stream or a descriptor is opened: its opener carries it.              *)
LEMMA OpenPreserves ==
  ASSUME IInv, NEW t \in Threads, NEW r \in Raws,
         NEW at \in {"wrap_file", "wrap_socket", "wrap_fd"}, open_raw(t, r, at)
  PROVE  IInv'
<1>1. /\ pc[t] = "idle" /\ thr[t] \in {"running", "detached"} /\ r \notin open
      /\ open' = open \cup {r} /\ raw' = [raw EXCEPT ![t] = r]
      /\ pc' = [pc EXCEPT ![t] = at]
      /\ UNCHANGED <<obj, scope, thr, holder, cur, status>>
  BY DEF open_raw, Opening, At, Goto
<1>2. TypeOK /\ CallOK(t) /\ KindOK(t) /\ \A m \in Mutexes : LockOK(t, m)
  BY DEF IInv, ThreadOK
<1>3. cur[t] = NULL /\ raw[t] = NULL /\ r # NULL
  BY <1>1, <1>2, HandlesAssumption DEF CallOK, Locking, Cleaning, Carrying
<1>4. TypeOK'
  BY <1>1, <1>2 DEF TypeOK, Locations
<1>5. pc'[t] = at /\ raw'[t] = r
  BY <1>1, <1>2 DEF TypeOK
<1>6. CallOK(t)'
  <2>1. Len(scope[t]) < MaxScopes
    BY DEF open_raw, Opening
  <2> QED
    BY <1>1, <1>2, <1>3, <1>5, <2>1 DEF CallOK, Locking, Cleaning, Carrying
<1>7. KindOK(t)'
  BY <1>1, <1>2, <1>3 DEF KindOK, Live
<1>8. \A m \in Mutexes : LockOK(t, m)'
  BY <1>1, <1>2, <1>5, LocksKept DEF Live, Locking
<1>9. \A x \in Raws : RawOK(x)'
  <2> SUFFICES ASSUME NEW x \in Raws PROVE RawOK(x)'
    OBVIOUS
  <2>1. Owners(x)' = Owners(x) /\ RawOK(x)
    BY <1>1 DEF Owners, Live, IInv
  <2>2. CASE x = r
    <3>1. Carriers(r) = {} /\ Owners(r) = {}
      BY <1>1, <2>1, <2>2 DEF RawOK
    <3>2. Carriers(r)' = {t}
      BY <1>1, <1>2, <3>1 DEF Carriers, TypeOK
    <3> QED
      BY <1>1, <2>1, <2>2, <3>1, <3>2 DEF RawOK, One
  <2>3. CASE x # r
    <3>1. Carriers(x)' = Carriers(x)
      BY <1>1, <1>2, <1>3, <2>3, HandlesAssumption DEF Carriers, TypeOK
    <3> QED
      BY <1>1, <2>1, <2>3, <3>1 DEF RawOK, One
  <2> QED
    BY <2>2, <2>3
<1>10. \A u \in Threads \ Mains : JoinOK(u)'
  BY <1>1, JoinsKept DEF Live, IInv
<1> QED
  BY <1>1, <1>2, <1>4, <1>6, <1>7, <1>8, <1>9, <1>10, StepOf DEF ThreadOK, TypeOK, Live, IInv

(* A new handle variable.                                                  *)
LEMMA Declared ==
  ASSUME TypeOK, NEW t \in Threads, NEW w \in Wrappers, Len(scope[t]) < MaxScopes,
         scope' = [scope EXCEPT ![t] = Append(scope[t], w)]
  PROVE  /\ scope' \in [Threads -> Seq(Wrappers \cup {NULL})]
         /\ \A u \in Threads : Len(scope'[u]) <= MaxScopes
         /\ Range(scope'[t]) = Range(scope[t]) \cup {w}
         /\ \A u \in Threads \ {t} : scope'[u] = scope[u]
<1>1. scope[t] \in Seq(Wrappers \cup {NULL}) /\ Len(scope[t]) \in Nat
  BY DEF TypeOK
<1>2. scope'[t] = Append(scope[t], w) /\ \A u \in Threads \ {t} : scope'[u] = scope[u]
  BY DEF TypeOK
<1>3. /\ Append(scope[t], w) \in Seq(Wrappers \cup {NULL})
      /\ Len(Append(scope[t], w)) = Len(scope[t]) + 1
      /\ Range(Append(scope[t], w)) = Range(scope[t]) \cup {w}
  BY <1>1, AppendFacts
<1>4. scope' \in [Threads -> Seq(Wrappers \cup {NULL})]
  BY <1>3 DEF TypeOK
<1>5. \A u \in Threads : Len(scope'[u]) <= MaxScopes
  BY <1>1, <1>2, <1>3, HandlesAssumption DEF TypeOK
<1> QED
  BY <1>2, <1>3, <1>4, <1>5

(* The wrapper of what was opened: it is the owner from here on.           *)
LEMMA WrapPreserves ==
  ASSUME IInv, NEW t \in Threads, NEW w \in Wrappers, wrap_ok(t, w)
  PROVE  IInv'
<1>1. PICK k \in {"file", "socket"} :
        /\ pc[t] \in {"wrap_file", "wrap_socket", "wrap_fd"}
        /\ thr[t] \in {"running", "detached"} /\ obj[w].life = "none"
        /\ obj' = [obj EXCEPT ![w] = New(k, raw[t], FALSE)]
        /\ scope' = [scope EXCEPT ![t] = Append(scope[t], w)]
        /\ raw' = [raw EXCEPT ![t] = NULL] /\ pc' = [pc EXCEPT ![t] = "idle"]
        /\ UNCHANGED <<open, thr, holder, cur, status>>
  BY DEF wrap_ok, At, Goto, Declare
<1>2. TypeOK /\ CallOK(t) /\ KindOK(t) /\ \A m \in Mutexes : LockOK(t, m)
  BY DEF IInv, ThreadOK
<1>3. PICK r \in Raws : raw[t] = r
  BY <1>1, <1>2 DEF CallOK, Carrying, TypeOK
<1>4. /\ cur[t] = NULL /\ r # NULL /\ w # NULL
      /\ w \notin Has(t) /\ ~Live(w) /\ Len(scope[t]) < MaxScopes
  BY <1>1, <1>2, HandlesAssumption DEF CallOK, KindOK, Locking, Cleaning, Carrying, Live
<1>5. /\ scope' \in [Threads -> Seq(Wrappers \cup {NULL})]
      /\ \A u \in Threads : Len(scope'[u]) <= MaxScopes
      /\ Range(scope'[t]) = Range(scope[t]) \cup {w}
      /\ \A u \in Threads \ {t} : scope'[u] = scope[u]
  BY <1>1, <1>2, <1>4, Declared
<1>6. /\ obj'[w] = New(k, r, FALSE) /\ Live(w)'
      /\ \A v \in Wrappers \ {w} : obj'[v] = obj[v] /\ (Live(v)' <=> Live(v))
  BY <1>1, <1>2, <1>3, <1>4 DEF TypeOK, Live, New
<1>7. pc'[t] = "idle" /\ raw'[t] = NULL /\ Has(t)' = Has(t) \cup {w}
  BY <1>1, <1>2, <1>4, <1>5 DEF TypeOK
<1>8. TypeOK'
  BY <1>1, <1>2, <1>3, <1>5 DEF TypeOK, Locations, New, Wrapper
<1>9. CallOK(t)'
  BY <1>1, <1>4, <1>7 DEF CallOK, Locking, Cleaning, Carrying
<1>10. KindOK(t)'
  BY <1>1, <1>2, <1>6, <1>7, HasWrappers DEF KindOK, New
<1>11. \A m \in Mutexes : LockOK(t, m)'
  BY <1>1, <1>2, <1>4, <1>6, <1>7, HasWrappers, LocksKept DEF New, Locking
<1>12. \A x \in Raws : RawOK(x)'
  <2> SUFFICES ASSUME NEW x \in Raws PROVE RawOK(x)'
    OBVIOUS
  <2>1. RawOK(x)
    BY DEF IInv
  <2>2. CASE x = r
    <3>1. t \in Carriers(r)
      BY <1>3 DEF Carriers
    <3>2. Carriers(r) = {t} /\ Owners(r) = {} /\ r \in open
      BY <2>1, <2>2, <3>1 DEF RawOK, One
    <3>3. Carriers(r)' = {}
      BY <1>1, <1>2, <1>4, <3>2 DEF Carriers, TypeOK
    <3>4. Owners(r)' = {w}
      BY <1>6, <3>2 DEF Owners, New
    <3> QED
      BY <1>1, <2>2, <3>2, <3>3, <3>4 DEF RawOK, One
  <2>3. CASE x # r
    <3>1. Carriers(x)' = Carriers(x)
      BY <1>1, <1>2, <1>3, <2>3, HandlesAssumption DEF Carriers, TypeOK
    <3>2. Owners(x)' = Owners(x)
      BY <1>4, <1>6, <2>3 DEF Owners, New
    <3> QED
      BY <1>1, <2>1, <3>1, <3>2 DEF RawOK, One
  <2> QED
    BY <2>2, <2>3
<1>13. \A u \in Threads \ Mains : JoinOK(u)'
  BY <1>1, <1>4, <1>6, JoinsKept DEF New, IInv
<1>14. \A u \in Threads \ {t} : pc'[u] = pc[u] /\ raw'[u] = raw[u]
  BY <1>1, <1>2 DEF TypeOK
<1>15. ThreadOK(t)'
  BY <1>9, <1>10, <1>11 DEF ThreadOK
<1> QED
  BY <1>1, <1>5, <1>6, <1>7, <1>8, <1>12, <1>13, <1>14, <1>15, StepOf DEF IInv

(* What was opened is closed again, by the call that opened it or by the   *)
(* client.                                                                 *)
LEMMA UnwrapPreserves ==
  ASSUME IInv, NEW t \in Threads, wrap_fails(t) \/ client_close(t)
  PROVE  IInv'
<1>1. /\ pc[t] \in {"wrap_file", "wrap_socket", "has_fd"}
      /\ thr[t] \in {"running", "detached"} /\ open' = open \ {raw[t]}
      /\ raw' = [raw EXCEPT ![t] = NULL] /\ pc' = [pc EXCEPT ![t] = "idle"]
      /\ UNCHANGED <<obj, scope, thr, holder, cur, status>>
  BY DEF wrap_fails, client_close, At, Goto
<1>2. TypeOK /\ CallOK(t) /\ KindOK(t) /\ \A m \in Mutexes : LockOK(t, m)
  BY DEF IInv, ThreadOK
<1>3. PICK r \in Raws : raw[t] = r
  BY <1>1, <1>2 DEF CallOK, Carrying, TypeOK
<1>4. cur[t] = NULL /\ r # NULL
  BY <1>1, <1>2, HandlesAssumption DEF CallOK, Locking, Cleaning
<1>5. TypeOK'
  BY <1>1, <1>2 DEF TypeOK, Locations
<1>6. pc'[t] = "idle" /\ raw'[t] = NULL
  BY <1>1, <1>2 DEF TypeOK
<1>7. CallOK(t)'
  BY <1>1, <1>4, <1>6 DEF CallOK, Locking, Cleaning, Carrying
<1>8. KindOK(t)'
  BY <1>1, <1>2, <1>4 DEF KindOK, Live
<1>9. \A m \in Mutexes : LockOK(t, m)'
  BY <1>1, <1>2, <1>6, LocksKept DEF Live, Locking
<1>10. \A x \in Raws : RawOK(x)'
  <2> SUFFICES ASSUME NEW x \in Raws PROVE RawOK(x)'
    OBVIOUS
  <2>1. RawOK(x) /\ Owners(x)' = Owners(x)
    BY <1>1 DEF IInv, Owners, Live
  <2>2. CASE x = r
    <3>1. t \in Carriers(r)
      BY <1>3 DEF Carriers
    <3>2. Carriers(r) = {t} /\ Owners(r) = {}
      BY <2>1, <2>2, <3>1 DEF RawOK, One
    <3>3. Carriers(r)' = {}
      BY <1>1, <1>2, <1>4, <3>2 DEF Carriers, TypeOK
    <3> QED
      BY <1>1, <1>3, <2>1, <2>2, <3>2, <3>3 DEF RawOK, One
  <2>3. CASE x # r
    <3>1. Carriers(x)' = Carriers(x)
      BY <1>1, <1>2, <1>3, <2>3, HandlesAssumption DEF Carriers, TypeOK
    <3> QED
      BY <1>1, <1>3, <2>1, <2>3, <3>1 DEF RawOK, One
  <2> QED
    BY <2>2, <2>3
<1>11. \A u \in Threads \ Mains : JoinOK(u)'
  BY <1>1, JoinsKept DEF Live, IInv
<1> QED
  BY <1>1, <1>2, <1>5, <1>7, <1>8, <1>9, <1>10, <1>11, StepOf DEF ThreadOK, TypeOK, Live, IInv

(* No wrapper for the client's descriptor: the client keeps it.            *)
LEMMA SocketFailsPreserves ==
  ASSUME IInv, NEW t \in Threads, safe_socket_new_fails(t)
  PROVE  IInv'
<1>1. /\ pc[t] = "wrap_fd" /\ thr[t] \in {"running", "detached"}
      /\ pc' = [pc EXCEPT ![t] = "has_fd"]
      /\ UNCHANGED <<obj, scope, open, thr, holder, cur, raw, status>>
  BY DEF safe_socket_new_fails, At, Goto
<1>2. TypeOK /\ CallOK(t) /\ KindOK(t) /\ \A m \in Mutexes : LockOK(t, m)
  BY DEF IInv, ThreadOK
<1>3. TypeOK' /\ pc'[t] = "has_fd"
  BY <1>1, <1>2 DEF TypeOK, Locations
<1>4. CallOK(t)'
  BY <1>1, <1>2, <1>3 DEF CallOK, Locking, Cleaning, Carrying
<1>5. KindOK(t)'
  BY <1>1, <1>2 DEF KindOK, Live, CallOK, Locking, Cleaning
<1>6. \A m \in Mutexes : LockOK(t, m)'
  BY <1>1, <1>2, <1>3, LocksKept DEF Live, Locking
<1>7. (\A r \in Raws : RawOK(r)') /\ \A u \in Threads \ Mains : JoinOK(u)'
  BY <1>1, RawsKept, JoinsKept DEF Live, IInv
<1> QED
  BY <1>1, <1>2, <1>3, <1>4, <1>5, <1>6, <1>7, StepOf DEF ThreadOK, TypeOK, Live, IInv

(* The wrapper of a thread that is yet to be created.                      *)
LEMMA SpawnPreserves ==
  ASSUME IInv, NEW t \in Threads, NEW w \in Wrappers, safe_thread_spawn(t, w)
  PROVE  IInv'
<1>1. /\ pc[t] = "idle" /\ thr[t] \in {"running", "detached"} /\ obj[w].life = "none"
      /\ Len(scope[t]) < MaxScopes
      /\ obj' = [obj EXCEPT ![w] = New("thread", NULL, TRUE)]
      /\ cur' = [cur EXCEPT ![t] = w] /\ pc' = [pc EXCEPT ![t] = "create"]
      /\ UNCHANGED <<scope, open, thr, holder, raw, status>>
  BY DEF safe_thread_spawn, Opening, At, Goto
<1>2. TypeOK /\ CallOK(t) /\ KindOK(t) /\ \A m \in Mutexes : LockOK(t, m)
  BY DEF IInv, ThreadOK
<1>3. cur[t] = NULL /\ raw[t] = NULL /\ w # NULL /\ w \notin Has(t) /\ ~Live(w)
  BY <1>1, <1>2, HandlesAssumption DEF CallOK, KindOK, Locking, Cleaning, Carrying, Live
<1>4. /\ obj'[w] = New("thread", NULL, TRUE) /\ Live(w)'
      /\ \A v \in Wrappers \ {w} : obj'[v] = obj[v] /\ (Live(v)' <=> Live(v))
  BY <1>1, <1>2, <1>3 DEF TypeOK, Live, New
<1>5. pc'[t] = "create" /\ cur'[t] = w /\ Has(t)' = Has(t) \cup {w}
  BY <1>1, <1>2, <1>3 DEF TypeOK
<1>6. TypeOK'
  BY <1>1, <1>2 DEF TypeOK, Locations, New, Wrapper
<1>7. CallOK(t)'
  BY <1>1, <1>3, <1>4, <1>5 DEF CallOK, Locking, Cleaning, Carrying, New
<1>8. KindOK(t)'
  BY <1>1, <1>2, <1>3, <1>4, <1>5, HasWrappers DEF KindOK, New
<1>9. \A m \in Mutexes : LockOK(t, m)'
  BY <1>1, <1>2, <1>3, <1>4, <1>5, HasWrappers, LocksKept DEF New, Locking
<1>10. \A r \in Raws : RawOK(r)'
  BY <1>1, <1>3, <1>4, RawsKept DEF New, IInv
<1>11. \A u \in Threads \ Mains : JoinOK(u)'
  <2> SUFFICES ASSUME NEW u \in Threads \ Mains PROVE JoinOK(u)'
    OBVIOUS
  <2>1. Joiners(u)' = Joiners(u)
    BY <1>3, <1>4, HandlesAssumption DEF Joiners, New
  <2> QED
    BY <1>1, <2>1 DEF JoinOK, One, IInv
<1>12. \A u \in Threads \ {t} : pc'[u] = pc[u] /\ cur'[u] = cur[u]
  BY <1>1, <1>2 DEF TypeOK
<1>13. ThreadOK(t)'
  BY <1>7, <1>8, <1>9 DEF ThreadOK
<1> QED
  BY <1>1, <1>4, <1>5, <1>6, <1>10, <1>11, <1>12, <1>13, StepOf DEF IInv

(* The thread is created: its wrapper is to join it.                       *)
LEMMA CreatePreserves ==
  ASSUME IInv, NEW t \in Threads, NEW u \in Threads, create_ok(t, u)
  PROVE  IInv'
<1>1. /\ pc[t] = "create" /\ thr[t] \in {"running", "detached"} /\ thr[u] = "none"
      /\ thr' = [thr EXCEPT ![u] = "running"]
      /\ obj' = [obj EXCEPT ![cur[t]].raw = u]
      /\ scope' = [scope EXCEPT ![t] = Append(scope[t], cur[t])]
      /\ cur' = [cur EXCEPT ![t] = NULL] /\ pc' = [pc EXCEPT ![t] = "idle"]
      /\ UNCHANGED <<open, holder, raw, status>>
  BY DEF create_ok, At, Goto, Declare
<1>2. TypeOK /\ CallOK(t) /\ KindOK(t) /\ \A m \in Mutexes : LockOK(t, m)
  BY DEF IInv, ThreadOK
<1>3. PICK w \in Wrappers : w = cur[t]
  BY <1>1, <1>2 DEF CallOK, TypeOK
<1>4. /\ raw[t] = NULL /\ w # NULL /\ w \in Has(t) /\ Live(w) /\ Len(scope[t]) < MaxScopes
      /\ obj[w].kind = "thread" /\ obj[w].raw = NULL /\ u \notin Mains /\ u # t /\ u # NULL
  BY <1>1, <1>2, <1>3, HandlesAssumption DEF CallOK, Carrying, Locking, Cleaning, IInv
<1>5. /\ scope' \in [Threads -> Seq(Wrappers \cup {NULL})]
      /\ \A v \in Threads : Len(scope'[v]) <= MaxScopes
      /\ Range(scope'[t]) = Range(scope[t]) \cup {w}
      /\ \A v \in Threads \ {t} : scope'[v] = scope[v]
  BY <1>1, <1>2, <1>3, <1>4, Declared
<1>6. /\ obj'[w] = [obj[w] EXCEPT !.raw = u] /\ obj[w] \in Wrapper
      /\ \A v \in Wrappers \ {w} : obj'[v] = obj[v] /\ (Live(v)' <=> Live(v))
  BY <1>1, <1>2, <1>3 DEF TypeOK, Live
<1>7. /\ obj'[w].life = obj[w].life /\ obj'[w].kind = "thread" /\ obj'[w].raw = u
      /\ obj'[w].flag = obj[w].flag /\ Live(w)'
  BY <1>4, <1>6 DEF Wrapper, Live
<1>8. pc'[t] = "idle" /\ cur'[t] = NULL /\ Has(t)' = Has(t)
  BY <1>1, <1>2, <1>3, <1>4, <1>5 DEF TypeOK
<1>9. TypeOK'
  BY <1>1, <1>2, <1>3, <1>5, <1>6 DEF TypeOK, Locations, Wrapper
<1>10. CallOK(t)'
  <2>1. thr'[t] = thr[t]
    BY <1>1, <1>2, <1>4 DEF TypeOK
  <2> QED
    BY <1>1, <1>4, <1>8, <2>1 DEF CallOK, Locking, Cleaning, Carrying
<1>11. KindOK(t)'
  <2> SUFFICES ASSUME NEW v \in Has(t)
               PROVE  /\ obj'[v].life # "none"
                      /\ Live(v)' =>
                           /\ obj'[v].kind \in {"file", "socket"} => obj'[v].raw \in Raws
                           /\ obj'[v].kind = "mutex" => obj'[v].raw \in Mutexes
                           /\ obj'[v].kind = "thread" => obj'[v].raw \in Threads \ Mains
    BY <1>8 DEF KindOK
  <2>1. CASE v = w
    BY <1>4, <1>7, <2>1 DEF Live
  <2>2. CASE v # w
    BY <1>2, <1>3, <1>6, <2>2, HasWrappers DEF KindOK
  <2> QED
    BY <2>1, <2>2
<1>12. \A m \in Mutexes : LockOK(t, m)'
  BY <1>1, <1>2, <1>4, <1>6, <1>7, <1>8, HasWrappers, LocksKept DEF Locking
<1>13. \A r \in Raws : RawOK(r)'
  BY <1>1, <1>4, <1>6, <1>7, RawsKept DEF IInv
<1>14. \A v \in Threads \ Mains : JoinOK(v)'
  <2> SUFFICES ASSUME NEW v \in Threads \ Mains PROVE JoinOK(v)'
    OBVIOUS
  <2>1. JoinOK(v) /\ v # NULL
    BY HandlesAssumption DEF IInv
  <2>2. CASE v = u
    <3>1. Joiners(u) = {}
      BY <1>1, <2>1, <2>2 DEF JoinOK
    <3>2. obj[w].flag
      BY <1>1, <1>2, <1>3 DEF CallOK
    <3>3. Joiners(u)' = {w}
      BY <1>6, <1>7, <3>1, <3>2, ZenonT(40) DEF Joiners
    <3>4. thr'[u] = "running"
      BY <1>1, <1>2 DEF TypeOK
    <3> QED
      BY <2>2, <3>3, <3>4 DEF JoinOK, One
  <2>3. CASE v # u
    <3>1. Joiners(v)' = Joiners(v)
      BY <1>4, <1>6, <1>7, <2>1, <2>3, ZenonT(40) DEF Joiners
    <3>2. thr'[v] = thr[v]
      BY <1>1, <1>2, <2>3 DEF TypeOK
    <3> QED
      BY <2>1, <3>1, <3>2 DEF JoinOK, One
  <2> QED
    BY <2>2, <2>3
<1>15. \A v \in Threads \ {t} : /\ pc'[v] = pc[v] /\ cur'[v] = cur[v]
                                /\ thr'[v] = thr[v] \/ thr'[v] = "running"
  BY <1>1, <1>2 DEF TypeOK
<1>16. ThreadOK(t)'
  BY <1>10, <1>11, <1>12 DEF ThreadOK
<1>17. \A v \in Mains : thr'[v] = "running"
  BY <1>1, <1>2, <1>4, HandlesAssumption DEF IInv, TypeOK
<1> QED
  BY <1>1, <1>4, <1>5, <1>6, <1>8, <1>9, <1>13, <1>14, <1>15, <1>16, <1>17, StepOf, ZenonT(40)

(* The thread cannot be created: its wrapper is freed.                     *)
LEMMA CreateFailsPreserves ==
  ASSUME IInv, NEW t \in Threads, create_fails(t)
  PROVE  IInv'
<1>1. /\ pc[t] = "create" /\ thr[t] \in {"running", "detached"}
      /\ obj' = [obj EXCEPT ![cur[t]] = Freed(obj[cur[t]])]
      /\ cur' = [cur EXCEPT ![t] = NULL] /\ pc' = [pc EXCEPT ![t] = "idle"]
      /\ UNCHANGED <<scope, open, thr, holder, raw, status>>
  BY DEF create_fails, At, Goto
<1>2. TypeOK /\ CallOK(t) /\ KindOK(t) /\ \A m \in Mutexes : LockOK(t, m)
  BY DEF IInv, ThreadOK
<1>3. PICK w \in Wrappers : w = cur[t]
  BY <1>1, <1>2 DEF CallOK, TypeOK
<1>4. /\ raw[t] = NULL /\ w # NULL /\ w \in Has(t) /\ Live(w)
      /\ obj[w].kind = "thread" /\ obj[w].raw = NULL
  BY <1>1, <1>2, <1>3, HandlesAssumption DEF CallOK, Carrying, Locking, Cleaning
<1>5. /\ obj'[w] = Freed(obj[w]) /\ obj[w] \in Wrapper
      /\ \A v \in Wrappers \ {w} : obj'[v] = obj[v] /\ (Live(v)' <=> Live(v))
  BY <1>1, <1>2, <1>3 DEF TypeOK, Live
<1>6. obj'[w] \in Wrapper /\ obj'[w].life = "freed" /\ ~Live(w)'
  BY <1>5 DEF Freed, Wrapper, Live
<1>7. pc'[t] = "idle" /\ cur'[t] = NULL /\ Has(t)' \subseteq Has(t) /\ Has(t) \subseteq Has(t)' \cup {w}
  BY <1>1, <1>2, <1>3 DEF TypeOK
<1>8. TypeOK'
  BY <1>1, <1>2, <1>3, <1>5, <1>6 DEF TypeOK, Locations
<1>9. CallOK(t)'
  BY <1>1, <1>4, <1>7 DEF CallOK, Locking, Cleaning, Carrying
<1>10. KindOK(t)'
  BY <1>2, <1>3, <1>5, <1>6, <1>7, HasWrappers DEF KindOK
<1>11. \A m \in Mutexes : LockOK(t, m)'
  BY <1>1, <1>2, <1>4, <1>5, <1>6, <1>7, HasWrappers, LocksKept DEF Locking
<1>12. \A r \in Raws : RawOK(r)'
  BY <1>1, <1>4, <1>5, <1>6, RawsKept DEF IInv
<1>13. \A u \in Threads \ Mains : JoinOK(u)'
  <2> SUFFICES ASSUME NEW u \in Threads \ Mains PROVE JoinOK(u)'
    OBVIOUS
  <2>1. Joiners(u)' = Joiners(u)
    BY <1>4, <1>5, <1>6, HandlesAssumption DEF Joiners
  <2> QED
    BY <1>1, <2>1 DEF JoinOK, One, IInv
<1>14. \A u \in Threads \ {t} : pc'[u] = pc[u] /\ cur'[u] = cur[u]
  BY <1>1, <1>2 DEF TypeOK
<1>15. ThreadOK(t)'
  BY <1>9, <1>10, <1>11 DEF ThreadOK
<1> QED
  BY <1>1, <1>4, <1>5, <1>6, <1>7, <1>8, <1>12, <1>13, <1>14, <1>15, StepOf DEF IInv

(* safe_thread_set_policy writes a field the invariant does not look at.   *)
LEMMA PolicyPreserves ==
  ASSUME IInv, NEW t \in Threads, NEW w \in Wrappers, NEW p \in {"JOIN", "DETACH"},
         safe_thread_set_policy(t, w, p)
  PROVE  IInv'
<1>1. /\ pc[t] = "idle" /\ w \in Range(scope[t]) /\ Live(w)
      /\ obj' = [obj EXCEPT ![w].policy = p]
      /\ UNCHANGED <<scope, open, thr, holder, pc, cur, raw, status>>
  BY DEF safe_thread_set_policy, At
<1>2. TypeOK /\ CallOK(t) /\ KindOK(t) /\ \A m \in Mutexes : LockOK(t, m)
  BY DEF IInv, ThreadOK
<1>3. cur[t] = NULL /\ w # NULL /\ w \in Has(t)
  BY <1>1, <1>2, HandlesAssumption DEF CallOK, Locking, Cleaning
<1>4. /\ obj'[w] \in Wrapper /\ obj'[w].life = obj[w].life /\ obj'[w].kind = obj[w].kind
      /\ obj'[w].raw = obj[w].raw /\ obj'[w].flag = obj[w].flag
      /\ \A v \in Wrappers \ {w} : obj'[v] = obj[v]
  BY <1>1, <1>2, ZenonT(40) DEF TypeOK, Wrapper
<1>5. \A v \in Wrappers : Live(v)' <=> Live(v)
  BY <1>4 DEF Live
<1>6. TypeOK'
  BY <1>1, <1>2, <1>4 DEF TypeOK
<1>7. CallOK(t)'
  BY <1>1, <1>2, <1>3 DEF CallOK, Locking, Cleaning, Carrying
<1>8. KindOK(t)'
  BY <1>1, <1>2, <1>4, <1>5, HasWrappers DEF KindOK
<1>9. \A m \in Mutexes : LockOK(t, m)'
  BY <1>1, <1>2, <1>4, <1>5, HasWrappers, LocksKept DEF Locking
<1>10. (\A r \in Raws : RawOK(r)') /\ \A u \in Threads \ Mains : JoinOK(u)'
  BY <1>1, <1>4, <1>5, RawsKept, JoinsKept DEF IInv
<1>11. ThreadOK(t)'
  BY <1>7, <1>8, <1>9 DEF ThreadOK
<1> QED
  BY <1>1, <1>3, <1>4, <1>5, <1>6, <1>10, <1>11, StepOf DEF IInv

(* A thread ends with its scopes empty, so it leaves nothing in its hands. *)
LEMMA ExitPreserves ==
  ASSUME IInv, NEW t \in Threads, thread_exit(t)
  PROVE  IInv'
<1>1. /\ t \notin Mains /\ pc[t] = "idle" /\ scope[t] = <<>>
      /\ thr[t] \in {"running", "detached"}
      /\ thr' = [thr EXCEPT ![t] = IF thr[t] = "detached" THEN "none" ELSE "ended"]
      /\ UNCHANGED <<obj, scope, open, holder, pc, cur, raw, status>>
  BY DEF thread_exit, At
<1>2. TypeOK /\ CallOK(t) /\ KindOK(t) /\ \A m \in Mutexes : LockOK(t, m)
  BY DEF IInv, ThreadOK
<1>3. cur[t] = NULL
  BY <1>1, <1>2 DEF CallOK, Locking, Cleaning
<1>4. TypeOK'
  BY <1>1, <1>2 DEF TypeOK
<1>5. CallOK(t)'
  BY <1>1, <1>2, <1>3 DEF CallOK, Locking, Cleaning, Carrying
<1>6. KindOK(t)'
  BY <1>1, <1>2 DEF KindOK, Live
<1>7. \A m \in Mutexes : LockOK(t, m)'
  BY <1>1, <1>2, LocksKept DEF Live, Locking
<1>8. \A r \in Raws : RawOK(r)'
  BY <1>1, RawsKept DEF Live, IInv
<1>9. \A u \in Threads \ {t} : thr'[u] = thr[u]
  BY <1>1, <1>2 DEF TypeOK
<1>10. thr'[t] \in {"running", "ended"} <=> thr[t] \in {"running", "ended"}
  BY <1>1, <1>2 DEF TypeOK
<1>11. \A u \in Threads \ Mains : JoinOK(u)'
  BY <1>1, <1>9, <1>10, JoinsKept DEF Live, IInv
<1>12. \A u \in Mains : thr'[u] = "running"
  BY <1>1, <1>9, HandlesAssumption DEF IInv
<1>13. ThreadOK(t)'
  BY <1>5, <1>6, <1>7 DEF ThreadOK
<1> QED
  BY <1>1, <1>4, <1>8, <1>9, <1>11, <1>12, <1>13, StepOf DEF Live

(* safe_mutex_new makes a wrapper that is not locked, in the scope of its  *)
(* thread.                                                                 *)
LEMMA MutexNewPreserves ==
  ASSUME IInv, NEW t \in Threads, NEW w \in Wrappers, NEW m \in Mutexes,
         safe_mutex_new(t, w, m)
  PROVE  IInv'
<1>1. /\ pc[t] = "idle" /\ thr[t] \in {"running", "detached"} /\ obj[w].life = "none"
      /\ Len(scope[t]) < MaxScopes
      /\ obj' = [obj EXCEPT ![w] = New("mutex", m, FALSE)]
      /\ scope' = [scope EXCEPT ![t] = Append(scope[t], w)]
      /\ UNCHANGED <<open, thr, holder, pc, cur, raw, status>>
  BY DEF safe_mutex_new, Opening, At, Declare
<1>2. TypeOK /\ CallOK(t) /\ KindOK(t) /\ \A n \in Mutexes : LockOK(t, n)
  BY DEF IInv, ThreadOK
<1>3. cur[t] = NULL /\ raw[t] = NULL /\ w # NULL /\ w \notin Has(t) /\ ~Live(w)
  BY <1>1, <1>2, HandlesAssumption DEF CallOK, KindOK, Locking, Cleaning, Carrying, Live
<1>4. /\ scope' \in [Threads -> Seq(Wrappers \cup {NULL})]
      /\ \A u \in Threads : Len(scope'[u]) <= MaxScopes
      /\ Range(scope'[t]) = Range(scope[t]) \cup {w}
      /\ \A u \in Threads \ {t} : scope'[u] = scope[u]
  BY <1>1, <1>2, Declared
<1>5. /\ obj'[w] = New("mutex", m, FALSE) /\ Live(w)'
      /\ \A v \in Wrappers \ {w} : obj'[v] = obj[v] /\ (Live(v)' <=> Live(v))
  BY <1>1, <1>2, <1>3 DEF TypeOK, Live, New
<1>6. Has(t)' = Has(t) \cup {w}
  BY <1>1, <1>3, <1>4
<1>7. TypeOK'
  BY <1>1, <1>2, <1>4 DEF TypeOK, New, Wrapper
<1>8. CallOK(t)'
  BY <1>1, <1>3 DEF CallOK, Locking, Cleaning, Carrying
<1>9. KindOK(t)'
  BY <1>1, <1>2, <1>5, <1>6, HasWrappers DEF KindOK, New
<1>10. \A n \in Mutexes : LockOK(t, n)'
  BY <1>1, <1>2, <1>3, <1>5, <1>6, HasWrappers, LocksKept DEF New, Locking
<1>11. (\A r \in Raws : RawOK(r)') /\ \A u \in Threads \ Mains : JoinOK(u)'
  BY <1>1, <1>3, <1>5, RawsKept, JoinsKept DEF New, IInv
<1>12. ThreadOK(t)'
  BY <1>8, <1>9, <1>10 DEF ThreadOK
<1> QED
  BY <1>1, <1>4, <1>5, <1>6, <1>7, <1>11, <1>12, StepOf DEF IInv

(* A thread sets out to lock a mutex it does not hold.                     *)
LEMMA LockPreserves ==
  ASSUME IInv, "private" \in Careful, NEW t \in Threads, NEW w \in Wrappers,
         safe_mutex_lock(t, w)
  PROVE  IInv'
<1>1. /\ pc[t] = "idle" /\ thr[t] \in {"running", "detached"}
      /\ Live(w) /\ obj[w].kind = "mutex" /\ w \in Range(scope[t])
      /\ obj[w].raw \notin Held(t)
      /\ cur' = [cur EXCEPT ![t] = w] /\ pc' = [pc EXCEPT ![t] = "lock"]
      /\ UNCHANGED <<obj, scope, open, thr, holder, raw, status>>
  BY DEF safe_mutex_lock, Lockable, At, Goto
<1>2. TypeOK /\ CallOK(t) /\ KindOK(t) /\ \A m \in Mutexes : LockOK(t, m)
  BY DEF IInv, ThreadOK
<1>3. cur[t] = NULL /\ raw[t] = NULL /\ w # NULL
  BY <1>1, <1>2, HandlesAssumption DEF CallOK, Locking, Cleaning, Carrying
<1>4. pc'[t] = "lock" /\ cur'[t] = w /\ Has(t)' = Has(t)
  BY <1>1, <1>2, <1>3 DEF TypeOK
<1>5. TypeOK'
  BY <1>1, <1>2 DEF TypeOK, Locations
<1>6. CallOK(t)'
  BY <1>1, <1>3, <1>4 DEF CallOK, Locking, Cleaning, Carrying, Live
<1>7. KindOK(t)'
  BY <1>1, <1>2, <1>3, <1>4 DEF KindOK, Live
<1>8. ASSUME NEW m \in Mutexes
      PROVE  LockOK(t, m)'
  <2>1. Flagged(t, m)' = Flagged(t, m)
    BY <1>1, <1>4 DEF Flagged, Live
  <2>2. ~Late(t, m) /\ ~Late(t, m)'
    BY <1>1, <1>4 DEF Late
  <2>3. obj[w].raw = m => holder[m] # t
    BY <1>1 DEF Held
  <2> QED
    BY <1>1, <1>2, <1>4, <2>1, <2>2, <2>3 DEF LockOK, One
<1>9. (\A r \in Raws : RawOK(r)') /\ \A u \in Threads \ Mains : JoinOK(u)'
  BY <1>1, RawsKept, JoinsKept DEF Live, IInv
<1>10. \A u \in Threads \ {t} : pc'[u] = pc[u] /\ cur'[u] = cur[u]
  BY <1>1, <1>2 DEF TypeOK
<1>11. ThreadOK(t)'
  BY <1>6, <1>7, <1>8 DEF ThreadOK
<1> QED
  BY <1>1, <1>4, <1>5, <1>9, <1>10, <1>11, StepOf DEF IInv, Live

(* The thread has the mutex; the flag is still to be set.                  *)
LEMMA LockedPreserves ==
  ASSUME IInv, NEW t \in Threads, pthread_mutex_lock(t)
  PROVE  IInv'
<1>1. /\ pc[t] = "lock" /\ thr[t] \in {"running", "detached"}
      /\ holder[obj[cur[t]].raw] = NULL
      /\ holder' = [holder EXCEPT ![obj[cur[t]].raw] = t]
      /\ pc' = [pc EXCEPT ![t] = "locked"]
      /\ UNCHANGED <<obj, scope, open, thr, cur, raw, status>>
  BY DEF pthread_mutex_lock, At, Goto
<1>2. TypeOK /\ CallOK(t) /\ KindOK(t) /\ \A m \in Mutexes : LockOK(t, m)
  BY DEF IInv, ThreadOK
<1>3. PICK w \in Wrappers : w = cur[t] /\ w # NULL /\ Live(w) /\ obj[w].kind = "mutex"
  BY <1>1, <1>2 DEF CallOK, TypeOK, Locking
<1>4. PICK n \in Mutexes : n = obj[w].raw
  BY <1>2, <1>3 DEF KindOK
<1>5. /\ pc'[t] = "locked" /\ Has(t)' = Has(t) /\ holder'[n] = t
      /\ \A m \in Mutexes \ {n} : holder'[m] = holder[m]
  BY <1>1, <1>2, <1>3, <1>4 DEF TypeOK
<1>6. TypeOK'
  BY <1>1, <1>2, <1>3, <1>4 DEF TypeOK, Locations
<1>7. CallOK(t)'
  BY <1>1, <1>2, <1>5 DEF CallOK, Locking, Cleaning, Carrying, Live
<1>8. KindOK(t)'
  BY <1>1, <1>2, <1>5 DEF KindOK, Live
<1>9. ASSUME NEW m \in Mutexes
      PROVE  LockOK(t, m)'
  <2>1. Flagged(t, m)' = Flagged(t, m) /\ ~Late(t, m) /\ t # NULL
    BY <1>1, <1>5, HandlesAssumption DEF Flagged, Live, Late
  <2>2. CASE m = n
    <3>1. Flagged(t, m) = {}
      BY <1>1, <1>2, <1>3, <1>4, <2>1, <2>2 DEF LockOK
    <3>2. Late(t, m)'
      BY <1>1, <1>3, <1>4, <1>5, <2>2 DEF Late
    <3> QED
      BY <1>5, <2>1, <2>2, <3>1, <3>2 DEF LockOK
  <2>3. CASE m # n
    <3>1. ~Late(t, m)'
      BY <1>1, <1>3, <1>4, <2>3 DEF Late
    <3> QED
      BY <1>2, <1>5, <2>1, <2>3, <3>1 DEF LockOK, One
  <2> QED
    BY <2>2, <2>3
<1>10. (\A r \in Raws : RawOK(r)') /\ \A u \in Threads \ Mains : JoinOK(u)'
  BY <1>1, RawsKept, JoinsKept DEF Live, IInv
<1>11. \A u \in Threads \ {t} : /\ pc'[u] = pc[u]
                                /\ \A m \in Mutexes : holder'[m] = u <=> holder[m] = u
  BY <1>1, <1>2, <1>3, <1>4, <1>5, HandlesAssumption DEF TypeOK
<1>12. ThreadOK(t)'
  BY <1>7, <1>8, <1>9 DEF ThreadOK
<1> QED
  BY <1>1, <1>5, <1>6, <1>10, <1>11, <1>12, StepOf DEF IInv, Live

(* The flag follows the mutex.                                             *)
LEMMA FlagPreserves ==
  ASSUME IInv, NEW t \in Threads, set_is_locked(t)
  PROVE  IInv'
<1>1. /\ thr[t] \in {"running", "detached"}
      /\ \/ pc[t] \in {"locked", "unlocked"} /\ pc' = [pc EXCEPT ![t] = "idle"]
         \/ pc[t] = "cleanup_unlocked" /\ pc' = [pc EXCEPT ![t] = "free"]
      /\ cur' = [cur EXCEPT ![t] = IF pc'[t] = "idle" THEN NULL ELSE cur[t]]
      /\ UNCHANGED <<scope, open, thr, holder, raw, status>>
  BY DEF set_is_locked, At, Goto
<1>2. TypeOK /\ CallOK(t) /\ KindOK(t) /\ \A m \in Mutexes : LockOK(t, m)
  BY DEF IInv, ThreadOK
<1>3. PICK w \in Wrappers : w = cur[t] /\ w # NULL /\ Live(w) /\ obj[w].kind = "mutex"
  BY <1>1, <1>2 DEF CallOK, TypeOK, Locking, Cleaning
<1>4. PICK n \in Mutexes : n = obj[w].raw
  BY <1>2, <1>3 DEF KindOK
<1>5. raw[t] = NULL /\ (pc[t] # "cleanup_unlocked" => w \in Range(scope[t]))
  BY <1>1, <1>2, <1>3 DEF CallOK, Locking, Carrying
<1>6. /\ pc[t] \in {"locked", "unlocked"} => pc'[t] = "idle" /\ cur'[t] = NULL
      /\ pc[t] = "cleanup_unlocked" => pc'[t] = "free" /\ cur'[t] = w
  BY <1>1, <1>2, <1>3 DEF TypeOK
<1>7. Has(t)' = Has(t)
  BY <1>1, <1>3, <1>5, <1>6
<1>8. /\ obj' \in [Wrappers -> Wrapper]
      /\ obj'[w].life = obj[w].life /\ obj'[w].kind = obj[w].kind
      /\ obj'[w].raw = obj[w].raw /\ (obj'[w].flag <=> pc[t] = "locked")
      /\ \A v \in Wrappers \ {w} : obj'[v] = obj[v]
  <2>1. CASE pc[t] = "locked"
    <3>1. obj' = [obj EXCEPT ![w].flag = TRUE]
      BY <1>3, <2>1 DEF set_is_locked
    <3> QED
      BY <1>2, <2>1, <3>1, ZenonT(40) DEF TypeOK, Wrapper
  <2>2. CASE pc[t] # "locked"
    <3>1. obj' = [obj EXCEPT ![w].flag = FALSE]
      BY <1>3, <2>2 DEF set_is_locked
    <3> QED
      BY <1>2, <2>2, <3>1, ZenonT(40) DEF TypeOK, Wrapper
  <2> QED
    BY <2>1, <2>2
<1>9. \A v \in Wrappers : Live(v)' <=> Live(v)
  BY <1>8 DEF Live
<1>10. TypeOK'
  BY <1>1, <1>2, <1>3, <1>6, <1>8, ZenonT(40) DEF TypeOK, Locations
<1>11. CallOK(t)'
  BY <1>1, <1>3, <1>5, <1>6, <1>8, <1>9 DEF CallOK, Locking, Cleaning, Carrying
<1>12. KindOK(t)'
  <2>1. pc[t] # "create"
    BY <1>1
  <2> QED
    BY <1>2, <1>7, <1>8, <1>9, <2>1, HasWrappers DEF KindOK
<1>13. ASSUME NEW m \in Mutexes
       PROVE  LockOK(t, m)'
  <2>1. ~Late(t, m)' /\ pc'[t] # "lock"
    BY <1>1, <1>6 DEF Late
  <2>2. CASE m = n
    <3>1. Late(t, m)
      BY <1>1, <1>3, <1>4, <2>2 DEF Late
    <3>2. CASE pc[t] = "locked"
      <4>1. Flagged(t, m) = {} /\ holder[m] = t
        BY <1>2, <3>1, <3>2 DEF LockOK
      <4>2. Flagged(t, m)' = {w}
        BY <1>2, <1>3, <1>4, <1>7, <1>8, <1>9, <2>2, <3>2, <4>1, HasWrappers DEF Flagged
      <4> QED
        BY <1>1, <2>1, <4>1, <4>2 DEF LockOK, One
    <3>3. CASE pc[t] # "locked"
      <4>1. Flagged(t, m) = {w} /\ holder[m] # t
        BY <1>2, <1>3, <3>1, <3>3 DEF LockOK
      <4>2. Flagged(t, m)' = {}
        BY <1>2, <1>3, <1>7, <1>8, <1>9, <3>3, <4>1, HasWrappers DEF Flagged
      <4> QED
        BY <1>1, <2>1, <4>1, <4>2 DEF LockOK, One
    <3> QED
      BY <3>2, <3>3
  <2>3. CASE m # n
    <3>1. ~Late(t, m)
      BY <1>3, <1>4, <2>3 DEF Late
    <3>2. Flagged(t, m)' = Flagged(t, m)
      BY <1>2, <1>4, <1>7, <1>8, <1>9, <2>3, HasWrappers DEF Flagged
    <3> QED
      BY <1>1, <1>2, <2>1, <3>1, <3>2 DEF LockOK, One
  <2> QED
    BY <2>2, <2>3
<1>14. (\A r \in Raws : RawOK(r)') /\ \A u \in Threads \ Mains : JoinOK(u)'
  BY <1>1, <1>3, <1>8, <1>9, RawsKept, JoinsKept DEF IInv
<1>15. \A u \in Threads \ {t} : pc'[u] = pc[u] /\ cur'[u] = cur[u]
  BY <1>1, <1>2 DEF TypeOK
<1>16. ThreadOK(t)'
  BY <1>11, <1>12, <1>13 DEF ThreadOK
<1> QED
  BY <1>1, <1>3, <1>7, <1>8, <1>9, <1>10, <1>14, <1>15, <1>16, StepOf DEF IInv

(* A flagged mutex wrapper in the hands of t: t holds the mutex, and has   *)
(* it on record once.                                                      *)
LEMMA FlaggedHeld ==
  ASSUME IInv, NEW t \in Threads, NEW w \in Has(t), Live(w), obj[w].kind = "mutex",
         obj[w].flag, pc[t] \in {"idle", "cleanup"}
  PROVE  /\ obj[w].raw \in Mutexes /\ holder[obj[w].raw] = t
         /\ Flagged(t, obj[w].raw) = {w}
<1>1. KindOK(t) /\ \A m \in Mutexes : LockOK(t, m)
  BY DEF IInv, ThreadOK
<1>2. PICK n \in Mutexes : n = obj[w].raw
  BY <1>1 DEF KindOK
<1>3. w \in Flagged(t, n)
  BY <1>2 DEF Flagged
<1>4. ~Late(t, n)
  BY DEF Late
<1>5. LockOK(t, n)
  BY <1>1
<1> QED
  BY <1>2, <1>3, <1>4, <1>5 DEF LockOK, One

(* Unlocked: by hand, or by the cleanup.  The flag is still to be cleared. *)
LEMMA UnlockedPreserves ==
  ASSUME IInv, NEW t \in Threads, NEW w \in Has(t), NEW l, NEW n,
         Live(w), obj[w].kind = "mutex", obj[w].flag, n = obj[w].raw,
         thr[t] \in {"running", "detached"},
         \/ pc[t] = "idle" /\ l = "unlocked" /\ w \in Range(scope[t])
         \/ pc[t] = "cleanup" /\ l = "cleanup_unlocked" /\ w = cur[t],
         holder' = [holder EXCEPT ![n] = NULL],
         pc' = [pc EXCEPT ![t] = l], cur' = [cur EXCEPT ![t] = w],
         UNCHANGED <<obj, scope, open, thr, raw, status>>
  PROVE  IInv'
<1>1. TypeOK /\ CallOK(t) /\ KindOK(t) /\ \A m \in Mutexes : LockOK(t, m)
  BY DEF IInv, ThreadOK
<1>2. n \in Mutexes /\ holder[n] = t /\ Flagged(t, n) = {w}
  BY FlaggedHeld
<1>3. /\ w \in Wrappers /\ w # NULL /\ t # NULL /\ raw[t] = NULL
      /\ pc[t] = "idle" => cur[t] = NULL
  BY <1>1, HasWrappers, HandlesAssumption DEF CallOK, Carrying, Locking, Cleaning
<1>4. /\ pc'[t] = l /\ cur'[t] = w /\ holder'[n] = NULL
      /\ \A m \in Mutexes \ {n} : holder'[m] = holder[m]
  BY <1>1, <1>2 DEF TypeOK
<1>5. Has(t)' = Has(t)
  BY <1>3, <1>4
<1>6. TypeOK'
  BY <1>1, <1>2, <1>3 DEF TypeOK, Locations
<1>7. CallOK(t)'
  BY <1>1, <1>3, <1>4 DEF CallOK, Locking, Cleaning, Carrying, Live
<1>8. KindOK(t)'
  BY <1>1, <1>5 DEF KindOK, Live
<1>9. ASSUME NEW m \in Mutexes
      PROVE  LockOK(t, m)'
  <2>1. Flagged(t, m)' = Flagged(t, m) /\ LockOK(t, m)
    BY <1>1, <1>5 DEF Flagged, Live
  <2>2. CASE m = n
    <3>1. Late(t, m)'
      BY <1>4, <2>2 DEF Late
    <3> QED
      BY <1>2, <1>3, <1>4, <2>1, <2>2, <3>1 DEF LockOK
  <2>3. CASE m # n
    <3>1. ~Late(t, m)' /\ ~Late(t, m)
      BY <1>4, <2>3 DEF Late
    <3> QED
      BY <1>4, <2>1, <2>3, <3>1 DEF LockOK, One
  <2> QED
    BY <2>2, <2>3
<1>10. (\A r \in Raws : RawOK(r)') /\ \A u \in Threads \ Mains : JoinOK(u)'
  BY RawsKept, JoinsKept DEF Live, IInv
<1>11. \A u \in Threads \ {t} : /\ pc'[u] = pc[u] /\ cur'[u] = cur[u]
                                /\ \A m \in Mutexes : holder'[m] = u <=> holder[m] = u
  BY <1>1, <1>2, <1>4, HandlesAssumption DEF TypeOK
<1>12. ThreadOK(t)'
  BY <1>7, <1>8, <1>9 DEF ThreadOK
<1> QED
  BY <1>5, <1>6, <1>10, <1>11, <1>12, StepOf DEF IInv, Live

(* safe_mutex_unlock with is_locked set unlocks a mutex the thread holds.  *)
LEMMA UnlockPreserves ==
  ASSUME IInv, "private" \in Careful, NEW t \in Threads, NEW w \in Wrappers,
         safe_mutex_unlock(t, w)
  PROVE  IInv' /\ UNCHANGED status
<1>1. /\ pc[t] = "idle" /\ thr[t] \in {"running", "detached"}
      /\ Live(w) /\ obj[w].kind = "mutex" /\ w \in Range(scope[t]) /\ obj[w].flag
      /\ pthread_mutex_unlock(t, obj[w].raw)
      /\ cur' = [cur EXCEPT ![t] = w] /\ pc' = [pc EXCEPT ![t] = "unlocked"]
      /\ UNCHANGED <<obj, scope, open, thr, raw>>
  BY DEF safe_mutex_unlock, Lockable, At, Goto
<1>2. w \in Has(t)
  BY <1>1 DEF Live
<1>3. holder[obj[w].raw] = t
  BY <1>1, <1>2, FlaggedHeld
<1>4. holder' = [holder EXCEPT ![obj[w].raw] = NULL] /\ UNCHANGED status
  BY <1>1, <1>3 DEF pthread_mutex_unlock
<1> QED
  BY <1>1, <1>2, <1>4, UnlockedPreserves

(* The innermost scope ends: its handle goes to the cleanup function.      *)
LEMMA ScopeEndPreserves ==
  ASSUME IInv, NEW t \in Threads, scope_end(t)
  PROVE  IInv'
<1>1. /\ pc[t] = "idle" /\ thr[t] \in {"running", "detached"} /\ scope[t] # <<>>
      /\ scope' = [scope EXCEPT ![t] = Front(scope[t])]
      /\ cur' = [cur EXCEPT ![t] = Last(scope[t])]
      /\ pc' = [pc EXCEPT ![t] = IF Last(scope[t]) = NULL THEN "idle" ELSE "cleanup"]
      /\ UNCHANGED <<obj, open, thr, holder, raw, status>>
  BY DEF scope_end, At, Goto
<1>2. TypeOK /\ CallOK(t) /\ KindOK(t) /\ \A m \in Mutexes : LockOK(t, m)
  BY DEF IInv, ThreadOK
<1>3. cur[t] = NULL /\ raw[t] = NULL
  BY <1>1, <1>2 DEF CallOK, Locking, Cleaning, Carrying
<1>4. PICK x \in Wrappers \cup {NULL}, s \in Seq(Wrappers \cup {NULL}) :
        /\ x = Last(scope[t]) /\ s = Front(scope[t])
        /\ Len(s) = Len(scope[t]) - 1 /\ Range(scope[t]) = Range(s) \cup {x}
  <2>1. scope[t] \in Seq(Wrappers \cup {NULL})
    BY <1>2 DEF TypeOK
  <2> QED
    BY <1>1, <2>1, FrontFacts, SMTT(30)
<1>5. /\ scope'[t] = s /\ cur'[t] = x
      /\ pc'[t] = IF x = NULL THEN "idle" ELSE "cleanup"
      /\ \A u \in Threads \ {t} : /\ scope'[u] = scope[u] /\ cur'[u] = cur[u]
                                  /\ pc'[u] = pc[u]
  BY <1>1, <1>2, <1>4 DEF TypeOK
<1>6. Has(t)' = Has(t)
  BY <1>3, <1>4, <1>5
<1>7. TypeOK'
  <2>1. scope' \in [Threads -> Seq(Wrappers \cup {NULL})]
    BY <1>1, <1>2, <1>4 DEF TypeOK
  <2>2. \A u \in Threads : Len(scope[u]) \in Nat /\ Len(scope[u]) <= MaxScopes
    BY <1>2 DEF TypeOK
  <2>3. \A u \in Threads : Len(scope'[u]) <= MaxScopes
    BY <1>4, <1>5, <2>2, HandlesAssumption
  <2> QED
    BY <1>1, <1>2, <1>4, <2>1, <2>3 DEF TypeOK, Locations
<1>8. CallOK(t)'
  BY <1>1, <1>3, <1>5 DEF CallOK, Locking, Cleaning, Carrying
<1>9. KindOK(t)'
  BY <1>1, <1>2, <1>6 DEF KindOK, Live
<1>10. \A m \in Mutexes : LockOK(t, m)'
  BY <1>1, <1>2, <1>5, <1>6, LocksKept DEF Live, Locking
<1>11. (\A r \in Raws : RawOK(r)') /\ \A u \in Threads \ Mains : JoinOK(u)'
  BY <1>1, RawsKept, JoinsKept DEF Live, IInv
<1>12. ThreadOK(t)'
  BY <1>8, <1>9, <1>10 DEF ThreadOK
<1> QED
  BY <1>1, <1>5, <1>6, <1>7, <1>11, <1>12, StepOf DEF IInv, Live

(* A handle is closed by hand, and set to NULL or not.                     *)
LEMMA ClosePreserves ==
  ASSUME IInv, "unlocked" \in Careful, NEW t \in Threads, NEW i \in DOMAIN scope[t], close_early(t, i)
  PROVE  IInv'
<1>1. PICK w : w = scope[t][i]
  OBVIOUS
<1>2. /\ pc[t] = "idle" /\ thr[t] \in {"running", "detached"} /\ Live(w)
      /\ obj[w].kind = "mutex" => ~obj[w].flag
      /\ scope' = IF "once" \in Careful THEN [scope EXCEPT ![t][i] = NULL] ELSE scope
      /\ cur' = [cur EXCEPT ![t] = w]
      /\ pc' = [pc EXCEPT ![t] = IF obj[w].kind = "mutex" THEN "free" ELSE "cleanup"]
      /\ UNCHANGED <<obj, open, thr, holder, raw, status>>
  BY <1>1 DEF close_early, At, Goto
<1>3. TypeOK /\ CallOK(t) /\ KindOK(t) /\ \A m \in Mutexes : LockOK(t, m)
  BY DEF IInv, ThreadOK
<1>4. cur[t] = NULL /\ raw[t] = NULL /\ w # NULL
  BY <1>2, <1>3 DEF CallOK, Locking, Cleaning, Carrying, Live
<1>5. /\ scope[t] \in Seq(Wrappers \cup {NULL})
      /\ \A u \in Threads : Len(scope[u]) \in Nat /\ Len(scope[u]) <= MaxScopes
  BY <1>3 DEF TypeOK
<1>6. PICK s \in Seq(Wrappers \cup {NULL}) :
        /\ scope' = [scope EXCEPT ![t] = s] /\ Len(s) = Len(scope[t])
        /\ Range(s) \subseteq Range(scope[t]) \cup {NULL}
        /\ Range(scope[t]) \subseteq Range(s) \cup {w}
        /\ w \in Range(scope[t])
  <2>1. w \in Range(scope[t])
    BY <1>1 DEF Range
  <2>2. CASE "once" \in Careful
    <3>1. scope' = [scope EXCEPT ![t] = [scope[t] EXCEPT ![i] = NULL]]
      BY <1>2, <2>2
    <3>2. PICK s : s = [scope[t] EXCEPT ![i] = NULL]
      OBVIOUS
    <3>3. /\ s \in Seq(Wrappers \cup {NULL}) /\ Len(s) = Len(scope[t])
          /\ Range(s) \subseteq Range(scope[t]) \cup {NULL}
          /\ Range(scope[t]) \subseteq Range(s) \cup {scope[t][i]}
      <4>1. NULL \in Wrappers \cup {NULL}
        OBVIOUS
      <4> QED
        BY <1>5, <3>2, <4>1, ClearFacts
    <3> QED
      BY <1>1, <2>1, <3>1, <3>2, <3>3
  <2>3. CASE "once" \notin Careful
    <3>1. scope' = [scope EXCEPT ![t] = scope[t]]
      BY <1>2, <1>3, <2>3 DEF TypeOK
    <3> QED
      BY <1>5, <2>1, <3>1
  <2> QED
    BY <2>2, <2>3
<1>7. w \in Wrappers
  BY <1>3, <1>4, <1>6, HasWrappers
<1>8. /\ scope'[t] = s /\ cur'[t] = w
      /\ pc'[t] = IF obj[w].kind = "mutex" THEN "free" ELSE "cleanup"
      /\ \A u \in Threads \ {t} : /\ scope'[u] = scope[u] /\ cur'[u] = cur[u]
                                  /\ pc'[u] = pc[u]
  BY <1>2, <1>3, <1>6 DEF TypeOK
<1>9. Has(t)' = Has(t)
  BY <1>4, <1>6, <1>8
<1>10. TypeOK'
  <2>1. scope' \in [Threads -> Seq(Wrappers \cup {NULL})]
    BY <1>3, <1>6 DEF TypeOK
  <2>2. \A u \in Threads : Len(scope'[u]) <= MaxScopes
    BY <1>5, <1>6, <1>8
  <2> QED
    BY <1>2, <1>3, <1>7, <2>1, <2>2 DEF TypeOK, Locations
<1>11. CallOK(t)'
  BY <1>2, <1>4, <1>8 DEF CallOK, Locking, Cleaning, Carrying, Live
<1>12. KindOK(t)'
  BY <1>2, <1>3, <1>9 DEF KindOK, Live
<1>13. \A m \in Mutexes : LockOK(t, m)'
  <2>1. {pc[t], pc'[t]} \cap (Locking \cup {"cleanup_unlocked"}) = {}
    BY <1>2, <1>8 DEF Locking
  <2>2. obj' = obj /\ holder' = holder
    BY <1>2
  <2> QED
    BY <1>3, <1>9, <2>1, <2>2, LocksKept DEF Live
<1>14. (\A r \in Raws : RawOK(r)') /\ \A u \in Threads \ Mains : JoinOK(u)'
  BY <1>2, RawsKept, JoinsKept DEF Live, IInv
<1>15. ThreadOK(t)'
  BY <1>11, <1>12, <1>13 DEF ThreadOK
<1> QED
  BY <1>2, <1>8, <1>9, <1>10, <1>14, <1>15, StepOf DEF IInv, Live

(* The cleanup closes a stream or a descriptor, unless it is closed.       *)
LEMMA CloseRawPreserves ==
  ASSUME IInv, NEW t \in Threads, NEW w \in Wrappers, w = cur[t], At(t, "cleanup"),
         Live(w), close_raw(t, w), UNCHANGED <<scope, cur, raw>>
  PROVE  IInv'
<1>1. /\ pc[t] = "cleanup" /\ thr[t] \in {"running", "detached"}
      /\ obj[w].kind \in {"file", "socket"}
      /\ open' = IF obj[w].flag THEN open ELSE open \ {obj[w].raw}
      /\ obj' = [obj EXCEPT ![w].flag = TRUE]
      /\ pc' = [pc EXCEPT ![t] = "free"]
      /\ UNCHANGED <<scope, thr, holder, cur, raw, status>>
  BY DEF close_raw, At, Goto
<1>2. TypeOK /\ CallOK(t) /\ KindOK(t) /\ \A m \in Mutexes : LockOK(t, m)
  BY DEF IInv, ThreadOK
<1>3. w # NULL /\ w \in Has(t) /\ raw[t] = NULL
  BY <1>1, <1>2 DEF Live, CallOK, Carrying
<1>4. PICK r \in Raws : r = obj[w].raw
  BY <1>1, <1>2, <1>3 DEF KindOK
<1>5. /\ obj'[w] \in Wrapper /\ obj'[w].life = obj[w].life /\ obj'[w].kind = obj[w].kind
      /\ obj'[w].raw = obj[w].raw /\ obj'[w].flag
      /\ \A v \in Wrappers \ {w} : obj'[v] = obj[v]
  BY <1>1, <1>2, ZenonT(40) DEF TypeOK, Wrapper
<1>6. \A v \in Wrappers : Live(v)' <=> Live(v)
  BY <1>5 DEF Live
<1>7. pc'[t] = "free" /\ \A u \in Threads \ {t} : pc'[u] = pc[u]
  BY <1>1, <1>2 DEF TypeOK
<1>8. TypeOK'
  BY <1>1, <1>2, <1>5 DEF TypeOK, Locations
<1>9. CallOK(t)'
  BY <1>1, <1>3, <1>5, <1>6, <1>7 DEF CallOK, Locking, Cleaning, Carrying
<1>10. KindOK(t)'
  BY <1>1, <1>2, <1>5, <1>6, <1>7, HasWrappers DEF KindOK
<1>11. \A m \in Mutexes : LockOK(t, m)'
  <2>1. {pc[t], pc'[t]} \cap (Locking \cup {"cleanup_unlocked"}) = {}
    BY <1>1, <1>7 DEF Locking
  <2> QED
    BY <1>1, <1>2, <1>5, <1>6, <2>1, HasWrappers, LocksKept
<1>12. ASSUME NEW x \in Raws
       PROVE  RawOK(x)'
  <2>1. RawOK(x) /\ Carriers(x)' = Carriers(x)
    BY <1>1 DEF IInv, Carriers
  <2>2. CASE obj[w].flag \/ x # r
    <3>1. Owners(x)' = Owners(x)
      BY <1>4, <1>5, <1>6, <2>2 DEF Owners
    <3>2. x \in open' <=> x \in open
      BY <1>1, <1>4, <2>2
    <3> QED
      BY <2>1, <3>1, <3>2 DEF RawOK, One
  <2>3. CASE ~obj[w].flag /\ x = r
    <3>1. w \in Owners(x)
      BY <1>1, <1>4, <2>3 DEF Owners
    <3>2. Carriers(x) = {} /\ Owners(x) = {w}
      BY <2>1, <3>1 DEF RawOK, One
    <3>3. Owners(x)' = {}
      BY <1>5, <1>6, <3>2 DEF Owners
    <3>4. x \notin open'
      BY <1>1, <1>4, <2>3
    <3> QED
      BY <2>1, <3>2, <3>3, <3>4 DEF RawOK, One
  <2> QED
    BY <2>2, <2>3
<1>13. \A u \in Threads \ Mains : JoinOK(u)'
  BY <1>1, <1>5, <1>6, JoinsKept DEF IInv
<1>14. ThreadOK(t)'
  BY <1>9, <1>10, <1>11 DEF ThreadOK
<1> QED
  BY <1>1, <1>3, <1>5, <1>6, <1>7, <1>8, <1>12, <1>13, <1>14, StepOf DEF IInv

(* The cleanup joins or detaches the thread it waits for, once.            *)
LEMMA JoinPreserves ==
  ASSUME IInv, NEW t \in Threads, NEW w \in Wrappers, w = cur[t], At(t, "cleanup"),
         Live(w), join_or_detach(t, w), UNCHANGED <<scope, cur, raw>>
  PROVE  IInv'
<1>1. /\ pc[t] = "cleanup" /\ thr[t] \in {"running", "detached"}
      /\ obj[w].kind = "thread"
      /\ obj' = [obj EXCEPT ![w].flag = FALSE]
      /\ pc' = [pc EXCEPT ![t] = "free"]
      /\ UNCHANGED <<scope, open, holder, cur, raw, status>>
  BY DEF join_or_detach, At, Goto
<1>2. TypeOK /\ CallOK(t) /\ KindOK(t) /\ \A m \in Mutexes : LockOK(t, m)
  BY DEF IInv, ThreadOK
<1>3. w # NULL /\ w \in Has(t) /\ raw[t] = NULL
  BY <1>1, <1>2 DEF Live, CallOK, Carrying
<1>4. PICK u \in Threads \ Mains : u = obj[w].raw
  BY <1>1, <1>2, <1>3 DEF KindOK
<1>5. /\ obj'[w] \in Wrapper /\ obj'[w].life = obj[w].life /\ obj'[w].kind = obj[w].kind
      /\ obj'[w].raw = obj[w].raw /\ ~obj'[w].flag
      /\ \A v \in Wrappers \ {w} : obj'[v] = obj[v]
  <2>1. obj[w] \in Wrapper /\ obj \in [Wrappers -> Wrapper]
    BY <1>2 DEF TypeOK
  <2>2. obj'[w] = [obj[w] EXCEPT !.flag = FALSE]
        /\ \A v \in Wrappers \ {w} : obj'[v] = obj[v]
    BY <1>1, <2>1
  <2> QED
    BY <2>1, <2>2 DEF Wrapper
<1>6. \A v \in Wrappers : Live(v)' <=> Live(v)
  BY <1>5 DEF Live
<1>7. pc'[t] = "free" /\ \A x \in Threads \ {t} : pc'[x] = pc[x]
  BY <1>1, <1>2 DEF TypeOK
<1>8. obj[w].flag => thr[u] \in {"running", "ended"} /\ Joiners(u) = {w}
  <2>1. obj[w].flag => w \in Joiners(u)
    BY <1>1, <1>4 DEF Joiners
  <2> QED
    BY <1>4, <2>1 DEF IInv, JoinOK, One
<1>9. /\ thr' \in [Threads -> {"none", "running", "ended", "detached"}]
      /\ \A x \in Threads \ {u} : thr'[x] = thr[x]
      /\ IF obj[w].flag
           THEN /\ thr'[u] \notin {"running", "ended"}
                /\ thr'[u] = "none" => thr[u] = "ended"
           ELSE thr' = thr
  <2>1. CASE ~obj[w].flag
    BY <1>2, <2>1 DEF join_or_detach, TypeOK
  <2>2. CASE obj[w].flag /\ obj[w].policy = "JOIN"
    <3>1. thr' = [thr EXCEPT ![u] = "none"] /\ thr[u] = "ended"
      BY <1>4, <2>2 DEF join_or_detach
    <3> QED
      BY <1>2, <1>4, <2>2, <3>1 DEF TypeOK
  <2>3. CASE obj[w].flag /\ obj[w].policy # "JOIN"
    <3>1. thr' = [thr EXCEPT ![u] = IF thr[u] = "ended" THEN "none" ELSE "detached"]
      BY <1>4, <2>3 DEF join_or_detach
    <3>2. thr'[u] = IF thr[u] = "ended" THEN "none" ELSE "detached"
      BY <1>2, <1>4, <3>1 DEF TypeOK
    <3> QED
      BY <1>2, <1>4, <2>3, <3>1, <3>2 DEF TypeOK
  <2> QED
    BY <2>1, <2>2, <2>3
<1>10. TypeOK'
  BY <1>1, <1>2, <1>5, <1>9 DEF TypeOK, Locations
<1>11. thr'[t] \in {"running", "detached"}
  BY <1>1, <1>4, <1>8, <1>9 DEF TypeOK
<1>12. CallOK(t)'
  BY <1>1, <1>3, <1>5, <1>6, <1>7, <1>11 DEF CallOK, Locking, Cleaning, Carrying
<1>13. KindOK(t)'
  BY <1>1, <1>2, <1>5, <1>6, <1>7, HasWrappers DEF KindOK
<1>14. \A m \in Mutexes : LockOK(t, m)'
  <2>1. {pc[t], pc'[t]} \cap (Locking \cup {"cleanup_unlocked"}) = {}
    BY <1>1, <1>7 DEF Locking
  <2> QED
    BY <1>1, <1>2, <1>5, <1>6, <2>1, HasWrappers, LocksKept
<1>15. \A r \in Raws : RawOK(r)'
  BY <1>1, <1>5, <1>6, RawsKept DEF IInv
<1>16. ASSUME NEW x \in Threads \ Mains
       PROVE  JoinOK(x)'
  <2>1. JoinOK(x)
    BY DEF IInv
  <2>2. CASE obj[w].flag /\ x = u
    <3>1. Joiners(x)' = {}
      BY <1>5, <1>6, <1>8, <2>2 DEF Joiners
    <3> QED
      BY <1>9, <2>2, <3>1 DEF JoinOK, One
  <2>3. CASE ~obj[w].flag \/ x # u
    <3>1. Joiners(x)' = Joiners(x)
      BY <1>4, <1>5, <1>6, <2>3 DEF Joiners
    <3>2. thr'[x] = thr[x]
      BY <1>9, <2>3
    <3> QED
      BY <2>1, <3>1, <3>2 DEF JoinOK, One
  <2> QED
    BY <2>2, <2>3
<1>17. \A x \in Threads : thr'[x] \in {"none", "ended"} => thr[x] \in {"none", "ended"}
  BY <1>8, <1>9
<1>18. \A x \in Mains : thr'[x] = "running"
  BY <1>4, <1>9, HandlesAssumption DEF IInv
<1>19. ThreadOK(t)'
  BY <1>12, <1>13, <1>14 DEF ThreadOK
<1> QED
  BY <1>1, <1>3, <1>5, <1>6, <1>7, <1>10, <1>15, <1>16, <1>17, <1>18, <1>19, StepOf

(* The cleanup unlocks the mutex if its flag says so.                      *)
LEMMA UnlockRawPreserves ==
  ASSUME IInv, NEW t \in Threads, NEW w \in Wrappers, w = cur[t], At(t, "cleanup"),
         Live(w), unlock_raw(t, w), UNCHANGED <<scope, cur, raw>>
  PROVE  IInv' /\ UNCHANGED status
<1>1. /\ pc[t] = "cleanup" /\ thr[t] \in {"running", "detached"}
      /\ obj[w].kind = "mutex"
      /\ UNCHANGED <<obj, scope, open, thr, cur, raw>>
  BY DEF unlock_raw, At
<1>2. TypeOK /\ CallOK(t) /\ KindOK(t) /\ \A m \in Mutexes : LockOK(t, m)
  BY DEF IInv, ThreadOK
<1>3. w # NULL /\ w \in Has(t) /\ raw[t] = NULL
  BY <1>1, <1>2 DEF Live, CallOK, Carrying
<1>4. CASE obj[w].flag
  <2>1. holder[obj[w].raw] = t
    BY <1>1, <1>3, <1>4, FlaggedHeld
  <2>2. /\ holder' = [holder EXCEPT ![obj[w].raw] = NULL] /\ UNCHANGED status
        /\ pc' = [pc EXCEPT ![t] = "cleanup_unlocked"]
    BY <1>4, <2>1 DEF unlock_raw, pthread_mutex_unlock, Goto
  <2>3. cur' = [cur EXCEPT ![t] = w]
    BY <1>1, <1>2 DEF TypeOK
  <2> QED
    BY <1>1, <1>3, <1>4, <2>2, <2>3, UnlockedPreserves
<1>5. CASE ~obj[w].flag
  <2>1. pc' = [pc EXCEPT ![t] = "free"] /\ UNCHANGED <<holder, status>>
    BY <1>5 DEF unlock_raw, Goto
  <2>2. pc'[t] = "free" /\ \A u \in Threads \ {t} : pc'[u] = pc[u]
    BY <1>2, <2>1 DEF TypeOK
  <2>3. TypeOK'
    BY <1>1, <1>2, <2>1 DEF TypeOK, Locations
  <2>4. CallOK(t)'
    BY <1>1, <1>3, <1>5, <2>2 DEF CallOK, Locking, Cleaning, Carrying, Live
  <2>5. KindOK(t)'
    BY <1>1, <1>2, <2>2 DEF KindOK, Live
  <2>6. \A m \in Mutexes : LockOK(t, m)'
    <3>1. {pc[t], pc'[t]} \cap (Locking \cup {"cleanup_unlocked"}) = {}
      BY <1>1, <2>2 DEF Locking
    <3> QED
      BY <1>1, <1>2, <2>1, <3>1, LocksKept DEF Live
  <2>7. (\A r \in Raws : RawOK(r)') /\ \A u \in Threads \ Mains : JoinOK(u)'
    BY <1>1, RawsKept, JoinsKept DEF Live, IInv
  <2>8. ThreadOK(t)'
    BY <2>4, <2>5, <2>6 DEF ThreadOK
  <2> QED
    BY <1>1, <2>1, <2>2, <2>3, <2>7, <2>8, StepOf DEF IInv, Live
<1> QED
  BY <1>4, <1>5

(* A wrapper that was freed before: the program stops.                     *)
LEMMA CleanupPreserves ==
  ASSUME IInv, NEW t \in Threads, cleanup(t)
  PROVE  IInv' /\ (Live(cur[t]) => UNCHANGED status)
<1>1. pc[t] = "cleanup" /\ At(t, "cleanup") /\ UNCHANGED <<scope, cur, raw>>
  BY DEF cleanup, At
<1>2. TypeOK /\ CallOK(t)
  BY DEF IInv, ThreadOK
<1>3. PICK w \in Wrappers : w = cur[t]
  BY <1>1, <1>2 DEF CallOK, Cleaning, TypeOK
<1>4. CASE Live(w)
  <2>1. CASE close_raw(t, w)
    <3>1. IInv'
      BY <1>1, <1>3, <1>4, <2>1, CloseRawPreserves
    <3> QED
      BY <2>1, <3>1 DEF close_raw
  <2>2. CASE join_or_detach(t, w)
    <3>1. IInv'
      BY <1>1, <1>3, <1>4, <2>2, JoinPreserves
    <3> QED
      BY <2>2, <3>1 DEF join_or_detach
  <2>3. CASE unlock_raw(t, w)
    BY <1>1, <1>3, <1>4, <2>3, UnlockRawPreserves
  <2> QED
    BY <1>3, <1>4, <2>1, <2>2, <2>3 DEF cleanup
<1>5. CASE ~Live(w)
  <2>1. /\ UNCHANGED <<obj, open, thr, holder, pc, scope, cur, raw>>
        /\ status' \in {"running", "aborted", "undefined"}
    BY <1>1, <1>3, <1>5 DEF cleanup, cleanup_again
  <2>2. TypeOK'
    BY <1>2, <2>1 DEF TypeOK
  <2>3. (\A r \in Raws : RawOK(r)') /\ \A u \in Threads \ Mains : JoinOK(u)'
    BY <2>1, RawsKept, JoinsKept DEF Live, IInv
  <2>4. ThreadOK(t)'
    BY <2>1, Bystander DEF IInv
  <2>5. IInv'
    BY <2>1, <2>2, <2>3, <2>4, StepOf DEF IInv, Live
  <2> QED
    BY <1>3, <1>5, <2>5
<1> QED
  BY <1>4, <1>5

(* A wrapper whose cleanup is done is freed: nothing depends on it.        *)
LEMMA FreePreserves ==
  ASSUME IInv, NEW t \in Threads, owner_free(t)
  PROVE  IInv'
<1>1. /\ pc[t] = "free" /\ thr[t] \in {"running", "detached"}
      /\ obj' = [obj EXCEPT ![cur[t]] = Freed(obj[cur[t]])]
      /\ cur' = [cur EXCEPT ![t] = NULL] /\ pc' = [pc EXCEPT ![t] = "idle"]
      /\ UNCHANGED <<scope, open, thr, holder, raw, status>>
  BY DEF owner_free, At, Goto
<1>2. TypeOK /\ CallOK(t) /\ KindOK(t) /\ \A m \in Mutexes : LockOK(t, m)
  BY DEF IInv, ThreadOK
<1>3. PICK w \in Wrappers :
        /\ w = cur[t] /\ w # NULL /\ Live(w) /\ raw[t] = NULL
        /\ obj[w].flag <=> obj[w].kind \in {"file", "socket"}
  BY <1>1, <1>2 DEF CallOK, Cleaning, Carrying, TypeOK
<1>4. /\ obj' \in [Wrappers -> Wrapper] /\ obj'[w].life = "freed"
      /\ \A v \in Wrappers \ {w} : obj'[v] = obj[v]
  <2>1. obj[w] \in Wrapper /\ obj \in [Wrappers -> Wrapper]
    BY <1>2 DEF TypeOK
  <2>2. Freed(obj[w]) \in Wrapper /\ Freed(obj[w]).life = "freed"
    BY <2>1 DEF Freed, Wrapper
  <2> QED
    BY <1>1, <1>3, <2>1, <2>2
<1>5. ~Live(w)' /\ \A v \in Wrappers \ {w} : Live(v)' <=> Live(v)
  BY <1>4 DEF Live
<1>6. /\ pc'[t] = "idle" /\ cur'[t] = NULL
      /\ \A u \in Threads \ {t} : pc'[u] = pc[u] /\ cur'[u] = cur[u]
  BY <1>1, <1>2 DEF TypeOK
<1>7. Has(t)' \subseteq Has(t) /\ Has(t) \subseteq Has(t)' \cup {w}
  BY <1>1, <1>3, <1>6
<1>8. TypeOK'
  BY <1>1, <1>2, <1>4 DEF TypeOK, Locations
<1>9. CallOK(t)'
  BY <1>1, <1>3, <1>6 DEF CallOK, Locking, Cleaning, Carrying
<1>10. KindOK(t)'
  <2>1. \A v \in Has(t)' : obj'[v].life # "none" /\ (Live(v)' => v # w)
    BY <1>2, <1>4, <1>5, <1>7, HasWrappers DEF KindOK
  <2>2. \A v \in Has(t)' \ {w} : obj'[v] = obj[v] /\ (Live(v)' <=> Live(v))
    BY <1>2, <1>4, <1>5, <1>7, HasWrappers
  <2> QED
    BY <1>1, <1>2, <1>7, <2>1, <2>2 DEF KindOK
<1>11. \A m \in Mutexes : LockOK(t, m)'
  <2>1. {pc[t], pc'[t]} \cap (Locking \cup {"cleanup_unlocked"}) = {}
    BY <1>1, <1>6 DEF Locking
  <2> QED
    BY <1>1, <1>2, <1>3, <1>4, <1>5, <1>7, <2>1, HasWrappers, LocksKept
<1>12. (\A r \in Raws : RawOK(r)') /\ \A u \in Threads \ Mains : JoinOK(u)'
  BY <1>1, <1>3, <1>4, <1>5, RawsKept, JoinsKept DEF IInv
<1>13. ThreadOK(t)'
  BY <1>9, <1>10, <1>11 DEF ThreadOK
<1> QED
  BY <1>1, <1>3, <1>4, <1>5, <1>6, <1>7, <1>8, <1>12, <1>13, StepOf DEF IInv

(* The block of a freed wrapper that no thread has is used again.          *)
LEMMA RecyclePreserves ==
  ASSUME IInv, NEW w \in Wrappers, Recycle(w)
  PROVE  IInv'
<1>1. /\ obj[w].life = "freed" /\ \A t \in Threads : w \notin Has(t)
      /\ UNCHANGED <<scope, open, thr, holder, pc, cur, raw, status>>
  BY DEF Recycle
<1>2. obj' \in [Wrappers -> Wrapper] /\ obj'[w].life = "none"
      /\ \A v \in Wrappers \ {w} : obj'[v] = obj[v]
  BY DEF Recycle, Unused, IInv, TypeOK, Wrapper
<1>3. \A v \in Wrappers : Live(v)' <=> Live(v)
  BY <1>1, <1>2 DEF Live
<1>4. TypeOK'
  BY <1>1, <1>2 DEF IInv, TypeOK
<1>5. ASSUME NEW t \in Threads
      PROVE  ThreadOK(t)' /\ Has(t)' = Has(t)
  <2>1. \A v \in Has(t) : obj'[v] = obj[v]
    BY <1>1, <1>2, HasWrappers DEF IInv
  <2>2. ThreadOK(t)'
    BY <1>1, <2>1, Bystander DEF IInv
  <2> QED
    BY <1>1, <2>2
<1>6. HandsOK' /\ NoWrapperLeaks'
  BY <1>3, <1>5 DEF IInv, HandsOK, NoWrapperLeaks
<1>7. (\A r \in Raws : RawOK(r)') /\ \A u \in Threads \ Mains : JoinOK(u)'
  BY <1>1, <1>2, <1>3, RawsKept, JoinsKept DEF IInv, Live
<1> QED
  BY <1>1, <1>4, <1>5, <1>6, <1>7 DEF IInv

-----------------------------------------------------------------------------
(* The invariant holds to begin with, and every step preserves it.         *)

(* The invariant holds with nothing opened.                                *)
LEMMA InitOK ==
  ASSUME Init
  PROVE  IInv
<1>1. /\ \A w \in Wrappers : obj[w].life = "none" /\ ~Live(w)
      /\ \A t \in Threads : /\ scope[t] = <<>> /\ pc[t] = "idle" /\ cur[t] = NULL
                            /\ raw[t] = NULL
                            /\ thr[t] = IF t \in Mains THEN "running" ELSE "none"
      /\ \A m \in Mutexes : holder[m] = NULL
      /\ open = {} /\ status = "running"
  BY DEF Init, Unused, Live
<1>2. TypeOK
  <2>1. <<>> \in Seq(Wrappers \cup {NULL}) /\ Len(<<>>) = 0
    OBVIOUS
  <2>2. obj \in [Wrappers -> Wrapper]
    BY DEF Init, Unused, Wrapper
  <2>3. scope \in [Threads -> Seq(Wrappers \cup {NULL})]
        /\ \A t \in Threads : Len(scope[t]) <= MaxScopes
    BY <1>1, <2>1, HandlesAssumption DEF Init
  <2> QED
    BY <2>2, <2>3, HandlesAssumption DEF Init, TypeOK, Locations
<1>3. \A t \in Threads : Has(t) = {}
  BY <1>1 DEF Range
<1>4. ASSUME NEW t \in Threads
      PROVE  ThreadOK(t)
  <2>1. CallOK(t) /\ KindOK(t)
    BY <1>1, <1>3 DEF CallOK, KindOK, Locking, Cleaning, Carrying
  <2>2. \A m \in Mutexes : Flagged(t, m) = {} /\ ~Late(t, m) /\ holder[m] # t
    BY <1>1, <1>3, HandlesAssumption DEF Flagged, Late
  <2> QED
    BY <1>1, <2>1, <2>2 DEF ThreadOK, LockOK, One
<1>5. \A r \in Raws : Owners(r) = {} /\ Carriers(r) = {}
  BY <1>1, HandlesAssumption DEF Owners, Carriers
<1>6. \A u \in Threads : Joiners(u) = {}
  BY <1>1 DEF Joiners
<1> QED
  BY <1>1, <1>2, <1>3, <1>4, <1>5, <1>6, HandlesAssumption
     DEF IInv, HandsOK, NoWrapperLeaks, RawOK, JoinOK, One

(* Every call, every section of a call and every cleanup preserves the     *)
(* invariant.                                                              *)
LEMMA NextPreserves ==
  ASSUME IInv, {"private", "unlocked"} \subseteq Careful, [Next]_vars
  PROVE  IInv'
<1>1. CASE UNCHANGED vars
  <2>1. \A t \in Threads : ThreadOK(t)' /\ Has(t)' = Has(t)
    BY <1>1, Bystander DEF IInv, vars
  <2>2. (\A r \in Raws : RawOK(r)') /\ \A u \in Threads \ Mains : JoinOK(u)'
    BY <1>1, RawsKept, JoinsKept DEF Live, IInv, vars
  <2>3. TypeOK'
    BY <1>1 DEF IInv, TypeOK, vars
  <2>4. HandsOK' /\ NoWrapperLeaks'
    BY <1>1, <2>1 DEF IInv, HandsOK, NoWrapperLeaks, Live, vars
  <2> QED
    BY <1>1, <2>1, <2>2, <2>3, <2>4 DEF IInv, vars
<1>2. ASSUME NEW t \in Threads, Call(t)
      PROVE  IInv'
  BY <1>2, OpenPreserves, SpawnPreserves, MutexNewPreserves, LockPreserves DEF Call
<1>3. ASSUME NEW t \in Threads, Use(t)
      PROVE  IInv'
  BY <1>3, PolicyPreserves, UnlockPreserves, ClosePreserves DEF Use
<1>4. ASSUME NEW t \in Threads, Step(t)
      PROVE  IInv'
  <2>1. CASE wrap_fails(t) \/ client_close(t)
    BY <2>1, UnwrapPreserves
  <2>2. CASE pthread_mutex_lock(t) \/ set_is_locked(t) \/ cleanup(t) \/ owner_free(t)
    BY <2>2, LockedPreserves, FlagPreserves, CleanupPreserves, FreePreserves
  <2>3. CASE safe_socket_new_fails(t) \/ create_fails(t)
    BY <2>3, SocketFailsPreserves, CreateFailsPreserves
  <2>4. CASE \/ \E w \in Wrappers : wrap_ok(t, w)
             \/ \E u \in Threads : create_ok(t, u)
    BY <2>4, WrapPreserves, CreatePreserves
  <2> QED
    BY <1>4, <2>1, <2>2, <2>3, <2>4 DEF Step
<1>5. ASSUME NEW t \in Threads, scope_end(t) \/ thread_exit(t)
      PROVE  IInv'
  BY <1>5, ScopeEndPreserves, ExitPreserves
<1>6. ASSUME NEW w \in Wrappers, Recycle(w)
      PROVE  IInv'
  BY <1>6, RecyclePreserves
<1> QED
  BY <1>1, <1>2, <1>3, <1>4, <1>5, <1>6 DEF Next

-----------------------------------------------------------------------------
(* Clients that keep "once" too.                                           *)

(* Handle variables name each wrapper once, after each change of them.     *)
LEMMA DistinctKept ==
  ASSUME NEW S, NULL \in S, NEW s \in Seq(S), Distinct(s)
  PROVE  /\ \A x \in S \ Range(s) : Distinct(Append(s, x))
         /\ s # <<>> => /\ Distinct(Front(s))
                        /\ Last(s) = NULL \/ Last(s) \notin Range(Front(s))
         /\ \A i \in DOMAIN s : /\ Distinct([s EXCEPT ![i] = NULL])
                                /\ \/ s[i] = NULL
                                   \/ s[i] \notin Range([s EXCEPT ![i] = NULL])
<1>1. ASSUME NEW x \in S \ Range(s)
      PROVE  Distinct(Append(s, x))
  <2>1. \A i \in DOMAIN s : s[i] # x
    BY DEF Range
  <2>2. \A i \in DOMAIN Append(s, x) : \/ i \in DOMAIN s /\ Append(s, x)[i] = s[i]
                                       \/ i = Len(s) + 1 /\ Append(s, x)[i] = x
    BY AppendFacts
  <2> QED
    BY <2>1, <2>2 DEF Distinct
<1>2. ASSUME s # <<>>
      PROVE  Distinct(Front(s)) /\ (Last(s) = NULL \/ Last(s) \notin Range(Front(s)))
  <2>1. /\ Last(s) = s[Len(s)] /\ Len(s) \in DOMAIN s
        /\ \A i \in DOMAIN Front(s) : i \in DOMAIN s /\ i # Len(s) /\ Front(s)[i] = s[i]
    BY <1>2, FrontFacts
  <2>2. Distinct(Front(s))
    BY <2>1 DEF Distinct
  <2>3. Last(s) = NULL \/ \A i \in DOMAIN Front(s) : Front(s)[i] # Last(s)
    BY <2>1 DEF Distinct
  <2> QED
    BY <2>2, <2>3 DEF Range
<1>3. ASSUME NEW i \in DOMAIN s
      PROVE  /\ Distinct([s EXCEPT ![i] = NULL])
             /\ s[i] = NULL \/ s[i] \notin Range([s EXCEPT ![i] = NULL])
  <2>1. PICK r : r = [s EXCEPT ![i] = NULL]
    OBVIOUS
  <2>2. DOMAIN r = DOMAIN s /\ \A j \in DOMAIN s : r[j] = IF j = i THEN NULL ELSE s[j]
    BY <2>1, ClearFacts
  <2>3. Distinct(r)
    BY <2>2 DEF Distinct
  <2>4. s[i] = NULL \/ \A j \in DOMAIN r : r[j] # s[i]
    BY <2>2 DEF Distinct
  <2> QED
    BY <2>1, <2>3, <2>4 DEF Range
<1> QED
  BY <1>1, <1>2, <1>3

(* A step of the thread t, as in StepOf.                                   *)
LEMMA OnceStep ==
  ASSUME IInv, OnceInv, NEW t \in Threads, OnceOK(t)', UNCHANGED status,
         \A u \in Threads \ {t} :
           pc'[u] = pc[u] /\ cur'[u] = cur[u] /\ scope'[u] = scope[u],
         \A w \in Wrappers : obj'[w].life = obj[w].life \/ w \in Has(t) \/ ~Live(w)
  PROVE  OnceInv'
<1>1. ASSUME NEW u \in Threads \ {t}
      PROVE  OnceOK(u)'
  <2>1. Has(u)' = Has(u) /\ \A w \in Has(u) : w \in Wrappers /\ w \notin Has(t) /\ Live(w)
    BY HasWrappers DEF IInv, HandsOK, OnceInv, OnceOK
  <2>2. \A w \in Has(u)' : Live(w)'
    BY <2>1 DEF Live
  <2> QED
    BY <2>2 DEF OnceInv, OnceOK, Distinct
<1> QED
  BY <1>1 DEF OnceInv, NoFault

(* A step that leaves the variables and the wrapper of the call alone.     *)
LEMMA OnceStays ==
  ASSUME IInv, OnceInv, NEW t \in Threads, UNCHANGED <<scope, cur, status>>,
         \A u \in Threads \ {t} : pc'[u] = pc[u],
         pc[t] \in Locking => pc'[t] \in Locking,
         \A w \in Wrappers : obj'[w].life = obj[w].life
  PROVE  OnceInv'
<1>1. Has(t)' = Has(t) /\ \A w \in Has(t) : w \in Wrappers /\ Live(w)
  BY HasWrappers DEF IInv, OnceInv, OnceOK
<1>2. \A w \in Has(t)' : Live(w)'
  BY <1>1 DEF Live
<1>3. OnceOK(t)'
  BY <1>2 DEF OnceInv, OnceOK, Distinct
<1> QED
  BY <1>3, OnceStep

(* The calls that open a handle put a fresh wrapper in the scope.          *)
LEMMA CallOnce ==
  ASSUME IInv, OnceInv, {"once", "private", "unlocked"} \subseteq Careful, NEW t \in Threads, Call(t)
  PROVE  OnceInv'
<1>1. TypeOK /\ CallOK(t) /\ KindOK(t) /\ OnceOK(t)
  BY DEF IInv, ThreadOK, OnceInv
<1>2. scope[t] \in Seq(Wrappers \cup {NULL}) /\ NULL \in Wrappers \cup {NULL}
  BY <1>1 DEF TypeOK
<1>3. ASSUME NEW r \in Raws, NEW at \in {"wrap_file", "wrap_socket", "wrap_fd"},
             open_raw(t, r, at)
      PROVE  OnceInv'
  <2>1. /\ pc[t] = "idle" /\ pc' = [pc EXCEPT ![t] = at]
        /\ UNCHANGED <<obj, scope, cur, status>>
    BY <1>3 DEF open_raw, Opening, At, Goto
  <2>2. \A u \in Threads \ {t} : pc'[u] = pc[u]
    BY <1>1, <2>1 DEF TypeOK
  <2> QED
    BY <2>1, <2>2, OnceStays DEF Locking
<1>4. ASSUME NEW w \in Wrappers, safe_thread_spawn(t, w)
      PROVE  OnceInv'
  <2>1. /\ obj[w].life = "none" /\ obj' = [obj EXCEPT ![w] = New("thread", NULL, TRUE)]
        /\ cur' = [cur EXCEPT ![t] = w] /\ pc' = [pc EXCEPT ![t] = "create"]
        /\ UNCHANGED <<scope, status>>
    BY <1>4 DEF safe_thread_spawn, Goto
  <2>2. w \notin Has(t) /\ w # NULL /\ ~Live(w)
    BY <1>1, <2>1, HandlesAssumption DEF KindOK, Live
  <2>3. /\ obj'[w].life = "live" /\ \A v \in Wrappers \ {w} : obj'[v] = obj[v]
        /\ cur'[t] = w /\ \A u \in Threads \ {t} : pc'[u] = pc[u] /\ cur'[u] = cur[u]
    BY <1>1, <2>1 DEF TypeOK, New
  <2>4. \A v \in Has(t)' : Live(v)'
    <3>1. Has(t)' \subseteq Has(t) \cup {w}
      BY <2>1, <2>3
    <3>2. \A v \in Has(t) : v \in Wrappers \ {w} /\ Live(v)
      BY <1>1, <2>2, HasWrappers DEF OnceOK
    <3> QED
      BY <2>2, <2>3, <3>1, <3>2 DEF Live
  <2>5. OnceOK(t)'
    BY <1>1, <2>1, <2>2, <2>3, <2>4 DEF OnceOK, Distinct
  <2> QED
    BY <2>1, <2>2, <2>3, <2>5, OnceStep
<1>5. ASSUME NEW w \in Wrappers, NEW m \in Mutexes, safe_mutex_new(t, w, m)
      PROVE  OnceInv'
  <2>1. /\ pc[t] = "idle" /\ Len(scope[t]) < MaxScopes
        /\ obj[w].life = "none" /\ obj' = [obj EXCEPT ![w] = New("mutex", m, FALSE)]
        /\ scope' = [scope EXCEPT ![t] = Append(scope[t], w)]
        /\ UNCHANGED <<pc, cur, status>>
    BY <1>5 DEF safe_mutex_new, Declare, Opening, At
  <2>2. w \notin Has(t) /\ w # NULL /\ ~Live(w) /\ cur[t] = NULL
    BY <1>1, <2>1, HandlesAssumption DEF KindOK, Live, CallOK, Locking, Cleaning
  <2>3. obj'[w].life = "live" /\ \A v \in Wrappers \ {w} : obj'[v] = obj[v]
    BY <1>1, <2>1 DEF TypeOK, New
  <2>4. /\ scope'[t] = Append(scope[t], w) /\ Range(scope'[t]) = Range(scope[t]) \cup {w}
        /\ \A u \in Threads \ {t} : scope'[u] = scope[u]
    BY <1>1, <2>1, Declared DEF TypeOK
  <2>5. Distinct(scope'[t])
    BY <1>1, <1>2, <2>2, <2>4, DistinctKept DEF OnceOK
  <2>6. \A v \in Has(t)' : Live(v)'
    <3>1. Has(t)' \subseteq Has(t) \cup {w}
      BY <2>1, <2>4
    <3>2. \A v \in Has(t) : v \in Wrappers \ {w} /\ Live(v)
      BY <1>1, <2>2, HasWrappers DEF OnceOK
    <3> QED
      BY <2>2, <2>3, <3>1, <3>2 DEF Live
  <2>7. OnceOK(t)'
    BY <2>1, <2>2, <2>5, <2>6 DEF OnceOK, Distinct
  <2> QED
    BY <2>1, <2>2, <2>3, <2>4, <2>7, OnceStep
<1>6. ASSUME NEW w \in Wrappers, safe_mutex_lock(t, w)
      PROVE  OnceInv'
  <2>1. /\ w \in Range(scope[t]) /\ Live(w)
        /\ cur' = [cur EXCEPT ![t] = w] /\ pc' = [pc EXCEPT ![t] = "lock"]
        /\ UNCHANGED <<obj, scope, status>>
    BY <1>6 DEF safe_mutex_lock, Lockable, Goto
  <2>2. /\ cur'[t] = w /\ pc'[t] = "lock"
        /\ \A u \in Threads \ {t} : pc'[u] = pc[u] /\ cur'[u] = cur[u]
    BY <1>1, <2>1 DEF TypeOK
  <2>3. OnceOK(t)'
    BY <1>1, <2>1, <2>2 DEF OnceOK, Distinct, Live, Locking
  <2> QED
    BY <2>1, <2>2, <2>3, OnceStep
<1> QED
  BY <1>3, <1>4, <1>5, <1>6 DEF Call

(* Early closes leave NULL in the scope, the other uses leave it as it is. *)
LEMMA UseOnce ==
  ASSUME IInv, OnceInv, {"once", "private", "unlocked"} \subseteq Careful, NEW t \in Threads, Use(t)
  PROVE  OnceInv'
<1>1. TypeOK /\ CallOK(t) /\ KindOK(t) /\ OnceOK(t)
  BY DEF IInv, ThreadOK, OnceInv
<1>2. scope[t] \in Seq(Wrappers \cup {NULL}) /\ NULL \in Wrappers \cup {NULL}
  BY <1>1 DEF TypeOK
<1>3. ASSUME NEW w \in Wrappers, NEW p \in {"JOIN", "DETACH"},
             safe_thread_set_policy(t, w, p)
      PROVE  OnceInv'
  <2>1. UNCHANGED <<pc, scope, cur, status>> /\ obj' = [obj EXCEPT ![w].policy = p]
    BY <1>3 DEF safe_thread_set_policy
  <2>2. \A v \in Wrappers : obj'[v].life = obj[v].life
    BY <1>1, <2>1 DEF TypeOK, Wrapper
  <2> QED
    BY <2>1, <2>2, OnceStays
<1>4. ASSUME NEW w \in Wrappers, safe_mutex_unlock(t, w)
      PROVE  OnceInv'
  <2>1. /\ w \in Range(scope[t]) /\ Live(w)
        /\ cur' = [cur EXCEPT ![t] = w] /\ pc' = [pc EXCEPT ![t] = "unlocked"]
        /\ UNCHANGED <<obj, scope>>
    BY <1>4 DEF safe_mutex_unlock, Lockable, Goto
  <2>2. UNCHANGED status
    BY <1>4, UnlockPreserves
  <2>3. /\ cur'[t] = w /\ pc'[t] = "unlocked"
        /\ \A u \in Threads \ {t} : pc'[u] = pc[u] /\ cur'[u] = cur[u]
    BY <1>1, <2>1 DEF TypeOK
  <2>4. OnceOK(t)'
    BY <1>1, <2>1, <2>3 DEF OnceOK, Distinct, Live, Locking
  <2> QED
    BY <2>1, <2>2, <2>3, <2>4, OnceStep
<1>5. ASSUME NEW i \in DOMAIN scope[t], close_early(t, i)
      PROVE  OnceInv'
  <2>1. PICK w, s : w = scope[t][i] /\ s = [scope[t] EXCEPT ![i] = NULL]
    OBVIOUS
  <2>2. /\ pc[t] = "idle" /\ Live(w) /\ scope' = [scope EXCEPT ![t][i] = NULL]
        /\ cur' = [cur EXCEPT ![t] = w] /\ UNCHANGED <<obj, status>>
        /\ \E l : pc' = [pc EXCEPT ![t] = l]
    BY <1>5, <2>1 DEF close_early, At, Goto
  <2>3. /\ scope'[t] = s /\ cur'[t] = w
        /\ \A u \in Threads \ {t} : /\ scope'[u] = scope[u] /\ cur'[u] = cur[u]
                                    /\ pc'[u] = pc[u]
    BY <1>1, <2>1, <2>2 DEF TypeOK
  <2>4. Distinct(s) /\ (w = NULL \/ w \notin Range(s))
    BY <1>1, <1>2, <2>1, DistinctKept DEF OnceOK
  <2>5. Range(s) \subseteq Range(scope[t]) \cup {NULL} /\ w \in Range(scope[t])
    BY <1>2, <2>1, ClearFacts
  <2>6. \A v \in Has(t)' : Live(v)'
    BY <1>1, <2>2, <2>3, <2>5 DEF OnceOK, Live
  <2>7. OnceOK(t)'
    BY <2>3, <2>4, <2>6 DEF OnceOK, Distinct
  <2> QED
    BY <2>2, <2>3, <2>7, OnceStep
<1> QED
  BY <1>3, <1>4, <1>5 DEF Use

(* The sections of a call free only the wrapper that the thread has taken  *)
(* out of its scope.                                                       *)
LEMMA StepOnce ==
  ASSUME IInv, OnceInv, NEW t \in Threads, Step(t)
  PROVE  OnceInv'
<1>1. TypeOK /\ CallOK(t) /\ KindOK(t) /\ OnceOK(t)
  BY DEF IInv, ThreadOK, OnceInv
<1>2. scope[t] \in Seq(Wrappers \cup {NULL}) /\ NULL \in Wrappers \cup {NULL}
  BY <1>1 DEF TypeOK
<1>3. ASSUME NEW w \in Wrappers, wrap_ok(t, w)
      PROVE  OnceInv'
  <2>1. PICK k \in {"file", "socket"} :
          /\ pc[t] \in {"wrap_file", "wrap_socket", "wrap_fd"}
          /\ obj[w].life = "none" /\ obj' = [obj EXCEPT ![w] = New(k, raw[t], FALSE)]
          /\ scope' = [scope EXCEPT ![t] = Append(scope[t], w)]
          /\ pc' = [pc EXCEPT ![t] = "idle"] /\ UNCHANGED <<cur, status>>
    BY <1>3 DEF wrap_ok, Declare, At, Goto
  <2>2. /\ w \notin Has(t) /\ w # NULL /\ ~Live(w) /\ cur[t] = NULL
        /\ Len(scope[t]) < MaxScopes
    BY <1>1, <2>1, HandlesAssumption DEF KindOK, Live, CallOK, Locking, Cleaning, Carrying
  <2>3. /\ obj'[w].life = "live" /\ \A v \in Wrappers \ {w} : obj'[v] = obj[v]
        /\ \A u \in Threads \ {t} : pc'[u] = pc[u]
    BY <1>1, <2>1 DEF TypeOK, New
  <2>4. /\ scope'[t] = Append(scope[t], w) /\ Range(scope'[t]) = Range(scope[t]) \cup {w}
        /\ \A u \in Threads \ {t} : scope'[u] = scope[u]
    BY <1>1, <2>1, <2>2, Declared DEF TypeOK
  <2>5. Distinct(scope'[t])
    BY <1>1, <1>2, <2>2, <2>4, DistinctKept DEF OnceOK
  <2>6. \A v \in Has(t)' : Live(v)'
    <3>1. Has(t)' \subseteq Has(t) \cup {w}
      BY <2>1, <2>4
    <3>2. \A v \in Has(t) : v \in Wrappers \ {w} /\ Live(v)
      BY <1>1, <2>2, HasWrappers DEF OnceOK
    <3> QED
      BY <2>2, <2>3, <3>1, <3>2 DEF Live
  <2>7. OnceOK(t)'
    BY <2>1, <2>2, <2>5, <2>6 DEF OnceOK, Distinct
  <2> QED
    BY <2>1, <2>2, <2>3, <2>4, <2>7, OnceStep
<1>4. CASE wrap_fails(t) \/ safe_socket_new_fails(t) \/ client_close(t)
  <2>1. /\ pc[t] \in Carrying /\ \E l : pc' = [pc EXCEPT ![t] = l]
        /\ UNCHANGED <<obj, scope, cur, status>>
    BY <1>4 DEF wrap_fails, safe_socket_new_fails, client_close, At, Goto, Carrying
  <2>2. \A u \in Threads \ {t} : pc'[u] = pc[u]
    BY <1>1, <2>1 DEF TypeOK
  <2> QED
    BY <2>1, <2>2, OnceStays DEF Locking, Carrying
<1>5. ASSUME NEW u \in Threads, create_ok(t, u)
      PROVE  OnceInv'
  <2>1. /\ pc[t] = "create" /\ obj' = [obj EXCEPT ![cur[t]].raw = u]
        /\ scope' = [scope EXCEPT ![t] = Append(scope[t], cur[t])]
        /\ cur' = [cur EXCEPT ![t] = NULL] /\ pc' = [pc EXCEPT ![t] = "idle"]
        /\ UNCHANGED status
    BY <1>5 DEF create_ok, Declare, At, Goto
  <2>2. PICK w \in Wrappers : w = cur[t] /\ Live(w) /\ w \notin Range(scope[t])
                              /\ Len(scope[t]) < MaxScopes
    BY <1>1, <2>1 DEF CallOK, OnceOK, TypeOK, Locking
  <2>3. \A v \in Wrappers : obj'[v].life = obj[v].life
    BY <1>1, <2>1, <2>2 DEF TypeOK, Wrapper
  <2>4. /\ scope'[t] = Append(scope[t], w) /\ Range(scope'[t]) = Range(scope[t]) \cup {w}
        /\ \A x \in Threads \ {t} : scope'[x] = scope[x]
    BY <1>1, <2>1, <2>2, Declared DEF TypeOK
  <2>5. cur'[t] = NULL /\ \A x \in Threads \ {t} : pc'[x] = pc[x] /\ cur'[x] = cur[x]
    BY <1>1, <2>1 DEF TypeOK
  <2>6. Distinct(scope'[t])
    BY <1>1, <1>2, <2>2, <2>4, DistinctKept DEF OnceOK
  <2>7. \A v \in Has(t)' : Live(v)'
    <3>1. Has(t)' \subseteq Has(t)
      BY <2>2, <2>4, <2>5 DEF Live
    <3>2. \A v \in Has(t) : v \in Wrappers /\ Live(v)
      BY <1>1, HasWrappers DEF OnceOK
    <3> QED
      BY <2>3, <3>1, <3>2 DEF Live
  <2>8. OnceOK(t)'
    BY <2>5, <2>6, <2>7 DEF OnceOK, Distinct
  <2> QED
    BY <2>1, <2>3, <2>4, <2>5, <2>8, OnceStep
<1>6. CASE create_fails(t) \/ owner_free(t)
  <2>1. /\ pc[t] \in {"create", "free"} /\ obj' = [obj EXCEPT ![cur[t]] = Freed(obj[cur[t]])]
        /\ cur' = [cur EXCEPT ![t] = NULL] /\ pc' = [pc EXCEPT ![t] = "idle"]
        /\ UNCHANGED <<scope, status>>
    BY <1>6 DEF create_fails, owner_free, At, Goto
  <2>2. PICK w \in Wrappers : w = cur[t] /\ w # NULL /\ w \notin Range(scope[t])
    BY <1>1, <2>1, HandlesAssumption DEF CallOK, OnceOK, TypeOK, Locking, Cleaning
  <2>3. /\ \A v \in Wrappers \ {w} : obj'[v] = obj[v] /\ (Live(v)' <=> Live(v))
        /\ cur'[t] = NULL /\ \A x \in Threads \ {t} : pc'[x] = pc[x] /\ cur'[x] = cur[x]
    BY <1>1, <2>1, <2>2 DEF TypeOK, Live
  <2>4. Has(t)' = Has(t) \ {w} /\ w \in Has(t)
    BY <2>1, <2>2, <2>3
  <2>5. OnceOK(t)'
    BY <1>1, <2>1, <2>3, <2>4, HasWrappers DEF OnceOK, Distinct
  <2> QED
    BY <2>1, <2>3, <2>4, <2>5, OnceStep
<1>7. CASE pthread_mutex_lock(t)
  <2>1. /\ pc' = [pc EXCEPT ![t] = "locked"] /\ UNCHANGED <<obj, scope, cur, status>>
    BY <1>7 DEF pthread_mutex_lock, Goto
  <2>2. pc'[t] = "locked" /\ \A u \in Threads \ {t} : pc'[u] = pc[u]
    BY <1>1, <2>1 DEF TypeOK
  <2> QED
    BY <2>1, <2>2, OnceStays DEF Locking
<1>8. CASE set_is_locked(t)
  <2>1. /\ \/ pc[t] \in {"locked", "unlocked"} /\ pc' = [pc EXCEPT ![t] = "idle"]
           \/ pc[t] = "cleanup_unlocked" /\ pc' = [pc EXCEPT ![t] = "free"]
        /\ obj' = [obj EXCEPT ![cur[t]].flag = (pc[t] = "locked")]
        /\ cur' = [cur EXCEPT ![t] = IF pc'[t] = "idle" THEN NULL ELSE cur[t]]
        /\ UNCHANGED <<scope, status>>
    BY <1>8 DEF set_is_locked, At, Goto
  <2>2. PICK w \in Wrappers : w = cur[t]
    BY <1>1, <2>1 DEF CallOK, TypeOK, Locking, Cleaning
  <2>3. \A v \in Wrappers : obj'[v].life = obj[v].life
    <3>1. obj \in [Wrappers -> Wrapper] /\ obj'[w] = [obj[w] EXCEPT !.flag = (pc[t] = "locked")]
          /\ \A v \in Wrappers \ {w} : obj'[v] = obj[v]
      BY <1>1, <2>1, <2>2 DEF TypeOK
    <3>2. obj'[w].life = obj[w].life
      BY <3>1 DEF Wrapper
    <3> QED
      BY <3>1, <3>2
  <2>4. /\ cur'[t] = IF pc[t] = "cleanup_unlocked" THEN w ELSE NULL
        /\ \A u \in Threads \ {t} : pc'[u] = pc[u] /\ cur'[u] = cur[u]
    BY <1>1, <2>1, <2>2 DEF TypeOK
  <2>5. \A v \in Has(t)' : Live(v)'
    <3>1. Has(t)' \subseteq Has(t)
      BY <2>1, <2>2, <2>4
    <3>2. \A v \in Has(t) : v \in Wrappers /\ Live(v)
      BY <1>1, HasWrappers DEF OnceOK
    <3> QED
      BY <2>3, <3>1, <3>2 DEF Live
  <2>6. OnceOK(t)'
    BY <1>1, <2>1, <2>2, <2>4, <2>5 DEF OnceOK, Distinct, Locking
  <2> QED
    BY <2>1, <2>3, <2>4, <2>6, OnceStep
<1>9. CASE cleanup(t)
  <2>1. PICK w \in Wrappers : w = cur[t] /\ pc[t] = "cleanup" /\ w \in Has(t)
    BY <1>1, <1>9 DEF cleanup, At, CallOK, TypeOK, Cleaning
  <2>2. Live(w) /\ UNCHANGED status
    BY <1>1, <1>9, <2>1, CleanupPreserves DEF OnceOK
  <2>3. UNCHANGED <<scope, cur>> /\ \E l : pc' = [pc EXCEPT ![t] = l]
    BY <1>9, <2>1, <2>2 DEF cleanup, close_raw, join_or_detach, unlock_raw, Goto
  <2>4. \/ obj' = obj
        \/ obj' = [obj EXCEPT ![w].flag = TRUE] \/ obj' = [obj EXCEPT ![w].flag = FALSE]
    BY <1>9, <2>1, <2>2 DEF cleanup, close_raw, join_or_detach, unlock_raw
  <2>5. \A v \in Wrappers : obj'[v].life = obj[v].life
    <3>1. obj \in [Wrappers -> Wrapper]
      BY <1>1 DEF TypeOK
    <3>2. CASE obj' = [obj EXCEPT ![w].flag = TRUE]
      BY <3>1, <3>2 DEF Wrapper
    <3>3. CASE obj' = [obj EXCEPT ![w].flag = FALSE]
      BY <3>1, <3>3 DEF Wrapper
    <3> QED
      BY <2>4, <3>2, <3>3
  <2>6. \A u \in Threads \ {t} : pc'[u] = pc[u]
    BY <1>1, <2>3 DEF TypeOK
  <2> QED
    BY <2>1, <2>2, <2>3, <2>5, <2>6, OnceStays DEF Locking
<1> QED
  BY <1>3, <1>4, <1>5, <1>6, <1>7, <1>8, <1>9 DEF Step

(* For careful clients no scope ever holds a freed wrapper or one wrapper  *)
(* twice.                                                                  *)
LEMMA NextOnce ==
  ASSUME IInv, OnceInv, {"once", "private", "unlocked"} \subseteq Careful, [Next]_vars
  PROVE  OnceInv'
<1>1. CASE UNCHANGED vars
  BY <1>1 DEF OnceInv, OnceOK, NoFault, Distinct, Live, vars
<1>2. ASSUME NEW t \in Threads, scope_end(t)
      PROVE  OnceInv'
  <2>1. TypeOK /\ CallOK(t) /\ OnceOK(t) /\ scope[t] \in Seq(Wrappers \cup {NULL})
    BY DEF IInv, ThreadOK, OnceInv, TypeOK
  <2>2. PICK x, s : x = Last(scope[t]) /\ s = Front(scope[t])
    OBVIOUS
  <2>3. /\ pc[t] = "idle" /\ scope[t] # <<>>
        /\ scope' = [scope EXCEPT ![t] = s] /\ cur' = [cur EXCEPT ![t] = x]
        /\ \E l : pc' = [pc EXCEPT ![t] = l]
        /\ UNCHANGED <<obj, status>>
    BY <1>2, <2>2 DEF scope_end, At, Goto
  <2>4. Distinct(s) /\ (x = NULL \/ x \notin Range(s)) /\ Range(scope[t]) = Range(s) \cup {x}
    <3>1. NULL \in Wrappers \cup {NULL}
      OBVIOUS
    <3> QED
      BY <2>1, <2>2, <2>3, <3>1, DistinctKept, FrontFacts DEF OnceOK
  <2>5. /\ scope'[t] = s /\ cur'[t] = x
        /\ \A u \in Threads \ {t} : /\ scope'[u] = scope[u] /\ cur'[u] = cur[u]
                                    /\ pc'[u] = pc[u]
    BY <2>1, <2>3 DEF TypeOK
  <2>6. Has(t)' \subseteq Has(t)
    BY <2>4, <2>5
  <2>7. OnceOK(t)'
    BY <2>1, <2>3, <2>4, <2>5, <2>6 DEF OnceOK, Distinct, Live
  <2> QED
    BY <2>3, <2>5, <2>7, OnceStep
<1>3. ASSUME NEW t \in Threads, thread_exit(t)
      PROVE  OnceInv'
  BY <1>3, OnceStays DEF thread_exit
<1>4. ASSUME NEW w \in Wrappers, Recycle(w)
      PROVE  OnceInv'
  <2>1. /\ \A t \in Threads : w \notin Has(t)
        /\ \A v \in Wrappers \ {w} : obj'[v] = obj[v]
        /\ UNCHANGED <<scope, pc, cur, status>>
    BY <1>4 DEF Recycle, IInv, TypeOK
  <2>2. ASSUME NEW t \in Threads
        PROVE  OnceOK(t)'
    <3>1. Has(t)' = Has(t) /\ \A v \in Has(t) : v \in Wrappers \ {w} /\ Live(v)
      BY <2>1, HasWrappers DEF IInv, OnceInv, OnceOK
    <3>2. \A v \in Has(t)' : Live(v)'
      BY <2>1, <3>1 DEF Live
    <3> QED
      BY <2>1, <3>2 DEF OnceInv, OnceOK, Distinct
  <2> QED
    BY <2>1, <2>2 DEF OnceInv, NoFault
<1> QED
  BY <1>1, <1>2, <1>3, <1>4, CallOnce, UseOnce, StepOnce DEF Next

-----------------------------------------------------------------------------
(* The theorems.                                                           *)

(* A set with one member or none.                                          *)
LEMMA OneCardinality ==
  ASSUME NEW S, One(S)
  PROVE  Cardinality(S) = IF S = {} THEN 0 ELSE 1
<1>1. CASE S = {}
  BY <1>1, FS_EmptySet
<1>2. CASE S # {}
  <2>1. PICK x : S = {x}
    BY <1>2 DEF One
  <2> QED
    BY <2>1, FS_Singleton
<1> QED
  BY <1>1, <1>2

(* The inductive invariant, for clients that use each mutex wrapper from    *)
(* one thread and free none while it is locked: where a thread is tells     *)
(* what it has in hand, each wrapper is in the hands of one thread, and     *)
(* what is open, running or locked is on record in one wrapper.  They may   *)
(* close a handle early and again.                                          *)
THEOREM HandlesInvariant ==
  ASSUME {"private", "unlocked"} \subseteq Careful
  PROVE  Spec => []IInv
<1>1. Init => IInv
  BY InitOK
<1>2. IInv /\ [Next]_vars => IInv'
  BY NextPreserves
<1> QED
  BY <1>1, <1>2, PTL DEF Spec

(* Streams, descriptors and threads have one wrapper each to close or to   *)
(* join them, whichever call fails on the way: nothing opened by           *)
(* safe_fopen, safe_socket_create or safe_thread_spawn is lost or released *)
(* twice.                                                                  *)
THEOREM HandlesAreOwned ==
  ASSUME {"private", "unlocked"} \subseteq Careful
  PROVE  Spec => []HandlesOwned
<1>1. IInv => HandlesOwned
  <2> SUFFICES ASSUME IInv PROVE HandlesOwned
    OBVIOUS
  <2>1. ASSUME NEW r \in Raws
        PROVE  Cardinality(Owners(r)) + Cardinality(Carriers(r))
                 = IF r \in open THEN 1 ELSE 0
    <3>1. RawOK(r)
      BY DEF IInv
    <3>2. /\ Cardinality(Owners(r)) = IF Owners(r) = {} THEN 0 ELSE 1
          /\ Cardinality(Carriers(r)) = IF Carriers(r) = {} THEN 0 ELSE 1
      BY <3>1, OneCardinality DEF RawOK
    <3> QED
      BY <3>1, <3>2 DEF RawOK
  <2>2. ASSUME NEW u \in Threads \ Mains
        PROVE  Cardinality(Joiners(u)) = IF thr[u] \in {"running", "ended"} THEN 1 ELSE 0
    <3>1. JoinOK(u)
      BY DEF IInv
    <3>2. Cardinality(Joiners(u)) = IF Joiners(u) = {} THEN 0 ELSE 1
      BY <3>1, OneCardinality DEF JoinOK
    <3> QED
      BY <3>1, <3>2 DEF JoinOK
  <2> QED
    BY <2>1, <2>2 DEF IInv, HandlesOwned, RawsOwned, ThreadsOwned
<1> QED
  BY <1>1, HandlesInvariant, PTL

(* No cleanup leaves a mutex locked, and none unlocks another thread's:    *)
(* is_locked says who holds the mutex, but for the steps of the call that  *)
(* changes it.                                                             *)
THEOREM LocksAreOnRecord ==
  ASSUME {"private", "unlocked"} \subseteq Careful
  PROVE  Spec => []LocksOnRecord
<1>1. IInv => LocksOnRecord
  <2> SUFFICES ASSUME IInv, NEW t \in Threads, NEW m \in Mutexes
               PROVE  IF Late(t, m)
                        THEN Flagged(t, m) = IF pc[t] = "locked" THEN {} ELSE {cur[t]}
                        ELSE Cardinality(Flagged(t, m)) = IF holder[m] = t THEN 1 ELSE 0
    BY DEF LocksOnRecord
  <2>1. LockOK(t, m)
    BY DEF IInv, ThreadOK
  <2>2. CASE Late(t, m)
    BY <2>1, <2>2 DEF LockOK
  <2>3. CASE ~Late(t, m)
    <3>1. Cardinality(Flagged(t, m)) = IF Flagged(t, m) = {} THEN 0 ELSE 1
      BY <2>1, <2>3, OneCardinality DEF LockOK
    <3> QED
      BY <2>1, <2>3, <3>1 DEF LockOK
  <2> QED
    BY <2>2, <2>3
<1> QED
  BY <1>1, HandlesInvariant, PTL

(* Each live wrapper is in a scope to come or in the hands of a call, also *)
(* after a failed allocation or pthread_create.                            *)
THEOREM NoWrapperIsLost ==
  ASSUME {"private", "unlocked"} \subseteq Careful
  PROVE  Spec => []NoWrapperLeaks
<1>1. IInv => NoWrapperLeaks
  BY DEF IInv
<1> QED
  BY <1>1, HandlesInvariant, PTL

(* Clients that also set a handle they close early to NULL are never       *)
(* stopped: no double free, and no unlock of a mutex not held.             *)
THEOREM HandlesNoFault ==
  ASSUME {"once", "private", "unlocked"} \subseteq Careful
  PROVE  Spec => []NoFault
<1>1. {"private", "unlocked"} \subseteq Careful
  OBVIOUS
<1>2. Spec => []IInv
  BY <1>1, HandlesInvariant
<1>3. Init => OnceInv
  <2> SUFFICES ASSUME Init PROVE OnceInv
    OBVIOUS
  <2>1. \A t \in Threads : scope[t] = <<>> /\ cur[t] = NULL
    BY DEF Init
  <2>2. \A t \in Threads : Has(t) = {}
    BY <2>1 DEF Range
  <2> QED
    BY <2>1, <2>2 DEF Init, OnceInv, OnceOK, NoFault, Distinct
<1>4. IInv /\ OnceInv /\ [Next]_vars => OnceInv'
  BY NextOnce
<1>5. OnceInv => NoFault
  BY DEF OnceInv
<1> QED
  BY <1>2, <1>3, <1>4, <1>5, PTL DEF Spec

=============================================================================
