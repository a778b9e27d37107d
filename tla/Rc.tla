--------------------------------- MODULE Rc ---------------------------------
(***************************************************************************)
(* The reference counts of src/src/ownedc_rc.c and their collector of      *)
(* cycles.  A client keeps references in its variables (ext) and in the    *)
(* data of other objects (edge); it registers the latter as children, as   *)
(* long as the table of the parent has room.  The payload of an object is  *)
(* freed with it and is left out.                                          *)
(*                                                                         *)
(* Nothing takes a child out of a table, so a client keeps a registered    *)
(* reference as long as the parent lives.  The code does not drop what a   *)
(* freed object refers to.  Whoever drops an object by hand takes those    *)
(* references first; those of an object the collector frees are lost.      *)
(***************************************************************************)
EXTENDS Naturals, SequencesExt

CONSTANTS Objects,
          MaxChildren,   \* MAX_RC_CHILDREN, 4 in the code
          MaxCount       \* bound: references to one object

ASSUME RcAssumption ==
  /\ IsFiniteSet(Objects)
  /\ MaxChildren \in Nat /\ MaxCount \in Nat \ {0}

VARIABLES
  live,         \* the objects allocated
  ref_count,    \* ref_count[o]
  children,     \* children[o]: the table, as a sequence
  gc_list,      \* the list at gc_head
  ext,          \* ext[o]: references to o in variables of the client
  edge,         \* edge[p][c]: references to c in the data of p
  lost,         \* lost[o]: references to o in the data of collected objects
  touched       \* has the collector used memory that was freed?

rcVars == <<live, ref_count, children, gc_list, ext, edge, lost, touched>>

\* How many entries of the table of p are c.
Entries(p, c) == Cardinality({i \in DOMAIN children[p] : children[p][i] = c})

\* The references to o in the data of the objects of a set, those in one object
\* numbered from 1 on; and how many they are.
Stored(P, o) == {r \in P \X (1 .. MaxCount) : r[2] <= edge[r[1]][o]}

EdgesFrom(P, o) == Cardinality(Stored(P, o))

RcTypeOK ==
  /\ live \subseteq Objects
  /\ ref_count \in [Objects -> 0 .. MaxCount]
  /\ children \in [Objects -> Seq(Objects)]
  /\ \A o \in Objects : Len(children[o]) <= MaxChildren
  /\ gc_list \in Seq(Objects)
  /\ ext \in [Objects -> Nat]
  /\ edge \in [Objects -> [Objects -> 0 .. MaxCount]]
  /\ lost \in [Objects -> Nat]
  /\ touched \in BOOLEAN

RcInit ==
  /\ live = {}
  /\ ref_count = [o \in Objects |-> 0]
  /\ children = [o \in Objects |-> <<>>]
  /\ gc_list = <<>>
  /\ ext = [o \in Objects |-> 0]
  /\ edge = [p \in Objects |-> [c \in Objects |-> 0]]
  /\ lost = [o \in Objects |-> 0]
  /\ touched = FALSE

-----------------------------------------------------------------------------
register_in_gc(o) == gc_list' = <<o>> \o gc_list

\* The list q without the objects of O.
unlinked(q, O) ==
  LET rest[i \in 0 .. Len(q)] ==
        IF i = 0 THEN <<>>
        ELSE IF q[i] \in O THEN rest[i - 1] ELSE Append(rest[i - 1], q[i])
  IN  rest[Len(q)]

unregister_from_gc(O) == gc_list' = unlinked(gc_list, O)

owned_rc_new(o) ==
  /\ o \notin live
  /\ live' = live \cup {o}
  /\ ref_count' = [ref_count EXCEPT ![o] = 1]
  /\ children' = [children EXCEPT ![o] = <<>>]
  /\ register_in_gc(o)
  /\ ext' = [ext EXCEPT ![o] = 1]
  /\ edge' = [edge EXCEPT ![o] = [c \in Objects |-> 0]]
  /\ lost' = [lost EXCEPT ![o] = 0]
  /\ UNCHANGED touched

owned_rc_clone(o) ==
  /\ ext[o] > 0
  /\ ref_count[o] < MaxCount
  /\ ref_count' = [ref_count EXCEPT ![o] = @ + 1]
  /\ ext' = [ext EXCEPT ![o] = @ + 1]
  /\ UNCHANGED <<live, children, gc_list, edge, lost, touched>>

\* A full table forgets the child.
owned_rc_register_child(p, c) ==
  children' = [children EXCEPT ![p] = IF Len(@) < MaxChildren THEN Append(@, c) ELSE @]

\* The client moves a reference from a variable into the data of p.
link(p, c) ==
  /\ ext[p] > 0 /\ ext[c] > 0
  /\ ext' = [ext EXCEPT ![c] = @ - 1]
  /\ edge' = [edge EXCEPT ![p][c] = @ + 1]
  /\ owned_rc_register_child(p, c)
  /\ UNCHANGED <<live, ref_count, gc_list, lost, touched>>

\* It takes one that is not registered back out.
unlink(p, c) ==
  /\ ext[p] > 0
  /\ edge[p][c] > Entries(p, c)
  /\ edge' = [edge EXCEPT ![p][c] = @ - 1]
  /\ ext' = [ext EXCEPT ![c] = @ + 1]
  /\ UNCHANGED <<live, ref_count, children, gc_list, lost, touched>>

\* Mutant: an object is freed with one reference left.
owned_rc_drop_early(o) ==
  /\ ext[o] > 0
  /\ ref_count' = [ref_count EXCEPT ![o] = @ - 1]
  /\ IF ref_count'[o] <= 1
       THEN /\ live' = live \ {o}
            /\ unregister_from_gc({o})
            /\ ext' = [c \in Objects |-> ext[c] - (IF c = o THEN 1 ELSE 0) + edge[o][c]]
            /\ edge' = [edge EXCEPT ![o] = [c \in Objects |-> 0]]
       ELSE /\ ext' = [ext EXCEPT ![o] = @ - 1]
            /\ UNCHANGED <<live, gc_list, edge>>
  /\ UNCHANGED <<children, lost, touched>>

\* At zero the object is freed; the client takes what the object referred to.
owned_rc_drop(o) ==
  /\ ext[o] > 0
  /\ ref_count' = [ref_count EXCEPT ![o] = @ - 1]
  /\ IF ref_count'[o] = 0
       THEN /\ live' = live \ {o}
            /\ unregister_from_gc({o})
            /\ ext' = [c \in Objects |-> ext[c] - (IF c = o THEN 1 ELSE 0) + edge[o][c]]
            /\ edge' = [edge EXCEPT ![o] = [c \in Objects |-> 0]]
       ELSE /\ ext' = [ext EXCEPT ![o] = @ - 1]
            /\ UNCHANGED <<live, gc_list, edge>>
  /\ UNCHANGED <<children, lost, touched>>

-----------------------------------------------------------------------------
(* The collector.                                                          *)

\* The least set with S in it that is closed under the function succ.
Closure(S, succ) ==
  {o \in Objects : \A T \in SUBSET Objects :
     S \subseteq T /\ (\A p \in T : succ[p] \subseteq T) => o \in T}

\* Mutant: the entries of a table count once.
gc_ref_once(o) ==
  LET parents == {p \in Range(gc_list) : o \in Range(children[p])}
  IN  IF ref_count[o] > Cardinality(parents)
        THEN ref_count[o] - Cardinality(parents) ELSE 0

\* The entries of the tables of a set of objects that are o.
EntriesOf(P, o) == {e \in P \X (1 .. MaxChildren) :
                      e[2] \in DOMAIN children[e[1]] /\ children[e[1]][e[2]] = o}

\* What is left of a count when every entry of a table has taken one away.
gc_ref(o) ==
  LET entries == Cardinality(EntriesOf(Range(gc_list), o))
  IN  IF ref_count[o] > entries THEN ref_count[o] - entries ELSE 0

\* Mutant: the children of a root are not marked.
mark_alive_shallow(roots) == roots

mark_alive(roots) == Closure(roots, [p \in Objects |-> Range(children[p])])

\* Each object that is not marked is freed, whatever its count, and what it refers
\* to is not dropped.  A table with an object that was freed makes the collector
\* write to that object's memory.
owned_rc_collect_cycles ==
  LET marked  == mark_alive({o \in Range(gc_list) : gc_ref(o) > 0})
      garbage == Range(gc_list) \ marked
  IN  /\ gc_list # <<>>
      /\ touched' = (touched \/ \E p \in Range(gc_list) : ~(Range(children[p]) \subseteq live))
      /\ live' = live \ garbage
      /\ ref_count' = [o \in Objects |-> IF o \in garbage THEN 0 ELSE ref_count[o]]
      /\ unregister_from_gc(garbage)
      /\ lost' = [o \in Objects |-> lost[o] + EdgesFrom(garbage, o)]
      /\ edge' = [p \in Objects |-> IF p \in garbage THEN [c \in Objects |-> 0] ELSE edge[p]]
      /\ UNCHANGED <<children, ext>>

RcNext ==
  \/ \E o \in Objects : owned_rc_new(o) \/ owned_rc_clone(o) \/ owned_rc_drop(o)
  \/ \E p, c \in Objects : link(p, c) \/ unlink(p, c)
  \/ owned_rc_collect_cycles

RcSpec == RcInit /\ [][RcNext]_rcVars

-----------------------------------------------------------------------------
(* Properties.                                                             *)

\* The count of an object is the number of references there are to it: in
\* variables, in the data of live objects, and in that of collected ones, whose
\* references the collector does not drop.  And the collector's list has every
\* live object, once, and no other: a freed object left on it would be walked
\* through.
CountsAgree ==
  /\ RcTypeOK
  /\ \A o \in live : ref_count[o] = ext[o] + EdgesFrom(live, o) + lost[o]
  /\ Range(gc_list) = live /\ Len(gc_list) = Cardinality(live)

\* No object the client has a reference to, or one stored in live data, is freed,
\* and the collector never follows a table to an object that was.
NoDangling ==
  /\ \A o \in Objects \ live : ext[o] = 0 /\ EdgesFrom(live, o) = 0
  /\ ~touched

\* The collector frees an object exactly when no variable leads to it, following
\* stored references; except that it keeps what collected objects referred to,
\* and what a full table left unregistered.
CollectExact ==
  [][owned_rc_collect_cycles =>
       LET succ == [p \in Objects |-> {c \in Objects : edge[p][c] > 0}]
           kept == {o \in live : ext[o] > 0 \/ lost[o] > 0
                                 \/ \E p \in live : edge[p][o] > Entries(p, o)}
       IN  live' = Closure(kept, succ)]_rcVars

=============================================================================
