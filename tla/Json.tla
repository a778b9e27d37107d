-------------------------------- MODULE Json --------------------------------
(***************************************************************************)
(* The JSON parser of src/src/owned_json.c: a recursive descent that       *)
(* builds a tree of blocks and, where the text is wrong or an allocation   *)
(* fails, frees what it has built.  One step is what a function does       *)
(* between two looks at the text.  The text is chosen token by token as it *)
(* is read: S stands for a string, N for null, true, false and the         *)
(* numbers, Q for a string without an end, X for anything else.  White     *)
(* space is left out: the code skips it in front of every token.           *)
(***************************************************************************)
EXTENDS Naturals, SequencesExt

CONSTANTS Tokens,        \* the tokens texts are made of
          MaxTokens,     \* bound: the length of a text
          FirstCap,      \* the first capacity of a vector, 4 in the code
          RegrowFails    \* may owner_realloc fail for the vectors of an object
                         \* that has some already?

ASSUME JsonAssumption ==
  /\ Tokens \subseteq {"[", "]", "{", "}", ",", ":", "S", "N", "Q", "X"}
  /\ MaxTokens \in Nat /\ FirstCap \in Nat \ {0}
  /\ RegrowFails \in BOOLEAN

NULL == 0        \* blocks are numbered from 1 on

VARIABLES
  heap,        \* the blocks that are allocated
  fresh,       \* the number of the next block
  node,        \* node[i]: the node in block i
  stack,       \* the calls of parse_array and parse_object under way
  pc, ret,     \* what is done next; what the last call returned
  look, read,  \* the token that was looked at and not read; the tokens read
  oom,         \* has an allocation failed?
  status       \* running, or undefined: freed memory was used

jsonVars == <<heap, fresh, node, stack, pc, ret, look, read, oom, status>>

\* A node: its string, or its vectors, their capacity and what is in them.
Leaf(type, str) == [type |-> type, str |-> str, keys |-> NULL, vals |-> NULL,
                    cap |-> 0, names |-> <<>>, kids |-> <<>>]

JsonTypeOK ==
  /\ heap \subseteq 1 .. fresh - 1
  /\ DOMAIN node \subseteq heap
  /\ \A i \in DOMAIN node :
       /\ node[i].type \in {"SCALAR", "STRING", "ARRAY", "OBJECT"}
       /\ Len(node[i].kids) <= node[i].cap
       /\ Len(node[i].names) = IF node[i].type = "OBJECT" THEN Len(node[i].kids) ELSE 0
  /\ \A k \in DOMAIN stack : stack[k].node \in DOMAIN node
  /\ pc \in {"value", "first", "key", "colon", "return", "after", "done", "freed"}
  /\ ret \in DOMAIN node \cup {NULL}
  /\ Len(read) <= MaxTokens + 1
  /\ oom \in BOOLEAN /\ status \in {"running", "undefined"}

JsonInit ==
  /\ heap = {} /\ fresh = 1 /\ node = <<>>
  /\ stack = <<>> /\ pc = "value" /\ ret = NULL
  /\ look = "" /\ read = <<>>
  /\ oom = FALSE /\ status = "running"

-----------------------------------------------------------------------------
At(l) == status = "running" /\ pc = l

Top == stack[Len(stack)]

\* The next token is t: the one looked at, or one that is chosen now.
Token(t) ==
  \/ look = t
  \/ look = "" /\ (t = "EOF" \/ (t \in Tokens /\ Len(read) < MaxTokens))

Read(t) == Token(t) /\ look' = "" /\ read' = Append(read, t)

NoRead == UNCHANGED <<look, read>>

\* The blocks of the tree at i, as json_free finds them: the vectors of an array
\* or an object count only if there are any.
Tree ==
  LET tree[i \in DOMAIN node] ==
        LET n == node[i] IN
        {i} \cup ({n.str} \ {NULL})
            \cup IF n.vals = NULL /\ n.keys = NULL THEN {}
                 ELSE ({n.keys, n.vals} \ {NULL}) \cup Range(n.names)
                        \cup UNION {tree[k] : k \in Range(n.kids)}
  IN  tree

Without(B) == [i \in DOMAIN node \ B |-> node[i]]

Return(i) == pc' = "return" /\ ret' = i

\* Mutant: a failing call frees its node, and forgets what else it holds.
Abandon_leaks(extra) ==
  /\ heap' = heap \ Tree[Top.node]
  /\ node' = Without(Tree[Top.node])
  /\ stack' = Front(stack)
  /\ Return(NULL)
  /\ UNCHANGED status

\* The call on top of the stack frees the blocks of extra and then, with json_free,
\* the node it was building, and returns NULL.  json_free reads the vectors.
Abandon(extra) ==
  LET gone == extra \cup Tree[Top.node] IN
  /\ heap' = heap \ gone
  /\ node' = Without(gone)
  /\ stack' = Front(stack)
  /\ Return(NULL)
  /\ status' = IF extra \cap {node[Top.node].keys, node[Top.node].vals} = {}
                 THEN "running" ELSE "undefined"

\* A call that holds nothing returns NULL.
Fail == Return(NULL) /\ UNCHANGED <<heap, fresh, node, stack, status>>

create_node(n) ==
  /\ heap' = heap \cup {fresh}
  /\ fresh' = fresh + 1
  /\ node' = [i \in DOMAIN node \cup {fresh} |-> IF i = fresh THEN n ELSE node[i]]

-----------------------------------------------------------------------------
parse_null_bool_number ==
  /\ Read("N")
  /\ \/ /\ create_node(Leaf("SCALAR", NULL))
        /\ Return(fresh)
        /\ UNCHANGED <<stack, oom, status>>
     \/ Fail /\ oom' = TRUE

\* The string, and then the node; without a node the string is freed.
parse_string ==
  /\ Read("S")
  /\ \/ /\ heap' = heap \cup {fresh, fresh + 1}
        /\ fresh' = fresh + 2
        /\ node' = [i \in DOMAIN node \cup {fresh + 1} |->
                      IF i = fresh + 1 THEN Leaf("STRING", fresh) ELSE node[i]]
        /\ Return(fresh + 1)
        /\ UNCHANGED <<stack, oom, status>>
     \/ Fail /\ oom' = TRUE

\* parse_array and parse_object, up to the look at what follows the bracket.
parse_open(t, type) ==
  /\ Read(t)
  /\ \/ /\ create_node(Leaf(type, NULL))
        /\ stack' = Append(stack, [node |-> fresh, key |-> NULL])
        /\ pc' = "first"
        /\ UNCHANGED <<ret, oom, status>>
     \/ Fail /\ oom' = TRUE

parse_value ==
  /\ At("value")
  /\ \/ parse_null_bool_number
     \/ parse_string
     \/ parse_open("[", "ARRAY")
     \/ parse_open("{", "OBJECT")
     \/ /\ \E t \in {"EOF", "]", "}", ",", ":", "Q", "X"} : Read(t)
        /\ Fail /\ UNCHANGED oom

IsArray == node[Top.node].type = "ARRAY"

Closing == IF IsArray THEN "]" ELSE "}"

\* The node is complete.
Close ==
  /\ Return(Top.node)
  /\ stack' = Front(stack)
  /\ UNCHANGED <<heap, fresh, node, oom, status>>

parse_first ==
  /\ At("first")
  /\ \/ Read(Closing) /\ Close
     \/ /\ \E t \in Tokens \cup {"EOF"} : t # Closing /\ Token(t) /\ look' = t
        /\ pc' = IF IsArray THEN "value" ELSE "key"
        /\ UNCHANGED <<heap, fresh, node, stack, ret, read, oom, status>>

\* parse_raw_string, called for a key.
parse_key ==
  /\ At("key")
  /\ \/ /\ Read("S")
        /\ heap' = heap \cup {fresh}
        /\ fresh' = fresh + 1
        /\ stack' = [stack EXCEPT ![Len(stack)].key = fresh]
        /\ pc' = "colon"
        /\ UNCHANGED <<node, ret, oom, status>>
     \/ Read("S") /\ Abandon({}) /\ oom' = TRUE /\ UNCHANGED fresh
     \/ /\ \E t \in (Tokens \cup {"EOF"}) \ {"S"} : Read(t)
        /\ Abandon({}) /\ UNCHANGED <<fresh, oom>>

parse_colon ==
  /\ At("colon")
  /\ \/ /\ Read(":")
        /\ pc' = "value"
        /\ UNCHANGED <<heap, fresh, node, stack, ret, oom, status>>
     \/ /\ \E t \in (Tokens \cup {"EOF"}) \ {":"} : Read(t)
        /\ Abandon({Top.key}) /\ UNCHANGED <<fresh, oom>>

-----------------------------------------------------------------------------
(* A value has returned to the array or object it belongs to.              *)

item_fails ==
  /\ At("return") /\ stack # <<>>
  /\ ret = NULL
  /\ Abandon({Top.key} \ {NULL})
  /\ NoRead /\ UNCHANGED <<fresh, oom>>

Full == Len(node[Top.node].kids) >= node[Top.node].cap

NewCap == IF node[Top.node].cap = 0 THEN FirstCap ELSE 2 * node[Top.node].cap

\* The item and its key are put behind the others, with vectors K and V.
Store(K, V, cap) ==
  /\ LET n == node[Top.node]
     IN  node' = [node EXCEPT ![Top.node] =
                    [n EXCEPT !.keys = K, !.vals = V, !.cap = cap,
                              !.kids = Append(n.kids, ret),
                              !.names = IF IsArray THEN n.names ELSE Append(n.names, Top.key)]]
  /\ stack' = [stack EXCEPT ![Len(stack)].key = NULL]
  /\ pc' = "after"
  /\ NoRead /\ UNCHANGED <<ret, oom, status>>

store_item ==
  /\ At("return") /\ stack # <<>>
  /\ ret # NULL /\ ~Full
  /\ Store(node[Top.node].keys, node[Top.node].vals, node[Top.node].cap)
  /\ UNCHANGED <<heap, fresh>>

\* What owner_realloc may return for the vector v: v itself, or the new block b.
Moved(v, b) == {v, b} \ {NULL}

grow_ok ==
  /\ At("return") /\ stack # <<>>
  /\ ret # NULL /\ Full
  /\ \E V \in Moved(node[Top.node].vals, fresh),
        K \in IF IsArray THEN {NULL} ELSE Moved(node[Top.node].keys, fresh + 1) :
       /\ Store(K, V, NewCap)
       /\ heap' = (heap \ {node[Top.node].keys, node[Top.node].vals}) \cup ({K, V} \ {NULL})
  /\ fresh' = fresh + 2

\* Mutant: the vector is freed, and then the node with it.
grow_array_fails_frees_vector ==
  /\ At("return") /\ stack # <<>>
  /\ ret # NULL /\ Full /\ IsArray
  /\ Abandon(Tree[ret] \cup ({node[Top.node].vals} \ {NULL}))
  /\ oom' = TRUE
  /\ NoRead /\ UNCHANGED fresh

grow_array_fails ==
  /\ At("return") /\ stack # <<>>
  /\ ret # NULL /\ Full /\ IsArray
  /\ Abandon(Tree[ret])
  /\ oom' = TRUE
  /\ NoRead /\ UNCHANGED fresh

\* One of the two reallocations fails, or both do.  The result of the other is
\* freed; the node still has the old vector, which is gone with it.
grow_object_fails ==
  LET n == node[Top.node] IN
  /\ At("return") /\ stack # <<>>
  /\ ret # NULL /\ Full /\ ~IsArray
  /\ n.cap > 0 => RegrowFails
  /\ \E other \in {{}, {n.keys}, {n.vals}} :
       Abandon({Top.key} \cup Tree[ret] \cup (other \ {NULL}))
  /\ oom' = TRUE
  /\ NoRead /\ UNCHANGED fresh

\* Mutant: a comma may be left out.
parse_after_no_comma ==
  /\ At("after")
  /\ \/ Read(Closing) /\ Close
     \/ /\ Read(",") \/ \E t \in Tokens : Token(t) /\ look' = t /\ UNCHANGED read
        /\ pc' = IF IsArray THEN "value" ELSE "key"
        /\ UNCHANGED <<heap, fresh, node, stack, ret, oom, status>>
     \/ /\ \E t \in (Tokens \cup {"EOF"}) \ {",", Closing} : Read(t)
        /\ Abandon({}) /\ UNCHANGED <<fresh, oom>>

parse_after ==
  /\ At("after")
  /\ \/ Read(Closing) /\ Close
     \/ /\ Read(",")
        /\ pc' = IF IsArray THEN "value" ELSE "key"
        /\ UNCHANGED <<heap, fresh, node, stack, ret, oom, status>>
     \/ /\ \E t \in (Tokens \cup {"EOF"}) \ {",", Closing} : Read(t)
        /\ Abandon({}) /\ UNCHANGED <<fresh, oom>>

-----------------------------------------------------------------------------
\* parse_value has returned to json_parse: the text has to end here.
json_parse_end ==
  /\ At("return") /\ stack = <<>>
  /\ \E t \in Tokens \cup {"EOF"} :
       /\ ret # NULL /\ Read(t)
       /\ IF t = "EOF" THEN UNCHANGED <<heap, node, ret>>
          ELSE heap' = heap \ Tree[ret] /\ node' = Without(Tree[ret]) /\ ret' = NULL
  /\ pc' = "done"
  /\ UNCHANGED <<fresh, stack, oom, status>>

json_parse_fails ==
  /\ At("return") /\ stack = <<>> /\ ret = NULL
  /\ pc' = "done"
  /\ NoRead /\ UNCHANGED <<heap, fresh, node, stack, ret, oom, status>>

\* The client frees the tree.
json_free ==
  /\ At("done") /\ ret # NULL
  /\ heap' = heap \ Tree[ret]
  /\ node' = Without(Tree[ret])
  /\ ret' = NULL /\ pc' = "freed"
  /\ NoRead /\ UNCHANGED <<fresh, stack, oom, status>>

JsonNext ==
  \/ parse_value \/ parse_first \/ parse_key \/ parse_colon
  \/ item_fails \/ store_item \/ grow_ok \/ grow_array_fails \/ grow_object_fails
  \/ parse_after \/ json_parse_end \/ json_parse_fails \/ json_free

JsonSpec == JsonInit /\ [][JsonNext]_jsonVars

-----------------------------------------------------------------------------
(* Properties.                                                             *)

\* Where there are pointers to the block b: in nodes and their vectors, in the
\* calls under way, and in the value on its way to a caller.
Pointers(b) ==
  LET In(f, S) == {<<f, i, 0>> : i \in S}
      D == DOMAIN node
  IN  In("str", {i \in D : node[i].str = b})
      \cup In("keys", {i \in D : node[i].keys = b})
      \cup In("vals", {i \in D : node[i].vals = b})
      \cup (UNION {{<<"names", i, k>> : k \in {l \in DOMAIN node[i].names : node[i].names[l] = b}} : i \in D})
      \cup (UNION {{<<"kids", i, k>> : k \in {l \in DOMAIN node[i].kids : node[i].kids[l] = b}} : i \in D})
      \cup In("node", {k \in DOMAIN stack : stack[k].node = b})
      \cup In("key", {k \in DOMAIN stack : stack[k].key = b})
      \cup In("ret", {k \in {0} : pc \in {"return", "done"} /\ ret = b})

\* Every block has one owner: there is one pointer to each block that is allocated
\* and none to one that was freed.  So nothing leaks and nothing is freed twice,
\* whichever token is wrong and whichever allocation fails; and a parse that fails
\* leaves nothing behind, nor does json_free.
HeapOwned ==
  /\ JsonTypeOK
  /\ status = "running" =>
       \A b \in 1 .. fresh - 1 : Cardinality(Pointers(b)) = IF b \in heap THEN 1 ELSE 0
  /\ pc \in {"done", "freed"} /\ ret = NULL => heap = {}

\* json_free never reads a vector that was freed.
NoFault == status = "running"

\* The text a tree stands for.
Text ==
  LET text[i \in 1 .. fresh - 1] ==
        LET n == node[i]
            Part(k) == (IF k > 1 THEN <<",">> ELSE <<>>)
                       \o (IF n.type = "OBJECT" THEN <<"S", ":">> ELSE <<>>)
                       \o text[n.kids[k]]
            parts == FlattenSeq([k \in DOMAIN n.kids |-> Part(k)])
        IN  CASE n.type = "SCALAR" -> <<"N">>
              [] n.type = "STRING" -> <<"S">>
              [] n.type = "ARRAY" -> <<"[">> \o parts \o <<"]">>
              [] n.type = "OBJECT" -> <<"{">> \o parts \o <<"}">>
  IN  text

\* The values of the grammar that have n tokens; lists of values with a comma
\* between them; lists of members.
Grammar ==
  LET g[n \in 0 .. MaxTokens] ==
        LET val == (IF n = 1 THEN {<<"N">>, <<"S">>} ELSE {})
                   \cup (IF n = 2 THEN {<<"[", "]">>, <<"{", "}">>} ELSE {})
                   \cup (IF n > 2 THEN {<<"[">> \o l \o <<"]">> : l \in g[n - 2].items}
                                      \cup {<<"{">> \o l \o <<"}">> : l \in g[n - 2].members}
                         ELSE {})
            items == val \cup UNION {{l \o <<",">> \o v : l \in g[k].items, v \in g[n - 1 - k].val} :
                                      k \in 1 .. n - 2}
            last  == IF n > 2 THEN {<<"S", ":">> \o v : v \in g[n - 2].val} ELSE {}
        IN  [val |-> val, items |-> items,
             members |-> last \cup
               UNION {{l \o <<",", "S", ":">> \o v : l \in g[k].members, v \in g[n - 3 - k].val} :
                       k \in 1 .. n - 4}]
  IN  UNION {g[n].val : n \in 1 .. MaxTokens}

\* The tree json_parse returns stands for the text it has read, from the first
\* token to the end, and a text of the grammar is not refused unless memory runs
\* out: what is refused is not the beginning of any.
ParseCorrect ==
  pc = "done" =>
    IF ret # NULL
      THEN read = Append(Text[ret], "EOF")
      ELSE \/ oom
           \/ Last(read) = "EOF" /\ Front(read) \notin Grammar
           \/ \A v \in Grammar : ~IsPrefix(read, v)

=============================================================================
