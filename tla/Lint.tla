-------------------------------- MODULE Lint --------------------------------
(***************************************************************************)
(* The static analyzer of src/tools/ownedc_lint.c.  It reads a file line   *)
(* by line, keeps a table of the variables that the current function       *)
(* allocates, and reports leaks, double frees and uses after a free.       *)
(*                                                                         *)
(* A line is a sequence of items: comment signs, quotes, braces, the macro *)
(* OWNED, calls of the raw allocator, and statements that allocate, free,  *)
(* borrow and return.  Beside the analyzer runs a reading of the same text *)
(* as C, item by item: a body without branches, whose blocks are entered   *)
(* and whose first return ends it.  The analyzer is a heuristic.  Where it *)
(* does not follow what a statement does (gap), its errors are only        *)
(* checked for a ground in the text; where it takes the text itself for    *)
(* another (misread), nothing is.                                          *)
(***************************************************************************)
EXTENDS Integers, SequencesExt

CONSTANTS Vars,          \* names of variables
          MaxVars,       \* MAX_VARS, 1024 in the code
          LineLength,    \* bound: items in a line of statements
          TextLength,    \* bound: items in a line of signs
          MaxNesting     \* bound: nested braces

ASSUME LintAssumption == {MaxVars, LineLength, TextLength, MaxNesting} \subseteq Nat

\* v = owner_malloc(n), or owner_malloc(n) that is not assigned (v = ""); v =
\* owner_realloc(w, n); return v, or a return of something else.  owner_calloc is
\* read as owner_malloc is.
Allocs == ({"alloc"} \X (Vars \cup {""})) \cup ({"realloc"} \X Vars \X Vars)

Kinds == {"alloc", "realloc", "free", "borrow", "return"}

Statements == Allocs \cup ({"free", "borrow"} \X Vars) \cup ({"return"} \X (Vars \cup {""}))

\* A quote inside of a string is escaped; the last two are character literals.
Signs == {"/*", "*/", "//", "quote", "escaped quote", "{", "}", "OWNED",
          "raw malloc", "raw free", "'quote'", "'{'"}

\* malloc, calloc and realloc draw a warning, free an error.
Raw == {"raw malloc", "raw free"}

\* One kind of value for all items: signs are paired with nothing.
Sign(names) == {<<s, "">> : s \in names}

\* A line of statements, and one of what comments and strings may hide.
Line == SeqOf(Statements \cup Sign({"{", "}", "OWNED"}), LineLength)
TextLine == SeqOf(Sign(Signs \ {"OWNED", "raw malloc"}), TextLength)

VARIABLES
  in_block_comment, nesting_level, in_function,
  tracked_vars,    \* a function: the state of each variable in the table
  reports,         \* what the line was reported for
  at,              \* has a line been read and checked, or is it to come?
  c,               \* the text read as C, see ReadLine
  gap,             \* has this function something the analyzer does not follow?
  misread          \* has this file a text that the analyzer misreads?

lintVars == <<in_block_comment, nesting_level, in_function, tracked_vars, reports, at,
              c, gap, misread>>

Tracked == [state : {"OWNED", "FREED", "RETURNED"}, is_raii : BOOLEAN]

Errors == {"leak", "double free", "use after free"} \X Vars

LintTypeOK ==
  /\ {in_block_comment, in_function, gap, misread} \subseteq BOOLEAN
  /\ nesting_level \in Int /\ at \in {"to come", "checked"}
  /\ DOMAIN tracked_vars \subseteq Vars /\ Cardinality(DOMAIN tracked_vars) <= MaxVars
  /\ \A v \in DOMAIN tracked_vars : tracked_vars[v] \in Tracked
  /\ reports \subseteq Errors \cup ((Raw \cup {"manual free"}) \X {""})

-----------------------------------------------------------------------------
(* The analyzer.                                                           *)

\* Where in a line the items of a kind are.
Where(line, s) == {i \in DOMAIN line : line[i][1] = s}

Is(line, s) == Where(line, s) # {}

Count(line, s) == Cardinality(Where(line, s))

\* The variables of the statements of a kind, in the order of the line.
Args(line, s) == LET hits == SelectSeq(line, LAMBDA i : i[1] = s)
                 IN  [k \in DOMAIN hits |-> hits[k][2]]

\* What is left of an item of code: the brace of a character literal is one to the
\* analyzer, and so is the quote of one, or of an escape.
Seen(i) == CASE i[1] = "'{'" -> <<"{", "">>
             [] i[1] \in {"'quote'", "escaped quote"} -> <<"quote", "">>
             [] OTHER -> i

\* Takes comments and the text of strings out of a line.  Only a block comment
\* lasts longer than the line.
preprocess_line(line, block) ==
  LET Step(st, i) ==
        IF st.stop THEN st
        ELSE IF st.block THEN [st EXCEPT !.block = (i[1] # "*/")]
        ELSE IF st.string
          THEN IF i[1] \in {"quote", "'quote'"}
                 THEN [st EXCEPT !.string = FALSE, !.out = Append(@, Seen(i))] ELSE st
        ELSE CASE i[1] = "/*" -> [st EXCEPT !.block = TRUE]
               [] i[1] = "//" -> [st EXCEPT !.stop = TRUE]
               [] OTHER -> [st EXCEPT !.string = (Seen(i)[1] = "quote"),
                                      !.out = Append(@, Seen(i))]
  IN  FoldLeft(Step, [block |-> block, string |-> FALSE, stop |-> FALSE, out |-> <<>>], line)

\* The call of the allocator in a line, owner_malloc rather than owner_realloc, or
\* 0; and the variable of the last assignment up to it.
FindAlloc(line) ==
  LET hits == IF Is(line, "alloc") THEN Where(line, "alloc") ELSE Where(line, "realloc")
  IN  IF hits = {} THEN 0 ELSE Min(hits)

AssignedVar(line, call) ==
  LET eqs == {i \in 1 .. call : line[i][1] \in {"alloc", "realloc"} /\ line[i][2] # ""}
  IN  IF eqs = {} THEN "" ELSE line[Max(eqs)][2]

Put(table, v, entry) ==
  [w \in DOMAIN table \cup {v} |-> IF w = v THEN entry ELSE table[w]]

\* A full table takes no variable, not even one that is in it.
add_tracked_var(table, v, raii) ==
  IF Cardinality(DOMAIN table) >= MaxVars THEN table
  ELSE Put(table, v, [state |-> "OWNED", is_raii |-> raii])

\* Mutant: only the first owner_free of a line is found.
mark_freed_first(table, names) ==
  IF names = <<>> \/ Head(names) \notin DOMAIN table THEN [table |-> table, reports |-> {}]
  ELSE IF table[Head(names)].state = "FREED"
    THEN [table |-> table, reports |-> {<<"double free", Head(names)>>}]
    ELSE [table |-> [table EXCEPT ![Head(names)].state = "FREED"], reports |-> {}]

\* The table and the errors after the calls of owner_free, in their order.
mark_freed(table, names) ==
  LET Step(st, v) ==
        IF v \notin DOMAIN st.table THEN st
        ELSE IF st.table[v].state = "FREED"
          THEN [st EXCEPT !.reports = @ \cup {<<"double free", v>>}]
          ELSE [st EXCEPT !.table[v].state = "FREED"]
  IN  FoldLeft(Step, [table |-> table, reports |-> {}], names)

check_borrow(table, names) ==
  {<<"use after free", v>> : v \in {w \in Range(names) \cap DOMAIN table : table[w].state = "FREED"}}

\* Mutant: a block that is returned is not marked.
mark_returned_none(table, names) == table

\* Only the first return of a line is looked at.
mark_returned(table, names) ==
  IF names = <<>> \/ Head(names) \notin DOMAIN table THEN table
  ELSE [table EXCEPT ![Head(names)].state = "RETURNED"]

\* Mutant: blocks with a cleanup are reported too.
leaks_raii(table) == {<<"leak", v>> : v \in {w \in DOMAIN table : table[w].state = "OWNED"}}

leaks(table) ==
  {<<"leak", v>> : v \in {w \in DOMAIN table : table[w].state = "OWNED" /\ ~table[w].is_raii}}

\* The checks inside of a function: an allocation, then what is freed, borrowed
\* and returned, whatever the order in the line.
check_statements(line, table) ==
  LET call  == FindAlloc(line)
      var   == AssignedVar(line, call)
      added == IF var = "" THEN table ELSE add_tracked_var(table, var, Is(line, "OWNED"))
      freed == mark_freed(added, Args(line, "free"))
  IN  [table   |-> mark_returned(freed.table, Args(line, "return")),
       reports |-> freed.reports \cup check_borrow(freed.table, Args(line, "borrow"))
                   \cup {r \in {<<"manual free", "">>} : call # 0 /\ ~Is(line, "OWNED")}]

-----------------------------------------------------------------------------
(* The text read as C.                                                     *)

NoBlocks == [v \in Vars |-> "none"]

Nothing == [opened |-> FALSE, closed |-> FALSE, owned |-> FALSE, rank |-> 0,
            made |-> {}, frees |-> {}, twice |-> {}, borrows |-> {}, returns |-> <<>>]

Start ==
  [mode    |-> "code",     \* in code, a comment or a string
   level   |-> 0,          \* of braces
   \* The block of a variable of the function is owned, raii (with a cleanup),
   \* freed, returned, or moved (taken by owner_realloc) ...
   var     |-> NoBlocks,
   done    |-> FALSE,      \* ... and the function has returned.
   hand    |-> {},         \* By the lines alone: allocated by hand, and since
   freed   |-> {},         \* neither freed nor returned; and freed.
   reports |-> {},         \* the errors of the line, ...
   stray   |-> {},         \* ... what would be leaks had it not moved, ...
   grounds |-> {},         \* ... and what there is some ground for
   line    |-> Nothing,    \* what was read in the line, and how far it has got in
                           \* the order the analyzer goes by (rank)
   odd     |-> FALSE, misread |-> FALSE]

\* A statement in its place in the order of search, with more of its kind or alone,
\* and not behind a return.
Ranked(s, r, again) ==
  [s EXCEPT !.odd = (@ \/ s.done \/ s.line.rank > r \/ (s.line.rank = r /\ ~again)),
            !.line.rank = r]

\* A block for v; without a name it is the business of the function it is given to.
Allocate(s, v) ==
  [Ranked(s, 2, FALSE) EXCEPT
     !.odd = (@ \/ (v # "" /\ s.var[v] \in {"owned", "raii"})),
     !.reports = @ \cup {r \in {<<"manual free", "">>} : ~s.line.owned},
     !.var = [w \in Vars |-> IF w # v THEN @[w] ELSE IF s.line.owned THEN "raii" ELSE "owned"]]

\* The block of w, if it has one, becomes that of v.
Reallocate(s, v, w) ==
  LET used == s.var[w] \notin {"none", "owned"}
      t    == [s EXCEPT !.odd = (@ \/ used), !.var[w] = IF @ = "owned" THEN "moved" ELSE @]
  IN  Allocate(t, v)

ReadStatement(s, i) ==
  LET v == i[2] IN
  CASE i[1] = "alloc" -> Allocate(s, v)
    [] i[1] = "realloc" -> Reallocate(s, v, i[3])
    [] i[1] = "free" ->
         [Ranked(s, 3, TRUE) EXCEPT
            !.odd = (@ \/ s.var[v] \in {"raii", "moved"}),
            !.reports = @ \cup {r \in {<<"double free", v>>} : s.var[v] = "freed"},
            !.var[v] = IF @ = "none" THEN "none" ELSE "freed"]
    [] i[1] = "borrow" ->
         [Ranked(s, 4, TRUE) EXCEPT
            !.odd = (@ \/ s.var[v] = "moved"),
            !.reports = @ \cup {r \in {<<"use after free", v>>} : s.var[v] = "freed"}]
    [] i = <<"return", "">> -> [Ranked(s, 5, FALSE) EXCEPT !.done = TRUE]
    [] i[1] = "return" /\ v # "" ->
         [Ranked(s, 5, FALSE) EXCEPT
            !.odd = (@ \/ s.var[v] \in {"raii", "freed", "moved"}), !.done = TRUE,
            !.var[v] = IF @ = "none" THEN "none" ELSE "returned"]

\* What a statement adds to the line.
Note(l, i) ==
  CASE i[1] \in {"alloc", "realloc"} ->
         [l EXCEPT !.made = @ \cup {v \in Vars : v = i[2] /\ ~l.owned}]
    [] i[1] = "free" -> [l EXCEPT !.frees = @ \cup {i[2]}, !.twice = @ \cup (l.frees \cap {i[2]})]
    [] i[1] = "borrow" -> [l EXCEPT !.borrows = @ \cup {i[2]}]
    [] i[1] = "return" -> [l EXCEPT !.returns = Append(@, i[2])]

Leaks(vs) == {<<"leak", v>> : v \in vs}

ReadCode(s, i) ==
  CASE i[1] = "/*" -> [s EXCEPT !.mode = "block"]
    [] i[1] = "//" -> [s EXCEPT !.mode = "line"]
    [] i[1] = "quote" -> [s EXCEPT !.mode = "string"]
    [] i[1] \in {"escaped quote", "'quote'", "'{'"} -> [s EXCEPT !.misread = TRUE]
    [] i[1] = "{" /\ s.level = 0 ->
         [s EXCEPT !.misread = (@ \/ s.line.rank > 0), !.level = 1,
                   !.line.rank = 1, !.line.opened = TRUE]
    [] i[1] = "{" /\ s.level > 0 -> [s EXCEPT !.level = @ + 1]
    [] i[1] = "}" /\ s.level = 1 ->
         [s EXCEPT
            !.odd = (@ \/ s.line.opened), !.level = 0, !.var = NoBlocks, !.done = FALSE,
            !.line.rank = 6, !.line.closed = TRUE,
            !.reports = @ \cup Leaks({v \in Vars : s.var[v] = "owned"}),
            !.stray = Leaks({v \in Vars : s.var[v] = "moved"})]
    [] i[1] = "}" /\ s.level > 1 -> [s EXCEPT !.level = @ - 1]
    [] i[1] = "}" /\ s.level = 0 -> [s EXCEPT !.misread = TRUE]
    [] i[1] = "OWNED" -> [Ranked(s, 1, TRUE) EXCEPT !.line.owned = TRUE]
    [] i[1] \in Raw -> [s EXCEPT !.reports = @ \cup {i}, !.grounds = @ \cup {i}]
    [] i[1] \in Kinds /\ s.level > 0 -> [ReadStatement(s, i) EXCEPT !.line = Note(@, i)]
    [] i[1] \in Kinds /\ s.level = 0 ->
         [s EXCEPT !.misread = (@ \/ s.line.closed), !.line.rank = 1]
    [] OTHER -> s

ReadItem(s, i) ==
  CASE s.mode = "code" -> ReadCode(s, i)
    [] s.mode = "block" /\ i[1] = "*/" -> [s EXCEPT !.mode = "code"]
    [] s.mode = "string" /\ i[1] = "quote" -> [s EXCEPT !.mode = "code"]
    [] s.mode = "string" /\ i[1] = "'quote'" -> [s EXCEPT !.misread = TRUE]
    [] OTHER -> s

\* What the lines alone ground: hand and freed after the line, and the errors it may
\* be reported for.  A free counts wherever in the line it is, and the first return.
Ground(s) ==
  LET l     == s.line
      hand  == ((s.hand \cup l.made) \ l.frees) \ {l.returns[k] : k \in DOMAIN l.returns \cap {1}}
      freed == s.freed \cup l.frees
  IN  [s EXCEPT
         !.hand = IF l.closed THEN {} ELSE hand,
         !.freed = IF l.closed THEN {} ELSE freed,
         !.grounds = @ \cup (IF l.closed THEN Leaks(hand) ELSE {})
                       \cup ({"double free"} \X ((l.frees \cap s.freed) \cup l.twice))
                       \cup ({"use after free"} \X (l.borrows \cap freed))]

\* A line.  Line comments end with it, and a string that does not is not C.
ReadLine(s, line) ==
  LET r == Ground(FoldLeft(ReadItem, s, line))
  IN  [r EXCEPT !.mode = IF @ = "block" THEN "block" ELSE "code",
                !.misread = (@ \/ r.mode = "string"), !.line = Nothing]

-----------------------------------------------------------------------------
LintInit ==
  /\ in_block_comment = FALSE /\ nesting_level = 0 /\ in_function = FALSE
  /\ tracked_vars = <<>> /\ reports = {}
  /\ at = "to come" /\ c = Start /\ gap = FALSE /\ misread = FALSE

\* One turn of the loop of lint_file.
lint_line(raw) ==
  LET pre   == preprocess_line(raw, in_block_comment)
      line  == pre.out
      level == nesting_level + Count(line, "{") - Count(line, "}")
      enter == nesting_level = 0 /\ level > 0 /\ ~in_function
      table == IF enter THEN <<>> ELSE tracked_vars
      inside == in_function \/ enter
      done  == IF inside THEN check_statements(line, table) ELSE [table |-> table, reports |-> {}]
      exit  == inside /\ level = 0
      read  == ReadLine(c, raw)
      full  == inside /\ FindAlloc(line) # 0 /\ Cardinality(DOMAIN table) >= MaxVars
  IN  /\ at = "to come" /\ at' = "checked"
      /\ read.level <= MaxNesting
      /\ in_block_comment' = pre.block
      /\ nesting_level' = level
      /\ in_function' = (inside /\ ~exit)
      /\ tracked_vars' = IF exit THEN <<>> ELSE done.table
      /\ reports' = {i \in Range(line) : i[1] \in Raw}
                   \cup done.reports \cup (IF exit THEN leaks(done.table) ELSE {})
      /\ misread' = read.misread
      /\ gap' = (gap \/ read.odd \/ full)
      /\ c' = IF gap' THEN [read EXCEPT !.var = NoBlocks, !.done = FALSE, !.odd = FALSE,
                                        !.reports = {}, !.stray = {}]
                      ELSE read

\* The next line.  A new function is followed again.
fgets ==
  /\ at = "checked" /\ at' = "to come"
  /\ reports' = {}
  /\ c' = [c EXCEPT !.reports = {}, !.stray = {}, !.grounds = {}]
  /\ gap' = (gap /\ c.level > 0)
  /\ UNCHANGED <<in_block_comment, nesting_level, in_function, tracked_vars, misread>>

\* The next file.  The table is global and is not emptied.
lint_file ==
  /\ in_block_comment' = FALSE /\ nesting_level' = 0 /\ in_function' = FALSE
  /\ reports' = {} /\ at' = "to come" /\ c' = Start /\ gap' = FALSE /\ misread' = FALSE
  /\ UNCHANGED tracked_vars

\* Files of statements, or of signs.
LintNext(lines) ==
  \/ lint_file
  \/ ~misread /\ (fgets \/ \E l \in lines : lint_line(l))

LintSpec == LintInit /\ [][LintNext(Line) \/ LintNext(TextLine)]_lintVars

-----------------------------------------------------------------------------
(* Properties.                                                             *)

\* The analyzer knows where it is: in a comment or not, how deep in braces, and in
\* a function or not, whatever comments and strings the text has.  And the table
\* says of each variable of the function what has become of its block, but that the
\* block owner_realloc has taken from a variable is still down as its own.
TableAgrees ==
  /\ LintTypeOK
  /\ ~misread => /\ in_block_comment = (c.mode = "block")
                 /\ nesting_level = c.level
                 /\ in_function = (c.level > 0)
  /\ ~misread /\ ~gap /\ in_function =>
       \A v \in Vars :
         c.var[v] \in IF v \notin DOMAIN tracked_vars THEN {"none"}
                      ELSE CASE tracked_vars[v].state = "OWNED" ->
                                  (IF tracked_vars[v].is_raii THEN {"raii"} ELSE {"owned", "moved"})
                             [] tracked_vars[v].state = "FREED" -> {"freed"}
                             [] tracked_vars[v].state = "RETURNED" -> {"returned"}

\* A line whose statements come in the order the analyzer looks for them is reported
\* for the errors it has, none of them in a comment or in a string: leaks, double
\* frees, uses after a free and calls of the raw allocator.  And for one it does not
\* have: the old variable of an owner_realloc is reported as a leak.
ReportsExact == ~misread /\ ~gap => reports = c.reports \cup c.stray

\* In whatever order the statements of a line come, however many returns there are
\* and however full the table is, no error is made up: a leak is reported only of a
\* variable that the function has allocated by hand and since neither freed nor
\* returned, a double free only where it has freed the variable before, and a use
\* after free only where it has freed it.  (In between it may have been given a new
\* block in a line that frees the old one: there the order of search is wrong.)
ErrorsGrounded == ~misread => reports \ {<<"manual free", "">>} \subseteq c.grounds

=============================================================================
