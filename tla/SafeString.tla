----------------------------- MODULE SafeString -----------------------------
(***************************************************************************)
(* The growing strings of src/src/ownedc_string.c.  A string is a buffer,  *)
(* as long as its capacity, and a length; ref is the text it should hold.  *)
(* A string may be appended to itself, through the pointer that            *)
(* safe_string_cstr returns: that copies from the old buffer after the     *)
(* growth, and if owner_realloc has moved it the memory has been given     *)
(* back and may hold anything.  Where memory runs out the code aborts, and *)
(* where an index is out of bounds: behaviours end there.                  *)
(***************************************************************************)
EXTENDS Naturals, SequencesExt

CONSTANTS Strings, Chars,
          NUL, Junk,        \* the terminator; a cell that was not written
          Literals,         \* the C strings of the client, without terminator
          InitialCap,       \* 16 in the code
          MaxLength,        \* bound: the length of a string
          SelfAppend        \* may clients append a string to itself without room?

ASSUME StringAssumption ==
  /\ InitialCap \in Nat \ {0} /\ MaxLength \in Nat
  /\ SelfAppend \in BOOLEAN
  /\ NUL # Junk /\ {NUL, Junk} \cap Chars = {}
  /\ Literals \subseteq Seq(Chars) /\ \A t \in Literals : Len(t) <= MaxLength

VARIABLES
  str,      \* str[s]: the string s, NoString if there is none
  ref       \* ref[s]: the characters pushed and not truncated

strVars == <<str, ref>>

NoString == [data |-> <<>>, length |-> 0]

StrTypeOK ==
  /\ str \in [Strings -> [data : Seq(Chars \cup {NUL, Junk}), length : 0 .. MaxLength]]
  /\ ref \in [Strings -> Seq(Chars \cup {NUL})]

StrInit ==
  /\ str = [s \in Strings |-> NoString]
  /\ ref = [s \in Strings |-> <<>>]

-----------------------------------------------------------------------------
Exists(s) == str[s] # NoString

\* The text in front of the first terminator.
CStr(d) == IF \E i \in DOMAIN d : d[i] = NUL
             THEN SubSeq(d, 1, (CHOOSE i \in DOMAIN d :
                                  d[i] = NUL /\ \A j \in 1 .. i - 1 : d[j] # NUL) - 1)
             ELSE d

\* The buffer d with the text t written at offset n, and a terminator.
Write(d, n, t) ==
  [i \in DOMAIN d |-> IF i \in n + 1 .. n + Len(t) THEN t[i - n]
                      ELSE IF i = n + Len(t) + 1 THEN NUL ELSE d[i]]

\* Mutant: a buffer that is full to the last cell is taken for large enough.
grow_no_terminator(d, min) ==
  LET twice == IF Len(d) = 0 THEN InitialCap ELSE 2 * Len(d)
      cap   == IF twice < min THEN min ELSE twice
  IN  IF Len(d) + 1 >= min THEN d ELSE [i \in 1 .. cap |-> IF i <= Len(d) THEN d[i] ELSE Junk]

safe_string_grow(d, min) ==
  LET twice == IF Len(d) = 0 THEN InitialCap ELSE 2 * Len(d)
      cap   == IF twice < min THEN min ELSE twice
  IN  IF Len(d) >= min THEN d ELSE [i \in 1 .. cap |-> IF i <= Len(d) THEN d[i] ELSE Junk]

\* With NULL for the initial text (init = Junk) the string is empty.
safe_string_new(s, init) ==
  LET text == IF init = Junk THEN <<>> ELSE init
      min  == IF init = Junk THEN InitialCap ELSE Len(text) + 1
  IN  /\ ~Exists(s)
      /\ str' = [str EXCEPT ![s] = [data |-> Write(safe_string_grow(<<>>, min), 0, text),
                                    length |-> Len(text)]]
      /\ ref' = [ref EXCEPT ![s] = text]

\* The text t is appended, to str and to ref the text u.
append(s, t, u) ==
  /\ Exists(s)
  /\ t # <<>>
  /\ str[s].length + Len(t) <= MaxLength
  /\ str' = [str EXCEPT ![s] =
               [data |-> Write(safe_string_grow(@.data, @.length + Len(t) + 1), @.length, t),
                length |-> @.length + Len(t)]]
  /\ ref' = [ref EXCEPT ![s] = @ \o u]

safe_string_append(s, t) == append(s, t, t)

\* Is there room for n more characters?
Room(s, n) == Len(str[s].data) >= str[s].length + n + 1

\* What memcpy may copy for the suffix src: its text, or what is in its place if
\* src is s itself and the buffer has grown.
Copied(s, src) ==
  LET suffix == CStr(str[src].data) IN
  IF src = s /\ ~Room(s, Len(suffix)) THEN [DOMAIN suffix -> Chars \cup {NUL, Junk}]
                                      ELSE {suffix}

safe_string_append_safe(s, src) ==
  /\ Exists(src)
  /\ src = s => SelfAppend \/ Room(s, Len(CStr(str[s].data)))
  /\ \E t \in Copied(s, src) : append(s, t, CStr(ref[src]))

safe_string_push_char(s, c) ==
  /\ Exists(s)
  /\ str[s].length < MaxLength
  /\ str' = [str EXCEPT ![s] = [data |-> Write(safe_string_grow(@.data, @.length + 2), @.length, <<c>>),
                                length |-> @.length + 1]]
  /\ ref' = [ref EXCEPT ![s] = Append(@, c)]

safe_string_truncate(s, n) ==
  /\ Exists(s)
  /\ n <= str[s].length
  /\ str' = [str EXCEPT ![s] = [data |-> Write(@.data, n, <<>>), length |-> n]]
  /\ ref' = [ref EXCEPT ![s] = SubSeq(@, 1, n)]

safe_string_free(s) ==
  /\ Exists(s)
  /\ str' = [str EXCEPT ![s] = NoString]
  /\ ref' = [ref EXCEPT ![s] = <<>>]

StrNext ==
  \E s \in Strings :
    \/ \E t \in Literals \cup {Junk} : safe_string_new(s, t)
    \/ \E t \in Literals : safe_string_append(s, t)
    \/ \E r \in Strings : safe_string_append_safe(s, r)
    \/ \E c \in Chars \cup {NUL} : safe_string_push_char(s, c)
    \/ \E n \in 0 .. MaxLength : safe_string_truncate(s, n)
    \/ safe_string_free(s)

StrSpec == StrInit /\ [][StrNext]_strVars

-----------------------------------------------------------------------------
(* Properties.                                                             *)

safe_string_char_at(s, i) == IF i >= str[s].length THEN "abort" ELSE str[s].data[i + 1]

\* A string holds what was pushed and appended and not truncated, however often
\* its buffer grew: every index below the length reads that text, the C string is
\* that text up to a terminator pushed into it, and inside the buffer it ends with
\* a terminator.  So it is for clients that append a string to itself only where
\* there is room: without SelfAppend.
StringsIntact ==
  /\ StrTypeOK
  /\ \A s \in Strings :
       Exists(s) => /\ str[s].length < Len(str[s].data)
                    /\ str[s].data[str[s].length + 1] = NUL
                    /\ CStr(str[s].data) = CStr(ref[s])
                    /\ str[s].length = Len(ref[s])
                    /\ \A i \in 0 .. str[s].length - 1 :
                         safe_string_char_at(s, i) = ref[s][i + 1]

=============================================================================
