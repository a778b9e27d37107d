------------------------------- MODULE Region -------------------------------
(***************************************************************************)
(* The region of src/src/region.c and the arena of src/src/ownedc_arena.c: *)
(* memory is handed out from the front of a chunk, and given back all at   *)
(* once.  Sizes are computed modulo SizeMax, as size_t is, and the headers *)
(* that the runtime and the chunk put in front of the data count.  A       *)
(* region puts new chunks at the front of its list, an arena at the end.   *)
(***************************************************************************)
EXTENDS SizeT, Integers, FiniteSets

CONSTANTS Chunks,        \* blocks of the runtime that hold a chunk
          NoChunk,
          Align,         \* 8 in the code
          MetaSize,      \* the header of a block: sizeof(alloc_meta_t)
          ChunkSize,     \* sizeof(safe_region_chunk_t), sizeof(arena_block_t)
          DefaultSize,   \* 4096 in the region
          MinSize,       \* 1024 in the arena
          MemLimit,      \* the largest block the system has
          Sizes,         \* the sizes clients ask for
          MaxGrants      \* bound: allocations that are remembered

ASSUME RegionAssumption ==
  /\ {Align, MetaSize, ChunkSize, DefaultSize, MinSize, MemLimit, MaxGrants} \subseteq Nat
  /\ Align > 0 /\ SizeMax % Align = 0
  /\ MemLimit < SizeMax
  /\ Sizes \cup {DefaultSize, MinSize} \subseteq Size
  /\ IsFiniteSet(Chunks)
  /\ NoChunk \notin Chunks

VARIABLES
  pool,             \* "none", or what there is: a "region" or an "arena"
  block_size,       \* chunk_size, default_block_size
  head, current,    \* the first chunk of the list, and the one in use
  chunk,            \* chunk[c]: used, capacity, next, and the room there really is
  held,             \* the chunks that owner_malloc returned and nobody freed
  grants,           \* the allocations: where, and how much was asked for
  wrapped           \* has a computation of a size wrapped around?

regVars == <<pool, block_size, head, current, chunk, held, grants, wrapped>>

Empty == [used |-> 0, capacity |-> 0, next |-> NoChunk, room |-> 0]

RegTypeOK ==
  /\ pool \in {"none", "region", "arena"}
  /\ block_size \in Size
  /\ {head, current} \subseteq held \cup {NoChunk}
  /\ chunk \in [Chunks -> [used : Size, capacity : Size,
                           next : Chunks \cup {NoChunk}, room : Int]]
  /\ held \subseteq Chunks
  /\ wrapped \in BOOLEAN

RegInit ==
  /\ pool = "none" /\ block_size = 0
  /\ head = NoChunk /\ current = NoChunk
  /\ chunk = [c \in Chunks |-> Empty]
  /\ held = {} /\ grants = {} /\ wrapped = FALSE

-----------------------------------------------------------------------------
\* Mutant: sizes are rounded down.
rounded_down(n) == (n \div Align) * Align

\* (size + 7) & ~7
rounded(n) == (Plus(n, Align - 1) \div Align) * Align

\* The size owner_malloc asks the system for, to hold a chunk with n bytes of data.
block_bytes(n) == Plus(MetaSize, Plus(ChunkSize, n))

\* A computation on the way from the request n to a block has wrapped around.
Wraps(n) == n + Align - 1 >= SizeMax \/ MetaSize + ChunkSize + rounded(n) >= SizeMax

\* A chunk c with n bytes of data.  Larger blocks than MemLimit there are none.
allocate_block(c, n, next) ==
  /\ c \notin held
  /\ block_bytes(n) <= MemLimit
  /\ held' = held \cup {c}
  /\ chunk' = [chunk EXCEPT ![c] = [used |-> 0, capacity |-> n, next |-> next,
                                    room |-> block_bytes(n) - MetaSize - ChunkSize]]

Create(k, n, first) ==
  /\ pool = "none"
  /\ pool' = k /\ block_size' = n
  /\ head' = first /\ current' = first
  /\ grants' = {}
  /\ wrapped' = (first # NoChunk /\ MetaSize + ChunkSize + n >= SizeMax)

\* Without memory for the first chunk there is no region ...
safe_region_create(size, c) ==
  LET n == IF size = 0 THEN DefaultSize ELSE size IN
  Create("region", n, c) /\ allocate_block(c, n, NoChunk)

\* ... but an arena that has none and never gives memory out.
ownedc_arena_create(size, c) ==
  LET n == IF size < MinSize THEN MinSize ELSE size IN
  /\ Create("arena", n, c)
  /\ \/ c = NoChunk /\ UNCHANGED <<chunk, held>>
     \/ c # NoChunk /\ allocate_block(c, n, NoChunk)

\* c is where the request n goes: the chunk in use, or a new one.  The sum that is
\* compared wraps around as well.
Fits(n) == Plus(chunk[current].used, rounded(n)) <= chunk[current].capacity

Grant(c, n, used) ==
  /\ Cardinality(grants) < MaxGrants
  /\ grants' = grants \cup {[chunk |-> c, at |-> used, size |-> n]}
  /\ wrapped' = (wrapped \/ Wraps(n) \/ used + rounded(n) >= SizeMax)

bump(n) ==
  /\ Fits(n)
  /\ chunk' = [chunk EXCEPT ![current].used = Plus(@, rounded(n))]
  /\ Grant(current, n, chunk[current].used)
  /\ UNCHANGED <<head, current, held>>

NewSize(n) == IF rounded(n) > block_size THEN rounded(n) ELSE block_size

\* A new chunk c, with the request n at its start.
NewChunk(n, next) ==
  [used |-> rounded(n), capacity |-> NewSize(n), next |-> next,
   room |-> block_bytes(NewSize(n)) - MetaSize - ChunkSize]

\* In front of the list.
region_new_chunk(n, c) ==
  /\ ~Fits(n)
  /\ c \notin held /\ block_bytes(NewSize(n)) <= MemLimit
  /\ held' = held \cup {c}
  /\ chunk' = [chunk EXCEPT ![c] = NewChunk(n, current)]
  /\ head' = c /\ current' = c
  /\ Grant(c, n, 0)

\* At its end.
arena_new_block(n, c) ==
  /\ ~Fits(n)
  /\ c \notin held /\ block_bytes(NewSize(n)) <= MemLimit
  /\ held' = held \cup {c}
  /\ chunk' = [chunk EXCEPT ![current].next = c,
                            ![c] = NewChunk(n, NoChunk)]
  /\ current' = c
  /\ Grant(c, n, 0)
  /\ UNCHANGED head

safe_region_alloc(n) ==
  /\ pool = "region"
  /\ n > 0
  /\ bump(n) \/ \E c \in Chunks : region_new_chunk(n, c)
  /\ UNCHANGED <<pool, block_size>>

ownedc_arena_alloc(n) ==
  /\ pool = "arena"
  /\ current # NoChunk
  /\ bump(n) \/ \E c \in Chunks : arena_new_block(n, c)
  /\ UNCHANGED <<pool, block_size>>

\* The chunks a walk along next meets.
Walk ==
  LET reach[k \in Nat] ==
        IF k = 0 THEN {head} \ {NoChunk}
        ELSE reach[k - 1] \cup ({chunk[c].next : c \in reach[k - 1]} \ {NoChunk})
  IN  reach[Cardinality(Chunks)]

\* safe_region_free and ownedc_arena_destroy
release(k) ==
  /\ pool = k
  /\ held' = held \ Walk
  /\ pool' = "none" /\ block_size' = 0
  /\ head' = NoChunk /\ current' = NoChunk
  /\ chunk' = [c \in Chunks |-> IF c \in Walk THEN Empty ELSE chunk[c]]
  /\ grants' = {} /\ wrapped' = FALSE

safe_region_free == release("region")

ownedc_arena_destroy == release("arena")

RegNext ==
  \/ \E n \in Sizes, c \in Chunks : safe_region_create(n, c)
  \/ \E n \in Sizes, c \in Chunks \cup {NoChunk} : ownedc_arena_create(n, c)
  \/ \E n \in Sizes : safe_region_alloc(n) \/ ownedc_arena_alloc(n)
  \/ safe_region_free \/ ownedc_arena_destroy

RegSpec == RegInit /\ [][RegNext]_regVars

-----------------------------------------------------------------------------
(* Properties.                                                             *)

\* The bytes a client may use.
Bytes(g) == g.at .. g.at + g.size - 1

\* What clients were given lies inside of the blocks that were allocated and no
\* byte was given out twice, unless a size has wrapped around on the way: the code
\* tests for that nowhere.  The list leads to every block, so that freeing a region
\* or an arena leaves nothing behind.
GrantsDisjoint ==
  /\ RegTypeOK
  /\ held = Walk
  /\ ~wrapped =>
       /\ \A c \in held : chunk[c].used <= chunk[c].capacity
                           /\ chunk[c].capacity = chunk[c].room
       /\ \A g \in grants :
            /\ g.chunk \in held
            /\ g.at + g.size <= chunk[g.chunk].room
            /\ \A h \in grants \ {g} : g.chunk = h.chunk => Bytes(g) \cap Bytes(h) = {}

=============================================================================
