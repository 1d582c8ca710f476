------------------------------- MODULE Memory -------------------------------
(***************************************************************************)
(* SYSMEM's table of blocks (iop/sysmem.cpp) and the heaps HEAPLIB builds  *)
(* out of them (iop/heaplib.cpp): a heap is a SYSMEM block holding a       *)
(* header and an arena, a growable heap takes further blocks as chunks,    *)
(* and an arena is a run of blocks whose free ones form a circular list.   *)
(*                                                                         *)
(* An address and a size are counted in HEAPLIB's units of eight bytes; a  *)
(* heap's header is two units, a chunk's node one, an arena's header two,  *)
(* a block's header one.  memory.header holds the header words found at a  *)
(* unit: a free block's link, an allocated one's tag.  What a caller wrote *)
(* into its own memory, and headers that a merge buried, are left out.     *)
(*                                                                         *)
(* Nothing in either closes interrupts, and callers do not for them.  What *)
(* is said of the records is said of threads that take turns at SYSMEM     *)
(* (Preempted = FALSE), and what is said of a heap, whose calls are one    *)
(* step here, of a heap used by one thread at a time.                      *)
(***************************************************************************)
EXTENDS Integers, Sequences, SequencesExt, FiniteSets, FiniteSetsExt, TLC

CONSTANTS Align,        \* units in SYSMEM's granularity (0x20)
          HeapLow,      \* the window SYSMEM hands out
          HeapHigh,
          MaxBlocks,    \* kMaxBlocks
          HeapSizes,    \* sizes CreateHeap is called with
          PieceSizes,   \* sizes AllocHeapMemory is called with
          RawSizes,     \* sizes a module asks SYSMEM for itself
          MaxHeaps,     \* bound: heaps at a time
          Preempted     \* whether an allocation, between its walk of the
                        \* table and its insertion, gives way to other calls

(* A heap of fewer units than these leaves its arena as the memory was     *)
(* (HeapPrepare's first test); callers ask for more.                       *)
ASSUME MemoryAssumption ==
  /\ Align \in Nat \ {0} /\ MaxBlocks \in Nat \ {0} /\ MaxHeaps \in Nat
  /\ HeapLow \in Nat \ {0} /\ HeapLow % Align = 0
  /\ HeapHigh \in Nat /\ HeapHigh >= HeapLow + Align
  /\ HeapSizes \subseteq {n \in Nat : n >= 8}
  /\ PieceSizes \subseteq Nat \ {0} /\ RawSizes \subseteq Nat \ {0}
  /\ Preempted \in BOOLEAN

VARIABLES blocks,  \* SYSMEM's records, sorted by address
          heaps,   \* heap -> its growth size, mode and chunks, newest first
          memory,  \* the arenas' headers and the blocks' headers
          held,    \* pointers AllocHeapMemory handed out, not yet freed
          raw,     \* blocks a module took from SYSMEM itself
          walked   \* the place a module's allocation has found and not yet
                   \* taken, a sequence of one or none

memoryVars == <<blocks, heaps, memory, held, raw, walked>>

-----------------------------------------------------------------------------
(* SYSMEM *)

Rounded(size) == ((size + Align - 1) \div Align) * Align

LowerBound(address) ==
  Min({i \in 1..Len(blocks) + 1 :
         i <= Len(blocks) => blocks[i].start >= address})

GapBefore(i) ==
  [start |-> IF i = 1 THEN HeapLow ELSE blocks[i-1].start + blocks[i-1].size,
   end   |-> IF i = Len(blocks) + 1 THEN HeapHigh ELSE blocks[i].start]

GapsFor(size) ==
  {i \in 1..Len(blocks) + 1 : GapBefore(i).end - GapBefore(i).start >= size}

Spot(i, start, size) == <<[index |-> i, start |-> start, size |-> size]>>

WalkLowest(size) ==
  IF GapsFor(size) = {} THEN <<>>
  ELSE LET i == Min(GapsFor(size)) IN Spot(i, GapBefore(i).start, size)

WalkHighest(size) ==
  IF GapsFor(size) = {} THEN <<>>
  ELSE LET i == Max(GapsFor(size)) IN Spot(i, GapBefore(i).end - size, size)

WalkAt(size, address) ==
  LET i == LowerBound(address)
      free == /\ address % Align = 0
              /\ HeapLow <= address /\ address < HeapHigh
              /\ size <= HeapHigh - address
              /\ address >= GapBefore(i).start
              /\ size <= GapBefore(i).end - address
  IN  IF free THEN Spot(i, address, size) ELSE <<>>

Modes == {"Lowest", "Highest", "AtAddress"}

Walk(mode, size, address) ==
  CASE mode = "Lowest"    -> WalkLowest(Rounded(size))
    [] mode = "Highest"   -> WalkHighest(Rounded(size))
    [] mode = "AtAddress" -> WalkAt(Rounded(size), address)

(* A place is taken in the table as it is by then; a full table refuses.   *)
InsertBlock(place) ==
  IF place = <<>> \/ Len(blocks) = MaxBlocks
  THEN [at |-> 0, blocks |-> blocks]
  ELSE LET p == place[1]
       IN  [at |-> p.start,
            blocks |-> InsertAt(blocks, p.index, [start |-> p.start, size |-> p.size])]

Allocate(mode, size, address) == InsertBlock(Walk(mode, size, address))

(* Release matches a record's own start. *)
Released(starts) == SelectSeq(blocks, LAMBDA b : b.start \notin starts)

BlockSize(table, address) ==
  (CHOOSE b \in ToSet(table) :
     b.start <= address /\ address < b.start + b.size).size

-----------------------------------------------------------------------------
(* The arena primitives *)

ArenaOf(node) == node + 1
Sentinel(h) == h + 1
Nodes(h) == Append(heaps[h].chunks, Sentinel(h))

HeapPrepare(m, a, size) ==
  LET first == a + 2
      last == first + size - 3
  IN  [arenas |-> (a :> [size |-> size, used |-> 0, rover |-> first])
                    @@ m.arenas,
       header |-> (first :> [next |-> last, size |-> last - first])
                    @@ (last :> [next |-> first, size |-> 0]) @@ m.header]

(* The free list from the rover on, and the step that completes a circuit. *)
Ring(m, a) ==
  LET at[k \in Nat] ==
        IF k = 0 THEN m.arenas[a].rover ELSE m.header[at[k - 1]].next
  IN  at

Circuit(m, a) ==
  LET r == Ring(m, a)
  IN  1..Min({k \in 1..Cardinality(DOMAIN m.header) : r[k] = r[0]})

HeapAlloc(m, a, n) ==
  LET units == n + 1
      r == Ring(m, a)
      fits == {k \in Circuit(m, a) : m.header[r[k]].size >= units}
      prev == r[Min(fits) - 1]
      p == r[Min(fits)]
      size == m.header[p].size
      taken == p + size - units
      rest == IF size = units
              THEN [m.header EXCEPT ![prev].next = m.header[p].next]
              ELSE [m.header EXCEPT ![p].size = size - units]
  IN  IF fits = {}
      THEN [ptr |-> 0, memory |-> m]
      ELSE [ptr |-> taken + 1,
            memory |->
              [arenas |-> [m.arenas EXCEPT ![a].used = @ + units,
                                           ![a].rover = prev],
               header |-> (taken :> [next |-> a, size |-> units]) @@ rest]]

Brackets(p, next, bp) ==
  IF p < next THEN p < bp /\ bp < next ELSE bp > p \/ bp < next

Corrupted(h, p, bp) ==
  \/ bp \in {p, h[p].next}
  \/ p < bp /\ p + h[p].size > bp

(* Variant of MergesWithNext: the sentinel is merged like any free block. *)
MergesWithSentinel(h, p, bp) == bp + h[bp].size = h[p].next

(* The sentinel, of size zero, is never merged. *)
MergesWithNext(h, p, bp) ==
  /\ h[h[p].next].size # 0
  /\ bp + h[bp].size = h[p].next

(* The list with bp between p and its successor, merged where they touch. *)
Linked(h, p, bp) ==
  LET next == h[p].next
      merged == IF MergesWithNext(h, p, bp)
                THEN [size |-> h[bp].size + h[next].size, next |-> h[next].next]
                ELSE [size |-> h[bp].size, next |-> next]
      buried == (IF MergesWithNext(h, p, bp) THEN {next} ELSE {})
                  \cup (IF p + h[p].size = bp THEN {bp} ELSE {})
      linked == IF p + h[p].size = bp
                THEN [h EXCEPT ![p] = [size |-> @.size + merged.size,
                                       next |-> merged.next]]
                ELSE [h EXCEPT ![bp] = merged, ![p].next = bp]
  IN  [b \in DOMAIN h \ buried |-> linked[b]]

HeapFree(m, a, ptr) ==
  LET bp == ptr - 1
      h == m.header
      r == Ring(m, a)
      p == r[Min({k \in Nat \cap (0..Max(Circuit(m, a))) :
                    Corrupted(h, r[k], bp) \/ Brackets(r[k], r[k + 1], bp)})]
      refused == \/ Corrupted(h, p, bp)
                 \/ /\ h[h[p].next].size # 0
                    /\ bp + h[bp].size > h[p].next
  IN  IF refused
      THEN m
      ELSE [arenas |-> [m.arenas EXCEPT ![a].used = @ - h[bp].size,
                                        ![a].rover = p],
            header |-> Linked(h, p, bp)]

-----------------------------------------------------------------------------
(* The calls *)

MemoryInit ==
  /\ blocks = <<>>
  /\ heaps = <<>>
  /\ memory = [arenas |-> <<>>, header |-> <<>>]
  /\ held = {}
  /\ raw = {}
  /\ walked = <<>>

Within(starts, x) ==
  \E b \in ToSet(blocks) :
    b.start \in starts /\ b.start <= x /\ x < b.start + b.size

(* What is left of the memory once these blocks are somebody else's. *)
Forgotten(m, starts) ==
  [arenas |-> [a \in {x \in DOMAIN m.arenas : ~Within(starts, x)}
                 |-> m.arenas[a]],
   header |-> [b \in {x \in DOMAIN m.header : ~Within(starts, x)}
                 |-> m.header[b]]]

(* No lock is held from the walk to the insertion, and no caller closes    *)
(* interrupts around them.                                                 *)
RawWalk(mode, size, address) ==
  /\ walked = <<>> /\ Walk(mode, size, address) # <<>>
  /\ walked' = Walk(mode, size, address)
  /\ UNCHANGED <<blocks, heaps, memory, held, raw>>

RawInsert ==
  LET got == InsertBlock(walked)
  IN  /\ walked # <<>> /\ walked' = <<>>
      /\ blocks' = got.blocks
      /\ raw' = raw \cup ({got.at} \ {0})
      /\ UNCHANGED <<heaps, memory, held>>

RawRelease(start) ==
  /\ start \in raw
  /\ blocks' = Released({start})
  /\ raw' = raw \ {start}
  /\ UNCHANGED <<heaps, memory, held, walked>>

CreateHeap(size, growable, mode) ==
  LET got == Allocate(mode, size, 0)
  IN  /\ Cardinality(DOMAIN heaps) < MaxHeaps
      /\ got.at # 0
      /\ blocks' = got.blocks
      /\ heaps' = (got.at :> [growth |-> IF growable THEN size ELSE 0,
                              mode |-> mode, chunks |-> <<>>]) @@ heaps
      /\ memory' = HeapPrepare(memory, ArenaOf(Sentinel(got.at)), size - 2)
      /\ UNCHANGED <<held, raw, walked>>

DeleteHeap(h) ==
  LET gone == {h} \cup ToSet(heaps[h].chunks)
  IN  /\ blocks' = Released(gone)
      /\ heaps' = [x \in DOMAIN heaps \ {h} |-> heaps[x]]
      /\ memory' = Forgotten(memory, gone)
      /\ held' = {p \in held : ~Within(gone, p)}
      /\ UNCHANGED <<raw, walked>>

(* The chunks that can serve n, newest first and the heap's own arena last. *)
Serving(h, n) ==
  SelectSeq(Nodes(h), LAMBDA c : HeapAlloc(memory, ArenaOf(c), n).ptr # 0)

AllocFromChunk(h, n) ==
  LET got == HeapAlloc(memory, ArenaOf(Head(Serving(h, n))), n)
  IN  /\ Serving(h, n) # <<>>
      /\ memory' = got.memory
      /\ held' = held \cup {got.ptr}
      /\ UNCHANGED <<blocks, heaps, raw, walked>>

GrowHeap(h, n) ==
  LET chunk == Allocate(heaps[h].mode, Max({heaps[h].growth, n + 5}), 0)
      fresh == HeapPrepare(memory, ArenaOf(chunk.at),
                           BlockSize(chunk.blocks, chunk.at) - 1)
      got == HeapAlloc(fresh, ArenaOf(chunk.at), n)
  IN  /\ Serving(h, n) = <<>>
      /\ heaps[h].growth # 0
      /\ chunk.at # 0
      /\ blocks' = chunk.blocks
      /\ heaps' = [heaps EXCEPT ![h].chunks = <<chunk.at>> \o @]
      /\ memory' = got.memory
      /\ held' = held \cup {got.ptr}
      /\ UNCHANGED <<raw, walked>>

(* A grown chunk whose last block comes back is unlinked and released; the *)
(* heap's own arena is not.                                                *)
FreeHeapMemory(h, ptr) ==
  LET tag == memory.header[ptr - 1].next
      left == HeapFree(memory, tag, ptr)
      node == CHOOSE c \in ToSet(Nodes(h)) : ArenaOf(c) = tag
      emptied == /\ left # memory
                 /\ node # Sentinel(h)
                 /\ left.arenas[tag].used = 0
  IN  /\ ptr \in held
      /\ \E c \in ToSet(Nodes(h)) : ArenaOf(c) = tag
      /\ held' = held \ {ptr}
      /\ IF emptied
         THEN /\ heaps' = [heaps EXCEPT ![h].chunks =
                             SelectSeq(@, LAMBDA c : c # node)]
              /\ blocks' = Released({node})
              /\ memory' = Forgotten(left, {node})
         ELSE /\ memory' = left
              /\ UNCHANGED <<heaps, blocks>>
      /\ UNCHANGED <<raw, walked>>

(* A call made while a module's allocation is preempted, or by itself.     *)
Call ==
  \/ \E b \in raw : RawRelease(b)
  \/ \E n \in HeapSizes, g \in BOOLEAN, mode \in {"Lowest", "Highest"} :
       CreateHeap(n, g, mode)
  \/ \E h \in DOMAIN heaps : DeleteHeap(h)
  \/ \E h \in DOMAIN heaps, n \in PieceSizes :
       AllocFromChunk(h, n) \/ GrowHeap(h, n)
  \/ \E h \in DOMAIN heaps, p \in held : FreeHeapMemory(h, p)

MemoryNext ==
  \/ \E mode \in Modes, n \in RawSizes, at \in HeapLow..HeapHigh :
       /\ mode # "AtAddress" => at = HeapLow
       /\ RawWalk(mode, n, at)
  \/ RawInsert
  \/ (walked = <<>> \/ Preempted) /\ Call

-----------------------------------------------------------------------------
(* Properties *)

(* The records are in order, apart from one another and inside the window, *)
(* and there are no more of them than the table has places.                *)
BlocksApart ==
  /\ Len(blocks) <= MaxBlocks
  /\ \A i \in DOMAIN blocks :
       /\ blocks[i].start % Align = 0 /\ blocks[i].size % Align = 0
       /\ blocks[i].size > 0
       /\ GapBefore(i).start <= blocks[i].start
       /\ blocks[i].start + blocks[i].size <= GapBefore(i + 1).end
       /\ GapBefore(i).start >= HeapLow

(* Every heap, chunk and raw block has a record of its own, and no record  *)
(* is without an owner.                                                    *)
RecordsOwned ==
  LET chunks == UNION {ToSet(heaps[h].chunks) : h \in DOMAIN heaps}
  IN  /\ {b.start : b \in ToSet(blocks)} = raw \cup DOMAIN heaps \cup chunks
      /\ Len(blocks) = Cardinality(raw) + Cardinality(DOMAIN heaps)
           + SumFunction([h \in DOMAIN heaps |-> Len(heaps[h].chunks)])

(* An arena's blocks lie end to end from the first to the sentinel; the    *)
(* ones with the arena's tag are exactly the callers' and make up its      *)
(* count; the others are in the free list, each once, in address order,    *)
(* no two side by side, with the rover among them.                         *)
Tiled(a) ==
  LET arena == memory.arenas[a]
      h == memory.header
      last == a + arena.size - 1
      all == {b \in DOMAIN h : a <= b /\ b < last}
      taken == {b \in all : h[b].next = a}
      free == (all \ taken) \cup {last}
      after(S, b) == Min({c \in S : c > b})
  IN  /\ a + 2 \in all /\ last \in DOMAIN h /\ h[last].size = 0
      /\ \A b \in all : b + h[b].size = after(all \cup {last}, b)
      /\ {b + 1 : b \in taken} = {p \in held : a <= p /\ p <= last}
      /\ arena.used = SumFunction([b \in taken |-> h[b].size])
      /\ h[last].next = Min(free)
      /\ \A b \in free \ {last} : h[b].next = after(free, b)
      /\ \A b \in free \ {last} : b + h[b].size \notin free \ {last}
      /\ arena.rover \in free

(***************************************************************************)
(* However heaps grow, shrink and are torn down beside modules that take   *)
(* SYSMEM's blocks for themselves, as long as no call is made in the midst *)
(* of another's allocation, every unit of memory has one owner: the        *)
(* records never overlap and belong to somebody, every arena is tiled by   *)
(* the blocks its callers hold and a maximally merged free list, and no    *)
(* legitimate free is refused (sysmem.cpp:151, heaplib.cpp:152, 186, 306,  *)
(* 352).                                                                   *)
(***************************************************************************)
MemoryHasOneOwner ==
  /\ BlocksApart
  /\ RecordsOwned
  /\ 0 \notin held
  /\ \A h \in DOMAIN heaps : \A c \in ToSet(Nodes(h)) :
       /\ ArenaOf(c) \in DOMAIN memory.arenas
       /\ Tiled(ArenaOf(c))
=============================================================================
