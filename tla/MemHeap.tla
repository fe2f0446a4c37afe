------------------------------- MODULE MemHeap -------------------------------
(***************************************************************************)
(* The allocator of the SQLITE_MEM_USE_MALLOC build (os_composite_mem.c).  *)
(* Each block is a region from malloc() whose first word holds the size    *)
(* asked for.  Memory is counted in words of sizeof(int).                  *)
(*                                                                         *)
(* malloc() and free() are external: malloc() returns any place that is    *)
(* clear of the regions not yet freed, or null.  Behind the last address   *)
(* nothing is mapped.                                                      *)
(*                                                                         *)
(* X_Slip is a mutated form of X.                                          *)
(***************************************************************************)
EXTENDS Integers, Sequences, FiniteSetsExt

CONSTANTS
  Top,        \* the heap's last address
  Requests,   \* the sizes asked for
  Fills,      \* what owners store
  Garbage,    \* what fresh memory holds
  IntMax,     \* the largest int; the smallest is -IntMax - 1
  MaxBlocks   \* bound: no more blocks are ever made

ASSUME HeapAssumption ==
  /\ Top \in Nat /\ IntMax \in Nat /\ MaxBlocks \in Nat
  /\ Requests \subseteq Nat \ {0}
  /\ Fills \subseteq Int /\ Garbage \in Int

VARIABLES
  status,       \* "on", or "crashed"
  memory,
  outstanding,  \* composite_mem_app_data.outstanding_memory
  maxMemory,    \* composite_mem_app_data.max_memory
  blocks,       \* history: every block made, what became of it, what its owner stored
  overrun,      \* history: a copy has run past the end of its block
  peak          \* history: the highest value outstanding ever had

counters == <<outstanding, maxMemory, peak>>
vars == <<status, memory, outstanding, maxMemory, blocks, overrun, peak>>

Addresses == 0..Top
Words == Fills \union Requests \union {Garbage}

Region(start, size) == start..(start + size)          \* the header and the block
UserWords(start, size) == (start + 1)..(start + size)

Live == {k \in DOMAIN blocks : blocks[k].state = "live"}
RegionOf(k) == Region(blocks[k].start, blocks[k].size)

\* What malloc(sz + sizeof(int)) may return.
Fresh(at, sz) ==
  /\ Region(at, sz) \subseteq Addresses
  /\ \A k \in Live : Region(at, sz) \cap RegionOf(k) = {}

Given(sz) == sz + 1

\* The second argument of max() is an int.
Narrowed(n) == ((n + IntMax + 1) % (2 * (IntMax + 1))) - (IntMax + 1)
Highest_Slip(a, b) == IF a < Narrowed(b) THEN a ELSE Narrowed(b)  \* the lower of the two
Highest(a, b) == IF a > Narrowed(b) THEN a ELSE Narrowed(b)

\* What _malloc_region counts, with max(), and what _free_region takes back, without.
CountMove(given, back) ==
  /\ outstanding' = outstanding + given - back
  /\ maxMemory' = Highest(outstanding + given, maxMemory)
  /\ peak' = IF outstanding + given > peak THEN outstanding + given ELSE peak

\* A copy from the first word on.  The target is no later than the source, or is
\* clear of it, so no word is overwritten before it is read.
Copied_Slip(m, from, to, n) ==  \* one word too many
  [a \in Addresses |-> IF a \in to..(to + n) THEN m[from + (a - to)] ELSE m[a]]
Copied(m, from, to, n) ==
  [a \in Addresses |-> IF a \in to..(to + n - 1) THEN m[from + (a - to)] ELSE m[a]]

Header_Slip(m, at, sz) == [m EXCEPT ![at] = sz + 1]  \* the header's own word is counted in
Header(m, at, sz) == [m EXCEPT ![at] = sz]

NewBlock(at, sz, data) == [start |-> at, size |-> sz, state |-> "live", data |-> data]

Init ==
  /\ status = "on"
  /\ memory = [a \in Addresses |-> Garbage]
  /\ outstanding = 0 /\ maxMemory = 0 /\ peak = 0
  /\ blocks = <<>>
  /\ overrun = FALSE

Running == status = "on" /\ Len(blocks) < MaxBlocks

cMemMalloc(sz, at) ==
  /\ Running /\ Fresh(at, sz)
  /\ memory' = Header(memory, at, sz)
  /\ CountMove(Given(sz), 0)
  /\ blocks' = Append(blocks, NewBlock(at, sz, <<>>))
  /\ UNCHANGED <<status, overrun>>

\* The header is stored without looking whether malloc() returned null.
NullRegion ==
  /\ Running
  /\ status' = "crashed"
  /\ UNCHANGED <<memory, counters, blocks, overrun>>

\* free() is called directly, not through _free_region: no counter is touched.
FreeCounts_Slip(k) ==  \* through _free_region
  /\ outstanding' = outstanding - Given(memory[blocks[k].start])
  /\ UNCHANGED <<maxMemory, peak>>
FreeCounts(k) == UNCHANGED counters

cMemFree(k) ==
  /\ status = "on" /\ k \in Live
  /\ FreeCounts(k)
  /\ blocks' = [blocks EXCEPT ![k].state = "freed"]
  /\ UNCHANGED <<status, memory, overrun>>

\* The size of the old block, from its header (cMemSize), is how much is copied,
\* whatever the size of the new one.
cMemSize(k) == memory[blocks[k].start]

Kept(d, n) == SubSeq(d, 1, IF n < Len(d) THEN n ELSE Len(d))

CopyCount_Slip(old, new) == old - 1  \* one word too few
CopyCount(old, new) == old

\* The copy stays on the heap; its source and its target are behind their headers.
Mapped(from, to, n) == 0 <= n /\ from + n <= Top + 1 /\ to + n <= Top + 1

\* The old region's header is read a second time, after the copy, to count it.
cMemRealloc(k, newSize, at) ==
  LET old == blocks[k].start
      n == CopyCount(cMemSize(k), newSize)
      m == Copied(Header(memory, at, newSize), old + 1, at + 1, n) IN
  /\ Running /\ k \in Live
  /\ Fresh(at, newSize) /\ Mapped(old + 1, at + 1, n)
  /\ memory' = m
  /\ CountMove(Given(newSize), Given(m[old]))
  /\ blocks' = Append([blocks EXCEPT ![k].state = "moved"],
                      NewBlock(at, newSize, Kept(blocks[k].data, newSize)))
  /\ overrun' = (overrun \/ n > newSize)
  /\ UNCHANGED status

\* A size read from an overwritten header makes the copy leave the heap.
ReallocRunsOff(k, newSize, at) ==
  /\ Running /\ k \in Live
  /\ Fresh(at, newSize)
  /\ ~Mapped(blocks[k].start + 1, at + 1, CopyCount(cMemSize(k), newSize))
  /\ status' = "crashed" /\ overrun' = TRUE
  /\ UNCHANGED <<memory, counters, blocks>>

\* The owner of a block fills it.
OwnerFills(k, v) ==
  LET b == blocks[k] IN
  /\ status = "on" /\ k \in Live
  /\ memory' = [a \in Addresses |-> IF a \in UserWords(b.start, b.size) THEN v ELSE memory[a]]
  /\ blocks' = [blocks EXCEPT ![k].data = [i \in 1..b.size |-> v]]
  /\ UNCHANGED <<status, counters, overrun>>

Next ==
  \/ \E sz \in Requests, at \in Addresses : cMemMalloc(sz, at)
  \/ NullRegion
  \/ \E k \in DOMAIN blocks : cMemFree(k)
  \/ \E k \in DOMAIN blocks, sz \in Requests, at \in Addresses : cMemRealloc(k, sz, at)
  \/ \E k \in DOMAIN blocks, sz \in Requests, at \in Addresses : ReallocRunsOff(k, sz, at)
  \/ \E k \in DOMAIN blocks, v \in Fills : OwnerFills(k, v)

Spec == Init /\ [][Next]_vars

----------------------------------------------------------------------------
(* What this build keeps true. *)

TypeOK ==
  /\ status \in {"on", "crashed"}
  /\ memory \in [Addresses -> Words]
  /\ outstanding \in Int /\ maxMemory \in Int /\ peak \in Nat
  /\ blocks \in Seq([start : Addresses, size : Requests,
                     state : {"live", "freed", "moved"}, data : Seq(Fills)])
  /\ overrun \in BOOLEAN

\* As long as no realloc has made a block smaller, this build does what the arena does
\* not: the header of a live block holds its size, and what an owner stored is there,
\* also in the block realloc moved it to.
HeapSound ==
  ~overrun => \A k \in Live :
    LET b == blocks[k] IN
    /\ memory[b.start] = b.size
    /\ \A i \in 1..Len(b.data) : memory[b.start + i] = b.data[i]

\* outstanding_memory is too high by every block that cMemFree has returned: only
\* realloc gives anything back, and then exactly what was given for the old block.
CounterMissesFrees ==
  ~overrun => outstanding =
    MapThenSumSet(LAMBDA k : Given(blocks[k].size),
                  {k \in DOMAIN blocks : blocks[k].state # "moved"})

\* max_memory is never below outstanding_memory, and it is the highest value that had
\* as long as that is an int.
PeakCovers ==
  ~overrun => /\ outstanding <= maxMemory
              /\ peak <= IntMax => maxMemory = peak

\* A word of a live block is changed by its owner, or by a realloc that made another
\* block smaller, and then lies behind that one, no further than the difference.
DamageBounded ==
  [][\A k \in Live : \A a \in RegionOf(k) : memory'[a] # memory[a] =>
       \/ \E v \in Fills : OwnerFills(k, v)
       \/ \E j \in Live, sz \in Requests, at \in Addresses :
            /\ cMemRealloc(j, sz, at)
            /\ at + sz < a /\ a <= at + cMemSize(j)]_vars
=============================================================================
