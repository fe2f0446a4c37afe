------------------------------ MODULE MemArena ------------------------------
(***************************************************************************)
(* The default allocator (os_composite_mem.c without                       *)
(* SQLITE_MEM_USE_MALLOC): a bump pointer into a static arena.  A region   *)
(* starts with an int that holds the size asked for, and the block handed  *)
(* out starts behind that int.  The bump pointer moves by the size alone.  *)
(*                                                                         *)
(* Memory is a function from addresses to bytes, 0 being the start of the  *)
(* arena; it goes on behind the arena, where other static data lies.  What *)
(* the owners of the blocks store is the environment's action.             *)
(*                                                                         *)
(* X_Slip is a mutated form of X.                                          *)
(***************************************************************************)
EXTENDS Integers, Sequences

CONSTANTS
  ArenaSize,   \* MEMORY_ARENA_SIZE
  HeaderSize,  \* sizeof(int)
  Bytes,
  Fills,       \* those of them that owners store
  Ints,        \* the values of an int
  IntBytes,    \* the bytes an int is stored as
  Zero,        \* the byte static memory starts with
  Requests,    \* the sizes asked for
  Addresses    \* the bytes from the arena's start on that the model follows

ASSUME ArenaAssumption ==
  /\ ArenaSize \in Nat \ {0} /\ HeaderSize \in Nat \ {0}
  /\ Requests \subseteq Ints \cap (Nat \ {0})
  /\ Ints \subseteq Int
  /\ Zero \in Bytes /\ Fills \subseteq Bytes
  /\ Addresses \subseteq Nat /\ 0..(ArenaSize + HeaderSize) \subseteq Addresses
ASSUME IntBytesAssumption ==
  /\ IntBytes \in [Ints -> [1..HeaderSize -> Bytes]]
  /\ \A bs \in [1..HeaderSize -> Bytes] : \E n \in Ints : IntBytes[n] = bs
  /\ \A m, n \in Ints : IntBytes[m] = IntBytes[n] => m = n

VARIABLES
  status,       \* "on", or "crashed"
  freeMemory,   \* _free_memory
  memory,
  outstanding,  \* composite_mem_app_data.outstanding_memory
  maxMemory,    \* composite_mem_app_data.max_memory
  blocks        \* history: what was handed out, in order, and what its owner stored

vars == <<status, freeMemory, memory, outstanding, maxMemory, blocks>>

Region(start, size) == start..(start + size - 1)
UserStart(b) == b.start + HeaderSize

\* The value of an int stored at an address.
IntAt(m, at) == CHOOSE n \in Ints : \A i \in 1..HeaderSize : m[at + i - 1] = IntBytes[n][i]

PutInt(m, at, n) ==
  [a \in Addresses |->
     IF a \in Region(at, HeaderSize) THEN IntBytes[n][a - at + 1] ELSE m[a]]

\* A copy towards higher addresses, byte by byte from the first one on: where the
\* two ranges overlap, bytes already copied are copied again.
Copied_Slip(m, from, to, n) ==  \* from the new block to the old
  [a \in Addresses |-> IF a \in Region(from, n) THEN m[a + (to - from)] ELSE m[a]]
Copied(m, from, to, n) ==
  [a \in Addresses |->
     IF a \in Region(to, n) THEN m[from + ((a - to) % (to - from))] ELSE m[a]]

\* "make sure that we have enough memory left": for the size, not for the header.
HasRoom_Slip(sz) == freeMemory < ArenaSize
HasRoom(sz) == freeMemory + sz < ArenaSize

NextFree_Slip(sz) == freeMemory + sz - HeaderSize  \* the header is taken out of the size
NextFree(sz) == freeMemory + sz

Given_Slip(sz) == sz  \* the header is not counted
Given(sz) == sz + HeaderSize

CountGiven(sz) ==
  /\ outstanding' = outstanding + Given(sz)
  /\ maxMemory' = IF outstanding' > maxMemory THEN outstanding' ELSE maxMemory

NewBlock(sz, data) == [start |-> freeMemory, size |-> sz, live |-> TRUE, data |-> data]

Init ==
  /\ status = "on"
  /\ freeMemory = 0
  /\ memory = [a \in Addresses |-> Zero]
  /\ outstanding = 0 /\ maxMemory = 0
  /\ blocks = <<>>

cMemMalloc(sz) ==
  /\ status = "on"
  /\ HasRoom(sz)
  /\ freeMemory' = NextFree(sz)
  /\ memory' = PutInt(memory, freeMemory, sz)
  /\ CountGiven(sz)
  /\ blocks' = Append(blocks, NewBlock(sz, <<>>))
  /\ UNCHANGED status

\* A request there is no room for is answered with a null pointer.
NoRoom(sz) ==
  /\ status = "on"
  /\ ~HasRoom(sz)
  /\ UNCHANGED vars

\* The new header is stored before the old block is read, and as many bytes are
\* copied as the old header says.  A negative count, converted to size_t, runs off
\* the program's memory.
OldSize(k) == IntAt(memory, blocks[k].start)

MovedData(k, newSize) ==
  LET d == blocks[k].data IN SubSeq(d, 1, IF newSize < Len(d) THEN newSize ELSE Len(d))

cMemRealloc(k, newSize) ==
  LET old == blocks[k].start IN
  /\ status = "on" /\ blocks[k].live
  /\ HasRoom(newSize)
  /\ freeMemory' = NextFree(newSize)
  /\ CountGiven(newSize)
  /\ IF OldSize(k) >= 0
     THEN /\ memory' = Copied(PutInt(memory, freeMemory, newSize), old + HeaderSize,
                              freeMemory + HeaderSize, OldSize(k))
          /\ UNCHANGED status
     ELSE /\ memory' = PutInt(memory, freeMemory, newSize)
          /\ status' = "crashed"
  /\ blocks' = Append([blocks EXCEPT ![k].live = FALSE],
                      NewBlock(newSize, MovedData(k, newSize)))

\* Outside a malloc() build, free() is called all the same, with an address that
\* malloc() never returned.  A null pointer is let through.
cMemFree(k) ==
  /\ status = "on" /\ blocks[k].live
  /\ status' = "crashed"
  /\ UNCHANGED <<freeMemory, memory, outstanding, maxMemory, blocks>>

\* The owner of a block fills it, from its first byte to its last.
OwnerFills(k, v) ==
  LET b == blocks[k] IN
  /\ status = "on" /\ b.live
  /\ memory' = [a \in Addresses |-> IF a \in Region(UserStart(b), b.size) THEN v ELSE memory[a]]
  /\ blocks' = [blocks EXCEPT ![k].data = [i \in 1..b.size |-> v]]
  /\ UNCHANGED <<status, freeMemory, outstanding, maxMemory>>

Next ==
  \/ \E sz \in Requests : cMemMalloc(sz)
  \/ \E sz \in Requests : NoRoom(sz)
  \/ \E k \in DOMAIN blocks, sz \in Requests : cMemRealloc(k, sz)
  \/ \E k \in DOMAIN blocks : cMemFree(k)
  \/ \E k \in DOMAIN blocks, v \in Fills : OwnerFills(k, v)

Spec == Init /\ [][Next]_vars

----------------------------------------------------------------------------
(* What the arena keeps true. *)

TypeOK ==
  /\ status \in {"on", "crashed"}
  /\ freeMemory \in Nat /\ outstanding \in Nat /\ maxMemory \in Nat
  /\ memory \in [Addresses -> Bytes]
  /\ blocks \in Seq([start : Nat, size : Nat \ {0}, live : BOOLEAN, data : Seq(Bytes)])

\* The regions lie one behind the other from the start of the arena to the bump
\* pointer, which never reaches the arena's end: _malloc_region hands out no byte of
\* a region twice, and no region that ends outside.
RegionsTile ==
  /\ freeMemory < ArenaSize
  /\ \A k \in DOMAIN blocks :
       LET end == blocks[k].start + blocks[k].size IN
       end = IF k = Len(blocks) THEN freeMemory ELSE blocks[k + 1].start
  /\ blocks # <<>> => blocks[1].start = 0
  /\ blocks = <<>> => freeMemory = 0

\* outstanding_memory is all that was given out, headers included, and max_memory its
\* highest value: nothing is ever given back.
Accounting ==
  /\ outstanding = freeMemory + HeaderSize * Len(blocks)
  /\ maxMemory = outstanding

\* The bytes of a block that lie in its own region are its owner's alone: no call of
\* the allocator and no other owner, staying inside the block it was given, changes
\* them.  The last HeaderSize bytes of a block are not among them.
InnerBytes(b) == UserStart(b)..(b.start + b.size - 1)

InnerBytesStable ==
  [][\A k \in DOMAIN blocks : \A a \in InnerBytes(blocks[k]) :
       memory'[a] = memory[a] \/ \E v \in Fills : OwnerFills(k, v)]_vars

\* The room that is left is compared with the size alone (_malloc_region), so the last
\* block reaches behind the arena: but never HeaderSize bytes far, whoever writes, unless
\* a realloc copies more than the new block can hold.
OverhangBounded ==
  [][\A a \in Addresses : a >= ArenaSize + HeaderSize - 1 /\ memory'[a] # memory[a] =>
       \E k \in DOMAIN blocks, sz \in Requests : cMemRealloc(k, sz) /\ OldSize(k) > sz]_vars

\* cMemRealloc stores the new header first, perhaps over the end of the block it is about
\* to copy, and counts by a header that may be overwritten.  The inner bytes of the old
\* block get into the new one, as far as that goes, unless the old header shows too few.
MovedBytesKept ==
  [][\A k \in DOMAIN blocks, sz \in Requests :
       cMemRealloc(k, sz) /\ OldSize(k) >= blocks[k].size =>
         \A a \in InnerBytes(blocks[k]) :
           a < UserStart(blocks[k]) + sz =>
             memory'[a + (freeMemory - blocks[k].start)] = memory[a]]_vars

----------------------------------------------------------------------------
(* What SQLite asks of an allocator and this one does not do. *)

\* xMalloc and xRealloc "must work like the malloc(), realloc() and free() functions
\* from the standard C library" (sqlite3.h:1484): what an owner stores in its block
\* stays there until the owner changes it or gives the block up.
ContentsKept ==
  \A k \in DOMAIN blocks :
    LET b == blocks[k] IN
    b.live => \A i \in 1..Len(b.data) : memory[UserStart(b) + i - 1] = b.data[i]
=============================================================================
