--------------------------- MODULE MemArenaProofs ---------------------------
(***************************************************************************)
(* Proofs about the arena allocator: its invariants hold for every arena   *)
(* size, header size and set of requests.                                  *)
(***************************************************************************)
EXTENDS MemArena, SequenceTheorems, TLAPS

EndOf(b) == b.start + b.size

\* That the regions tile the arena says of neighbours only that they touch; that any
\* two are disjoint, and all lie below the bump pointer, is carried along.
Ordered ==
  /\ \A k \in DOMAIN blocks : EndOf(blocks[k]) <= freeMemory
  /\ \A j, k \in DOMAIN blocks : j < k => EndOf(blocks[j]) <= blocks[k].start

IInv == TypeOK /\ RegionsTile /\ Accounting /\ Ordered

\* The type of an element of blocks.
Block == [start : Nat, size : Nat \ {0}, live : BOOLEAN, data : Seq(Bytes)]

\* The bump pointer stays a number below the arena's end when there is room.
LEMMA BumpInArena ==
  ASSUME IInv, NEW sz \in Requests, HasRoom(sz)
  PROVE  /\ sz \in Ints /\ sz \in Nat \ {0}
         /\ NextFree(sz) \in Nat /\ NextFree(sz) < ArenaSize
         /\ NextFree(sz) = freeMemory + sz
BY ArenaAssumption DEF IInv, TypeOK, HasRoom, NextFree

\* A block of the list is a block, and lies in the arena.
LEMMA BlockInArena ==
  ASSUME IInv, NEW k \in DOMAIN blocks
  PROVE  /\ blocks[k] \in Block
         /\ k \in 1..Len(blocks)
         /\ EndOf(blocks[k]) <= freeMemory /\ freeMemory < ArenaSize
<1>1. blocks \in Seq(Block)
  BY DEF IInv, TypeOK, Block
<1>2. DOMAIN blocks = 1..Len(blocks) /\ blocks[k] \in Block
  BY <1>1
<1>3. EndOf(blocks[k]) <= freeMemory /\ freeMemory < ArenaSize
  BY DEF IInv, Ordered, RegionsTile
<1> QED BY <1>2, <1>3

\* Storing an int changes only the bytes it is stored at.
LEMMA PutIntCorrect ==
  ASSUME NEW m \in [Addresses -> Bytes], NEW at \in Nat, NEW n \in Ints
  PROVE  /\ PutInt(m, at, n) \in [Addresses -> Bytes]
         /\ \A a \in Addresses :
              a < at \/ a >= at + HeaderSize => PutInt(m, at, n)[a] = m[a]
<1>1. \A a \in Region(at, HeaderSize) : IntBytes[n][a - at + 1] \in Bytes
  <2>1. SUFFICES ASSUME NEW a \in Region(at, HeaderSize)
                 PROVE  IntBytes[n][a - at + 1] \in Bytes
    OBVIOUS
  <2>2. a - at + 1 \in 1..HeaderSize
    BY ArenaAssumption DEF Region
  <2>3. IntBytes[n] \in [1..HeaderSize -> Bytes]
    BY IntBytesAssumption
  <2> QED BY <2>2, <2>3
<1>2. \A a \in Addresses : a < at \/ a >= at + HeaderSize => a \notin Region(at, HeaderSize)
  BY ArenaAssumption DEF Region
<1> QED BY <1>1, <1>2 DEF PutInt

\* The bytes of an int in memory are those of some int.
LEMMA IntAtCorrect ==
  ASSUME NEW m \in [Addresses -> Bytes], NEW at \in Nat, at < ArenaSize
  PROVE  IntAt(m, at) \in Ints
<1> DEFINE bs == [i \in 1..HeaderSize |-> m[at + i - 1]]
<1>1. \A i \in 1..HeaderSize : at + i - 1 \in Addresses
  BY ArenaAssumption
<1>2. bs \in [1..HeaderSize -> Bytes]
  BY <1>1
<1>3. PICK n \in Ints : IntBytes[n] = bs
  BY <1>2, IntBytesAssumption
<1>4. \A i \in 1..HeaderSize : m[at + i - 1] = IntBytes[n][i]
  BY <1>3
<1> QED BY <1>4 DEF IntAt

\* The copy of a block reads bytes the model has, and changes none but its target.
LEMMA CopiedCorrect ==
  ASSUME NEW m \in [Addresses -> Bytes], NEW from \in Nat, NEW to \in Nat, from < to,
         to <= ArenaSize + HeaderSize, NEW n \in Int
  PROVE  /\ Copied(m, from, to, n) \in [Addresses -> Bytes]
         /\ \A a \in Addresses : a < to \/ a >= to + n => Copied(m, from, to, n)[a] = m[a]
<1>1. \A a \in Region(to, n) : from + ((a - to) % (to - from)) \in Addresses
  <2>1. SUFFICES ASSUME NEW a \in Region(to, n)
                 PROVE  from + ((a - to) % (to - from)) \in Addresses
    OBVIOUS
  <2>2. a - to \in Int /\ to - from \in Nat \ {0}
    BY DEF Region
  <2>3. (a - to) % (to - from) \in 0..(to - from - 1)
    <3>1. \A x \in Int, y \in Nat \ {0} : x % y \in 0..(y - 1)
      OBVIOUS
    <3> QED BY <2>2, <3>1
  <2>4. from + ((a - to) % (to - from)) \in 0..(ArenaSize + HeaderSize)
    <3>1. PICK r \in 0..(to - from - 1) : r = (a - to) % (to - from)
      BY <2>3
    <3>2. from + r \in 0..(ArenaSize + HeaderSize)
      BY ArenaAssumption
    <3> QED BY <3>1, <3>2
  <2> QED BY <2>4, ArenaAssumption
<1>2. \A a \in Addresses : a < to \/ a >= to + n => a \notin Region(to, n)
  BY ArenaAssumption DEF Region
<1> QED BY <1>1, <1>2 DEF Copied

----------------------------------------------------------------------------
(* The steps. *)

\* The arena starts empty.
LEMMA InitIInv == Init => IInv
<1> SUFFICES ASSUME Init PROVE IInv
  OBVIOUS
<1>1. blocks = <<>> /\ DOMAIN blocks = {} /\ Len(blocks) = 0
  BY DEF Init
<1>2. TypeOK
  BY ArenaAssumption DEF Init, TypeOK
<1>3. RegionsTile /\ Accounting /\ Ordered
  BY <1>1, ArenaAssumption DEF Init, RegionsTile, Accounting, Ordered
<1> QED BY <1>2, <1>3 DEF IInv

\* Giving out one more region, whatever becomes of the old blocks' owners and data.
LEMMA AllocStep ==
  ASSUME IInv, NEW sz \in Requests, HasRoom(sz),
         freeMemory' = NextFree(sz), CountGiven(sz),
         status' \in {"on", "crashed"},
         memory' \in [Addresses -> Bytes],
         NEW bs \in Seq(Block), Len(bs) = Len(blocks),
         \A i \in 1..Len(bs) : bs[i].start = blocks[i].start /\ bs[i].size = blocks[i].size,
         NEW d \in Seq(Bytes),
         blocks' = Append(bs, NewBlock(sz, d))
  PROVE  IInv'
<1> DEFINE n == Len(blocks)
           nb == NewBlock(sz, d)
<1>1. /\ n \in Nat /\ DOMAIN blocks = 1..n
      /\ freeMemory \in Nat /\ outstanding \in Nat /\ maxMemory \in Nat
      /\ \A i \in 1..n : blocks[i].start \in Nat /\ blocks[i].size \in Nat \ {0}
  <2>1. blocks \in Seq(Block)
    BY DEF IInv, TypeOK, Block
  <2>2. \A i \in 1..n : blocks[i] \in Block
    BY <2>1
  <2> QED BY <2>1, <2>2 DEF IInv, TypeOK, Block
<1>2. /\ sz \in Nat \ {0} /\ freeMemory' = freeMemory + sz
      /\ freeMemory' \in Nat /\ freeMemory' < ArenaSize
  BY BumpInArena
<1>3. /\ nb \in Block /\ nb.start = freeMemory /\ nb.size = sz
  BY <1>1, <1>2 DEF NewBlock, Block
<1>4. /\ blocks' \in Seq(Block) /\ Len(blocks') = n + 1
      /\ DOMAIN blocks' = 1..(n + 1)
      /\ \A i \in 1..n : blocks'[i] = bs[i]
      /\ blocks'[n + 1] = nb
  BY <1>1, <1>3
<1> HIDE DEF n, nb
<1>5. \A i \in 1..n : /\ blocks'[i].start = blocks[i].start
                      /\ blocks'[i].size = blocks[i].size
  BY <1>4 DEF n
<1>6. /\ blocks'[n + 1].start = freeMemory
      /\ blocks'[n + 1].size = sz
  BY <1>3, <1>4
<1>7. TypeOK'
  <2>1. outstanding' \in Nat /\ maxMemory' \in Nat
    BY <1>1, <1>2, ArenaAssumption DEF CountGiven, Given
  <2> QED BY <1>2, <1>4, <2>1 DEF TypeOK, Block
<1>8. RegionsTile'
  <2>1. ASSUME NEW k \in 1..(n + 1)
        PROVE  blocks'[k].start + blocks'[k].size =
                 IF k = n + 1 THEN freeMemory' ELSE blocks'[k + 1].start
    <3>1. CASE k = n + 1
      BY <1>2, <1>6, <3>1
    <3>2. CASE k = n
      <4>1. k \in 1..n /\ k # n + 1
        BY <1>1, <3>2
      <4>2. blocks[k].start + blocks[k].size = freeMemory
        BY <1>1, <3>2, <4>1 DEF IInv, RegionsTile, n
      <4> QED BY <1>5, <1>6, <3>2, <4>1, <4>2
    <3>3. CASE k # n /\ k # n + 1
      <4>1. k \in 1..n /\ k + 1 \in 1..n
        BY <1>1, <3>3
      <4>2. blocks[k].start + blocks[k].size = blocks[k + 1].start
        BY <1>1, <3>3, <4>1 DEF IInv, RegionsTile, n
      <4> QED BY <1>5, <3>3, <4>1, <4>2
    <3> QED BY <3>1, <3>2, <3>3
  <2>2. blocks'[1].start = 0
    <3>1. CASE n = 0
      <4>1. blocks = <<>>
        BY <1>1, <3>1 DEF n, IInv, TypeOK
      <4> QED BY <1>6, <3>1, <4>1 DEF IInv, RegionsTile
    <3>2. CASE n # 0
      <4>1. 1 \in 1..n /\ blocks # <<>>
        BY <1>1, <3>2 DEF n
      <4> QED BY <1>5, <4>1 DEF IInv, RegionsTile
    <3> QED BY <3>1, <3>2
  <2>3. blocks' # <<>>
    BY <1>1, <1>4
  <2> QED BY <1>2, <1>4, <2>1, <2>2, <2>3 DEF RegionsTile
<1>9. Accounting'
  <2>1. outstanding = freeMemory + HeaderSize * n /\ maxMemory = outstanding
    BY DEF IInv, Accounting, n
  <2>2. outstanding' = outstanding + (sz + HeaderSize)
    BY DEF CountGiven, Given
  <2>3. HeaderSize * (n + 1) = HeaderSize * n + HeaderSize /\ HeaderSize * n \in Nat
    BY <1>1, ArenaAssumption
  <2>4. PICK p : p = HeaderSize * n
    OBVIOUS
  <2>5. outstanding' = freeMemory' + HeaderSize * (n + 1)
    <3>1. outstanding' = freeMemory + p + sz + HeaderSize
      BY <1>1, <1>2, <2>1, <2>2, <2>3, <2>4, ArenaAssumption
    <3>2. freeMemory' + HeaderSize * (n + 1) = freeMemory + sz + (p + HeaderSize)
      BY <1>2, <2>3, <2>4
    <3> QED BY <1>1, <1>2, <2>3, <2>4, <3>1, <3>2, ArenaAssumption
  <2>6. maxMemory' = outstanding'
    BY <1>1, <1>2, <2>1, <2>2, ArenaAssumption DEF CountGiven
  <2> QED BY <1>4, <2>5, <2>6 DEF Accounting
<1>10. Ordered'
  <2>1. \A k \in 1..n : EndOf(blocks[k]) <= freeMemory
    BY <1>1 DEF IInv, Ordered
  <2>2. \A j, k \in 1..n : j < k => EndOf(blocks[j]) <= blocks[k].start
    BY <1>1 DEF IInv, Ordered
  <2>3. ASSUME NEW k \in 1..(n + 1)
        PROVE  blocks'[k].start + blocks'[k].size <= freeMemory'
    <3>1. CASE k = n + 1
      <4>1. blocks'[k].start + blocks'[k].size = freeMemory + sz
        BY <1>6, <3>1
      <4>2. freeMemory + sz <= freeMemory + sz
        BY <1>1, <1>2
      <4> QED BY <1>2, <4>1, <4>2
    <3>2. CASE k \in 1..n
      <4>1. PICK e \in Nat : e = blocks[k].start + blocks[k].size
        <5>1. blocks[k].start \in Nat /\ blocks[k].size \in Nat
          BY <1>1, <3>2, SMTT(30)
        <5>2. blocks[k].start + blocks[k].size \in Nat
          BY <5>1, SMTT(30)
        <5> QED BY <5>2, Zenon
      <4>2. e <= freeMemory
        <5>1. EndOf(blocks[k]) <= freeMemory
          BY <2>1, <3>2, Zenon
        <5>2. EndOf(blocks[k]) = e
          BY <4>1 DEF EndOf
        <5> QED BY <5>1, <5>2, Zenon
      <4>3. freeMemory \in Nat /\ sz \in Nat
        BY <1>1, <1>2
      <4>4. e <= freeMemory + sz
        BY <4>2, <4>3
      <4>5. blocks'[k].start + blocks'[k].size = e
        BY <1>5, <3>2, <4>1
      <4> QED BY <1>2, <4>4, <4>5
    <3> QED BY <1>1, <3>1, <3>2
  <2>4. ASSUME NEW j \in 1..(n + 1), NEW k \in 1..(n + 1), j < k
        PROVE  blocks'[j].start + blocks'[j].size <= blocks'[k].start
    <3>1. j \in 1..n
      BY <1>1, <2>4
    <3>2. CASE k = n + 1
      BY <1>5, <1>6, <2>1, <3>1, <3>2 DEF EndOf
    <3>3. CASE k \in 1..n
      BY <1>5, <2>2, <2>4, <3>1, <3>3 DEF EndOf
    <3> QED BY <1>1, <3>2, <3>3
  <2> QED BY <1>4, <2>3, <2>4 DEF Ordered, EndOf
<1> QED BY <1>7, <1>8, <1>9, <1>10 DEF IInv

\* The memory after an allocation: nothing but the new header has changed.
LEMMA MallocMemory ==
  ASSUME IInv, NEW sz \in Requests, cMemMalloc(sz)
  PROVE  /\ memory' \in [Addresses -> Bytes]
         /\ \A a \in Addresses :
              a < freeMemory \/ a >= freeMemory + HeaderSize => memory'[a] = memory[a]
<1>1. freeMemory \in Nat /\ memory \in [Addresses -> Bytes]
  BY DEF IInv, TypeOK
<1>2. sz \in Ints
  BY ArenaAssumption
<1>3. memory' = PutInt(memory, freeMemory, sz)
  BY DEF cMemMalloc
<1> QED BY <1>1, <1>2, <1>3, PutIntCorrect

\* A reallocation changes nothing below the bump pointer, whatever the old header holds,
\* and nothing behind the new header and the copy.
LEMMA ReallocMemory ==
  ASSUME IInv, NEW k \in DOMAIN blocks, NEW sz \in Requests, cMemRealloc(k, sz)
  PROVE  /\ memory' \in [Addresses -> Bytes]
         /\ OldSize(k) \in Int
         /\ \A a \in Addresses :
              \/ a < freeMemory
              \/ a >= freeMemory + HeaderSize /\ a >= freeMemory + HeaderSize + OldSize(k)
              => memory'[a] = memory[a]
<1> DEFINE old == blocks[k].start
           m == PutInt(memory, freeMemory, sz)
           n == OldSize(k)
<1>1. freeMemory \in Nat /\ memory \in [Addresses -> Bytes] /\ sz \in Ints
  BY ArenaAssumption DEF IInv, TypeOK
<1>2. /\ m \in [Addresses -> Bytes]
      /\ \A a \in Addresses :
           a < freeMemory \/ a >= freeMemory + HeaderSize => m[a] = memory[a]
  BY <1>1, PutIntCorrect
<1>3. old \in Nat /\ old < freeMemory /\ freeMemory < ArenaSize
  <2>1. blocks[k] \in Block /\ EndOf(blocks[k]) <= freeMemory /\ freeMemory < ArenaSize
    BY BlockInArena
  <2>2. blocks[k].start \in Nat /\ blocks[k].size \in Nat \ {0}
    BY <2>1 DEF Block
  <2> QED BY <1>1, <2>1, <2>2 DEF EndOf
<1>4. n \in Int
  <2>1. old < ArenaSize
    BY <1>1, <1>3, ArenaAssumption
  <2>2. IntAt(memory, old) \in Ints
    BY <1>1, <1>3, <2>1, IntAtCorrect
  <2> QED BY <2>2, ArenaAssumption DEF OldSize
<1>5. CASE n >= 0
  <2>1. memory' = Copied(m, old + HeaderSize, freeMemory + HeaderSize, n)
    BY <1>5 DEF cMemRealloc
  <2>2. /\ old + HeaderSize \in Nat /\ freeMemory + HeaderSize \in Nat
        /\ old + HeaderSize < freeMemory + HeaderSize
        /\ freeMemory + HeaderSize <= ArenaSize + HeaderSize
        /\ freeMemory <= freeMemory + HeaderSize
    BY <1>1, <1>3, ArenaAssumption
  <2> HIDE DEF old, m, n
  <2>3. /\ memory' \in [Addresses -> Bytes]
        /\ \A a \in Addresses :
             a < freeMemory + HeaderSize \/ a >= freeMemory + HeaderSize + n
               => memory'[a] = m[a]
    BY <1>2, <1>4, <2>1, <2>2, CopiedCorrect
  <2>4. \A a \in Addresses : a < freeMemory => a < freeMemory + HeaderSize
    BY <1>1, ArenaAssumption
  <2> QED BY <1>2, <1>4, <2>3, <2>4 DEF n
<1>6. CASE ~(n >= 0)
  <2>1. memory' = m
    BY <1>6 DEF cMemRealloc
  <2> QED BY <1>2, <1>4, <2>1 DEF n
<1> QED BY <1>5, <1>6

\* What realloc hands over to the new owner is a sequence of bytes.
LEMMA MovedDataCorrect ==
  ASSUME IInv, NEW k \in DOMAIN blocks, NEW sz \in Nat
  PROVE  MovedData(k, sz) \in Seq(Bytes)
<1>1. PICK d \in Seq(Bytes) : d = blocks[k].data
  BY BlockInArena DEF Block
<1>2. Len(d) \in Nat
  BY <1>1
<1>3. PICK n \in Nat : n = (IF sz < Len(d) THEN sz ELSE Len(d)) /\ n <= Len(d)
  BY <1>2
<1>4. SubSeq(d, 1, n) \in Seq(Bytes)
  BY <1>1, <1>2, <1>3, SubSeqProperties
<1> QED BY <1>1, <1>3, <1>4 DEF MovedData

\* malloc puts one region behind the others.
LEMMA cMemMallocIInv ==
  ASSUME IInv, NEW sz \in Requests, cMemMalloc(sz)
  PROVE  IInv'
<1>1. memory' \in [Addresses -> Bytes]
  BY MallocMemory
<1>2. blocks \in Seq(Block) /\ status \in {"on", "crashed"}
  BY DEF IInv, TypeOK, Block
<1>3. <<>> \in Seq(Bytes)
  OBVIOUS
<1>4. /\ HasRoom(sz) /\ freeMemory' = NextFree(sz) /\ CountGiven(sz)
      /\ status' = status /\ blocks' = Append(blocks, NewBlock(sz, <<>>))
  BY DEF cMemMalloc
<1> QED BY <1>1, <1>2, <1>3, <1>4, AllocStep

\* Marking or filling a block changes neither where it starts nor how long it is.
LEMMA SameRegions ==
  ASSUME IInv, NEW k \in DOMAIN blocks, NEW b \in Block,
         b.start = blocks[k].start, b.size = blocks[k].size
  PROVE  LET bs == [blocks EXCEPT ![k] = b] IN
         /\ bs \in Seq(Block) /\ Len(bs) = Len(blocks)
         /\ \A i \in 1..Len(bs) :
              bs[i].start = blocks[i].start /\ bs[i].size = blocks[i].size
<1>1. blocks \in Seq(Block)
  BY DEF IInv, TypeOK, Block
<1> QED BY <1>1

\* So does realloc, which never reuses the old one.
LEMMA cMemReallocIInv ==
  ASSUME IInv, NEW k \in DOMAIN blocks, NEW sz \in Requests, cMemRealloc(k, sz)
  PROVE  IInv'
<1>1. memory' \in [Addresses -> Bytes]
  BY ReallocMemory
<1>2. PICK b : b = [blocks[k] EXCEPT !.live = FALSE]
  OBVIOUS
<1>3. b \in Block /\ b.start = blocks[k].start /\ b.size = blocks[k].size
  BY <1>2, BlockInArena DEF Block
<1>4. PICK bs : bs = [blocks EXCEPT ![k] = b]
  OBVIOUS
<1>5. /\ bs \in Seq(Block) /\ Len(bs) = Len(blocks)
      /\ \A i \in 1..Len(bs) :
           bs[i].start = blocks[i].start /\ bs[i].size = blocks[i].size
  BY <1>3, <1>4, SameRegions
<1>6. bs = [blocks EXCEPT ![k].live = FALSE]
  BY <1>2, <1>4
<1>7. PICK d \in Seq(Bytes) : d = MovedData(k, sz)
  BY MovedDataCorrect, ArenaAssumption
<1>8. /\ HasRoom(sz) /\ freeMemory' = NextFree(sz) /\ CountGiven(sz)
      /\ blocks' = Append(bs, NewBlock(sz, d))
  BY <1>6, <1>7 DEF cMemRealloc
<1>9. status' \in {"on", "crashed"}
  BY DEF cMemRealloc, IInv, TypeOK
<1> QED BY <1>1, <1>5, <1>8, <1>9, AllocStep

\* What owners store moves no region.
LEMMA OwnerFillsIInv ==
  ASSUME IInv, NEW k \in DOMAIN blocks, NEW v \in Fills, OwnerFills(k, v)
  PROVE  IInv'
<1>1. v \in Bytes
  BY ArenaAssumption
<1>2. memory' \in [Addresses -> Bytes]
  BY <1>1 DEF OwnerFills, IInv, TypeOK
<1>3. PICK b : b = [blocks[k] EXCEPT !.data = [i \in 1..blocks[k].size |-> v]]
  OBVIOUS
<1>4. b \in Block /\ b.start = blocks[k].start /\ b.size = blocks[k].size
  <2>1. blocks[k] \in Block /\ blocks[k].size \in Nat
    BY BlockInArena DEF Block
  <2>2. [i \in 1..blocks[k].size |-> v] \in Seq(Bytes)
    BY <1>1, <2>1
  <2> QED BY <1>3, <2>1, <2>2 DEF Block
<1>5. blocks' = [blocks EXCEPT ![k] = b]
  BY <1>3 DEF OwnerFills
<1>6. /\ blocks' \in Seq(Block) /\ Len(blocks') = Len(blocks)
      /\ \A i \in 1..Len(blocks') :
           blocks'[i].start = blocks[i].start /\ blocks'[i].size = blocks[i].size
  BY <1>4, <1>5, SameRegions
<1>7. /\ DOMAIN blocks' = 1..Len(blocks) /\ DOMAIN blocks = 1..Len(blocks)
      /\ Len(blocks) \in Nat
      /\ blocks # <<>>
  BY <1>6 DEF IInv, TypeOK
<1>8. UNCHANGED <<status, freeMemory, outstanding, maxMemory>>
  BY DEF OwnerFills
<1>9. TypeOK'
  BY <1>2, <1>6, <1>8 DEF IInv, TypeOK, Block
<1>10. RegionsTile'
  <2>1. ASSUME NEW j \in 1..Len(blocks)
        PROVE  blocks'[j].start + blocks'[j].size =
                 IF j = Len(blocks) THEN freeMemory ELSE blocks'[j + 1].start
    <3>1. blocks[j].start + blocks[j].size =
            IF j = Len(blocks) THEN freeMemory ELSE blocks[j + 1].start
      BY <1>7 DEF IInv, RegionsTile
    <3>2. j # Len(blocks) => j + 1 \in 1..Len(blocks)
      <4>1. PICK n \in Nat : n = Len(blocks)
        BY <1>7
      <4>2. j \in 1..n
        BY <4>1
      <4>3. j # n => j + 1 \in 1..n
        BY <4>2
      <4> QED BY <4>1, <4>3
    <3> QED BY <1>6, <3>1, <3>2
  <2>2. 1 \in 1..Len(blocks)
    BY <1>7
  <2>3. blocks'[1].start = 0
    BY <1>6, <1>7, <2>2 DEF IInv, RegionsTile
  <2>4. blocks' # <<>>
    BY <1>6, <1>7, <2>2
  <2> QED BY <1>6, <1>7, <1>8, <2>1, <2>3, <2>4 DEF IInv, RegionsTile
<1>11. Accounting' /\ Ordered'
  BY <1>6, <1>7, <1>8 DEF IInv, Accounting, Ordered, EndOf
<1> QED BY <1>9, <1>10, <1>11 DEF IInv

\* The process may end and nothing else change.
LEMMA StutterIInv == IInv /\ UNCHANGED <<freeMemory, memory, outstanding, maxMemory, blocks>>
                     /\ status' \in {"on", "crashed"} => IInv'
BY DEF IInv, TypeOK, RegionsTile, Accounting, Ordered

\* Every step keeps the invariant.
LEMMA NextIInv == IInv /\ [Next]_vars => IInv'
<1> SUFFICES ASSUME IInv, [Next]_vars PROVE IInv'
  OBVIOUS
<1>1. CASE \E sz \in Requests : cMemMalloc(sz)
  BY <1>1, cMemMallocIInv
<1>2. CASE \E sz \in Requests : NoRoom(sz)
  BY <1>2, StutterIInv DEF NoRoom, vars, IInv, TypeOK
<1>3. CASE \E k \in DOMAIN blocks, sz \in Requests : cMemRealloc(k, sz)
  BY <1>3, cMemReallocIInv
<1>4. CASE \E k \in DOMAIN blocks : cMemFree(k)
  BY <1>4, StutterIInv DEF cMemFree
<1>5. CASE \E k \in DOMAIN blocks, v \in Fills : OwnerFills(k, v)
  BY <1>5, OwnerFillsIInv
<1>6. CASE UNCHANGED vars
  BY <1>6, StutterIInv DEF vars, IInv, TypeOK
<1> QED BY <1>1, <1>2, <1>3, <1>4, <1>5, <1>6 DEF Next

----------------------------------------------------------------------------
(* Theorems. *)

\* The arena's invariants, strengthened by the order of the regions, are inductive.
THEOREM Invariance == Spec => []IInv
BY InitIInv, NextIInv, PTL DEF Spec

\* Bump pointer, counters, memory and blocks keep their types.
THEOREM TypeCorrect == Spec => []TypeOK
<1>1. IInv => TypeOK
  BY DEF IInv
<1> QED BY <1>1, Invariance, PTL

\* Whatever is allocated, the regions tile the arena up to the bump pointer, inside it.
THEOREM RegionsDisjoint == Spec => []RegionsTile
<1>1. IInv => RegionsTile
  BY DEF IInv
<1> QED BY <1>1, Invariance, PTL

\* The counters agree with the bump pointer and the number of regions.
THEOREM CountersAgree == Spec => []Accounting
<1>1. IInv => Accounting
  BY DEF IInv
<1> QED BY <1>1, Invariance, PTL

\* No owner reaches the inner bytes of another's block.
LEMMA OthersInnerBytes ==
  ASSUME IInv, NEW j \in DOMAIN blocks, NEW k \in DOMAIN blocks, j # k,
         NEW a \in InnerBytes(blocks[k])
  PROVE  a \notin Region(UserStart(blocks[j]), blocks[j].size)
<1> DEFINE bj == blocks[j]
           bk == blocks[k]
<1>1. /\ bj.start \in Nat /\ bj.size \in Nat /\ bk.start \in Nat /\ bk.size \in Nat
      /\ j \in Nat /\ k \in Nat
  BY BlockInArena DEF Block
<1>2. /\ j < k => bj.start + bj.size <= bk.start
      /\ k < j => bk.start + bk.size <= bj.start
  BY DEF IInv, Ordered, EndOf
<1>3. /\ a \in Int /\ bk.start + HeaderSize <= a /\ a <= bk.start + bk.size - 1
  BY <1>1, ArenaAssumption DEF InnerBytes, UserStart
<1> HIDE DEF bj, bk
<1>4. CASE j < k
  BY <1>1, <1>2, <1>3, <1>4, ArenaAssumption DEF Region, UserStart, bj
<1>5. CASE k < j
  BY <1>1, <1>2, <1>3, <1>5, ArenaAssumption DEF Region, UserStart, bj
<1> QED BY <1>1, <1>4, <1>5

\* Below the bump pointer only the owner of a block writes, and there only into it.
LEMMA InnerBytesStep ==
  ASSUME IInv, Next, NEW k \in DOMAIN blocks, NEW a \in InnerBytes(blocks[k])
  PROVE  memory'[a] = memory[a] \/ \E v \in Fills : OwnerFills(k, v)
<1>1. a \in Addresses /\ a < freeMemory
  <2>1. /\ blocks[k].start \in Nat /\ blocks[k].size \in Nat
        /\ blocks[k].start + blocks[k].size <= freeMemory
        /\ freeMemory \in Nat /\ freeMemory < ArenaSize
    BY BlockInArena DEF Block, EndOf, IInv, TypeOK
  <2>2. /\ a \in Int /\ blocks[k].start + HeaderSize <= a
        /\ a <= blocks[k].start + blocks[k].size - 1
    BY <2>1, ArenaAssumption DEF InnerBytes, UserStart
  <2>3. a \in 0..(ArenaSize + HeaderSize) /\ a < freeMemory
    BY <2>1, <2>2, ArenaAssumption
  <2> QED BY <2>3, ArenaAssumption
<1>2. CASE \E sz \in Requests : cMemMalloc(sz)
  BY <1>1, <1>2, MallocMemory
<1>3. CASE \E sz \in Requests : NoRoom(sz)
  BY <1>3 DEF NoRoom, vars
<1>4. CASE \E j \in DOMAIN blocks, sz \in Requests : cMemRealloc(j, sz)
  BY <1>1, <1>4, ReallocMemory
<1>5. CASE \E j \in DOMAIN blocks : cMemFree(j)
  BY <1>5 DEF cMemFree
<1>6. ASSUME NEW j \in DOMAIN blocks, NEW v \in Fills, OwnerFills(j, v)
      PROVE  memory'[a] = memory[a] \/ \E w \in Fills : OwnerFills(k, w)
  <2>1. CASE j = k
    BY <1>6, <2>1
  <2>2. CASE j # k
    <3>1. a \notin Region(UserStart(blocks[j]), blocks[j].size)
      BY <2>2, OthersInnerBytes
    <3> QED BY <1>1, <1>6, <3>1 DEF OwnerFills
  <2> QED BY <2>1, <2>2
<1> QED BY <1>2, <1>3, <1>4, <1>5, <1>6 DEF Next

\* The bytes of a block within its own region are changed by its owner alone.
THEOREM InnerBytesKept == Spec => InnerBytesStable
<1>1. IInv /\ [Next]_vars =>
        [\A k \in DOMAIN blocks : \A a \in InnerBytes(blocks[k]) :
           memory'[a] = memory[a] \/ \E v \in Fills : OwnerFills(k, v)]_vars
  BY InnerBytesStep
<1> QED BY <1>1, Invariance, PTL DEF Spec, InnerBytesStable

\* No step but a realloc that copies too much reaches the byte HeaderSize - 1 behind the
\* arena, or one behind that.
LEMMA OverhangStep ==
  ASSUME IInv, Next, NEW a \in Addresses, a >= ArenaSize + HeaderSize - 1,
         memory'[a] # memory[a]
  PROVE  \E k \in DOMAIN blocks, sz \in Requests : cMemRealloc(k, sz) /\ OldSize(k) > sz
<1>1. /\ a \in Nat /\ freeMemory \in Nat /\ freeMemory < ArenaSize
      /\ ArenaSize \in Nat /\ HeaderSize \in Nat \ {0}
  BY ArenaAssumption DEF IInv, TypeOK, RegionsTile
<1>2. ASSUME NEW sz \in Requests, HasRoom(sz)
      PROVE  sz \in Nat \ {0} /\ a >= freeMemory + sz + HeaderSize
  <2>1. sz \in Nat \ {0} /\ freeMemory + sz < ArenaSize
    BY <1>2, BumpInArena
  <2> QED BY <1>1, <2>1
<1>3. ASSUME NEW sz \in Requests, cMemMalloc(sz)
      PROVE  FALSE
  <2>1. sz \in Nat \ {0} /\ a >= freeMemory + sz + HeaderSize
    BY <1>2, <1>3 DEF cMemMalloc
  <2>2. a >= freeMemory + HeaderSize
    BY <1>1, <2>1
  <2> QED BY <1>3, <2>2, MallocMemory
<1>4. ASSUME NEW k \in DOMAIN blocks, NEW sz \in Requests, cMemRealloc(k, sz)
      PROVE  OldSize(k) > sz
  <2>1. sz \in Nat \ {0} /\ a >= freeMemory + sz + HeaderSize
    BY <1>2, <1>4 DEF cMemRealloc
  <2>2. PICK n \in Int : n = OldSize(k)
    BY <1>4, ReallocMemory
  <2>3. ~(a >= freeMemory + HeaderSize /\ a >= freeMemory + HeaderSize + n)
    BY <1>4, <2>2, ReallocMemory
  <2>4. n > sz
    BY <1>1, <2>1, <2>3
  <2> QED BY <2>2, <2>4
<1>5. ASSUME NEW k \in DOMAIN blocks, NEW v \in Fills, OwnerFills(k, v)
      PROVE  FALSE
  <2>1. /\ blocks[k].start \in Nat /\ blocks[k].size \in Nat
        /\ blocks[k].start + blocks[k].size <= freeMemory
    BY BlockInArena DEF Block, EndOf
  <2>2. a > blocks[k].start + HeaderSize + blocks[k].size - 1
    BY <1>1, <2>1
  <2>3. a \notin Region(UserStart(blocks[k]), blocks[k].size)
    BY <1>1, <2>1, <2>2 DEF Region, UserStart
  <2> QED BY <1>5, <2>3 DEF OwnerFills
<1>6. ~(\E sz \in Requests : NoRoom(sz)) /\ ~(\E k \in DOMAIN blocks : cMemFree(k))
  BY DEF NoRoom, cMemFree, vars
<1> QED BY <1>3, <1>4, <1>5, <1>6 DEF Next

\* The arena's last block reaches fewer than HeaderSize bytes behind the arena, and no
\* owner and no call but a realloc that copies too much writes further out.
THEOREM OverhangIsBounded == Spec => OverhangBounded
<1>1. IInv /\ [Next]_vars =>
        [\A a \in Addresses : a >= ArenaSize + HeaderSize - 1 /\ memory'[a] # memory[a] =>
           \E k \in DOMAIN blocks, sz \in Requests :
             cMemRealloc(k, sz) /\ OldSize(k) > sz]_vars
  BY OverhangStep
<1> QED BY <1>1, Invariance, PTL DEF Spec, OverhangBounded

\* An inner byte of the old block is at its place in the new one after a realloc.
LEMMA MovedByteStep ==
  ASSUME IInv, NEW k \in DOMAIN blocks, NEW sz \in Requests, cMemRealloc(k, sz),
         OldSize(k) >= blocks[k].size, NEW a \in InnerBytes(blocks[k]),
         a < UserStart(blocks[k]) + sz
  PROVE  memory'[a + (freeMemory - blocks[k].start)] = memory[a]
<1> DEFINE old == blocks[k].start
           size == blocks[k].size
           from == old + HeaderSize
           to == freeMemory + HeaderSize
           m == PutInt(memory, freeMemory, sz)
           n == OldSize(k)
           t == a + (freeMemory - old)
<1>1. /\ freeMemory \in Nat /\ freeMemory < ArenaSize
      /\ old \in Nat /\ size \in Nat \ {0} /\ old + size <= freeMemory
      /\ HeaderSize \in Nat \ {0} /\ n \in Int /\ ArenaSize \in Nat
  BY BlockInArena, ReallocMemory, ArenaAssumption DEF Block, EndOf, IInv, TypeOK
<1>2. a \in Int /\ from <= a /\ a <= old + size - 1
  BY <1>1 DEF InnerBytes, UserStart
<1>3. a \in Addresses /\ a < freeMemory
  <2>1. a \in 0..(ArenaSize + HeaderSize) /\ a < freeMemory
    BY <1>1, <1>2
  <2> QED BY <2>1, ArenaAssumption
<1>4. m[a] = memory[a]
  <2>1. memory \in [Addresses -> Bytes] /\ sz \in Ints
    BY ArenaAssumption DEF IInv, TypeOK
  <2> HIDE DEF old, from, to, t
  <2> QED BY <1>1, <1>3, <2>1, PutIntCorrect
<1>5. memory' = Copied(m, from, to, n)
  <2>1. n >= 0
    BY <1>1
  <2> QED BY <2>1 DEF cMemRealloc
<1> HIDE DEF m, n
<1>6. t \in Addresses /\ t \in Region(to, n)
  <2>1. sz \in Nat \ {0} /\ freeMemory + sz < ArenaSize
    BY BumpInArena DEF cMemRealloc
  <2>2. n >= size /\ a < old + HeaderSize + sz
    BY DEF n, UserStart
  <2>3. t \in 0..(ArenaSize + HeaderSize)
    BY <1>1, <1>2, <2>1, <2>2
  <2>4. to <= t /\ t <= to + n - 1
    BY <1>1, <1>2, <2>2
  <2> QED BY <1>1, <1>2, <2>3, <2>4, ArenaAssumption DEF Region
<1>7. memory'[t] = m[from + ((t - to) % (to - from))]
  BY <1>5, <1>6 DEF Copied
<1>8. from + ((t - to) % (to - from)) = a
  <2>1. PICK r \in Nat, d \in Nat \ {0} : r = a - from /\ d = freeMemory - old /\ r < d
    <3>1. a - from \in Nat /\ freeMemory - old \in Nat \ {0} /\ a - from < freeMemory - old
      BY <1>1, <1>2
    <3> QED BY <3>1
  <2>2. t - to = r /\ to - from = d
    BY <1>1, <1>2, <2>1
  <2>3. r % d = r
    BY <2>1
  <2>4. from + r = a
    BY <1>1, <1>2, <2>1
  <2> QED BY <2>2, <2>3, <2>4
<1> QED BY <1>4, <1>7, <1>8

\* A realloc hands the inner bytes of the old block over to the new one, as many as it
\* has room for, whether or not the new header overwrites the end of the old block:
\* unless the old header, itself overwritten, shows fewer bytes than it should.
THEOREM MovedBytesArrive == Spec => MovedBytesKept
<1>1. IInv /\ [Next]_vars =>
        [\A k \in DOMAIN blocks, sz \in Requests :
           cMemRealloc(k, sz) /\ OldSize(k) >= blocks[k].size =>
             \A a \in InnerBytes(blocks[k]) :
               a < UserStart(blocks[k]) + sz =>
                 memory'[a + (freeMemory - blocks[k].start)] = memory[a]]_vars
  BY MovedByteStep
<1> QED BY <1>1, Invariance, PTL DEF Spec, MovedBytesKept
=============================================================================
