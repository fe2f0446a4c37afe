---------------------------- MODULE MemHeapProofs ----------------------------
(***************************************************************************)
(* Proofs about the allocator of the malloc() build, for every size of     *)
(* heap, every set of requests and every place malloc() may give.          *)
(***************************************************************************)
EXTENDS MemHeap, SequenceTheorems, SetLemmas

Block == [start : Addresses, size : Requests, state : {"live", "freed", "moved"},
          data : Seq(Fills)]

\* Regions of live blocks lie in the heap and share no word; no owner has stored more
\* than its block holds.
Disjoint ==
  /\ \A k \in Live : RegionOf(k) \subseteq Addresses
  /\ \A j, k \in Live : j # k => RegionOf(j) \cap RegionOf(k) = {}
  /\ \A k \in Live : Len(blocks[k].data) <= blocks[k].size

\* The highest value is known as long as it is an int.
HighestKnown ==
  ~overrun => /\ outstanding <= maxMemory /\ outstanding <= peak
              /\ peak <= IntMax => maxMemory = peak

IInv == TypeOK /\ Disjoint /\ HeapSound /\ HighestKnown

\* Every word is an integer.
LEMMA WordsAreInts == Words \subseteq Int
BY HeapAssumption DEF Words

LEMMA LiveBlock ==
  ASSUME TypeOK, NEW k \in Live
  PROVE  /\ k \in DOMAIN blocks /\ blocks[k] \in Block
         /\ blocks[k].start \in Nat /\ blocks[k].size \in Nat \ {0}
         /\ blocks[k].state = "live" /\ blocks[k].data \in Seq(Fills)
<1>1. blocks \in Seq(Block)
  BY DEF TypeOK, Block
<1>2. k \in DOMAIN blocks /\ blocks[k].state = "live"
  BY DEF Live
<1>3. blocks[k] \in Block
  BY <1>1, <1>2
<1>4. blocks[k].start \in Addresses /\ blocks[k].size \in Requests /\ blocks[k].data \in Seq(Fills)
  BY <1>3 DEF Block
<1>5. blocks[k].start \in Nat /\ blocks[k].size \in Nat \ {0}
  <2>1. Addresses \subseteq Nat /\ Requests \subseteq Nat \ {0}
    BY HeapAssumption DEF Addresses
  <2> QED BY <1>4, <2>1
<1> QED BY <1>2, <1>3, <1>4, <1>5

----------------------------------------------------------------------------
(* What the steps do to the memory. *)

\* A header that is stored changes one word.
LEMMA HeaderCorrect ==
  ASSUME NEW mem \in [Addresses -> Words], NEW at \in Addresses, NEW sz \in Requests
  PROVE  /\ Header(mem, at, sz) \in [Addresses -> Words]
         /\ Header(mem, at, sz)[at] = sz
         /\ \A a \in Addresses : a # at => Header(mem, at, sz)[a] = mem[a]
BY DEF Header, Words

\* A copy that stays on the heap changes the words of its target to those of its source.
LEMMA CopiedCorrect ==
  ASSUME NEW mem \in [Addresses -> Words], NEW from \in Nat, NEW to \in Nat, NEW n \in Int,
         Mapped(from, to, n)
  PROVE  /\ Copied(mem, from, to, n) \in [Addresses -> Words]
         /\ \A a \in Addresses : a < to \/ a >= to + n => Copied(mem, from, to, n)[a] = mem[a]
         /\ \A i \in 0..(n - 1) : Copied(mem, from, to, n)[to + i] = mem[from + i]
<1> USE HeapAssumption
<1>1. \A a \in to..(to + n - 1) : from + (a - to) \in Addresses
  BY DEF Mapped, Addresses
<1>2. \A i \in 0..(n - 1) : to + i \in Addresses /\ to + i \in to..(to + n - 1)
                            /\ from + ((to + i) - to) = from + i
  BY DEF Mapped, Addresses
<1>3. Copied(mem, from, to, n) \in [Addresses -> Words]
  BY <1>1 DEF Copied
<1>4. \A a \in Addresses : a < to \/ a >= to + n => Copied(mem, from, to, n)[a] = mem[a]
  BY DEF Copied, Addresses
<1>5. \A i \in 0..(n - 1) : Copied(mem, from, to, n)[to + i] = mem[from + i]
  BY <1>2 DEF Copied
<1> QED BY <1>3, <1>4, <1>5

\* cMemRealloc: the words before the new block's region and behind the copy stay.
LEMMA ReallocMemory ==
  ASSUME TypeOK, NEW k \in Live, NEW sz \in Requests, NEW at \in Addresses,
         cMemRealloc(k, sz, at)
  PROVE  /\ memory' \in [Addresses -> Words]
         /\ cMemSize(k) \in Nat
         /\ memory'[at] = sz
         /\ \A a \in Addresses : a < at \/ a > at + cMemSize(k) => memory'[a] = memory[a]
         /\ \A i \in 1..cMemSize(k) :
              memory'[at + i] = Header(memory, at, sz)[blocks[k].start + i]
<1> USE HeapAssumption
<1>1. PICK n : n = cMemSize(k)
  OBVIOUS
<1>2. PICK h : h = Header(memory, at, sz)
  OBVIOUS
<1>3. PICK old : old = blocks[k].start
  OBVIOUS
<1>4. /\ memory' = Copied(h, old + 1, at + 1, n)
      /\ Mapped(old + 1, at + 1, n)
  BY <1>1, <1>2, <1>3 DEF cMemRealloc, CopyCount
<1>5. /\ h \in [Addresses -> Words] /\ h[at] = sz
      /\ \A a \in Addresses : a # at => h[a] = memory[a]
  BY <1>2, HeaderCorrect DEF TypeOK
<1>6. old \in Addresses /\ old \in Nat /\ at \in Nat
  BY <1>3, LiveBlock DEF Addresses, Block
<1>7. n \in Nat
  <2>1. n \in Int
    BY <1>1, <1>3, <1>6, WordsAreInts DEF cMemSize, TypeOK
  <2> QED BY <2>1, <1>4 DEF Mapped
<1>8. /\ memory' \in [Addresses -> Words]
      /\ \A a \in Addresses : a < at + 1 \/ a >= at + 1 + n => memory'[a] = h[a]
      /\ \A i \in 0..(n - 1) : memory'[at + 1 + i] = h[old + 1 + i]
  <2>1. old + 1 \in Nat /\ at + 1 \in Nat /\ n \in Int
    BY <1>6, <1>7
  <2> QED BY <1>4, <1>5, <2>1, CopiedCorrect
<1>9. \A a \in Addresses : a < at \/ a > at + n => memory'[a] = memory[a]
  <2> SUFFICES ASSUME NEW a \in Addresses, a < at \/ a > at + n PROVE memory'[a] = memory[a]
    OBVIOUS
  <2>1. a \in Nat
    BY DEF Addresses
  <2>2. a # at /\ (a < at + 1 \/ a >= at + 1 + n)
    BY <2>1, <1>6, <1>7
  <2> QED BY <2>2, <1>5, <1>8
<1>10. ASSUME NEW i \in 1..n PROVE memory'[at + i] = h[old + i]
  <2>1. i - 1 \in 0..(n - 1)
    BY <1>7
  <2>2. memory'[at + 1 + (i - 1)] = h[old + 1 + (i - 1)]
    BY <2>1, <1>8
  <2>3. at + 1 + (i - 1) = at + i /\ old + 1 + (i - 1) = old + i
    BY <1>6, <1>7
  <2> QED BY <2>2, <2>3
<1>11. memory'[at] = sz
  BY <1>5, <1>6, <1>7, <1>8
<1> QED BY <1>1, <1>2, <1>3, <1>7, <1>8, <1>9, <1>10, <1>11

----------------------------------------------------------------------------
(* The words of the live blocks. *)

\* A word of a live block is changed by its owner, or by the copy of a realloc that made
\* another block smaller, and then lies behind that one, no further than the difference.
LEMMA WordsKept ==
  ASSUME IInv, [Next]_vars
  PROVE  \A k \in Live : \A a \in RegionOf(k) : memory'[a] # memory[a] =>
           \/ \E v \in Fills : OwnerFills(k, v)
           \/ \E j \in Live, sz \in Requests, at \in Addresses :
                cMemRealloc(j, sz, at) /\ at + sz < a /\ a <= at + cMemSize(j)
<1> USE HeapAssumption
<1> SUFFICES ASSUME NEW k \in Live, NEW a \in RegionOf(k), memory'[a] # memory[a]
             PROVE  \/ \E v \in Fills : OwnerFills(k, v)
                    \/ \E j \in Live, sz \in Requests, at \in Addresses :
                         cMemRealloc(j, sz, at) /\ at + sz < a /\ a <= at + cMemSize(j)
  OBVIOUS
<1>1. a \in Addresses /\ a \in Nat
  BY DEF IInv, Disjoint, Addresses
<1>2. ASSUME NEW sz \in Requests, NEW at \in Addresses, cMemMalloc(sz, at) PROVE FALSE
  <2>1. a # at
    <3>1. at \in Region(at, sz)
      <4>1. at \in Nat /\ sz \in Nat
        BY DEF Addresses
      <4> QED BY <4>1 DEF Region
    <3> QED BY <1>2, <3>1 DEF cMemMalloc, Fresh
  <2> QED BY <1>1, <1>2, <2>1, HeaderCorrect, SMTT(30) DEF cMemMalloc, IInv, TypeOK
<1>3. ASSUME NEW j \in Live, NEW sz \in Requests, NEW at \in Addresses, cMemRealloc(j, sz, at)
      PROVE  at + sz < a /\ a <= at + cMemSize(j)
  <2>1. a \notin Region(at, sz)
    BY <1>3 DEF cMemRealloc, Fresh
  <2>2. ~ (a < at \/ a > at + cMemSize(j)) /\ cMemSize(j) \in Nat
    BY <1>1, <1>3, ReallocMemory DEF IInv
  <2> QED BY <2>1, <2>2, <1>1 DEF Region, Addresses
<1>4. ASSUME NEW j \in DOMAIN blocks, NEW v \in Fills, OwnerFills(j, v) PROVE j = k
  <2>1. j \in Live /\ a \in UserWords(blocks[j].start, blocks[j].size)
    BY <1>1, <1>4 DEF OwnerFills, IInv, TypeOK
  <2>2. a \in RegionOf(j)
    BY <2>1, LiveBlock DEF RegionOf, Region, UserWords, IInv
  <2> QED BY <2>1, <2>2 DEF IInv, Disjoint
<1>5. CASE NullRegion \/ UNCHANGED vars \/ \E j \in DOMAIN blocks : cMemFree(j)
  BY <1>5 DEF NullRegion, vars, cMemFree
<1>6. ASSUME NEW j \in DOMAIN blocks, NEW sz \in Requests, NEW at \in Addresses,
             ReallocRunsOff(j, sz, at)
      PROVE  FALSE
  BY <1>6 DEF ReallocRunsOff
<1>7. ASSUME NEW j \in DOMAIN blocks, NEW sz \in Requests, NEW at \in Addresses,
             cMemRealloc(j, sz, at)
      PROVE  j \in Live
  BY <1>7 DEF cMemRealloc
<1> QED BY <1>2, <1>3, <1>4, <1>5, <1>6, <1>7 DEF Next

----------------------------------------------------------------------------
(* The steps preserve the invariant. *)

\* A new block, where malloc() has put it, joins the live ones.
LEMMA NewBlockDisjoint ==
  ASSUME TypeOK, Disjoint, NEW L \in SUBSET Live, NEW at \in Addresses, NEW sz \in Requests,
         Fresh(at, sz), NEW d \in Seq(Fills), Len(d) <= sz,
         NEW n, n = Len(blocks) + 1, Live' = L \union {n},
         \A k \in L : /\ blocks'[k].start = blocks[k].start /\ blocks'[k].size = blocks[k].size
                      /\ blocks'[k].data = blocks[k].data,
         blocks'[n] = NewBlock(at, sz, d)
  PROVE  Disjoint'
<1>1. n \notin L
  BY LiveBlock DEF TypeOK
<1>2. \A k \in L : RegionOf(k)' = RegionOf(k)
  BY DEF RegionOf, Region
<1>3. RegionOf(n)' = Region(at, sz)
  BY DEF RegionOf, NewBlock
<1>4. blocks'[n].data = d /\ blocks'[n].size = sz
  BY DEF NewBlock
<1>5. \A k \in L : Region(at, sz) \cap RegionOf(k) = {}
  BY DEF Fresh
<1>6. Region(at, sz) \subseteq Addresses
  BY DEF Fresh
<1>7. \A k \in Live' : RegionOf(k)' \subseteq Addresses
  BY <1>2, <1>3, <1>6 DEF Disjoint
<1>8. \A j, k \in Live' : j # k => RegionOf(j)' \cap RegionOf(k)' = {}
  BY <1>2, <1>3, <1>5 DEF Disjoint
<1>9. \A k \in Live' : Len(blocks'[k].data) <= blocks'[k].size
  BY <1>4 DEF Disjoint
<1> QED BY <1>7, <1>8, <1>9 DEF Disjoint

\* Blocks that stay live and the words they lie in.
LEMMA SoundKept ==
  ASSUME TypeOK, HeapSound, ~overrun, NEW k \in Live,
         blocks'[k].start = blocks[k].start, blocks'[k].size = blocks[k].size,
         blocks'[k].data = blocks[k].data, Len(blocks[k].data) <= blocks[k].size,
         \A a \in RegionOf(k) : memory'[a] = memory[a]
  PROVE  /\ memory'[blocks'[k].start] = blocks'[k].size
         /\ \A i \in 1..Len(blocks'[k].data) :
              memory'[blocks'[k].start + i] = blocks'[k].data[i]
<1>1. PICK b : b = blocks[k]
  OBVIOUS
<1>2. b.start \in Nat /\ b.size \in Nat /\ b.data \in Seq(Fills) /\ Len(b.data) <= b.size
  BY <1>1, LiveBlock
<1>3. Len(b.data) \in Nat
  BY <1>2
<1>4. memory[b.start] = b.size /\ \A i \in 1..Len(b.data) : memory[b.start + i] = b.data[i]
  BY <1>1 DEF HeapSound
<1>5. RegionOf(k) = b.start..(b.start + b.size)
  BY <1>1 DEF RegionOf, Region
<1>6. b.start \in RegionOf(k) /\ \A i \in 1..Len(b.data) : b.start + i \in RegionOf(k)
  BY <1>2, <1>3, <1>5
<1> QED BY <1>1, <1>4, <1>6

\* What blocks is after a block has been appended.
LEMMA BlocksAppended ==
  ASSUME NEW bs \in Seq(Block), NEW b \in Block
  PROVE  /\ Append(bs, b) \in Seq(Block)
         /\ DOMAIN Append(bs, b) = DOMAIN bs \union {Len(bs) + 1}
         /\ Append(bs, b)[Len(bs) + 1] = b
         /\ \A k \in DOMAIN bs : Append(bs, b)[k] = bs[k]
         /\ Len(bs) + 1 \notin DOMAIN bs
OBVIOUS

\* A block that is not live any more.
LEMMA BlockRetired ==
  ASSUME TypeOK, NEW k \in DOMAIN blocks, NEW s \in {"freed", "moved"}, NEW bs,
         bs = [blocks EXCEPT ![k].state = s]
  PROVE  /\ bs \in Seq(Block) /\ DOMAIN bs = DOMAIN blocks /\ Len(bs) = Len(blocks)
         /\ bs[k].state = s
         /\ \A j \in DOMAIN blocks : j # k => bs[j] = blocks[j]
<1>1. blocks \in Seq(Block) /\ DOMAIN blocks = 1..Len(blocks)
  BY DEF TypeOK, Block
<1>2. PICK b : b = [blocks[k] EXCEPT !.state = s]
  OBVIOUS
<1>3. blocks[k] \in Block
  BY <1>1
<1>4. b \in Block /\ b.state = s
  BY <1>2, <1>3 DEF Block
<1>5. bs = [blocks EXCEPT ![k] = b]
  BY <1>2
<1>6. bs \in Seq(Block) /\ DOMAIN bs = DOMAIN blocks /\ Len(bs) = Len(blocks)
  BY <1>1, <1>4, <1>5
<1>7. bs[k] = b /\ \A j \in DOMAIN blocks : j # k => bs[j] = blocks[j]
  BY <1>1, <1>5
<1> QED BY <1>4, <1>6, <1>7

----------------------------------------------------------------------------
(* The counters. *)

\* The narrowing leaves an int as it is.
LEMMA NarrowedInt ==
  ASSUME NEW n \in 0..IntMax
  PROVE  Narrowed(n) = n
<1>1. (n + IntMax + 1) % (2 * (IntMax + 1)) = n + IntMax + 1
  BY HeapAssumption
<1> QED BY <1>1, HeapAssumption DEF Narrowed

LEMMA NarrowedType ==
  ASSUME NEW n \in Int
  PROVE  Narrowed(n) \in Int
<1>1. (n + IntMax + 1) % (2 * (IntMax + 1)) \in Int
  BY HeapAssumption
<1> QED BY <1>1, HeapAssumption DEF Narrowed

\* Counting what is given, and something back, keeps the counters' types and bounds.
LEMMA CountMoveCorrect ==
  ASSUME TypeOK, NEW given \in Nat, NEW back \in Int, CountMove(given, back)
  PROVE  /\ outstanding' \in Int /\ maxMemory' \in Int /\ peak' \in Nat
         /\ HighestKnown /\ ~overrun /\ back >= 0 =>
              /\ outstanding' <= maxMemory' /\ outstanding' <= peak'
              /\ peak' <= IntMax => maxMemory' = peak'
<1> USE HeapAssumption
<1>1. PICK up : up = outstanding + given
  OBVIOUS
<1>2. PICK mx : mx = Narrowed(maxMemory)
  OBVIOUS
<1>3. outstanding \in Int /\ maxMemory \in Int /\ peak \in Nat /\ up \in Int /\ mx \in Int
  BY <1>1, <1>2, NarrowedType DEF TypeOK
<1>4. /\ outstanding' = up - back
      /\ maxMemory' = IF up > mx THEN up ELSE mx
      /\ peak' = IF up > peak THEN up ELSE peak
  <2>1. outstanding' = up - back
    BY <1>1, <1>3 DEF CountMove
  <2>3. maxMemory' = Highest(up, maxMemory)
    BY <1>1, Zenon DEF CountMove
  <2>4. peak' = IF up > peak THEN up ELSE peak
    BY <1>1, Zenon DEF CountMove
  <2>2. Highest(up, maxMemory) = IF up > mx THEN up ELSE mx
    BY <1>2 DEF Highest
  <2> QED BY <2>1, <2>2, <2>3, <2>4
<1>5. ASSUME HighestKnown, ~overrun, back >= 0
      PROVE  /\ outstanding' <= maxMemory' /\ outstanding' <= peak'
             /\ peak' <= IntMax => maxMemory' = peak'
  <2>1. peak <= IntMax => mx = peak
    BY <1>2, <1>3, <1>5, NarrowedInt DEF HighestKnown
  <2> QED BY <1>3, <1>4, <1>5, <2>1
<1> QED BY <1>3, <1>4, <1>5

----------------------------------------------------------------------------
(* What outstanding_memory counts: everything but the blocks that were moved. *)

Counted(bs) == {k \in DOMAIN bs : bs[k].state # "moved"}
Sizes(bs) == [k \in DOMAIN bs |-> Given(bs[k].size)]
Total(bs) == MapThenSumSet(LAMBDA k : Given(bs[k].size), Counted(bs))

\* Of finitely many blocks finitely many are counted, each with its size and its header.
LEMMA CountedFacts ==
  ASSUME NEW bs \in Seq(Block)
  PROVE  /\ IsFiniteSet(Counted(bs)) /\ Counted(bs) \subseteq DOMAIN bs
         /\ \A k \in DOMAIN bs : Sizes(bs)[k] = Given(bs[k].size) /\ Sizes(bs)[k] \in Nat
<1>1. DOMAIN bs = 1..Len(bs) /\ Len(bs) \in Nat
  OBVIOUS
<1>2. IsFiniteSet(DOMAIN bs)
  <2>1. PICK n \in Nat : DOMAIN bs = 1..n
    BY <1>1
  <2> QED BY <2>1, FS_Interval
<1>3. Counted(bs) \subseteq DOMAIN bs
  BY DEF Counted
<1>4. IsFiniteSet(Counted(bs))
  BY <1>2, <1>3, FS_Subset
<1>5. ASSUME NEW k \in DOMAIN bs PROVE Sizes(bs)[k] = Given(bs[k].size) /\ Sizes(bs)[k] \in Nat
  <2>1. bs[k] \in Block
    OBVIOUS
  <2>2. bs[k].size \in Nat
    BY <2>1, HeapAssumption DEF Block
  <2> QED BY <2>2 DEF Sizes, Given
<1> QED BY <1>3, <1>4, <1>5

\* The sum is the last entry of a table.
LEMMA TotalIsTable ==
  ASSUME NEW bs \in Seq(Block)
  PROVE  \E t : Table(t, Sizes(bs), Counted(bs)) /\ Total(bs) = t[Counted(bs)]
<1> DEFINE S == Counted(bs)
           iter == CHOOSE it : it = [s \in SUBSET S |->
                     IF s = {} THEN 0 ELSE Given(bs[Some(s)].size) + it[s \ {Some(s)}]]
<1>1. Total(bs) = iter[S]
  BY DEF Total, MapThenSumSet, MapThenFoldSet, Some
<1>2. \A k \in S : Sizes(bs)[k] = Given(bs[k].size) /\ Sizes(bs)[k] \in Int
  BY CountedFacts
<1>3. ASSUME NEW it, NEW s \in SUBSET S
      PROVE  SumOf(it, Sizes(bs), s) =
               IF s = {} THEN 0 ELSE Given(bs[Some(s)].size) + it[s \ {Some(s)}]
  <2>1. s # {} => Some(s) \in S
    BY SomeElement
  <2> QED BY <1>2, <2>1 DEF SumOf
<1>4. ASSUME NEW it
      PROVE  Table(it, Sizes(bs), S) <=>
               it = [s \in SUBSET S |->
                      IF s = {} THEN 0 ELSE Given(bs[Some(s)].size) + it[s \ {Some(s)}]]
  <2>1. [s \in SUBSET S |-> SumOf(it, Sizes(bs), s)] =
          [s \in SUBSET S |->
             IF s = {} THEN 0 ELSE Given(bs[Some(s)].size) + it[s \ {Some(s)}]]
    BY <1>3
  <2> QED BY <2>1 DEF Table
<1>5. PICK u : Table(u, Sizes(bs), S)
  BY <1>2, CountedFacts, TableExists
<1>6. u = [s \in SUBSET S |->
             IF s = {} THEN 0 ELSE Given(bs[Some(s)].size) + u[s \ {Some(s)}]]
  BY <1>4, <1>5
<1>7. iter = [s \in SUBSET S |->
                IF s = {} THEN 0 ELSE Given(bs[Some(s)].size) + iter[s \ {Some(s)}]]
  BY <1>6
<1>8. Table(iter, Sizes(bs), S)
  BY <1>4, <1>7
<1> QED BY <1>1, <1>8

\* The same blocks with the same sizes make the same sum.
LEMMA TotalSame ==
  ASSUME NEW bs \in Seq(Block), NEW cs \in Seq(Block), Counted(bs) = Counted(cs),
         \A k \in Counted(bs) : bs[k].size = cs[k].size
  PROVE  Total(bs) = Total(cs)
<1>1. PICK t : Table(t, Sizes(bs), Counted(bs)) /\ Total(bs) = t[Counted(bs)]
  BY TotalIsTable
<1>2. PICK u : Table(u, Sizes(cs), Counted(bs)) /\ Total(cs) = u[Counted(bs)]
  BY TotalIsTable
<1>3. \A k \in Counted(bs) : Sizes(bs)[k] = Sizes(cs)[k]
  BY CountedFacts
<1>4. IsFiniteSet(Counted(bs))
  BY CountedFacts
<1>5. t[Counted(bs)] = u[Counted(bs)]
  BY <1>1, <1>2, <1>3, <1>4, TablesAgree
<1> QED BY <1>1, <1>2, <1>5

\* One block more adds its size and its header.
LEMMA TotalOfOneMore ==
  ASSUME NEW bs \in Seq(Block), NEW cs \in Seq(Block), NEW k \in Counted(bs),
         Counted(cs) = Counted(bs) \ {k}, \A j \in Counted(cs) : bs[j].size = cs[j].size
  PROVE  /\ Total(bs) = Given(bs[k].size) + Total(cs)
         /\ Total(cs) \in Int /\ Given(bs[k].size) \in Int
<1>1. PICK t : Table(t, Sizes(bs), Counted(bs)) /\ Total(bs) = t[Counted(bs)]
  BY TotalIsTable
<1>2. PICK u : Table(u, Sizes(cs), Counted(cs)) /\ Total(cs) = u[Counted(cs)]
  BY TotalIsTable
<1>3. /\ IsFiniteSet(Counted(bs)) /\ Counted(bs) \subseteq DOMAIN bs
      /\ IsFiniteSet(Counted(cs)) /\ Counted(cs) \subseteq DOMAIN cs
      /\ Counted(cs) \in SUBSET Counted(bs)
  BY CountedFacts
<1>4. \A j \in Counted(bs) : Sizes(bs)[j] = Given(bs[j].size) /\ Sizes(bs)[j] \in Int
  BY <1>3, CountedFacts
<1>5. \A j \in Counted(cs) : Sizes(cs)[j] = Given(cs[j].size) /\ Sizes(cs)[j] \in Int
  BY <1>3, CountedFacts
<1>6. \A j \in Counted(cs) : Sizes(bs)[j] = Sizes(cs)[j]
  <2>1. \A j \in Counted(cs) : Given(bs[j].size) = Given(cs[j].size)
    OBVIOUS
  <2> QED BY <1>3, <1>4, <1>5, <2>1
<1>7. t[Counted(bs)] = Sizes(bs)[k] + t[Counted(bs) \ {k}]
  <2>1. PICK g : g = Sizes(bs)
    OBVIOUS
  <2>2. PICK S : S = Counted(bs)
    OBVIOUS
  <2>3. IsFiniteSet(S) /\ Table(t, g, S) /\ \A x \in S : g[x] \in Int
    BY <1>1, <1>3, <1>4, <2>1, <2>2
  <2>4. \A x \in S : t[S] = g[x] + t[S \ {x}]
    BY <2>3, TermOfTable
  <2> QED BY <2>1, <2>2, <2>4
<1>8. t[Counted(cs)] = u[Counted(cs)]
  BY <1>1, <1>2, <1>3, <1>6, TablesAgree
<1>9. u[Counted(cs)] \in Int
  BY <1>2, <1>3, <1>5, TermOfTable
<1> QED BY <1>1, <1>2, <1>3, <1>7, <1>8, <1>9, <1>4

\* CounterMissesFrees, with a name for the sum.
CounterIsTotal == ~overrun => outstanding = Total(blocks)

LEMMA CounterAsTotal == CounterMissesFrees <=> CounterIsTotal
BY DEF CounterMissesFrees, CounterIsTotal, Total, Counted

----------------------------------------------------------------------------
(* The steps. *)

LEMMA MallocStep ==
  ASSUME IInv, NEW sz \in Requests, NEW at \in Addresses, cMemMalloc(sz, at)
  PROVE  IInv'
<1> USE HeapAssumption
<1>1. PICK n : n = Len(blocks) + 1
  OBVIOUS
<1>2. blocks \in Seq(Block) /\ NewBlock(at, sz, <<>>) \in Block
  BY DEF IInv, TypeOK, Block, NewBlock
<1>3. /\ blocks' \in Seq(Block)
      /\ DOMAIN blocks' = DOMAIN blocks \union {n} /\ n \notin DOMAIN blocks
      /\ blocks'[n] = NewBlock(at, sz, <<>>)
      /\ \A k \in DOMAIN blocks : blocks'[k] = blocks[k]
  BY <1>1, <1>2, BlocksAppended DEF cMemMalloc
<1>4. Live' = Live \union {n}
  BY <1>3 DEF Live, NewBlock
<1>5. /\ memory' \in [Addresses -> Words] /\ memory'[at] = sz
      /\ \A a \in Addresses : a # at => memory'[a] = memory[a]
  BY HeaderCorrect DEF cMemMalloc, IInv, TypeOK
<1>6. TypeOK'
  <2>1. Given(sz) \in Nat
    BY DEF Given
  <2>2. outstanding' \in Int /\ maxMemory' \in Int /\ peak' \in Nat
    BY <2>1, CountMoveCorrect DEF cMemMalloc, IInv
  <2>3. status' = status /\ overrun' = overrun
    BY DEF cMemMalloc
  <2> QED BY <1>3, <1>5, <2>2, <2>3 DEF IInv, TypeOK, Block
<1>7. Disjoint'
  <2>1. PICK L : L = Live
    OBVIOUS
  <2>2. <<>> \in Seq(Fills) /\ Len(<<>>) <= sz
    OBVIOUS
  <2>3. L \in SUBSET Live /\ Live' = L \union {n}
    BY <1>4, <2>1
  <2>4. \A k \in L : blocks'[k] = blocks[k]
    BY <1>3, <2>1 DEF Live
  <2>5. TypeOK /\ Disjoint /\ Fresh(at, sz)
    BY DEF IInv, cMemMalloc
  <2>6. blocks'[n] = NewBlock(at, sz, <<>>)
    BY <1>3
  <2>7. \A k \in L : /\ blocks'[k].start = blocks[k].start /\ blocks'[k].size = blocks[k].size
                     /\ blocks'[k].data = blocks[k].data
    BY <2>4
  <2> HIDE DEF IInv
  <2> QED BY <1>1, <2>2, <2>3, <2>5, <2>6, <2>7, NewBlockDisjoint
<1>8. HeapSound'
  <2> SUFFICES ASSUME ~overrun', NEW k \in Live'
               PROVE  /\ memory'[blocks'[k].start] = blocks'[k].size
                      /\ \A i \in 1..Len(blocks'[k].data) :
                           memory'[blocks'[k].start + i] = blocks'[k].data[i]
    BY DEF HeapSound
  <2>1. ~overrun
    BY DEF cMemMalloc
  <2>2. CASE k = n
    BY <1>3, <1>5, <2>2 DEF NewBlock
  <2>3. CASE k \in Live
    <3>1. blocks'[k] = blocks[k]
      BY <1>3, <2>3 DEF Live
    <3>2. at \in Region(at, sz)
      <4>1. at \in Nat /\ sz \in Nat
        BY DEF Addresses
      <4> QED BY <4>1 DEF Region
    <3>3. \A a \in RegionOf(k) : a \in Addresses /\ a # at
      BY <2>3, <3>2 DEF IInv, Disjoint, cMemMalloc, Fresh
    <3>4. \A a \in RegionOf(k) : memory'[a] = memory[a]
      BY <1>5, <3>3
    <3>5. Len(blocks[k].data) <= blocks[k].size
      BY <2>3 DEF IInv, Disjoint
    <3> QED BY <2>1, <2>3, <3>1, <3>4, <3>5, SoundKept DEF IInv
  <2> QED BY <1>4, <2>2, <2>3
<1>9. HighestKnown'
  <2>1. Given(sz) \in Nat
    BY DEF Given
  <2> QED BY <2>1, CountMoveCorrect DEF cMemMalloc, IInv, HighestKnown
<1> QED BY <1>6, <1>7, <1>8, <1>9 DEF IInv

LEMMA FreeStep ==
  ASSUME IInv, NEW k \in DOMAIN blocks, cMemFree(k)
  PROVE  IInv'
<1> USE HeapAssumption
<1>1. k \in Live /\ status' = status /\ memory' = memory /\ overrun' = overrun
  BY DEF cMemFree
<1>2. /\ blocks' \in Seq(Block) /\ DOMAIN blocks' = DOMAIN blocks /\ blocks'[k].state = "freed"
      /\ \A j \in DOMAIN blocks : j # k => blocks'[j] = blocks[j]
  BY BlockRetired DEF cMemFree, IInv
<1>3. Live' = Live \ {k} /\ \A j \in Live' : blocks'[j] = blocks[j]
  BY <1>2 DEF Live
<1>4. outstanding' = outstanding /\ maxMemory' = maxMemory /\ peak' = peak
  BY DEF cMemFree, FreeCounts, counters
<1>5. TypeOK'
  BY <1>1, <1>2, <1>4 DEF IInv, TypeOK, Block
<1>6. Disjoint'
  <2>1. \A j \in Live' : j \in Live /\ RegionOf(j)' = RegionOf(j) /\ blocks'[j] = blocks[j]
    BY <1>3 DEF RegionOf
  <2> QED BY <2>1 DEF IInv, Disjoint
<1>7. HeapSound'
  <2>1. \A j \in Live' : j \in Live /\ blocks'[j] = blocks[j]
    BY <1>3
  <2> QED BY <1>1, <2>1 DEF IInv, HeapSound
<1>8. HighestKnown'
  BY <1>1, <1>4 DEF IInv, HighestKnown
<1> QED BY <1>5, <1>6, <1>7, <1>8 DEF IInv

LEMMA FillStep ==
  ASSUME IInv, NEW k \in DOMAIN blocks, NEW v \in Fills, OwnerFills(k, v)
  PROVE  IInv'
<1> USE HeapAssumption
<1>1. PICK b : b = blocks[k]
  OBVIOUS
<1>2. PICK d : d = [i \in 1..b.size |-> v]
  OBVIOUS
<1>3. /\ k \in Live /\ b \in Block /\ b.start \in Nat /\ b.size \in Nat \ {0} /\ b.state = "live"
      /\ blocks \in Seq(Block)
  BY <1>1, LiveBlock DEF OwnerFills, IInv, TypeOK, Block
<1>4. d \in Seq(Fills) /\ Len(d) = b.size /\ \A i \in 1..b.size : d[i] = v
  <2>1. PICK n \in Nat : n = b.size
    BY <1>3
  <2>2. d = [i \in 1..n |-> v]
    BY <1>2, <2>1
  <2>3. d \in Seq(Fills) /\ Len(d) = n /\ \A i \in 1..n : d[i] = v
    BY <2>2
  <2> QED BY <2>1, <2>3
<1>5. PICK c : c = [b EXCEPT !.data = d]
  OBVIOUS
<1>6. c \in Block /\ c.start = b.start /\ c.size = b.size /\ c.state = "live" /\ c.data = d
  BY <1>3, <1>4, <1>5 DEF Block
<1>7. blocks' = [blocks EXCEPT ![k] = c]
  BY <1>1, <1>2, <1>5 DEF OwnerFills
<1>8. /\ blocks' \in Seq(Block) /\ DOMAIN blocks' = DOMAIN blocks /\ blocks'[k] = c
      /\ \A j \in DOMAIN blocks : j # k => blocks'[j] = blocks[j]
  BY <1>3, <1>6, <1>7
<1>9. Live' = Live /\ \A j \in Live : RegionOf(j)' = RegionOf(j)
  <2>1. Live' = Live
    BY <1>1, <1>3, <1>6, <1>8 DEF Live
  <2>2. \A j \in DOMAIN blocks : blocks'[j].start = blocks[j].start /\ blocks'[j].size = blocks[j].size
    BY <1>1, <1>6, <1>8
  <2> QED BY <2>1, <2>2 DEF RegionOf, Live
<1>10. /\ memory' \in [Addresses -> Words]
       /\ \A a \in Addresses : memory'[a] = IF a \in UserWords(b.start, b.size) THEN v ELSE memory[a]
  BY <1>1 DEF OwnerFills, IInv, TypeOK, Words
<1>11. TypeOK'
  BY <1>8, <1>10 DEF OwnerFills, counters, IInv, TypeOK, Block
<1>12. Disjoint'
  <2>1. \A j \in Live : Len(blocks'[j].data) <= blocks'[j].size
    <3>1. Len(blocks'[k].data) <= blocks'[k].size
      BY <1>3, <1>4, <1>6, <1>8
    <3>2. \A j \in Live : j # k => blocks'[j] = blocks[j]
      BY <1>8 DEF Live
    <3> QED BY <3>1, <3>2 DEF IInv, Disjoint
  <2> QED BY <1>9, <2>1 DEF IInv, Disjoint
<1>13. HeapSound'
  <2> SUFFICES ASSUME ~overrun', NEW j \in Live
               PROVE  /\ memory'[blocks'[j].start] = blocks'[j].size
                      /\ \A i \in 1..Len(blocks'[j].data) :
                           memory'[blocks'[j].start + i] = blocks'[j].data[i]
    BY <1>9 DEF HeapSound
  <2>1. ~overrun
    BY DEF OwnerFills
  <2>2. RegionOf(k) \subseteq Addresses /\ RegionOf(k) = b.start..(b.start + b.size)
    BY <1>1, <1>3 DEF IInv, Disjoint, RegionOf, Region
  <2>3. CASE j = k
    <3>1. b.start \in Addresses /\ b.start \notin UserWords(b.start, b.size)
      BY <1>3, <2>2 DEF UserWords
    <3>2. memory'[b.start] = b.size
      BY <1>1, <1>3, <1>10, <2>1, <3>1 DEF IInv, HeapSound
    <3>3. \A i \in 1..b.size : b.start + i \in Addresses /\ b.start + i \in UserWords(b.start, b.size)
      BY <1>3, <2>2 DEF UserWords
    <3>4. \A i \in 1..b.size : memory'[b.start + i] = v
      BY <1>10, <3>3
    <3> QED BY <1>4, <1>6, <1>8, <2>3, <3>2, <3>4
  <2>4. CASE j # k
    <3>1. blocks'[j] = blocks[j]
      BY <1>8, <2>4 DEF Live
    <3>2. UserWords(b.start, b.size) \subseteq RegionOf(k)
      BY <1>3, <2>2 DEF UserWords
    <3>3. \A a \in RegionOf(j) : a \in Addresses /\ a \notin UserWords(b.start, b.size)
      BY <1>3, <2>4, <3>2 DEF IInv, Disjoint
    <3>4. \A a \in RegionOf(j) : memory'[a] = memory[a]
      BY <1>10, <3>3
    <3>5. Len(blocks[j].data) <= blocks[j].size
      BY DEF IInv, Disjoint
    <3> QED BY <2>1, <3>1, <3>4, <3>5, SoundKept DEF IInv
  <2> QED BY <2>3, <2>4
<1>14. HighestKnown'
  BY DEF OwnerFills, counters, IInv, HighestKnown
<1> QED BY <1>11, <1>12, <1>13, <1>14 DEF IInv

\* What realloc takes over of a block's content.
LEMMA KeptCorrect ==
  ASSUME NEW d \in Seq(Fills), NEW n \in Nat
  PROVE  /\ Kept(d, n) \in Seq(Fills) /\ Len(Kept(d, n)) <= n /\ Len(Kept(d, n)) <= Len(d)
         /\ \A i \in 1..Len(Kept(d, n)) : Kept(d, n)[i] = d[i]
<1>1. PICK m : m = IF n < Len(d) THEN n ELSE Len(d)
  OBVIOUS
<1>2. m \in Nat /\ m <= n /\ m <= Len(d)
  BY <1>1
<1>3. Kept(d, n) = SubSeq(d, 1, m)
  BY <1>1 DEF Kept
<1>4. SubSeq(d, 1, m) \in Seq(Fills) /\ Len(SubSeq(d, 1, m)) = m
      /\ \A i \in 1..m : SubSeq(d, 1, m)[i] = d[i]
  BY <1>2
<1> QED BY <1>2, <1>3, <1>4

\* cMemRealloc without an overrun: the copy stays in the new block, and the words of all
\* live blocks are as before.
LEMMA ReallocInPlace ==
  ASSUME IInv, NEW k \in Live, NEW sz \in Requests, NEW at \in Addresses,
         cMemRealloc(k, sz, at), ~overrun'
  PROVE  /\ ~overrun /\ cMemSize(k) = blocks[k].size /\ blocks[k].size <= sz
         /\ memory[blocks[k].start] = blocks[k].size
         /\ \A j \in Live : \A a \in RegionOf(j) : memory'[a] = memory[a]
<1>1. /\ memory' \in [Addresses -> Words] /\ cMemSize(k) \in Nat
      /\ \A a \in Addresses : a < at \/ a > at + cMemSize(k) => memory'[a] = memory[a]
  BY ReallocMemory DEF IInv
<1>2. overrun' = (overrun \/ cMemSize(k) > sz)
  BY Zenon DEF cMemRealloc, CopyCount
<1>3. ~overrun /\ ~ (cMemSize(k) > sz)
  BY <1>2, Zenon
<1>4. cMemSize(k) <= sz
  <2>1. sz \in Nat
    BY HeapAssumption
  <2> QED BY <1>1, <1>3, <2>1
<1>5. memory[blocks[k].start] = blocks[k].size
  BY <1>3 DEF IInv, HeapSound
<1>6. cMemSize(k) = blocks[k].size
  BY <1>5 DEF cMemSize
<1>7. ASSUME NEW j \in Live, NEW a \in RegionOf(j) PROVE memory'[a] = memory[a]
  <2>1. a \in Addresses /\ a \notin Region(at, sz)
    BY DEF IInv, Disjoint, cMemRealloc, Fresh
  <2>2. a \in Nat /\ at \in Nat /\ sz \in Nat
    BY <2>1, HeapAssumption DEF Addresses
  <2>3. a < at \/ a > at + sz
    BY <2>1, <2>2 DEF Region
  <2>4. a < at \/ a > at + cMemSize(k)
    BY <1>1, <1>4, <2>2, <2>3
  <2> QED BY <1>1, <2>1, <2>4
<1> QED BY <1>3, <1>4, <1>5, <1>6, <1>7

LEMMA ReallocStep ==
  ASSUME IInv, NEW k \in Live, NEW sz \in Requests, NEW at \in Addresses,
         cMemRealloc(k, sz, at)
  PROVE  IInv'
<1> USE HeapAssumption
<1>1. PICK n : n = Len(blocks) + 1
  OBVIOUS
<1>2. PICK b : b = blocks[k]
  OBVIOUS
<1>3. PICK d : d = Kept(b.data, sz)
  OBVIOUS
<1>4. /\ k \in DOMAIN blocks /\ b \in Block /\ b.start \in Nat /\ b.size \in Nat \ {0}
      /\ b.data \in Seq(Fills) /\ blocks \in Seq(Block)
  BY <1>2, LiveBlock DEF IInv, TypeOK, Block
<1>5. /\ d \in Seq(Fills) /\ Len(d) <= sz /\ Len(d) <= Len(b.data)
      /\ \A i \in 1..Len(d) : d[i] = b.data[i]
  BY <1>3, <1>4, KeptCorrect
<1>6. PICK bs : bs = [blocks EXCEPT ![k].state = "moved"]
  OBVIOUS
<1>7. /\ bs \in Seq(Block) /\ DOMAIN bs = DOMAIN blocks /\ Len(bs) = Len(blocks)
      /\ bs[k].state = "moved"
      /\ \A j \in DOMAIN blocks : j # k => bs[j] = blocks[j]
  BY <1>4, <1>6, BlockRetired DEF IInv
<1>8. NewBlock(at, sz, d) \in Block
  BY <1>5 DEF Block, NewBlock
<1>9. blocks' = Append(bs, NewBlock(at, sz, d))
  BY <1>2, <1>3, <1>6 DEF cMemRealloc
<1>10. /\ blocks' \in Seq(Block)
       /\ DOMAIN blocks' = DOMAIN blocks \union {n} /\ n \notin DOMAIN blocks
       /\ blocks'[n] = NewBlock(at, sz, d) /\ blocks'[k].state = "moved"
       /\ \A j \in DOMAIN blocks : j # k => blocks'[j] = blocks[j]
  <2>1. /\ Append(bs, NewBlock(at, sz, d)) \in Seq(Block)
        /\ DOMAIN Append(bs, NewBlock(at, sz, d)) = DOMAIN bs \union {n}
        /\ Append(bs, NewBlock(at, sz, d))[n] = NewBlock(at, sz, d)
        /\ \A j \in DOMAIN bs : Append(bs, NewBlock(at, sz, d))[j] = bs[j]
        /\ n \notin DOMAIN bs
    BY <1>1, <1>7, <1>8, BlocksAppended
  <2> QED BY <1>4, <1>7, <1>9, <2>1
<1>11. PICK L : L = Live \ {k}
  OBVIOUS
<1>12. Live' = L \union {n} /\ L \subseteq Live /\ \A j \in L : blocks'[j] = blocks[j]
  BY <1>10, <1>11 DEF Live, NewBlock
<1>13. /\ memory' \in [Addresses -> Words] /\ cMemSize(k) \in Nat /\ memory'[at] = sz
       /\ \A a \in Addresses : a < at \/ a > at + cMemSize(k) => memory'[a] = memory[a]
       /\ \A i \in 1..cMemSize(k) : memory'[at + i] = Header(memory, at, sz)[b.start + i]
  BY <1>2, ReallocMemory DEF IInv
<1>14. PICK back : back = Given(memory'[b.start])
  OBVIOUS
<1>15. CountMove(Given(sz), back)
  BY <1>2, <1>14 DEF cMemRealloc
<1>16. b.start \in Addresses /\ memory'[b.start] \in Int /\ back \in Int /\ Given(sz) \in Nat
  <2>1. b.start \in Addresses
    BY <1>4 DEF Block
  <2>2. memory'[b.start] \in Int
    BY <1>13, <2>1, WordsAreInts
  <2> QED BY <1>14, <2>1, <2>2 DEF Given
<1>17. TypeOK'
  <2>1. outstanding' \in Int /\ maxMemory' \in Int /\ peak' \in Nat
    BY <1>15, <1>16, CountMoveCorrect DEF IInv
  <2>2. status' = status /\ overrun' \in BOOLEAN
    BY DEF cMemRealloc
  <2> QED BY <1>10, <1>13, <2>1, <2>2 DEF IInv, TypeOK, Block
<1>18. Disjoint'
  <2>1. TypeOK /\ Disjoint /\ Fresh(at, sz)
    BY DEF IInv, cMemRealloc
  <2>2. L \in SUBSET Live /\ Live' = L \union {n}
    BY <1>12
  <2>3. blocks'[n] = NewBlock(at, sz, d)
    BY <1>10
  <2>4. \A j \in L : /\ blocks'[j].start = blocks[j].start /\ blocks'[j].size = blocks[j].size
                     /\ blocks'[j].data = blocks[j].data
    BY <1>12
  <2> HIDE DEF IInv
  <2> QED BY <1>1, <1>5, <2>1, <2>2, <2>3, <2>4, NewBlockDisjoint
<1>19. ASSUME ~overrun'
       PROVE  /\ ~overrun /\ memory[b.start] = b.size /\ cMemSize(k) = b.size /\ b.size <= sz
              /\ \A j \in Live : \A a \in RegionOf(j) : memory'[a] = memory[a]
  BY <1>2, <1>19, ReallocInPlace
<1>20. b.start \in RegionOf(k) /\ \A i \in 1..b.size : b.start + i \in RegionOf(k)
  BY <1>2, <1>4 DEF RegionOf, Region
<1>21. HeapSound'
  <2> SUFFICES ASSUME ~overrun', NEW j \in Live'
               PROVE  /\ memory'[blocks'[j].start] = blocks'[j].size
                      /\ \A i \in 1..Len(blocks'[j].data) :
                           memory'[blocks'[j].start + i] = blocks'[j].data[i]
    BY DEF HeapSound
  <2>1. CASE j = n
    <3>1. Len(b.data) <= b.size /\ Len(b.data) \in Nat /\ Len(d) \in Nat
      BY <1>2, <1>4, <1>5 DEF IInv, Disjoint
    <3>2. ASSUME NEW i \in 1..Len(d) PROVE memory'[at + i] = d[i]
      <4>1. i \in 1..b.size /\ i \in 1..Len(b.data)
        BY <1>4, <1>5, <3>1
      <4>2. memory'[at + i] = Header(memory, at, sz)[b.start + i]
        BY <1>13, <1>19, <4>1
      <4>3. b.start + i \in Addresses /\ b.start + i \notin Region(at, sz)
        BY <1>20, <4>1 DEF IInv, Disjoint, cMemRealloc, Fresh
      <4>4. b.start + i # at
        <5>1. at \in Nat /\ sz \in Nat
          BY DEF Addresses
        <5> QED BY <4>3, <5>1 DEF Region
      <4>5. Header(memory, at, sz)[b.start + i] = memory[b.start + i]
        BY <4>3, <4>4, HeaderCorrect DEF IInv, TypeOK
      <4>6. memory[b.start + i] = b.data[i]
        BY <1>2, <1>19, <4>1 DEF IInv, HeapSound
      <4> QED BY <1>5, <4>2, <4>5, <4>6
    <3> QED BY <1>10, <1>13, <2>1, <3>2 DEF NewBlock
  <2>2. CASE j \in L
    <3>1. j \in Live /\ blocks'[j] = blocks[j]
      BY <1>12, <2>2
    <3>2. \A a \in RegionOf(j) : memory'[a] = memory[a]
      BY <1>19, <3>1
    <3>3. Len(blocks[j].data) <= blocks[j].size
      BY <3>1 DEF IInv, Disjoint
    <3>4. ~overrun
      BY <1>19
    <3> QED BY <3>1, <3>2, <3>3, <3>4, SoundKept DEF IInv
  <2> QED BY <1>12, <2>1, <2>2
<1>22. HighestKnown'
  <2> SUFFICES ASSUME ~overrun'
               PROVE  /\ outstanding' <= maxMemory' /\ outstanding' <= peak'
                      /\ peak' <= IntMax => maxMemory' = peak'
    BY DEF HighestKnown
  <2>1. ~overrun /\ memory'[b.start] = b.size
    BY <1>2, <1>19, <1>20
  <2>2. back >= 0
    BY <1>4, <1>14, <2>1 DEF Given
  <2> QED BY <1>15, <1>16, <2>1, <2>2, CountMoveCorrect DEF IInv
<1> QED BY <1>17, <1>18, <1>21, <1>22 DEF IInv

LEMMA CrashStep ==
  ASSUME IInv,
         \/ NullRegion
         \/ \E k \in DOMAIN blocks, sz \in Requests, at \in Addresses : ReallocRunsOff(k, sz, at)
  PROVE  IInv'
<1>1. /\ UNCHANGED <<memory, counters, blocks>> /\ status' = "crashed"
      /\ overrun' = overrun \/ overrun' = TRUE
  BY DEF NullRegion, ReallocRunsOff
<1>2. TypeOK'
  BY <1>1 DEF counters, IInv, TypeOK
<1>3. Disjoint'
  BY <1>1 DEF IInv, Disjoint, Live, RegionOf
<1>4. HeapSound'
  BY <1>1 DEF IInv, HeapSound, Live
<1>5. HighestKnown'
  BY <1>1 DEF counters, IInv, HighestKnown
<1> QED BY <1>2, <1>3, <1>4, <1>5 DEF IInv

LEMMA InitIInv == Init => IInv
<1> SUFFICES ASSUME Init PROVE IInv
  OBVIOUS
<1> USE HeapAssumption
<1>1. TypeOK
  <2>1. memory \in [Addresses -> Words]
    BY DEF Init, Words
  <2>2. blocks = <<>> /\ blocks \in Seq(Block)
    BY DEF Init
  <2>3. status = "on" /\ overrun = FALSE
    BY DEF Init
  <2>4. outstanding = 0 /\ maxMemory = 0 /\ peak = 0 /\ outstanding \in Int /\ maxMemory \in Int /\ peak \in Nat
    BY DEF Init
  <2> QED BY <2>1, <2>2, <2>3, <2>4 DEF TypeOK, Block
<1>2. Live = {}
  BY DEF Init, Live
<1>3. Disjoint /\ HeapSound
  BY <1>2 DEF Disjoint, HeapSound
<1>4. HighestKnown
  BY DEF Init, HighestKnown
<1> QED BY <1>1, <1>3, <1>4 DEF IInv

LEMMA NextIInv == IInv /\ [Next]_vars => IInv'
<1> SUFFICES ASSUME IInv, [Next]_vars PROVE IInv'
  OBVIOUS
<1>1. ASSUME NEW sz \in Requests, NEW at \in Addresses, cMemMalloc(sz, at) PROVE IInv'
  BY <1>1, MallocStep
<1>2. CASE NullRegion
  BY <1>2, CrashStep
<1>3. ASSUME NEW k \in DOMAIN blocks, cMemFree(k) PROVE IInv'
  BY <1>3, FreeStep
<1>4. ASSUME NEW k \in DOMAIN blocks, NEW sz \in Requests, NEW at \in Addresses,
             cMemRealloc(k, sz, at)
      PROVE  IInv'
  <2>1. k \in Live
    BY <1>4 DEF cMemRealloc
  <2> QED BY <1>4, <2>1, ReallocStep
<1>5. ASSUME NEW k \in DOMAIN blocks, NEW sz \in Requests, NEW at \in Addresses,
             ReallocRunsOff(k, sz, at)
      PROVE  IInv'
  BY <1>5, CrashStep
<1>6. ASSUME NEW k \in DOMAIN blocks, NEW v \in Fills, OwnerFills(k, v) PROVE IInv'
  BY <1>6, FillStep
<1>7. CASE UNCHANGED vars
  <2>1. TypeOK' /\ HighestKnown'
    BY <1>7 DEF vars, IInv, TypeOK, HighestKnown
  <2>2. Live' = Live /\ blocks' = blocks /\ memory' = memory /\ overrun' = overrun
    BY <1>7 DEF vars, Live
  <2>3. HeapSound'
    BY <2>2 DEF IInv, HeapSound
  <2>4. \A k \in Live : RegionOf(k)' = RegionOf(k)
    BY <2>2 DEF RegionOf
  <2>5. Disjoint'
    BY <2>2, <2>4 DEF IInv, Disjoint
  <2> QED BY <2>1, <2>3, <2>5 DEF IInv
<1> QED BY <1>1, <1>2, <1>3, <1>4, <1>5, <1>6, <1>7 DEF Next

----------------------------------------------------------------------------
(* What outstanding_memory is after a step. *)

\* No block makes no sum.
LEMMA InitCounted == Init => CounterIsTotal
<1> SUFFICES ASSUME Init PROVE outstanding = Total(blocks)
  BY DEF CounterIsTotal
<1>1. blocks = <<>> /\ outstanding = 0 /\ blocks \in Seq(Block)
  BY DEF Init
<1>2. Counted(blocks) = {}
  BY <1>1 DEF Counted
<1>3. PICK t : Table(t, Sizes(blocks), Counted(blocks)) /\ Total(blocks) = t[Counted(blocks)]
  BY <1>1, TotalIsTable
<1>4. t[{}] = 0
  BY <1>2, <1>3 DEF Table, SumOf
<1> QED BY <1>1, <1>2, <1>3, <1>4

LEMMA MallocCounted ==
  ASSUME IInv, CounterIsTotal, NEW sz \in Requests, NEW at \in Addresses, cMemMalloc(sz, at)
  PROVE  CounterIsTotal'
<1> SUFFICES ASSUME ~overrun' PROVE outstanding' = Total(blocks')
  BY DEF CounterIsTotal
<1>1. PICK n : n = Len(blocks) + 1
  OBVIOUS
<1>2. blocks \in Seq(Block) /\ NewBlock(at, sz, <<>>) \in Block
  BY DEF IInv, TypeOK, Block, NewBlock
<1>3. /\ blocks' \in Seq(Block)
      /\ DOMAIN blocks' = DOMAIN blocks \union {n} /\ n \notin DOMAIN blocks
      /\ blocks'[n] = NewBlock(at, sz, <<>>)
      /\ \A k \in DOMAIN blocks : blocks'[k] = blocks[k]
  BY <1>1, <1>2, BlocksAppended DEF cMemMalloc
<1>4. /\ n \in Counted(blocks') /\ Counted(blocks) = Counted(blocks') \ {n}
      /\ \A k \in Counted(blocks) : blocks'[k].size = blocks[k].size
  BY <1>3 DEF Counted, NewBlock
<1>5. /\ Total(blocks') = Given(blocks'[n].size) + Total(blocks)
      /\ Total(blocks) \in Int /\ Given(blocks'[n].size) \in Int
  BY <1>2, <1>3, <1>4, TotalOfOneMore
<1>6. Given(blocks'[n].size) = Given(sz)
  BY <1>3 DEF NewBlock
<1>7. outstanding = Total(blocks) /\ outstanding' = outstanding + Given(sz) - 0
  BY DEF CounterIsTotal, cMemMalloc, CountMove
<1>8. PICK a, b \in Int : a = Given(sz) /\ b = Total(blocks)
  BY <1>5, <1>6
<1>9. outstanding' = b + a - 0 /\ Total(blocks') = a + b
  BY <1>5, <1>6, <1>7, <1>8, Zenon
<1> QED BY <1>9

\* cMemFree touches no counter, and the block is still in the sum.
LEMMA FreeCountedNot ==
  ASSUME IInv, CounterIsTotal, NEW k \in DOMAIN blocks, cMemFree(k)
  PROVE  CounterIsTotal'
<1> SUFFICES ASSUME ~overrun' PROVE outstanding' = Total(blocks')
  BY DEF CounterIsTotal
<1>1. blocks \in Seq(Block) /\ blocks[k].state = "live"
  BY DEF IInv, TypeOK, Block, cMemFree, Live
<1>2. PICK b : b = [blocks[k] EXCEPT !.state = "freed"]
  OBVIOUS
<1>3. blocks' \in Seq(Block) /\ DOMAIN blocks' = DOMAIN blocks /\ blocks'[k].state = "freed"
      /\ \A j \in DOMAIN blocks : j # k => blocks'[j] = blocks[j]
  BY BlockRetired DEF cMemFree, IInv
<1>4. blocks'[k].size = blocks[k].size
  <2>1. blocks[k] \in Block
    BY <1>1
  <2>2. b.size = blocks[k].size
    BY <1>2, <2>1 DEF Block
  <2>3. blocks' = [blocks EXCEPT ![k] = b]
    BY <1>2 DEF cMemFree
  <2> QED BY <1>1, <2>2, <2>3
<1>5. Counted(blocks) = Counted(blocks') /\ \A j \in Counted(blocks) : blocks[j].size = blocks'[j].size
  BY <1>1, <1>3, <1>4 DEF Counted
<1>6. Total(blocks) = Total(blocks')
  BY <1>1, <1>3, <1>5, TotalSame
<1>7. outstanding' = outstanding /\ outstanding = Total(blocks)
  BY DEF cMemFree, FreeCounts, counters, CounterIsTotal
<1> QED BY <1>6, <1>7

LEMMA FillCounted ==
  ASSUME IInv, CounterIsTotal, NEW k \in DOMAIN blocks, NEW v \in Fills, OwnerFills(k, v)
  PROVE  CounterIsTotal'
<1> SUFFICES ASSUME ~overrun' PROVE outstanding' = Total(blocks')
  BY DEF CounterIsTotal
<1>1. PICK d : d = [i \in 1..blocks[k].size |-> v]
  OBVIOUS
<1>2. PICK c : c = [blocks[k] EXCEPT !.data = d]
  OBVIOUS
<1>3. blocks \in Seq(Block) /\ blocks[k] \in Block /\ blocks' = [blocks EXCEPT ![k] = c]
  <2>1. blocks \in Seq(Block)
    BY DEF IInv, TypeOK, Block
  <2>2. blocks' = [blocks EXCEPT ![k] = c]
    BY <1>1, <1>2 DEF OwnerFills
  <2> QED BY <2>1, <2>2
<1>4. c.size = blocks[k].size /\ c.state = blocks[k].state
  BY <1>2, <1>3 DEF Block
<1>5. /\ DOMAIN blocks' = DOMAIN blocks
      /\ \A j \in DOMAIN blocks : blocks'[j].size = blocks[j].size /\ blocks'[j].state = blocks[j].state
  BY <1>3, <1>4
<1>6. blocks' \in Seq(Block)
  BY FillStep DEF IInv, TypeOK, Block
<1>7. Counted(blocks) = Counted(blocks') /\ \A j \in Counted(blocks) : blocks[j].size = blocks'[j].size
  BY <1>5 DEF Counted
<1>8. Total(blocks) = Total(blocks')
  BY <1>3, <1>6, <1>7, TotalSame
<1>9. outstanding' = outstanding /\ outstanding = Total(blocks)
  BY DEF OwnerFills, counters, CounterIsTotal
<1> QED BY <1>8, <1>9

\* What is given back is what was given for the old block: its header is read after the
\* copy, and the copy has not reached it.
LEMMA ReallocCounted ==
  ASSUME IInv, CounterIsTotal, NEW k \in Live, NEW sz \in Requests, NEW at \in Addresses,
         cMemRealloc(k, sz, at)
  PROVE  CounterIsTotal'
<1> SUFFICES ASSUME ~overrun' PROVE outstanding' = Total(blocks')
  BY DEF CounterIsTotal
<1>1. PICK n : n = Len(blocks) + 1
  OBVIOUS
<1>2. PICK d : d = Kept(blocks[k].data, sz)
  OBVIOUS
<1>3. PICK bs : bs = [blocks EXCEPT ![k].state = "moved"]
  OBVIOUS
<1>4. /\ blocks \in Seq(Block) /\ k \in DOMAIN blocks /\ blocks[k].state = "live"
      /\ blocks[k].start \in Nat /\ blocks[k].size \in Nat /\ blocks[k].data \in Seq(Fills)
  BY LiveBlock DEF IInv, TypeOK, Block
<1>5. /\ bs \in Seq(Block) /\ DOMAIN bs = DOMAIN blocks /\ Len(bs) = Len(blocks)
      /\ bs[k].state = "moved"
      /\ \A j \in DOMAIN blocks : j # k => bs[j] = blocks[j]
  BY <1>3, <1>4, BlockRetired DEF IInv
<1>6. NewBlock(at, sz, d) \in Block
  BY <1>2, <1>4, KeptCorrect, HeapAssumption DEF Block, NewBlock
<1>7. blocks' = Append(bs, NewBlock(at, sz, d))
  BY <1>2, <1>3 DEF cMemRealloc
<1>8. /\ blocks' \in Seq(Block)
      /\ DOMAIN blocks' = DOMAIN bs \union {n} /\ n \notin DOMAIN bs
      /\ blocks'[n] = NewBlock(at, sz, d)
      /\ \A j \in DOMAIN bs : blocks'[j] = bs[j]
  BY <1>1, <1>5, <1>6, <1>7, BlocksAppended
<1>9. /\ Total(blocks) = Given(blocks[k].size) + Total(bs)
      /\ Total(bs) \in Int /\ Given(blocks[k].size) \in Int
  <2>1. /\ k \in Counted(blocks) /\ Counted(bs) = Counted(blocks) \ {k}
        /\ \A j \in Counted(bs) : blocks[j].size = bs[j].size
    BY <1>4, <1>5 DEF Counted
  <2> QED BY <1>4, <1>5, <2>1, TotalOfOneMore
<1>10. /\ Total(blocks') = Given(blocks'[n].size) + Total(bs)
       /\ Given(blocks'[n].size) = Given(sz) /\ Given(sz) \in Int
  <2>1. /\ n \in Counted(blocks') /\ Counted(bs) = Counted(blocks') \ {n}
        /\ \A j \in Counted(bs) : blocks'[j].size = bs[j].size
    BY <1>8 DEF Counted, NewBlock
  <2>2. Given(blocks'[n].size) = Given(sz)
    BY <1>8 DEF NewBlock
  <2> QED BY <1>5, <1>8, <2>1, <2>2, TotalOfOneMore
<1>11. memory'[blocks[k].start] = blocks[k].size
  <2>1. blocks[k].start \in RegionOf(k)
    BY <1>4 DEF RegionOf, Region
  <2> QED BY <2>1, ReallocInPlace
<1>12. outstanding = Total(blocks)
  BY ReallocInPlace DEF CounterIsTotal
<1>13. outstanding' = outstanding + Given(sz) - Given(memory'[blocks[k].start])
  BY DEF cMemRealloc, CountMove
<1>14. PICK a, b, c \in Int : a = Given(sz) /\ b = Given(blocks[k].size) /\ c = Total(bs)
  BY <1>9, <1>10
<1>15. outstanding' = (b + c) + a - b /\ Total(blocks') = a + c
  BY <1>9, <1>10, <1>11, <1>12, <1>13, <1>14, Zenon
<1> QED BY <1>15

LEMMA NextCounted == IInv /\ CounterIsTotal /\ [Next]_vars => CounterIsTotal'
<1> SUFFICES ASSUME IInv, CounterIsTotal, [Next]_vars PROVE CounterIsTotal'
  OBVIOUS
<1>1. ASSUME NEW sz \in Requests, NEW at \in Addresses, cMemMalloc(sz, at) PROVE CounterIsTotal'
  BY <1>1, MallocCounted
<1>2. ASSUME NEW k \in DOMAIN blocks, cMemFree(k) PROVE CounterIsTotal'
  BY <1>2, FreeCountedNot
<1>3. ASSUME NEW k \in DOMAIN blocks, NEW sz \in Requests, NEW at \in Addresses,
             cMemRealloc(k, sz, at)
      PROVE  CounterIsTotal'
  <2>1. k \in Live
    BY <1>3 DEF cMemRealloc
  <2> QED BY <1>3, <2>1, ReallocCounted
<1>4. ASSUME NEW k \in DOMAIN blocks, NEW sz \in Requests, NEW at \in Addresses,
             ReallocRunsOff(k, sz, at)
      PROVE  CounterIsTotal'
  BY <1>4 DEF ReallocRunsOff, CounterIsTotal
<1>5. ASSUME NEW k \in DOMAIN blocks, NEW v \in Fills, OwnerFills(k, v) PROVE CounterIsTotal'
  BY <1>5, FillCounted
<1>6. CASE NullRegion \/ UNCHANGED vars
  BY <1>6 DEF NullRegion, vars, counters, CounterIsTotal
<1> QED BY <1>1, <1>2, <1>3, <1>4, <1>5, <1>6 DEF Next

----------------------------------------------------------------------------

\* The invariant holds always.
THEOREM Invariance == Spec => []IInv
BY InitIInv, NextIInv, PTL DEF Spec

\* The fields, the words and the blocks keep their types.
THEOREM TypeCorrect == Spec => []TypeOK
<1>1. IInv => TypeOK
  BY DEF IInv
<1> QED BY <1>1, Invariance, PTL

\* Headers and contents stay where they belong until a realloc makes a block smaller.
THEOREM HeapStaysSound == Spec => []HeapSound
<1>1. IInv => HeapSound
  BY DEF IInv
<1> QED BY <1>1, Invariance, PTL

\* max_memory is the peak, as long as that is an int, and never below the current value.
THEOREM PeakCovered == Spec => []PeakCovers
<1>1. IInv => PeakCovers
  BY DEF IInv, HighestKnown, PeakCovers
<1> QED BY <1>1, Invariance, PTL

\* outstanding_memory counts every block but those that realloc has moved: what cMemFree
\* returns stays counted, and realloc takes back exactly what was given.
THEOREM FreesAreMissed == Spec => []CounterMissesFrees
<1>1. IInv /\ CounterIsTotal /\ [Next]_vars => CounterIsTotal'
  BY NextCounted
<1>2. CounterIsTotal => CounterMissesFrees
  BY CounterAsTotal
<1> QED BY <1>1, <1>2, InitCounted, Invariance, PTL DEF Spec

\* What a shrinking realloc can damage lies behind the new block, in the words it copied
\* too much.
THEOREM DamageIsBounded == Spec => DamageBounded
<1>1. IInv /\ [Next]_vars =>
        [\A k \in Live : \A a \in RegionOf(k) : memory'[a] # memory[a] =>
           \/ \E v \in Fills : OwnerFills(k, v)
           \/ \E j \in Live, sz \in Requests, at \in Addresses :
                /\ cMemRealloc(j, sz, at)
                /\ at + sz < a /\ a <= at + cMemSize(j)]_vars
  BY WordsKept
<1> QED BY <1>1, Invariance, PTL DEF Spec, DamageBounded
=============================================================================
