--------------------------- MODULE InMemFsProofs ---------------------------
(***************************************************************************)
(* Proofs about InMemFs, for any number of names, handles, addresses and   *)
(* bytes, and writes and sizes of any extent.                              *)
(***************************************************************************)
EXTENDS InMemFs, SequenceTheorems, FiniteSetTheorems, TLAPS

----------------------------------------------------------------------------
(* The file list. *)

\* Inserting behind the sentinel adds one file and keeps the list free of repetition.
LEMMA LinkRange ==
  ASSUME NEW S, NEW s \in Seq(S), NEW e \in S
  PROVE  /\ Cons(e, s) \in Seq(S)
         /\ Range(Cons(e, s)) = Range(s) \cup {e}
         /\ IsInjective(s) /\ e \notin Range(s) => IsInjective(Cons(e, s))
<1> DEFINE t == <<e>> \o s
<1>1. /\ <<e>> \in Seq(S) /\ Len(<<e>>) = 1 /\ <<e>>[1] = e
  OBVIOUS
<1>2. /\ t \in Seq(S)
      /\ Len(t) = Len(s) + 1
      /\ \A i \in 1..Len(s) + 1 : t[i] = IF i <= 1 THEN e ELSE s[i - 1]
  BY <1>1, ConcatProperties
<1>3. /\ DOMAIN t = 1..Len(s) + 1 /\ DOMAIN s = 1..Len(s) /\ Len(s) \in Nat
  BY <1>2, LenProperties
<1>4. t[1] = e /\ \A i \in 1..Len(s) : t[i + 1] = s[i]
  BY <1>2, <1>3
<1>5. Range(t) = Range(s) \cup {e}
  <2>1. ASSUME NEW x \in Range(t) PROVE x \in Range(s) \cup {e}
    <3>1. PICK i \in 1..Len(s) + 1 : x = t[i]
      BY <2>1, <1>3 DEF Range
    <3>2. CASE i = 1
      BY <3>1, <3>2, <1>4
    <3>3. CASE i # 1
      <4>1. i - 1 \in 1..Len(s) /\ x = s[i - 1]
        BY <3>1, <3>3, <1>2, <1>3
      <4> QED BY <4>1, <1>3 DEF Range
    <3> QED BY <3>2, <3>3
  <2>2. ASSUME NEW x \in Range(s) PROVE x \in Range(t)
    <3>1. PICK i \in 1..Len(s) : x = s[i]
      BY <2>2, <1>3 DEF Range
    <3>2. i + 1 \in DOMAIN t /\ t[i + 1] = x
      BY <3>1, <1>3, <1>4
    <3> QED BY <3>2 DEF Range
  <2>3. e \in Range(t)
    <3>1. 1 \in DOMAIN t
      BY <1>3
    <3> QED BY <3>1, <1>4 DEF Range
  <2> QED BY <2>1, <2>2, <2>3
<1>6. ASSUME IsInjective(s), e \notin Range(s) PROVE IsInjective(t)
  <2>1. \A i \in 1..Len(s) : s[i] # e
    BY <1>6, <1>3 DEF Range
  <2>2. \A i, j \in 1..Len(s) : s[i] = s[j] => i = j
    BY <1>6, <1>3 DEF IsInjective
  <2>3. ASSUME NEW i \in 1..Len(s) + 1, NEW j \in 1..Len(s) + 1, t[i] = t[j]
        PROVE  i = j
    <3>1. CASE i = 1 /\ j = 1
      BY <3>1
    <3>2. CASE i = 1 /\ j # 1
      <4>1. j - 1 \in 1..Len(s) /\ t[j] = s[j - 1]
        BY <3>2, <1>2, <1>3
      <4> QED BY <4>1, <3>2, <2>1, <2>3, <1>4
    <3>3. CASE i # 1 /\ j = 1
      <4>1. i - 1 \in 1..Len(s) /\ t[i] = s[i - 1]
        BY <3>3, <1>2, <1>3
      <4> QED BY <4>1, <3>3, <2>1, <2>3, <1>4
    <3>4. CASE i # 1 /\ j # 1
      <4>1. /\ i - 1 \in 1..Len(s) /\ t[i] = s[i - 1]
            /\ j - 1 \in 1..Len(s) /\ t[j] = s[j - 1]
        BY <3>4, <1>2, <1>3
      <4>2. i - 1 = j - 1
        BY <4>1, <2>2, <2>3
      <4> QED BY <4>2, <1>3
    <3> QED BY <3>1, <3>2, <3>3, <3>4
  <2> QED BY <2>3, <1>3 DEF IsInjective
<1> QED BY <1>2, <1>5, <1>6 DEF Cons

\* The node that _fs_file_unlink meets first is at a position of the list.
LEMMA FirstIndex ==
  ASSUME NEW S, NEW s \in Seq(S), IsInjective(s), NEW e \in Range(s)
  PROVE  LET i == SelectInSeq(s, LAMBDA v : v = e)
         IN  i \in 1..Len(s) /\ s[i] = e
<1> DEFINE I == {i \in 1..Len(s) : s[i] = e}
<1>1. DOMAIN s = 1..Len(s) /\ Len(s) \in Nat
  BY LenProperties
<1>2. PICK k \in 1..Len(s) : s[k] = e
  BY <1>1 DEF Range
<1>3. I = {k}
  BY <1>1, <1>2 DEF IsInjective
<1>4. Min(I) = k
  BY <1>3, <1>1 DEF Min
<1>5. SelectInSeq(s, LAMBDA v : v = e) = k
  BY <1>3, <1>4 DEF SelectInSeq
<1> QED BY <1>5, <1>2

\* Unlinking takes out exactly the given file.
LEMMA UnlinkRange ==
  ASSUME NEW S, NEW s \in Seq(S), IsInjective(s), NEW e \in Range(s)
  PROVE  /\ RemoveFirst(s, e) \in Seq(S)
         /\ Range(RemoveFirst(s, e)) = Range(s) \ {e}
         /\ IsInjective(RemoveFirst(s, e))
<1>1. DOMAIN s = 1..Len(s) /\ Len(s) \in Nat /\ \A j \in 1..Len(s) : s[j] \in S
  BY LenProperties
<1>2. PICK i \in 1..Len(s) : s[i] = e /\ RemoveFirst(s, e) = RemoveAt(s, i)
  BY <1>1, FirstIndex DEF Range, RemoveFirst
<1> DEFINE n == Len(s)
           u == SubSeq(s, 1, i - 1)
           v == SubSeq(s, i + 1, n)
           t == u \o v
<1>3. /\ u \in Seq(S) /\ Len(u) = i - 1
      /\ \A j \in 1..i - 1 : u[j] = s[j]
  <2>1. \A j \in 1..i - 1 : s[j] \in S
    BY <1>1
  <2>2. 1 \in Int /\ i - 1 \in Int
    BY <1>1
  <2>3. /\ u \in Seq(S) /\ Len(u) = IF 1 <= i - 1 THEN (i - 1) - 1 + 1 ELSE 0
        /\ \A j \in 1..(i - 1) - 1 + 1 : u[j] = s[1 + j - 1]
    BY <2>1, <2>2, SubSeqProperties
  <2> QED BY <2>3, <1>1
<1>4. /\ v \in Seq(S) /\ Len(v) = n - i
      /\ \A j \in 1..n - i : v[j] = s[i + j]
  <2>1. \A j \in i + 1..n : s[j] \in S
    BY <1>1
  <2>2. i + 1 \in Int /\ n \in Int
    BY <1>1
  <2>3. /\ v \in Seq(S) /\ Len(v) = IF i + 1 <= n THEN n - (i + 1) + 1 ELSE 0
        /\ \A j \in 1..n - (i + 1) + 1 : v[j] = s[(i + 1) + j - 1]
    BY <2>1, <2>2, SubSeqProperties
  <2> HIDE DEF v
  <2>4. /\ n - (i + 1) + 1 = n - i
        /\ (IF i + 1 <= n THEN n - (i + 1) + 1 ELSE 0) = n - i
        /\ \A j \in 1..n - i : (i + 1) + j - 1 = i + j
    <3>1. n \in Int /\ i \in Int /\ i <= n
      BY <1>1
    <3> HIDE DEF n
    <3> QED BY <3>1
  <2> QED BY <2>3, <2>4
<1>5. /\ t \in Seq(S) /\ Len(t) = n - 1
      /\ \A j \in 1..n - 1 : t[j] = IF j < i THEN s[j] ELSE s[j + 1]
  <2>1. /\ t \in Seq(S) /\ Len(t) = Len(u) + Len(v)
        /\ \A j \in 1..Len(u) + Len(v) : t[j] = IF j <= Len(u) THEN u[j] ELSE v[j - Len(u)]
    BY <1>3, <1>4, ConcatProperties
  <2> HIDE DEF t, u, v
  <2>2. /\ Len(u) + Len(v) = n - 1 /\ Len(t) = n - 1
    BY <2>1, <1>3, <1>4, <1>1
  <2>3. \A j \in 1..n - 1 : t[j] = IF j <= i - 1 THEN u[j] ELSE v[j - (i - 1)]
    BY <2>1, <2>2, <1>3
  <2>4. ASSUME NEW j \in 1..n - 1 PROVE t[j] = IF j < i THEN s[j] ELSE s[j + 1]
    <3>1. CASE j < i
      <4>1. j <= i - 1 /\ j \in 1..i - 1
        BY <3>1, <1>1
      <4> QED BY <4>1, <3>1, <2>3, <1>3
    <3>2. CASE ~(j < i)
      <4>1. ~(j <= i - 1) /\ j - (i - 1) \in 1..n - i /\ i + (j - (i - 1)) = j + 1
        BY <3>2, <1>1
      <4> QED BY <4>1, <3>2, <2>3, <1>4
    <3> QED BY <3>1, <3>2
  <2> QED BY <2>1, <2>2, <2>4
<1> HIDE DEF t
<1>6. DOMAIN t = 1..n - 1
  BY <1>5, LenProperties
<1>7. \A j, k \in 1..n : s[j] = s[k] => j = k
  BY <1>1 DEF IsInjective
<1>8. Range(t) = Range(s) \ {e}
  <2>1. ASSUME NEW x \in Range(t) PROVE x \in Range(s) \ {e}
    <3>1. PICK j \in 1..n - 1 : x = t[j]
      BY <2>1, <1>6 DEF Range
    <3>2. PICK k \in 1..n : k # i /\ x = s[k]
      <4>1. CASE j < i
        BY <4>1, <3>1, <1>5, <1>1
      <4>2. CASE ~(j < i)
        <5>1. j + 1 \in 1..n /\ j + 1 # i /\ x = s[j + 1]
          BY <4>2, <3>1, <1>5, <1>1
        <5> QED BY <5>1
      <4> QED BY <4>1, <4>2
    <3>3. x # e
      BY <3>2, <1>2, <1>7
    <3> QED BY <3>2, <3>3, <1>1 DEF Range
  <2>2. ASSUME NEW x \in Range(s), x # e PROVE x \in Range(t)
    <3>1. PICK k \in 1..n : x = s[k]
      BY <2>2, <1>1 DEF Range
    <3>2. k # i
      BY <2>2, <3>1, <1>2
    <3>3. PICK j \in 1..n - 1 : t[j] = x
      <4>1. CASE k < i
        <5>1. k \in 1..n - 1 /\ t[k] = x
          BY <4>1, <3>1, <1>5, <1>1
        <5> QED BY <5>1
      <4>2. CASE ~(k < i)
        <5>1. k - 1 \in 1..n - 1 /\ t[k - 1] = x
          BY <4>2, <3>1, <3>2, <1>5, <1>1
        <5> QED BY <5>1
      <4> QED BY <4>1, <4>2
    <3> QED BY <3>3, <1>6 DEF Range
  <2> QED BY <2>1, <2>2
<1>9. IsInjective(t)
  <2>1. ASSUME NEW j \in 1..n - 1, NEW k \in 1..n - 1, t[j] = t[k] PROVE j = k
    <3>1. /\ t[j] = IF j < i THEN s[j] ELSE s[j + 1]
          /\ t[k] = IF k < i THEN s[k] ELSE s[k + 1]
      BY <1>5
    <3>2. j \in 1..n /\ j + 1 \in 1..n /\ k \in 1..n /\ k + 1 \in 1..n
      BY <1>1
    <3> QED BY <3>1, <3>2, <2>1, <1>7, <1>1
  <2> QED BY <2>1, <1>6 DEF IsInjective
<1>10. RemoveFirst(s, e) = t
  BY <1>2 DEF RemoveAt, t
<1> QED BY <1>5, <1>8, <1>9, <1>10

----------------------------------------------------------------------------
(* The inductive invariant. *)

\* Each conjunct leans on the others: the count is right because a handle is on a
\* linked file, a freed address is out of use because the count was right, and a new
\* file is at an unused address because every live allocation belongs to the list.
IInv ==
  /\ TypeOK
  /\ RefCountsOpenHandles
  /\ NoDanglingHandle
  /\ NoLeak
  /\ UniqueNames
  /\ PendingDeleteIsOpen
  /\ SameNameSameFile
  /\ LenWithinCapacity

\* Files own distinct allocations.
LEMMA BlocksDistinct ==
  ASSUME NEW f, NEW g
  PROVE  /\ Blocks(f) # {}
         /\ f # g => Blocks(f) \cap Blocks(g) = {}
<1>1. <<AllocOrder[1], f>> \in Blocks(f)
  BY DEF Blocks
<1>2. \A x \in Blocks(f) \cap Blocks(g) : f = g
  BY DEF Blocks
<1> QED BY <1>1, <1>2

\* A linked file is a file; a file none of whose blocks are allocated is not linked.
LEMMA LinkedFiles ==
  ASSUME TypeOK
  PROVE  /\ Linked \subseteq Files
         /\ DOMAIN fileList = 1..Len(fileList)
         /\ Len(fileList) \in Nat
         /\ \A i \in 1..Len(fileList) : fileList[i] \in Linked
         /\ \A f \in Linked : \E i \in 1..Len(fileList) : f = fileList[i]
<1>1. fileList \in Seq(Files)
  BY DEF TypeOK
<1>2. /\ DOMAIN fileList = 1..Len(fileList) /\ Len(fileList) \in Nat
      /\ \A i \in 1..Len(fileList) : fileList[i] \in Files
  BY <1>1, LenProperties
<1> QED BY <1>2 DEF Linked, Range

\* The search returns a file of the name it is given, and misses none but the long.
LEMMA FindFileCorrect ==
  ASSUME TypeOK, UniqueNames, NEW n \in Names
  PROVE  /\ Exists(n) => /\ FindFile(n) \in Linked
                         /\ zName[FindFile(n)] = n
                         /\ n \notin LongNames
         /\ ~Exists(n) => \A f \in Linked : zName[f] = n => n \in LongNames
<1> DEFINE I == {i \in 1..Len(fileList) : StrEquals(zName[fileList[i]], n)}
           k == SelectInSeq(fileList, LAMBDA f : StrEquals(zName[f], n))
<1>1. k = IF I # {} THEN Min(I) ELSE 0
  BY DEF SelectInSeq
<1>2. FindFile(n) = IF k = 0 THEN NULL ELSE fileList[k]
  BY DEF FindFile
<1> HIDE DEF k
<1>3. \A i, j \in I : i = j
  <2>1. SUFFICES ASSUME NEW i \in I, NEW j \in I PROVE i = j
    OBVIOUS
  <2>2. /\ fileList[i] \in Linked /\ fileList[j] \in Linked
        /\ zName[fileList[i]] = n /\ zName[fileList[j]] = n /\ n \notin LongNames
    BY LinkedFiles DEF StrEquals
  <2>3. fileList[i] = fileList[j]
    BY <2>2 DEF UniqueNames
  <2> QED BY <2>3, LinkedFiles DEF TypeOK, IsInjective
<1>4. CASE I = {}
  <2>1. ~Exists(n)
    BY <1>1, <1>2, <1>4 DEF Exists
  <2>2. \A f \in Linked : zName[f] = n => n \in LongNames
    BY <1>4, LinkedFiles DEF StrEquals
  <2> QED BY <2>1, <2>2
<1>5. CASE I # {}
  <2>1. PICK i \in I : I = {i}
    BY <1>3, <1>5
  <2>2. k = i /\ i # 0
    BY <1>1, <1>5, <2>1, LinkedFiles DEF Min
  <2>3. /\ FindFile(n) = fileList[i]
        /\ fileList[i] \in Linked /\ zName[fileList[i]] = n /\ n \notin LongNames
    BY <1>2, <2>2, LinkedFiles DEF StrEquals
  <2>4. Exists(n)
    BY <2>3, LinkedFiles, FilesAssumption DEF Exists
  <2> QED BY <2>3, <2>4
<1> QED BY <1>4, <1>5

\* A file no handle is on has count 0, and conversely.
LEMMA OpenHandlesFinite ==
  ASSUME NEW f
  PROVE  /\ IsFiniteSet(OpenHandles(f))
         /\ Cardinality(OpenHandles(f)) \in Nat
         /\ Cardinality(OpenHandles(f)) = 0 <=> OpenHandles(f) = {}
<1>1. OpenHandles(f) \in SUBSET Handles
  BY DEF OpenHandles
<1>2. IsFiniteSet(OpenHandles(f))
  BY <1>1, HandlesAssumption, FS_Subset
<1> QED BY <1>2, FS_CardinalityType, FS_EmptySet

\* Fresh memory is a buffer of the size that was asked for.
LEMMA GarbageIsSeq ==
  ASSUME NEW m \in Nat, NEW g \in Garbage(m)
  PROVE  g \in Seq(Bytes) /\ Len(g) = m
BY DEF Garbage

\* A buffer that is made to hold sz bytes holds them, and nothing of it is lost.
LEMMA EnsureCapacityCorrect ==
  ASSUME NEW s \in Seq(Bytes), NEW sz \in Int, NEW b \in EnsureCapacity(s, sz)
  PROVE  /\ b \in Seq(Bytes)
         /\ Len(b) >= sz /\ Len(b) >= Len(s)
         /\ \A i \in 1..Len(s) : b[i] = s[i]
<1> DEFINE cap == NewCapacity(Len(s), sz)
<1>1. Len(s) \in Nat
  BY LenProperties
<1>2. CASE Len(s) < sz
  <2>1. /\ cap \in Nat /\ cap >= sz /\ cap - Len(s) \in Nat
    BY <1>1, <1>2 DEF NewCapacity
  <2>2. PICK g \in Garbage(cap - Len(s)) : b = s \o g
    BY <1>2 DEF EnsureCapacity
  <2> HIDE DEF cap
  <2>3. g \in Seq(Bytes) /\ Len(g) = cap - Len(s)
    BY <2>1, <2>2, GarbageIsSeq
  <2>4. /\ b \in Seq(Bytes) /\ Len(b) = Len(s) + Len(g)
        /\ \A i \in 1..Len(s) + Len(g) : b[i] = IF i <= Len(s) THEN s[i] ELSE g[i - Len(s)]
    BY <2>2, <2>3, ConcatProperties
  <2> QED BY <2>1, <2>3, <2>4, <1>1
<1>3. CASE ~(Len(s) < sz)
  BY <1>1, <1>3 DEF EnsureCapacity
<1> QED BY <1>2, <1>3

\* The copy changes no byte outside the range that is written.
LEMMA CopyDataCorrect ==
  ASSUME NEW b \in Seq(Bytes), NEW off \in Nat, NEW d \in Seq(Bytes)
  PROVE  /\ CopyData(b, off, d) \in Seq(Bytes)
         /\ Len(CopyData(b, off, d)) = Len(b)
<1>1. Len(b) \in Nat /\ Len(d) \in Nat
  BY LenProperties
<1>2. \A i \in 1..Len(b) :
        (IF i > off /\ i <= off + Len(d) THEN d[i - off] ELSE b[i]) \in Bytes
  <2>1. SUFFICES ASSUME NEW i \in 1..Len(b), i > off, i <= off + Len(d)
                 PROVE  d[i - off] \in Bytes
    BY LenProperties
  <2>2. i - off \in 1..Len(d)
    BY <2>1, <1>1
  <2> QED BY <2>2, LenProperties
<1> QED BY <1>1, <1>2 DEF CopyData

----------------------------------------------------------------------------
(* Steps. *)

\* Before fs_init there is no file, no handle and no allocation.
LEMMA InitIInv == Init => IInv
<1> SUFFICES ASSUME Init PROVE IInv
  OBVIOUS
<1>1. Linked = {}
  BY DEF Init, Linked, Range
<1>2. TypeOK
  BY DEF Init, TypeOK, IsInjective
<1>3. SameNameSameFile /\ NoDanglingHandle
  BY DEF Init, SameNameSameFile, NoDanglingHandle
<1> QED BY <1>1, <1>2, <1>3
        DEF Init, IInv, RefCountsOpenHandles, NoLeak, UniqueNames,
            PendingDeleteIsOpen, LenWithinCapacity

\* A call that changes nothing keeps the invariant.
LEMMA StutterIInv == IInv /\ UNCHANGED vars => IInv'
<1> SUFFICES ASSUME IInv, UNCHANGED vars PROVE IInv'
  OBVIOUS
<1> USE DEF vars, fileVars, handleVars
<1>1. TypeOK' /\ Linked' = Linked
  BY DEF IInv, TypeOK, Linked
<1>2. \A f : OpenHandles(f)' = OpenHandles(f)
  BY DEF OpenHandles
<1>3. RefCountsOpenHandles'
  BY <1>1, <1>2 DEF IInv, RefCountsOpenHandles
<1>4. NoDanglingHandle' /\ NoLeak'
  BY <1>1 DEF IInv, NoDanglingHandle, NoLeak
<1>5. UniqueNames' /\ PendingDeleteIsOpen' /\ LenWithinCapacity'
  BY <1>1 DEF IInv, UniqueNames, PendingDeleteIsOpen, LenWithinCapacity
<1>6. SameNameSameFile'
  BY DEF IInv, SameNameSameFile
<1> QED BY <1>1, <1>3, <1>4, <1>5, <1>6 DEF IInv

\* A call that changes nothing but the data of a file, within its buffer.
LEMMA DataStep ==
  ASSUME IInv, NEW f \in Files, NEW b \in Seq(Bytes), NEW m \in Nat, m <= Len(b),
         buf' = [buf EXCEPT ![f] = b], len' = [len EXCEPT ![f] = m],
         UNCHANGED <<status, fileList, heap, zName, ref, deleteOnClose, handleVars>>
  PROVE  IInv'
<1> USE DEF handleVars
<1>1. TypeOK' /\ Linked' = Linked /\ Linked \subseteq Files
  BY LinkedFiles DEF IInv, TypeOK, Linked
<1>2. \A g : OpenHandles(g)' = OpenHandles(g)
  BY DEF OpenHandles
<1>3. RefCountsOpenHandles'
  BY <1>1, <1>2 DEF IInv, RefCountsOpenHandles
<1>4. NoDanglingHandle' /\ NoLeak'
  BY <1>1 DEF IInv, NoDanglingHandle, NoLeak
<1>5. UniqueNames' /\ PendingDeleteIsOpen'
  BY <1>1 DEF IInv, UniqueNames, PendingDeleteIsOpen
<1>6. SameNameSameFile'
  BY DEF IInv, SameNameSameFile
<1>7. LenWithinCapacity'
  BY <1>1 DEF IInv, TypeOK, LenWithinCapacity
<1> QED BY <1>1, <1>3, <1>4, <1>5, <1>6, <1>7 DEF IInv

\* Unlinking and freeing a file that no handle is on any more.
LEMMA FreeStep ==
  ASSUME IInv, NEW f \in Linked, Unlink(f), Free(f),
         status' = status, cFileName' = cFileName,
         fd' \in [Handles -> Files \cup {NULL}],
         \A h \in Handles : fd'[h] # f,
         \A h \in Handles : fd[h] # f => fd'[h] = fd[h],
         \A h \in Handles : fd[h] = f => fd'[h] = NULL
  PROVE  IInv'
<1>1. /\ fileList' \in Seq(Files) /\ IsInjective(fileList')
      /\ Linked' = Linked \ {f} /\ Linked \subseteq Files
  <2>1. fileList \in Seq(Files) /\ IsInjective(fileList) /\ f \in Range(fileList)
    BY DEF IInv, TypeOK, Linked
  <2> QED BY <2>1, UnlinkRange, LinkedFiles DEF Unlink, Linked, IInv
<1>2. TypeOK'
  BY <1>1 DEF IInv, TypeOK, Free
<1>3. \A g \in Linked' : OpenHandles(g)' = OpenHandles(g)
  BY <1>1, FilesAssumption DEF OpenHandles
<1>4. RefCountsOpenHandles'
  BY <1>1, <1>3 DEF IInv, TypeOK, RefCountsOpenHandles, Free
<1>5. NoLeak'
  <2>1. heap = UNION {Blocks(g) : g \in Linked}
    BY DEF IInv, NoLeak
  <2>2. heap' = (UNION {Blocks(g) : g \in Linked}) \ Blocks(f)
    BY <2>1 DEF Free
  <2>3. \A g \in Linked' : Blocks(g) \cap Blocks(f) = {}
    BY <1>1, BlocksDistinct
  <2>4. heap' = UNION {Blocks(g) : g \in Linked'}
    BY <2>2, <2>3, <1>1
  <2> QED BY <2>4 DEF NoLeak, Blocks, AllocOrder
<1>6. NoDanglingHandle'
  <2>1. ASSUME NEW h \in Handles, fd'[h] # NULL
        PROVE  fd'[h] \in Linked' /\ Blocks(fd'[h]) \subseteq heap'
    <3>1. fd'[h] = fd[h] /\ fd[h] \in Linked /\ fd[h] # f
      BY <2>1 DEF IInv, NoDanglingHandle
    <3> QED BY <3>1, <1>1, <1>5 DEF NoLeak, Blocks, AllocOrder
  <2> QED BY <2>1 DEF NoDanglingHandle, Blocks, AllocOrder
<1>7. \A g \in Linked' : /\ zName'[g] = zName[g] /\ ref'[g] = ref[g]
                         /\ deleteOnClose'[g] = deleteOnClose[g]
                         /\ buf'[g] = buf[g] /\ len'[g] = len[g]
  BY <1>1 DEF IInv, TypeOK, Free
<1>8. UniqueNames'
  BY <1>1, <1>7 DEF IInv, UniqueNames
<1>9. PendingDeleteIsOpen' /\ LenWithinCapacity'
  BY <1>1, <1>7 DEF IInv, PendingDeleteIsOpen, LenWithinCapacity
<1>10. SameNameSameFile'
  <2>1. \A h \in Handles : fd'[h] # NULL => fd'[h] = fd[h] /\ fd[h] \in Linked'
    BY <1>1 DEF IInv, NoDanglingHandle
  <2> QED BY <2>1, <1>7 DEF IInv, SameNameSameFile
<1> QED BY <1>2, <1>4, <1>5, <1>6, <1>8, <1>9, <1>10 DEF IInv

\* A step of the library's status alone.
LEMMA StatusStep ==
  ASSUME IInv, status' \in {"off", "on", "crashed"},
         UNCHANGED <<fileList, heap, fileVars, handleVars>>
  PROVE  IInv'
<1> USE DEF fileVars, handleVars
<1>1. TypeOK' /\ Linked' = Linked
  BY DEF IInv, TypeOK, Linked
<1>2. \A f : OpenHandles(f)' = OpenHandles(f)
  BY DEF OpenHandles
<1>3. RefCountsOpenHandles'
  BY <1>1, <1>2 DEF IInv, RefCountsOpenHandles
<1>4. NoDanglingHandle' /\ NoLeak'
  BY <1>1 DEF IInv, NoDanglingHandle, NoLeak
<1>5. UniqueNames' /\ PendingDeleteIsOpen' /\ LenWithinCapacity'
  BY <1>1 DEF IInv, UniqueNames, PendingDeleteIsOpen, LenWithinCapacity
<1>6. SameNameSameFile'
  BY DEF IInv, SameNameSameFile
<1> QED BY <1>1, <1>3, <1>4, <1>5, <1>6 DEF IInv

\* fs_deinit frees the files of the list, which are all there are.
LEMMA FsDeinitIInv == IInv /\ FsDeinit => IInv'
<1> SUFFICES ASSUME IInv, FsDeinit PROVE IInv'
  OBVIOUS
<1> USE DEF handleVars
<1>1. Linked' = {}
  BY DEF FsDeinit, Linked, Range
<1>2. TypeOK'
  BY DEF IInv, TypeOK, FsDeinit, IsInjective
<1>3. NoLeak'
  BY <1>1 DEF IInv, NoLeak, FsDeinit, Blocks, AllocOrder
<1>4. NoDanglingHandle' /\ SameNameSameFile'
  BY DEF FsDeinit, NoDanglingHandle, SameNameSameFile
<1> QED BY <1>1, <1>2, <1>3, <1>4
        DEF IInv, RefCountsOpenHandles, UniqueNames, PendingDeleteIsOpen, LenWithinCapacity

\* A handle that was closed joins the file, and the file counts one more.
LEMMA OpenExistingIInv ==
  ASSUME IInv, NEW h \in Handles, NEW n \in Names, NEW flags \in SUBSET OpenFlags,
         OpenExisting(h, n, flags)
  PROVE  IInv'
<1>1. PICK f \in Files :
         /\ f = FindFile(n) /\ f \in Linked /\ zName[f] = n /\ n \notin LongNames
         /\ Linked' = Linked /\ Linked \subseteq Files
  BY FindFileCorrect, LinkedFiles DEF IInv, OpenExisting, Linked
<1>2. /\ fd[h] = NULL
      /\ fd' = [fd EXCEPT ![h] = f] /\ cFileName' = [cFileName EXCEPT ![h] = n]
      /\ ref' = [ref EXCEPT ![f] = @ + 1]
      /\ deleteOnClose' = [deleteOnClose EXCEPT ![f] = @ \/ "DELETEONCLOSE" \in flags]
      /\ UNCHANGED <<status, fileList, heap, zName, buf, len>>
  BY <1>1 DEF OpenExisting, CanOpen, Bind, TakeRef, dataVars
<1>3. TypeOK'
  BY <1>1, <1>2 DEF IInv, TypeOK
<1>4. RefCountsOpenHandles'
  <2>1. OpenHandles(f)' = OpenHandles(f) \cup {h} /\ h \notin OpenHandles(f)
    BY <1>1, <1>2, FilesAssumption DEF OpenHandles, IInv, TypeOK
  <2>2. Cardinality(OpenHandles(f)') = Cardinality(OpenHandles(f)) + 1
    BY <2>1, OpenHandlesFinite, FS_AddElement
  <2>3. ref'[f] = Cardinality(OpenHandles(f)')
    BY <1>1, <1>2, <2>2 DEF IInv, TypeOK, RefCountsOpenHandles
  <2>4. \A g \in Linked \ {f} : OpenHandles(g)' = OpenHandles(g) /\ ref'[g] = ref[g]
    BY <1>1, <1>2, FilesAssumption DEF OpenHandles, IInv, TypeOK
  <2> QED BY <1>1, <2>3, <2>4 DEF IInv, RefCountsOpenHandles
<1>5. NoLeak'
  BY <1>1, <1>2 DEF IInv, NoLeak
<1>6. NoDanglingHandle'
  <2>1. Blocks(f) \subseteq heap
    BY <1>1 DEF IInv, NoLeak
  <2> QED BY <1>1, <1>2, <2>1 DEF IInv, TypeOK, NoDanglingHandle, Blocks, AllocOrder
<1>7. UniqueNames' /\ LenWithinCapacity'
  BY <1>1, <1>2 DEF IInv, UniqueNames, LenWithinCapacity
<1>8. PendingDeleteIsOpen'
  BY <1>1, <1>2 DEF IInv, TypeOK, PendingDeleteIsOpen
<1>9. SameNameSameFile'
  <2>1. \A g \in Handles : fd'[g] # NULL =>
          fd'[g] \in Linked /\ cFileName'[g] \in Names /\ zName'[fd'[g]] = cFileName'[g]
    BY <1>1, <1>2 DEF IInv, TypeOK, NoDanglingHandle, SameNameSameFile
  <2> QED BY <2>1, <1>1, <1>7 DEF SameNameSameFile, UniqueNames
<1> QED BY <1>3, <1>4, <1>5, <1>6, <1>7, <1>8, <1>9 DEF IInv

\* The new file is at an address nothing refers to.
LEMMA OpenNewIInv ==
  ASSUME IInv, NEW h \in Handles, NEW n \in Names, NEW flags \in SUBSET OpenFlags,
         NEW f \in Files, OpenNew(h, n, flags, f)
  PROVE  IInv'
<1>1. f \notin Linked /\ Linked \subseteq Files /\ \A g \in Handles : fd[g] # f
  <2>1. \A g \in Linked : Blocks(g) \subseteq heap /\ Blocks(g) # {}
    BY BlocksDistinct DEF IInv, NoLeak
  <2>2. f \notin Linked
    BY <2>1 DEF OpenNew
  <2> QED BY <2>2, LinkedFiles, FilesAssumption DEF IInv, NoDanglingHandle
<1>2. PICK g \in Garbage(InitCap) : buf' = [buf EXCEPT ![f] = g]
  BY DEF OpenNew
<1>3. g \in Seq(Bytes) /\ Len(g) = InitCap /\ InitCap \in Nat
  BY GarbageIsSeq, SizesAssumption
<1>4. /\ fd[h] = NULL
      /\ fd' = [fd EXCEPT ![h] = f] /\ cFileName' = [cFileName EXCEPT ![h] = n]
      /\ heap' = heap \cup Blocks(f)
      /\ zName' = [zName EXCEPT ![f] = n]
      /\ len' = [len EXCEPT ![f] = 0]
      /\ ref' = [ref EXCEPT ![f] = 1]
      /\ deleteOnClose' =
           [deleteOnClose EXCEPT ![f] = "DELETEONCLOSE" \in flags /\ StrEquals(n, n)]
      /\ status' = status
  BY DEF OpenNew, CanOpen, Bind
<1>5. /\ fileList' \in Seq(Files) /\ IsInjective(fileList')
      /\ Linked' = Linked \cup {f}
  BY <1>1, LinkRange DEF OpenNew, Link, IInv, TypeOK, Linked
<1>6. TypeOK'
  <2>1. heap' \subseteq UNION {Blocks(k) : k \in Files}
    BY <1>4 DEF IInv, TypeOK
  <2> QED BY <1>2, <1>3, <1>4, <1>5, <2>1 DEF IInv, TypeOK, StrEquals, Blocks, AllocOrder
<1>7. RefCountsOpenHandles'
  <2>1. OpenHandles(f)' = {h}
    BY <1>1, <1>4 DEF OpenHandles, IInv, TypeOK
  <2>2. ref'[f] = Cardinality(OpenHandles(f)')
    BY <1>4, <2>1, FS_Singleton DEF IInv, TypeOK
  <2>3. \A k \in Linked : OpenHandles(k)' = OpenHandles(k) /\ ref'[k] = ref[k]
    BY <1>1, <1>4, FilesAssumption DEF OpenHandles, IInv, TypeOK
  <2> QED BY <1>5, <2>2, <2>3 DEF IInv, RefCountsOpenHandles
<1>8. NoLeak'
  <2>1. heap' = UNION {Blocks(k) : k \in Linked'}
    BY <1>4, <1>5 DEF IInv, NoLeak
  <2> QED BY <2>1 DEF NoLeak, Blocks, AllocOrder
<1>9. NoDanglingHandle'
  <2>1. \A k \in Handles : fd'[k] # NULL => fd'[k] \in Linked' /\ Blocks(fd'[k]) \subseteq heap'
    BY <1>4, <1>5 DEF IInv, TypeOK, NoDanglingHandle
  <2> QED BY <2>1 DEF NoDanglingHandle, Blocks, AllocOrder
<1>10. \A k \in Linked : /\ zName'[k] = zName[k] /\ ref'[k] = ref[k]
                         /\ deleteOnClose'[k] = deleteOnClose[k]
                         /\ buf'[k] = buf[k] /\ len'[k] = len[k]
  BY <1>1, <1>2, <1>4 DEF IInv, TypeOK
<1>11. zName'[f] = n /\ ref'[f] = 1 /\ buf'[f] = g /\ len'[f] = 0
  BY <1>2, <1>4 DEF IInv, TypeOK
<1>12. UniqueNames'
  <2>1. \A k \in Linked : zName[k] = n => n \in LongNames
    BY FindFileCorrect DEF IInv, OpenNew
  <2> QED BY <2>1, <1>5, <1>10, <1>11 DEF IInv, UniqueNames
<1>13. PendingDeleteIsOpen' /\ LenWithinCapacity'
  BY <1>3, <1>5, <1>10, <1>11 DEF IInv, PendingDeleteIsOpen, LenWithinCapacity
<1>14. SameNameSameFile'
  <2>1. \A k \in Handles : fd'[k] # NULL =>
          fd'[k] \in Linked' /\ cFileName'[k] \in Names /\ zName'[fd'[k]] = cFileName'[k]
    BY <1>1, <1>4, <1>5, <1>10, <1>11 DEF IInv, TypeOK, NoDanglingHandle, SameNameSameFile
  <2> QED BY <2>1, <1>12 DEF SameNameSameFile, UniqueNames
<1> QED BY <1>6, <1>7, <1>8, <1>9, <1>12, <1>13, <1>14 DEF IInv

\* The error paths of _fs_file_alloc give back all they took.
LEMMA OpenNoMemIInv ==
  ASSUME IInv, NEW h \in Handles, NEW n \in Names, NEW f \in Files, NEW k \in 1..3,
         OpenNoMem(h, n, f, k)
  PROVE  IInv'
<1>1. heap' = heap
  <2>1. FreedOnFailure(f, k) = {<<AllocOrder[j], f>> : j \in 1..(k - 1)}
    BY DEF FreedOnFailure
  <2>2. FreedOnFailure(f, k) \subseteq Blocks(f)
    BY <2>1 DEF Blocks
  <2> QED BY <2>1, <2>2 DEF OpenNoMem
<1>2. UNCHANGED vars
  BY <1>1 DEF OpenNoMem, vars
<1> QED BY <1>2, StutterIInv

\* An open finds a file, makes one, or changes nothing that outlives it.
LEMMA cOpenIInv ==
  ASSUME IInv, NEW h \in Handles, NEW n \in Names, NEW flags \in SUBSET OpenFlags,
         cOpen(h, n, flags)
  PROVE  IInv'
<1>1. CASE OpenRefused(h, n, flags)
  BY <1>1, StutterIInv DEF OpenRefused
<1>2. CASE OpenExisting(h, n, flags)
  BY <1>2, OpenExistingIInv
<1>3. CASE \E f \in Files : OpenNew(h, n, flags, f)
  BY <1>3, OpenNewIInv
<1>4. CASE \E f \in Files, k \in 1..3 : OpenNoMem(h, n, f, k)
  BY <1>4, OpenNoMemIInv
<1> QED BY <1>1, <1>2, <1>3, <1>4 DEF cOpen

\* The last handle of a doomed file frees it, another one leaves it to the others.
LEMMA cCloseIInv ==
  ASSUME IInv, NEW h \in Handles, cClose(h)
  PROVE  IInv'
<1>1. PICK f \in Files :
        /\ f = fd[h] /\ f \in Linked /\ h \in OpenHandles(f)
        /\ ref[f] = Cardinality(OpenHandles(f)) /\ ref[f] \in Nat
        /\ Linked \subseteq Files
  BY LinkedFiles DEF IInv, TypeOK, cClose, IsOpen, NoDanglingHandle,
                     RefCountsOpenHandles, OpenHandles
<1>2. /\ fd' = [fd EXCEPT ![h] = NULL] /\ status' = status /\ cFileName' = cFileName
      /\ fd' \in [Handles -> Files \cup {NULL}]
  BY DEF cClose, IInv, TypeOK
<1>3. /\ Cardinality(OpenHandles(f) \ {h}) = ref[f] - 1
      /\ IsFiniteSet(OpenHandles(f) \ {h})
  BY <1>1, OpenHandlesFinite, FS_RemoveElement
<1>4. ref[f] - 1 \in Nat
  BY <1>3, FS_CardinalityType
<1>5. OpenHandles(f)' = OpenHandles(f) \ {h}
  BY <1>1, <1>2, FilesAssumption DEF OpenHandles, IInv, TypeOK
<1>6. CASE LastClose(f)
  <2>1. OpenHandles(f)' = {}
    BY <1>3, <1>5, <1>6, FS_EmptySet DEF LastClose
  <2>2. \A g \in Handles : fd'[g] # f
    BY <2>1 DEF OpenHandles
  <2>3. Unlink(f) /\ Free(f)
    BY <1>1, <1>6 DEF cClose
  <2>4. /\ \A g \in Handles : fd[g] # f => fd'[g] = fd[g]
        /\ \A g \in Handles : fd[g] = f => fd'[g] = NULL
    <3>1. \A g \in Handles : fd'[g] = IF g = h THEN NULL ELSE fd[g]
      BY <1>2 DEF IInv, TypeOK
    <3> QED BY <3>1, <2>2, <1>1
  <2> QED BY <1>1, <1>2, <2>2, <2>3, <2>4, FreeStep
<1>7. CASE ~LastClose(f)
  <2>1. /\ ref' = [ref EXCEPT ![f] = @ - 1]
        /\ UNCHANGED <<fileList, heap, zName, buf, len, deleteOnClose>>
    BY <1>1, <1>7 DEF cClose, DropRef, dataVars
  <2>2. TypeOK' /\ Linked' = Linked
    BY <1>1, <1>2, <1>4, <2>1 DEF IInv, TypeOK, Linked
  <2>3. RefCountsOpenHandles'
    <3>1. ref'[f] = Cardinality(OpenHandles(f)')
      BY <1>3, <1>5, <2>1 DEF IInv, TypeOK
    <3>2. \A g \in Linked \ {f} : OpenHandles(g)' = OpenHandles(g) /\ ref'[g] = ref[g]
      BY <1>1, <1>2, <2>1, FilesAssumption DEF OpenHandles, IInv, TypeOK
    <3> QED BY <2>2, <3>1, <3>2 DEF IInv, RefCountsOpenHandles
  <2>4. NoDanglingHandle' /\ NoLeak' /\ UniqueNames' /\ LenWithinCapacity'
    BY <1>2, <2>1, <2>2
       DEF IInv, TypeOK, NoDanglingHandle, NoLeak, UniqueNames, LenWithinCapacity
  <2>5. PendingDeleteIsOpen'
    <3>1. ASSUME deleteOnClose[f] PROVE ref[f] - 1 > 0
      BY <3>1, <1>1, <1>4, <1>7 DEF LastClose
    <3> QED BY <3>1, <1>1, <2>1, <2>2 DEF IInv, TypeOK, PendingDeleteIsOpen
  <2>6. SameNameSameFile'
    BY <1>2, <2>1 DEF IInv, TypeOK, SameNameSameFile
  <2> QED BY <2>2, <2>3, <2>4, <2>5, <2>6 DEF IInv
<1> QED BY <1>6, <1>7

\* A file that is open is one of the files, and its buffer holds its valid part.
LEMMA OpenFile ==
  ASSUME IInv, NEW h \in Handles, IsOpen(h)
  PROVE  /\ fd[h] \in Files /\ fd[h] \in Linked
         /\ buf[fd[h]] \in Seq(Bytes)
         /\ len[fd[h]] \in Nat /\ len[fd[h]] <= Len(buf[fd[h]])
<1>1. fd[h] \in Files /\ fd[h] \in Linked
  BY LinkedFiles DEF IInv, IsOpen, NoDanglingHandle
<1> QED BY <1>1 DEF IInv, TypeOK, LenWithinCapacity

\* The buffer is grown to the end of the write before the length is moved there.
LEMMA cWriteIInv ==
  ASSUME IInv, NEW h \in Handles, NEW off \in Offsets, NEW d \in Data, cWrite(h, off, d)
  PROVE  IInv'
<1>1. off \in Nat /\ d \in Seq(Bytes) /\ Len(d) \in Nat
  BY SizesAssumption, LenProperties DEF cWrite
<1>2. /\ fd[h] \in Files /\ buf[fd[h]] \in Seq(Bytes)
  BY OpenFile DEF cWrite
<1>3. PICK b \in EnsureCapacity(buf[fd[h]], off + Len(d)) :
        buf' = [buf EXCEPT ![fd[h]] = CopyData(b, off, d)]
  BY DEF cWrite
<1>4. b \in Seq(Bytes) /\ Len(b) >= off + Len(d)
  BY <1>1, <1>2, EnsureCapacityCorrect
<1>5. CopyData(b, off, d) \in Seq(Bytes) /\ Len(CopyData(b, off, d)) = Len(b)
  BY <1>1, <1>4, CopyDataCorrect
<1>6. /\ len' = [len EXCEPT ![fd[h]] = off + Len(d)]
      /\ UNCHANGED <<status, fileList, heap, zName, ref, deleteOnClose, handleVars>>
  BY DEF cWrite, LenAfterWrite
<1>7. off + Len(d) \in Nat /\ off + Len(d) <= Len(CopyData(b, off, d))
  BY <1>1, <1>4, <1>5, LenProperties
<1> QED BY <1>2, <1>3, <1>5, <1>6, <1>7, DataStep

\* Truncating only makes the valid part shorter.
LEMMA cTruncateIInv ==
  ASSUME IInv, NEW h \in Handles, NEW size \in Sizes, cTruncate(h, size)
  PROVE  IInv'
<1>1. PICK f \in Files : /\ f = fd[h] /\ buf[f] \in Seq(Bytes)
                         /\ len[f] \in Nat /\ len[f] <= Len(buf[f])
  BY OpenFile DEF cTruncate
<1>2. PICK m \in Nat : m = (IF size < len[f] THEN size ELSE len[f]) /\ m <= Len(buf[f])
  BY <1>1, SizesAssumption, LenProperties
<1>3. /\ len' = [len EXCEPT ![f] = m]
      /\ UNCHANGED <<status, fileList, heap, zName, buf, ref, deleteOnClose, handleVars>>
  BY <1>1, <1>2 DEF cTruncate
<1>4. buf' = [buf EXCEPT ![f] = buf[f]]
  BY <1>3 DEF IInv, TypeOK
<1> QED BY <1>1, <1>2, <1>3, <1>4, DataStep

\* A hint only makes the buffer longer.
LEMMA cSizeHintIInv ==
  ASSUME IInv, NEW h \in Handles, NEW size \in Sizes, cSizeHint(h, size)
  PROVE  IInv'
<1>1. PICK f \in Files : /\ f = fd[h] /\ buf[f] \in Seq(Bytes)
                         /\ len[f] \in Nat /\ len[f] <= Len(buf[f])
  BY OpenFile DEF cSizeHint
<1>2. UNCHANGED <<status, fileList, heap, zName, len, ref, deleteOnClose, handleVars>>
  BY DEF cSizeHint
<1>3. len' = [len EXCEPT ![f] = len[f]]
  BY <1>2 DEF IInv, TypeOK
<1>4. CASE \E b \in EnsureCapacity(buf[f], size) : buf' = [buf EXCEPT ![f] = b]
  <2>1. PICK b \in EnsureCapacity(buf[f], size) : buf' = [buf EXCEPT ![f] = b]
    BY <1>4
  <2>2. b \in Seq(Bytes) /\ Len(b) >= Len(buf[f])
    BY <1>1, SizesAssumption, EnsureCapacityCorrect
  <2>3. len[f] <= Len(b)
    BY <1>1, <2>2, LenProperties
  <2> QED BY <1>1, <1>2, <1>3, <2>1, <2>2, <2>3, DataStep
<1>5. CASE UNCHANGED buf
  BY <1>2, <1>5, StutterIInv DEF vars, fileVars
<1> QED BY <1>1, <1>4, <1>5 DEF cSizeHint

\* A delete frees a file nobody has open, or marks one somebody has open.
LEMMA cDeleteIInv ==
  ASSUME IInv, NEW n \in Names, cDelete(n)
  PROVE  IInv'
<1>1. status' = status /\ fd' = fd /\ cFileName' = cFileName
  BY DEF cDelete, handleVars
<1>2. CASE ~Exists(n)
  BY <1>1, <1>2, StutterIInv DEF cDelete, vars, handleVars
<1>3. CASE Exists(n)
  <2>1. PICK f \in Files : f = FindFile(n) /\ f \in Linked
    BY <1>3, FindFileCorrect, LinkedFiles DEF IInv
  <2>2. ref[f] \in Nat /\ ref[f] = Cardinality(OpenHandles(f))
    BY <2>1 DEF IInv, TypeOK, RefCountsOpenHandles
  <2>3. CASE ref[f] = 0
    <3>1. Unlink(f) /\ Free(f)
      BY <1>3, <2>1, <2>3 DEF cDelete
    <3>2. \A h \in Handles : fd[h] # f
      BY <2>2, <2>3, OpenHandlesFinite DEF OpenHandles
    <3>3. fd' \in [Handles -> Files \cup {NULL}]
      BY <1>1 DEF IInv, TypeOK
    <3> QED BY <1>1, <2>1, <3>1, <3>2, <3>3, FreeStep
  <2>4. CASE ref[f] # 0
    <3>1. /\ deleteOnClose' = [deleteOnClose EXCEPT ![f] = TRUE]
          /\ UNCHANGED <<fileList, heap, zName, buf, len, ref>>
      BY <1>3, <2>1, <2>4 DEF cDelete, dataVars
    <3>2. TypeOK' /\ Linked' = Linked /\ \A g : OpenHandles(g)' = OpenHandles(g)
      BY <1>1, <3>1 DEF IInv, TypeOK, Linked, OpenHandles
    <3>3. RefCountsOpenHandles'
      BY <3>1, <3>2 DEF IInv, RefCountsOpenHandles
    <3>4. NoDanglingHandle' /\ NoLeak' /\ UniqueNames' /\ LenWithinCapacity'
      BY <1>1, <3>1, <3>2
         DEF IInv, NoDanglingHandle, NoLeak, UniqueNames, LenWithinCapacity
    <3>5. PendingDeleteIsOpen'
      BY <2>1, <2>2, <2>4, <3>1, <3>2 DEF IInv, TypeOK, PendingDeleteIsOpen
    <3>6. SameNameSameFile'
      BY <1>1, <3>1 DEF IInv, SameNameSameFile
    <3> QED BY <3>2, <3>3, <3>4, <3>5, <3>6 DEF IInv
  <2> QED BY <2>3, <2>4
<1> QED BY <1>2, <1>3

----------------------------------------------------------------------------
(* Theorems. *)

\* Whatever call is made, the invariant outlives it.
LEMMA NextIInv == IInv /\ [Next]_vars => IInv'
<1> SUFFICES ASSUME IInv, [Next]_vars PROVE IInv'
  OBVIOUS
<1>1. CASE FsInit
  BY <1>1, StatusStep DEF FsInit
<1>2. CASE FsDeinit
  BY <1>2, FsDeinitIInv
<1>3. CASE \E h \in Handles, n \in Names, flags \in SUBSET OpenFlags : cOpen(h, n, flags)
  BY <1>3, cOpenIInv
<1>4. CASE \E h \in Handles : cOpenTemp(h)
  BY <1>4, StatusStep DEF cOpenTemp
<1>5. CASE \E h \in Handles : cClose(h)
  BY <1>5, cCloseIInv
<1>6. CASE \E h \in Handles, off \in Offsets, d \in Data : cWrite(h, off, d)
  BY <1>6, cWriteIInv
<1>7. CASE \E h \in Handles, off \in Offsets, d \in Data : cWriteFails(h, off, d)
  BY <1>7, StutterIInv DEF cWriteFails
<1>8. CASE \E h \in Handles, size \in Sizes : cTruncate(h, size)
  BY <1>8, cTruncateIInv
<1>9. CASE \E h \in Handles, size \in Sizes : cSizeHint(h, size)
  BY <1>9, cSizeHintIInv
<1>10. CASE \E n \in Names : cDelete(n)
  BY <1>10, cDeleteIInv
<1>11. CASE UNCHANGED vars
  BY <1>11, StutterIInv
<1> QED BY <1>1, <1>2, <1>3, <1>4, <1>5, <1>6, <1>7, <1>8, <1>9, <1>10, <1>11 DEF Next

\* The eight invariants together are inductive, so they hold in every reachable state.
THEOREM Invariance == Spec => []IInv
BY InitIInv, NextIInv, PTL DEF Spec

\* The fields of the file system keep their types and the file list never holds a
\* file twice.
THEOREM TypeCorrect == Spec => []TypeOK
<1>1. IInv => TypeOK
  BY DEF IInv
<1> QED BY <1>1, Invariance, PTL

\* fs_file.ref is the number of open cFile's, for any number of files and handles
\* and any order of opens, closes and deletes.
THEOREM RefCountsCorrect == Spec => []RefCountsOpenHandles
<1>1. IInv => RefCountsOpenHandles
  BY DEF IInv
<1> QED BY <1>1, Invariance, PTL

\* fs_close and fs_delete free no file that a cFile still points at.
THEOREM NoUseAfterFree == Spec => []NoDanglingHandle
<1>1. IInv => NoDanglingHandle
  BY DEF IInv
<1> QED BY <1>1, Invariance, PTL

\* The live allocations are exactly those of the files in the list, failed opens and
\* address reuse included.
THEOREM HeapBalanced == Spec => []NoLeak
<1>1. IInv => NoLeak
  BY DEF IInv
<1> QED BY <1>1, Invariance, PTL

\* A name short enough to be compared belongs to at most one file.
THEOREM OneFilePerName == Spec => []UniqueNames
<1>1. IInv => UniqueNames
  BY DEF IInv
<1> QED BY <1>1, Invariance, PTL

\* A file that is still to be deleted has a handle whose close will do it.
THEOREM DeletionPending == Spec => []PendingDeleteIsOpen
<1>1. IInv => PendingDeleteIsOpen
  BY DEF IInv
<1> QED BY <1>1, Invariance, PTL

\* A handle stays on the file of its name, and the handles of a name share that file.
THEOREM HandlesShareFiles == Spec => []SameNameSameFile
<1>1. IInv => SameNameSameFile
  BY DEF IInv
<1> QED BY <1>1, Invariance, PTL

\* What fs_read may copy lies within the file's allocation, after any writes,
\* truncations and size hints.
THEOREM ReadsStayInside == Spec => []LenWithinCapacity
<1>1. IInv => LenWithinCapacity
  BY DEF IInv
<1> QED BY <1>1, Invariance, PTL

----------------------------------------------------------------------------
(* What is written is read back. *)

\* After a successful fs_write, cRead of the same range yields the bytes written.
LEMMA WriteThenRead ==
  ASSUME IInv, NEW h \in Handles, NEW off \in Offsets, NEW d \in Data, cWrite(h, off, d),
         NEW g \in Handles, fd[g] = fd[h]
  PROVE  CRead(fd[g], off, Len(d))' = [rc |-> "OK", data |-> d]
<1>1. off \in Nat /\ d \in Seq(Bytes) /\ Len(d) \in Nat
  BY SizesAssumption, LenProperties DEF cWrite
<1>2. PICK f \in Files : f = fd[h] /\ buf[f] \in Seq(Bytes)
  BY OpenFile DEF cWrite
<1>3. PICK b \in EnsureCapacity(buf[f], off + Len(d)) :
        buf' = [buf EXCEPT ![f] = CopyData(b, off, d)]
  BY <1>2 DEF cWrite
<1>4. b \in Seq(Bytes) /\ Len(b) \in Nat /\ Len(b) >= off + Len(d)
  BY <1>1, <1>2, EnsureCapacityCorrect, LenProperties
<1>5. /\ fd'[g] = f
      /\ len'[f] = off + Len(d)
      /\ buf'[f] = CopyData(b, off, d)
  BY <1>2, <1>3 DEF cWrite, LenAfterWrite, handleVars, IInv, TypeOK
<1>6. \A i \in 1..Len(d) : CopyData(b, off, d)[off + i] = d[i]
  BY <1>1, <1>4 DEF CopyData
<1>7. FsRead(fd[g], off, Len(d))' = Len(d)
  BY <1>1, <1>5 DEF FsRead
<1>8. [i \in 1..Len(d) |-> CopyData(b, off, d)[off + i]] = d
  BY <1>1, <1>6
<1>9. [i \in 1..Len(d) |-> IF i <= Len(d) THEN buf'[fd'[g]][off + i] ELSE Zero] = d
  BY <1>1, <1>5, <1>8
<1> QED BY <1>1, <1>7, <1>9 DEF CRead

\* What a write stored is what every handle of that file reads back from there.
THEOREM WritesReadBack == Spec => ReadBack
<1>1. IInv /\ [Next]_vars =>
        [\A h \in Handles, off \in Offsets, d \in Data :
           cWrite(h, off, d) =>
             \A g \in Handles :
               fd[g] = fd[h] => CRead(fd[g], off, Len(d))' = [rc |-> "OK", data |-> d]]_vars
  BY WriteThenRead
<1> QED BY <1>1, Invariance, PTL DEF Spec, ReadBack
=============================================================================
