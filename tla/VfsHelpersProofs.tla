--------------------------- MODULE VfsHelpersProofs ---------------------------
(***************************************************************************)
(* The properties of VfsHelpers, for words of any size, any shifts and     *)
(* seed, any buffers and names, and ints of any size.                      *)
(***************************************************************************)
EXTENDS VfsHelpers, WellFoundedInduction, TLAPS

----------------------------------------------------------------------------
(* Random numbers: a shift moves the lowest or the highest bit away, so the *)
(* exclusive or with the word it came from keeps that bit.                  *)

\* A set of numbers that is not empty has a least one.
LEMMA LeastExists ==
  ASSUME NEW s \in SUBSET Nat, s # {}
  PROVE  \E b \in s : \A c \in s : b <= c
<1>1. PICK b \in s : \A c \in s : ~ (<<c, b>> \in OpToRel(<, Nat))
  BY NatLessThanWellFounded, WFMin
<1>2. ASSUME NEW c \in s PROVE b <= c
  <2>1. ~ (c < b)
    BY <1>1 DEF OpToRel
  <2> QED BY <2>1
<1> QED BY <1>2

\* A word that is not zero has a lowest and a highest bit.
LEMMA LowestBit ==
  ASSUME NEW s \in SUBSET Bits, s # {}
  PROVE  \E b \in s : \A c \in s : b <= c
<1>1. s \in SUBSET Nat
  BY VfsHelpersAssumption DEF Bits
<1> QED BY <1>1, LeastExists

LEMMA HighestBit ==
  ASSUME NEW s \in SUBSET Bits, s # {}
  PROVE  \E b \in s : \A c \in s : c <= b
<1> DEFINE flipped == {WordBits - c : c \in s}
<1>1. flipped \in SUBSET Nat /\ flipped # {}
  <2>1. WordBits \in Int /\ \A c \in s : WordBits - c \in Nat
    BY VfsHelpersAssumption DEF Bits
  <2>2. flipped \in SUBSET Nat
    BY <2>1
  <2>3. flipped # {}
    OBVIOUS
  <2> QED BY <2>2, <2>3
<1>2. PICK f \in flipped : \A c \in flipped : f <= c
  <2> HIDE DEF flipped
  <2> QED BY <1>1, LeastExists
<1>3. PICK b \in s : f = WordBits - b
  OBVIOUS
<1>4. ASSUME NEW c \in s PROVE c <= b
  <2>1. f <= WordBits - c
    BY <1>2
  <2>2. b \in Int /\ c \in Int /\ WordBits \in Int
    BY VfsHelpersAssumption DEF Bits
  <2> QED BY <2>1, <2>2, <1>3
<1> QED BY <1>4

\* A word's exclusive or with itself, shifted, is not zero.
LEMMA RightStepAlive ==
  ASSUME NEW s \in SUBSET Bits, s # {}, NEW k \in Nat \ {0}
  PROVE  Xor(s, ShiftRight(s, k)) \in SUBSET Bits /\ Xor(s, ShiftRight(s, k)) # {}
<1>1. PICK b \in s : \A c \in s : c <= b
  BY HighestBit
<1>2. b \in Int
  BY VfsHelpersAssumption DEF Bits
<1>3. b + k \notin s
  BY <1>1, <1>2
<1> QED BY <1>3 DEF Xor, ShiftRight

LEMMA LeftStepAlive ==
  ASSUME NEW s \in SUBSET Bits, s # {}, NEW k \in Nat \ {0}
  PROVE  Xor(s, ShiftLeft(s, k)) \in SUBSET Bits /\ Xor(s, ShiftLeft(s, k)) # {}
<1>1. PICK b \in s : \A c \in s : b <= c
  BY LowestBit
<1>2. b \in Int
  BY VfsHelpersAssumption DEF Bits
<1>3. b - k \notin s
  BY <1>1, <1>2
<1> QED BY <1>3 DEF Xor, ShiftLeft

\* So the next state is not zero if this one is not.
LEMMA NextStateAlive ==
  ASSUME NEW s \in SUBSET Bits, s # {}
  PROVE  NextState(s) \in SUBSET Bits /\ NextState(s) # {}
<1>1. PICK a : a = Xor(s, ShiftRight(s, ShiftA))
  OBVIOUS
<1>2. a \in SUBSET Bits /\ a # {}
  BY <1>1, RightStepAlive, VfsHelpersAssumption
<1>3. PICK b : b = Xor(a, ShiftLeft(a, ShiftB))
  OBVIOUS
<1>4. b \in SUBSET Bits /\ b # {}
  BY <1>2, <1>3, LeftStepAlive, VfsHelpersAssumption
<1>5. NextState(s) = Xor(b, ShiftRight(b, ShiftC))
  BY <1>1, <1>3 DEF NextState
<1> QED BY <1>4, <1>5, RightStepAlive, VfsHelpersAssumption

StateInv == prng_state \in SUBSET Bits /\ prng_state # {}

\* get_random never reaches the state it could not leave.
THEOREM RandomNeverStops == Spec => []RandomStateAlive
<1>1. Init => StateInv
  BY VfsHelpersAssumption DEF Init, StateInv
<1>2. StateInv /\ [Next]_vars => StateInv'
  <2> SUFFICES ASSUME StateInv, [Next]_vars PROVE StateInv'
    OBVIOUS
  <2>1. ASSUME NEW n, Store(n) PROVE StateInv'
    BY <2>1, NextStateAlive DEF Store, StateInv
  <2>2. CASE UNCHANGED prng_state
    BY <2>2 DEF StateInv
  <2>3. CASE StoreEight \/ StoreFour \/ StoreOne
    BY <2>1, <2>3 DEF StoreEight, StoreFour, StoreOne
  <2>4. CASE UNCHANGED vars
    BY <2>2, <2>4 DEF vars, randomVars
  <2>5. ASSUME NEW n \in ByteCounts, Randomness(n) PROVE StateInv'
    BY <2>2, <2>5 DEF Randomness
  <2>6. ASSUME NEW n \in NameLengths, PagerOpen(n) PROVE StateInv'
    BY <2>2, <2>6 DEF PagerOpen, randomVars
  <2>7. ASSUME NEW sz \in 0..(2 * IntMax + 1), Write(sz) \/ SizeHint(sz) PROVE StateInv'
    BY <2>2, <2>7 DEF Write, SizeHint, randomVars
  <2> QED BY <2>3, <2>4, <2>5, <2>6, <2>7 DEF Next
<1>3. StateInv => RandomStateAlive
  BY DEF StateInv, RandomStateAlive
<1> QED BY <1>1, <1>2, <1>3, PTL DEF Spec

----------------------------------------------------------------------------
(* cRandomness. *)

FillInv == i \in Nat /\ nByte \in Nat /\ FillsExactly

\* cRandomness fills the bytes it was asked for, from the first on, and none behind.
THEOREM ExactlyFilled == Spec => []FillsExactly
<1>1. Init => FillInv
  BY DEF Init, FillInv, FillsExactly
<1>2. FillInv /\ [Next]_vars => FillInv'
  <2> SUFFICES ASSUME FillInv, [Next]_vars PROVE FillInv'
    OBVIOUS
  <2>1. ASSUME NEW n \in Nat \ {0}, Store(n), i + n <= nByte PROVE FillInv'
    <3>1. i' = i + n /\ nByte' = nByte
      BY <2>1 DEF Store
    <3>2. stored' = (0..(i - 1)) \union (i..(i + n - 1))
      BY <2>1 DEF Store, FillInv, FillsExactly
    <3>3. stored' = 0..(i' - 1)
      BY <3>1, <3>2 DEF FillInv
    <3> QED BY <2>1, <3>1, <3>3 DEF FillInv, FillsExactly
  <2>2. CASE UNCHANGED <<nByte, i, stored>>
    BY <2>2 DEF FillInv, FillsExactly
  <2>3. CASE StoreEight
    BY <2>1, <2>3 DEF StoreEight, Fits, FillInv
  <2>4. CASE StoreFour
    BY <2>1, <2>4 DEF StoreFour, Fits, FillInv
  <2>5. CASE StoreOne
    BY <2>1, <2>5 DEF StoreOne, Fits, FillInv
  <2>6. ASSUME NEW n \in ByteCounts, Randomness(n) PROVE FillInv'
    BY <2>6, VfsHelpersAssumption DEF Randomness, FillInv, FillsExactly
  <2>7. CASE UNCHANGED vars
    BY <2>2, <2>7 DEF vars, randomVars
  <2>8. ASSUME NEW n \in NameLengths, PagerOpen(n) PROVE FillInv'
    BY <2>2, <2>8 DEF PagerOpen, randomVars
  <2>9. ASSUME NEW sz \in 0..(2 * IntMax + 1), Write(sz) \/ SizeHint(sz) PROVE FillInv'
    BY <2>2, <2>9 DEF Write, SizeHint, randomVars
  <2> QED BY <2>3, <2>4, <2>5, <2>6, <2>7, <2>8, <2>9 DEF Next
<1>3. FillInv => FillsExactly
  BY DEF FillInv
<1> QED BY <1>1, <1>2, <1>3, PTL DEF Spec

----------------------------------------------------------------------------
(* Path names. *)

\* A path is whole or the database is not opened.
THEOREM PathsWhole == Spec => []PathIsWhole
<1>1. Init => PathIsWhole
  BY VfsHelpersAssumption DEF Init, PathIsWhole
<1>2. PathIsWhole /\ [Next]_vars => PathIsWhole'
  <2> SUFFICES ASSUME PathIsWhole, [Next]_vars PROVE PathIsWhole'
    OBVIOUS
  <2>1. CASE UNCHANGED path
    BY <2>1 DEF PathIsWhole
  <2>2. ASSUME NEW n \in NameLengths, PagerOpen(n) PROVE PathIsWhole'
    <3>1. PICK k : k = FullPathname(n, MaxPathname + 1)
      OBVIOUS
    <3>2. k = Kept(n) /\ k \in Nat /\ k <= MaxPathname /\ (k + 8 <= MaxPathname => k = n)
      BY <3>1, VfsHelpersAssumption DEF FullPathname, Kept
    <3>3. path' = [name |-> n, nul |-> k, opened |-> k # Refused /\ JournalFits(k)]
      BY <2>2, <3>1 DEF PagerOpen
    <3>4. path'.name = n /\ path'.nul = k /\ (path'.opened => k + 8 <= MaxPathname)
      BY <3>3 DEF JournalFits
    <3> QED BY <3>2, <3>4 DEF PathIsWhole
  <2>3. CASE UNCHANGED vars
    BY <2>1, <2>3 DEF vars
  <2>4. CASE StoreEight \/ StoreFour \/ StoreOne
    BY <2>1, <2>4 DEF StoreEight, StoreFour, StoreOne, Store
  <2>5. ASSUME NEW n \in ByteCounts, Randomness(n) PROVE PathIsWhole'
    BY <2>1, <2>5 DEF Randomness
  <2>6. ASSUME NEW sz \in 0..(2 * IntMax + 1), Write(sz) \/ SizeHint(sz) PROVE PathIsWhole'
    BY <2>1, <2>6 DEF Write, SizeHint
  <2> QED BY <2>2, <2>3, <2>4, <2>5, <2>6 DEF Next
<1> QED BY <1>1, <1>2, PTL DEF Spec

----------------------------------------------------------------------------
(* Buffer sizes. *)

SizeInv == capacity \in 0..IntMax /\ len \in Nat /\ (alive => len <= capacity)

\* What _fs_data_ensure_capacity leaves, for a request that is an int or what an
\* unsigned word of its width may be: enough room, or no process.
LEMMA EnsureCapacityCorrect ==
  ASSUME SizeInv, NEW sz \in 0..(2 * IntMax + 1), EnsureCapacity(sz)
  PROVE  /\ capacity' \in 0..IntMax /\ capacity <= capacity'
         /\ alive' => alive
         /\ alive' => sz <= capacity'
<1> USE VfsHelpersAssumption
<1>1. CASE capacity >= sz
  BY <1>1 DEF EnsureCapacity, SizeInv
<1>2. CASE capacity < sz
  <2>1. PICK overflows \in BOOLEAN :
          IF NewSize(sz, overflows) < 0 THEN alive' = FALSE /\ UNCHANGED capacity
          ELSE capacity' = NewSize(sz, overflows) /\ UNCHANGED alive
    BY <1>2 DEF EnsureCapacity, SizeInv
  <2>2. PICK n : n = NewSize(sz, overflows)
    OBVIOUS
  <2>3. n \in Int /\ n <= IntMax /\ (n >= 0 => n >= sz)
    <3>1. CASE 2 * capacity < sz \/ (2 * capacity > IntMax /\ overflows)
      BY <3>1, <2>2 DEF NewSize, ToInt, SizeInv
    <3>2. CASE ~ (2 * capacity < sz \/ (2 * capacity > IntMax /\ overflows))
      BY <3>2, <2>2 DEF NewSize, ToInt, SizeInv
    <3> QED BY <3>1, <3>2
  <2>4. CASE n < 0
    BY <2>1, <2>2, <2>4 DEF SizeInv
  <2>5. CASE n >= 0
    BY <1>2, <2>1, <2>2, <2>3, <2>5 DEF SizeInv
  <2> QED BY <2>3, <2>4, <2>5
<1> QED BY <1>1, <1>2 DEF SizeInv

\* While the process runs, the buffer is as long as the file at least.
THEOREM FilesFit == Spec => []BufferHoldsFile
<1> USE VfsHelpersAssumption
<1>1. Init => SizeInv
  BY DEF Init, SizeInv
<1>2. SizeInv /\ [Next]_vars => SizeInv'
  <2> SUFFICES ASSUME SizeInv, [Next]_vars PROVE SizeInv'
    OBVIOUS
  <2>1. CASE UNCHANGED sizeVars
    BY <2>1 DEF SizeInv, sizeVars
  <2>2. ASSUME NEW sz \in 0..(2 * IntMax + 1), Write(sz) PROVE SizeInv'
    <3>1. EnsureCapacity(sz) /\ len' = IF alive' THEN sz ELSE len
      BY <2>2 DEF Write
    <3>2. capacity' \in 0..IntMax /\ (alive' => sz <= capacity')
      BY <3>1, EnsureCapacityCorrect
    <3> QED BY <3>1, <3>2 DEF SizeInv
  <2>3. ASSUME NEW sz \in 0..(2 * IntMax + 1), SizeHint(sz) PROVE SizeInv'
    <3>1. EnsureCapacity(ToInt(sz)) /\ len' = len
      BY <2>3 DEF SizeHint
    <3>2. CASE sz <= IntMax
      <4>1. capacity' \in 0..IntMax /\ capacity <= capacity' /\ (alive' => alive)
        BY <3>1, <3>2, EnsureCapacityCorrect DEF ToInt
      <4> QED BY <3>1, <4>1 DEF SizeInv
    <3>3. CASE sz > IntMax
      <4>1. ToInt(sz) <= capacity
        BY <3>3 DEF ToInt, SizeInv
      <4>2. ToInt(sz) \in Int
        BY DEF ToInt
      <4>3. UNCHANGED <<capacity, alive>>
        BY <3>1, <4>1, <4>2 DEF EnsureCapacity, SizeInv
      <4> QED BY <3>1, <4>3 DEF SizeInv
    <3> QED BY <3>2, <3>3
  <2>4. CASE UNCHANGED vars
    BY <2>1, <2>4 DEF vars
  <2>5. CASE StoreEight \/ StoreFour \/ StoreOne
    BY <2>1, <2>5 DEF StoreEight, StoreFour, StoreOne, Store
  <2>6. ASSUME NEW n \in ByteCounts, Randomness(n) PROVE SizeInv'
    BY <2>1, <2>6 DEF Randomness
  <2>7. ASSUME NEW n \in NameLengths, PagerOpen(n) PROVE SizeInv'
    BY <2>1, <2>7 DEF PagerOpen
  <2> QED BY <2>2, <2>3, <2>4, <2>5, <2>6, <2>7 DEF Next
<1>3. SizeInv => BufferHoldsFile
  BY DEF SizeInv, BufferHoldsFile
<1> QED BY <1>1, <1>2, <1>3, PTL DEF Spec
=============================================================================
