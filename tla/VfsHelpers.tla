------------------------------ MODULE VfsHelpers ------------------------------
(***************************************************************************)
(* The parts of the file system that compute with machine words, ints and  *)
(* buffers: the random numbers (get_random, cRandomness), the full path of *)
(* a database with the check its caller makes (cFullPathname,              *)
(* sqlite3PagerOpen), and the size of a file's buffer in the malloc()      *)
(* build (_fs_data_ensure_capacity under fs_write and cFileControl).       *)
(* They share no state and are steps of one machine only to be checked     *)
(* together.                                                               *)
(*                                                                         *)
(* A word is the set of its bits that are 1.  X_Slip is a mutated form     *)
(* of X.                                                                   *)
(***************************************************************************)
EXTENDS Integers

CONSTANTS
  WordBits,        \* 64
  ShiftA, ShiftB, ShiftC, \* 12, 25, 17
  Seed,            \* the word 4
  ByteCounts,      \* nByte of cRandomness
  MaxDraws,        \* bound: calls of get_random
  MaxPathname,     \* MAX_PATHNAME, mxPathname
  NameLengths,     \* lengths of database names
  IntMax,          \* INT_MAX
  InitialCapacity  \* INITIAL_BUF_DATA_SIZE

Bits == 0..(WordBits - 1)

ASSUME VfsHelpersAssumption ==
  /\ WordBits \in Nat
  /\ ShiftA \in Nat \ {0} /\ ShiftB \in Nat \ {0} /\ ShiftC \in Nat \ {0}
  /\ Seed \in SUBSET Bits /\ Seed # {}
  /\ ByteCounts \subseteq Nat /\ MaxDraws \in Nat
  /\ MaxPathname \in Nat /\ NameLengths \subseteq Nat
  /\ IntMax \in Nat /\ InitialCapacity \in 0..IntMax

VARIABLES
  prng_state,  \* composite_vfs_data.prng_state
  draws,       \* calls of get_random so far
  nByte, i,    \* the call of cRandomness in progress, or the last one
  stored,      \* the bytes of zOut it has stored into
  path,        \* the last call of sqlite3PagerOpen: the name, what is kept of it, the NUL
  capacity,    \* what the header in front of the file's buffer says
  len,         \* data.len of the file
  alive        \* the process runs

randomVars == <<prng_state, draws, nByte, i, stored>>
sizeVars == <<capacity, len, alive>>
vars == <<randomVars, path, sizeVars>>

----------------------------------------------------------------------------
(* Random numbers. *)

Xor(s, t) == (s \ t) \union (t \ s)
ShiftRight(s, k) == {b \in Bits : b + k \in s}
ShiftLeft(s, k) == {b \in Bits : b - k \in s}

\* The factor the result is multiplied by does not enter the state.
NextState_Slip(s) ==
  LET a == ShiftRight(s, ShiftA)
      b == Xor(a, ShiftLeft(a, ShiftB))
  IN Xor(b, ShiftRight(b, ShiftC))
NextState(s) ==
  LET a == Xor(s, ShiftRight(s, ShiftA))
      b == Xor(a, ShiftLeft(a, ShiftB))
  IN Xor(b, ShiftRight(b, ShiftC))

\* A store of n bytes that does not reach the last byte.
Fits_Slip(n) == i < nByte
Fits(n) == i + n < nByte

Randomness(n) ==
  /\ alive /\ i = nByte
  /\ nByte' = n /\ i' = 0 /\ stored' = {}
  /\ UNCHANGED <<prng_state, draws, path, sizeVars>>

Store(n) ==
  /\ draws < MaxDraws
  /\ prng_state' = NextState(prng_state)
  /\ draws' = draws + 1
  /\ stored' = stored \union i..(i + n - 1)
  /\ i' = i + n
  /\ UNCHANGED <<nByte, path, sizeVars>>

\* The three loops, one behind the other.
StoreEight == Fits(8) /\ Store(8)
StoreFour == ~Fits(8) /\ Fits(4) /\ Store(4)
StoreOne == ~Fits(8) /\ ~Fits(4) /\ i < nByte /\ Store(1)

----------------------------------------------------------------------------
(* Path names. *)

\* What is copied of a name of length n.
Kept_Slip(n) == IF n <= MaxPathname THEN n ELSE MaxPathname + 1
Kept(n) == IF n < MaxPathname THEN n ELSE MaxPathname

\* cFullPathname with room for nOut bytes: the index of the NUL, or a refusal.
Refused == -1
FullPathname(n, nOut) == IF nOut < Kept(n) THEN Refused ELSE Kept(n)

\* The name of the journal is eight characters longer.
JournalFits_Slip(k) == k <= MaxPathname
JournalFits(k) == k + 8 <= MaxPathname

PagerOpen(n) ==
  /\ alive
  /\ LET nul == FullPathname(n, MaxPathname + 1) IN
       path' = [name |-> n, nul |-> nul, opened |-> nul # Refused /\ JournalFits(nul)]
  /\ UNCHANGED <<randomVars, sizeVars>>

----------------------------------------------------------------------------
(* Buffer sizes. *)

\* The int that an unsigned word is read as.
ToInt(x) == IF x <= IntMax THEN x ELSE x - 2 * (IntMax + 1)

\* old_size * 2 may not be an int.  It then is a negative one, or it is compared as
\* what it should be and passed on as a negative one.
NewSize_Slip(sz, overflows) == ToInt(2 * capacity)
NewSize(sz, overflows) ==
  IF 2 * capacity < sz \/ (2 * capacity > IntMax /\ overflows) THEN ToInt(sz)
  ELSE ToInt(2 * capacity)

\* A negative size is a request malloc() refuses, and the header is stored through
\* the null pointer it returns.
EnsureCapacity(sz) ==
  IF capacity >= sz THEN UNCHANGED <<capacity, alive>>
  ELSE \E overflows \in BOOLEAN :
         IF NewSize(sz, overflows) < 0 THEN alive' = FALSE /\ UNCHANGED capacity
         ELSE capacity' = NewSize(sz, overflows) /\ UNCHANGED alive

\* A write that ends at sz; the pager's files grow by less than INT_MAX bytes at a time.
Write(sz) ==
  /\ alive /\ sz <= len + IntMax
  /\ EnsureCapacity(sz)
  /\ len' = IF alive' THEN sz ELSE len
  /\ UNCHANGED <<randomVars, path>>

\* Of the size hint, a 64-bit integer, the low int is read.
SizeHint(sz) ==
  /\ alive
  /\ EnsureCapacity(ToInt(sz))
  /\ UNCHANGED <<randomVars, path, len>>

----------------------------------------------------------------------------

Init ==
  /\ prng_state = Seed /\ draws = 0
  /\ nByte = 0 /\ i = 0 /\ stored = {}
  /\ path = [name |-> 0, nul |-> 0, opened |-> FALSE]
  /\ capacity = InitialCapacity /\ len = 0 /\ alive = TRUE

Next ==
  \/ \E n \in ByteCounts : Randomness(n)
  \/ StoreEight \/ StoreFour \/ StoreOne
  \/ \E n \in NameLengths : PagerOpen(n)
  \/ \E sz \in 0..(2 * IntMax + 1) : Write(sz) \/ SizeHint(sz)

Spec == Init /\ [][Next]_vars

----------------------------------------------------------------------------
(* Properties. *)

\* The generator never gets to 0, where get_random would return 0 for ever.
RandomStateAlive == prng_state # {}

\* cRandomness stores into each of the nByte bytes and into none behind them, though
\* its stores are eight, four and one bytes wide.
FillsExactly == stored = 0..(i - 1) /\ i <= nByte

\* The path and its NUL fit the buffer of mxPathname + 1 bytes, and a database that is
\* opened has the whole of its name and room for its journal's: a name that
\* cFullPathname cut off never is taken for another one.
PathIsWhole ==
  /\ path.nul <= MaxPathname
  /\ path.opened => path.nul = path.name /\ path.nul + 8 <= MaxPathname

\* While the process runs the buffer holds the whole file: sizes that leave the range of
\* int end the process, and never leave a buffer shorter than its content.
BufferHoldsFile == alive => len \in 0..capacity /\ capacity <= IntMax
=============================================================================
