------------------------------ MODULE InMemFs ------------------------------
(***************************************************************************)
(* The in-memory file system (os_composite_inmemfs.c) together with the    *)
(* sqlite3_io_methods and sqlite3_vfs entry points that drive it           *)
(* (os_composite_vfs.c).                                                   *)
(*                                                                         *)
(* One action is one call SQLite makes through the VFS.  The library is    *)
(* built with SQLITE_THREADSAFE=0 (Makefile), so a call runs to completion *)
(* before the next one starts; the interleaving that remains is the one of *)
(* the calls of several open files, and the allocator may refuse any       *)
(* single request.                                                         *)
(*                                                                         *)
(* The fields of struct fs_file are one function per field over the        *)
(* addresses Files; an address is reused once its struct has been freed.   *)
(* A byte of memory that malloc() or realloc() has not filled holds any    *)
(* byte.  Reads have no effect on the state and are operators.             *)
(*                                                                         *)
(* An operator X_Slip is a mutated form of X: it stands beside the         *)
(* definition to record a mistake the properties below would catch.        *)
(***************************************************************************)
EXTENDS Integers, SequencesExt

CONSTANTS
  Names,      \* the path names SQLite passes to xOpen, xDelete and xAccess
  LongNames,  \* those of them with strlen(name) >= MAX_PATHNAME
  Handles,    \* the addresses of the struct cFile's SQLite allocates
  Files,      \* the addresses a struct fs_file may be allocated at
  Bytes,      \* the values of a byte
  Zero,       \* the byte 0
  InitCap,    \* INITIAL_BUF_DATA_SIZE
  Offsets,    \* the offsets writes are made at
  Data,       \* the buffers that are written
  Sizes,      \* the sizes files are truncated to and hinted at
  NULL

ASSUME NamesAssumption   == LongNames \subseteq Names /\ NULL \notin Names
ASSUME FilesAssumption   == NULL \notin Files
ASSUME HandlesAssumption == IsFiniteSet(Handles)
ASSUME BytesAssumption   == Zero \in Bytes /\ NULL \notin Seq(Bytes)
ASSUME SizesAssumption   == /\ InitCap \in Nat \ {0}
                            /\ Offsets \subseteq Int
                            /\ Data \subseteq Seq(Bytes)
                            /\ Sizes \subseteq Nat

VARIABLES
  status,         \* "off" before fs_init and after fs_deinit, then "on"; "crashed"
  fileList,       \* the files reachable from the sentinel, in list order
  heap,           \* the live allocations of the file system
  zName,          \* struct fs_file (the copy of a name beyond MAX_PATHNAME is cut
                  \*   there: no comparison gets far enough to see it)
  buf,            \*   data.buf: the whole allocation, valid or not
  len,            \*   data.len
  ref,
  deleteOnClose,
  fd,             \* struct cFile: the open file, NULL while closed
  cFileName       \*   zName, as set by the last successful xOpen

dataVars   == <<buf, len>>
fileVars   == <<zName, buf, len, ref, deleteOnClose>>
handleVars == <<fd, cFileName>>
vars       == <<status, fileList, heap, fileVars, handleVars>>

Linked == Range(fileList)

\* Each struct fs_file owns three allocations, made in this order.
AllocOrder == <<"file", "buf", "name">>
Blocks(f)  == {<<AllocOrder[k], f>> : k \in 1..3}

OpenFlags == {"CREATE", "EXCLUSIVE", "DELETEONCLOSE"}

----------------------------------------------------------------------------
(* Names and the file list. *)

\* Two strings are equal when a common NUL is met among the first MAX_PATHNAME
\* bytes: a long name equals nothing, itself included.
StrEquals_Slip(stored, n) == n \notin LongNames  \* no byte is compared
StrEquals(stored, n) == stored = n /\ n \notin LongNames

FindFile_Slip(n) ==  \* only the head of the list is looked at
  IF fileList # <<>> /\ StrEquals(zName[Head(fileList)], n) THEN Head(fileList) ELSE NULL
FindFile(n) ==
  LET i == SelectInSeq(fileList, LAMBDA f : StrEquals(zName[f], n))
  IN  IF i = 0 THEN NULL ELSE fileList[i]

Exists(n) == FindFile(n) # NULL

\* Linking puts the file behind the sentinel, at the head of the list.
Link(f) == fileList' = Cons(f, fileList)

Unlink_Slip(f) == UNCHANGED fileList  \* the node is freed and stays in the list
Unlink(f) == fileList' = RemoveFirst(fileList, f)

TakeRef_Slip(f) == UNCHANGED ref  \* a file that is found is not counted again
TakeRef(f) == ref' = [ref EXCEPT ![f] = @ + 1]
DropRef(f) == ref' = [ref EXCEPT ![f] = @ - 1]

\* _fs_file_free: the struct's address can be handed out again.
Free(f) ==
  /\ heap' = heap \ Blocks(f)
  /\ zName' = [zName EXCEPT ![f] = NULL]
  /\ buf' = [buf EXCEPT ![f] = <<>>]
  /\ len' = [len EXCEPT ![f] = 0]
  /\ ref' = [ref EXCEPT ![f] = 0]
  /\ deleteOnClose' = [deleteOnClose EXCEPT ![f] = FALSE]

----------------------------------------------------------------------------
(* File data. *)

\* A buffer of n bytes as malloc() returns it.
Garbage(n) == [1..n -> Bytes]

\* The size asked of realloc: twice the buffer, or what is needed if that is more.
NewCapacity_Slip(cap, sz) == 2 * cap  \* doubling is taken to be enough
NewCapacity(cap, sz) == IF 2 * cap < sz THEN sz ELSE 2 * cap

\* _fs_data_ensure_capacity: the buffers it may leave behind when it succeeds.
EnsureCapacity(b, sz) ==
  IF Len(b) < sz
  THEN LET cap == NewCapacity(Len(b), sz)
       IN  {b \o g : g \in Garbage(cap - Len(b))}
  ELSE {b}

CopyData_Slip(b, off, d) ==  \* the last byte is not copied
  [i \in 1..Len(b) |-> IF i > off /\ i < off + Len(d) THEN d[i - off] ELSE b[i]]
CopyData(b, off, d) ==
  [i \in 1..Len(b) |-> IF i > off /\ i <= off + Len(d) THEN d[i - off] ELSE b[i]]

\* The length fs_write records: the end of the write, wherever the file ended before.
LenAfterWrite(off, d) == off + Len(d)

\* fs_read: the number of bytes read, or -1.
FsRead(f, off, n) ==
  IF off < 0 \/ n < 0 THEN -1
  ELSE (IF off + n > len[f] THEN len[f] ELSE off + n) - off

\* cRead: the result code and, where the caller's buffer is filled, its n bytes.
CRead(f, off, n) ==
  LET got == FsRead(f, off, n)
      out == [i \in 1..n |-> IF i <= got THEN buf[f][off + i] ELSE Zero]
  IN  IF got = -1 THEN [rc |-> "IOERR_READ", data |-> <<>>]
      ELSE [rc |-> IF got < n THEN "IOERR_SHORT_READ" ELSE "OK", data |-> out]

----------------------------------------------------------------------------
Init ==
  /\ status = "off"
  /\ fileList = <<>>
  /\ heap = {}
  /\ zName = [f \in Files |-> NULL]
  /\ buf = [f \in Files |-> <<>>]
  /\ len = [f \in Files |-> 0]
  /\ ref = [f \in Files |-> 0]
  /\ deleteOnClose = [f \in Files |-> FALSE]
  /\ fd = [h \in Handles |-> NULL]
  /\ cFileName = [h \in Handles |-> NULL]

\* cVfsInit allocates the sentinel and stores into it without looking whether the
\* allocation succeeded.
FsInit ==
  /\ status = "off"
  /\ status' \in {"on", "crashed"}
  /\ UNCHANGED <<fileList, heap, fileVars, handleVars>>

\* cVfsDeinit frees every file, then the sentinel.  SQLite asks for it once every
\* connection is closed (sqlite3.h, sqlite3_shutdown).
FsDeinit ==
  /\ status = "on"
  /\ \A h \in Handles : fd[h] = NULL
  /\ status' = "off"
  /\ fileList' = <<>>
  /\ heap' = heap \ UNION {Blocks(f) : f \in Linked}
  /\ zName' = [f \in Files |-> IF f \in Linked THEN NULL ELSE zName[f]]
  /\ buf' = [f \in Files |-> IF f \in Linked THEN <<>> ELSE buf[f]]
  /\ len' = [f \in Files |-> IF f \in Linked THEN 0 ELSE len[f]]
  /\ ref' = [f \in Files |-> IF f \in Linked THEN 0 ELSE ref[f]]
  /\ deleteOnClose' = [f \in Files |-> f \notin Linked /\ deleteOnClose[f]]
  /\ UNCHANGED handleVars

----------------------------------------------------------------------------
(* xOpen. *)

CanOpen(h) == status = "on" /\ fd[h] = NULL

ExclusiveCreate(flags) == {"CREATE", "EXCLUSIVE"} \subseteq flags

\* What cOpen stores in the struct cFile once fs_open has given it a file.
Bind(h, n, f) ==
  /\ fd' = [fd EXCEPT ![h] = f]
  /\ cFileName' = [cFileName EXCEPT ![h] = n]

\* "the file already exists -- error!"
OpenRefused(h, n, flags) ==
  /\ CanOpen(h)
  /\ ExclusiveCreate(flags) /\ Exists(n)
  /\ UNCHANGED vars

OpenExisting(h, n, flags) ==
  LET f == FindFile(n) IN
  /\ CanOpen(h)
  /\ Exists(n) /\ ~ExclusiveCreate(flags)
  /\ TakeRef(f)
  /\ deleteOnClose' = [deleteOnClose EXCEPT ![f] = @ \/ "DELETEONCLOSE" \in flags]
  /\ Bind(h, n, f)
  /\ UNCHANGED <<status, fileList, heap, zName, dataVars>>

\* No flag is needed for a file to be created.  With DELETEONCLOSE the new file is
\* looked up again by its name, which a long name defeats.
OpenNew(h, n, flags, f) ==
  /\ CanOpen(h)
  /\ ~Exists(n)
  /\ Blocks(f) \cap heap = {}
  /\ heap' = heap \cup Blocks(f)
  /\ zName' = [zName EXCEPT ![f] = n]
  /\ \E g \in Garbage(InitCap) : buf' = [buf EXCEPT ![f] = g]
  /\ len' = [len EXCEPT ![f] = 0]
  /\ ref' = [ref EXCEPT ![f] = 1]
  /\ deleteOnClose' =
       [deleteOnClose EXCEPT ![f] = "DELETEONCLOSE" \in flags /\ StrEquals(n, n)]
  /\ Link(f)
  /\ Bind(h, n, f)
  /\ UNCHANGED status

\* What _fs_file_alloc gives back when its k-th allocation is refused.
FreedOnFailure_Slip(f, k) == IF k = 1 THEN {} ELSE {<<"file", f>>}  \* buf is lost
FreedOnFailure(f, k) == {<<AllocOrder[j], f>> : j \in 1..(k - 1)}

OpenNoMem(h, n, f, k) ==
  /\ CanOpen(h)
  /\ ~Exists(n)
  /\ Blocks(f) \cap heap = {}
  /\ heap' = (heap \cup {<<AllocOrder[j], f>> : j \in 1..(k - 1)}) \ FreedOnFailure(f, k)
  /\ UNCHANGED <<status, fileList, fileVars, handleVars>>

cOpen(h, n, flags) ==
  \/ OpenRefused(h, n, flags)
  \/ OpenExisting(h, n, flags)
  \/ \E f \in Files : OpenNew(h, n, flags, f)
  \/ \E f \in Files, k \in 1..3 : OpenNoMem(h, n, f, k)

\* SQLite names no file when it opens a temporary one; the name is read all the same.
cOpenTemp(h) ==
  /\ CanOpen(h)
  /\ status' = "crashed"
  /\ UNCHANGED <<fileList, heap, fileVars, handleVars>>

----------------------------------------------------------------------------
(* The other calls. *)

IsOpen(h) == status = "on" /\ fd[h] # NULL

\* The last handle of a file whose deletion is pending takes the file with it.
LastClose_SlipShared(f) == deleteOnClose[f]             \* ref is not looked at
LastClose_SlipLate(f) == ref[f] = 0 /\ deleteOnClose[f]  \* tested before the decrement
LastClose_SlipPlain(f) == ref[f] = 1                    \* deleteOnClose is not looked at
LastClose(f) == ref[f] = 1 /\ deleteOnClose[f]

cClose(h) ==
  LET f == fd[h] IN
  /\ IsOpen(h)
  /\ fd' = [fd EXCEPT ![h] = NULL]
  /\ IF LastClose(f)
     THEN Unlink(f) /\ Free(f)
     ELSE /\ DropRef(f)
          /\ UNCHANGED <<fileList, heap, zName, dataVars, deleteOnClose>>
  /\ UNCHANGED <<status, cFileName>>

cWrite(h, off, d) ==
  LET f == fd[h] IN
  /\ IsOpen(h)
  /\ off >= 0
  /\ \E b \in EnsureCapacity(buf[f], off + Len(d)) :
       buf' = [buf EXCEPT ![f] = CopyData(b, off, d)]
  /\ len' = [len EXCEPT ![f] = LenAfterWrite(off, d)]
  /\ UNCHANGED <<status, fileList, heap, zName, ref, deleteOnClose, handleVars>>

\* IOERR_WRITE: a negative offset, or no memory to grow the buffer.
cWriteFails(h, off, d) ==
  /\ IsOpen(h)
  /\ off < 0 \/ Len(buf[fd[h]]) < off + Len(d)
  /\ UNCHANGED vars

cTruncate(h, size) ==
  LET f == fd[h] IN
  /\ IsOpen(h)
  /\ len' = [len EXCEPT ![f] = IF size < @ THEN size ELSE @]
  /\ UNCHANGED <<status, fileList, heap, zName, buf, ref, deleteOnClose, handleVars>>

\* SQLITE_FCNTL_SIZE_HINT: a failure to grow the buffer is not reported.
cSizeHint(h, size) ==
  LET f == fd[h] IN
  /\ IsOpen(h)
  /\ \/ \E b \in EnsureCapacity(buf[f], size) : buf' = [buf EXCEPT ![f] = b]
     \/ Len(buf[f]) < size /\ UNCHANGED buf
  /\ UNCHANGED <<status, fileList, heap, zName, len, ref, deleteOnClose, handleVars>>

cDelete(n) ==
  LET f == FindFile(n) IN
  /\ status = "on"
  /\ \/ ~Exists(n) /\ UNCHANGED <<fileList, heap, fileVars>>
     \/ /\ Exists(n) /\ ref[f] = 0
        /\ Unlink(f) /\ Free(f)
     \/ /\ Exists(n) /\ ref[f] # 0
        /\ deleteOnClose' = [deleteOnClose EXCEPT ![f] = TRUE]
        /\ UNCHANGED <<fileList, heap, zName, dataVars, ref>>
  /\ UNCHANGED <<status, handleVars>>

Next ==
  \/ FsInit
  \/ FsDeinit
  \/ \E h \in Handles, n \in Names, flags \in SUBSET OpenFlags : cOpen(h, n, flags)
  \/ \E h \in Handles : cOpenTemp(h)
  \/ \E h \in Handles : cClose(h)
  \/ \E h \in Handles, off \in Offsets, d \in Data : cWrite(h, off, d)
  \/ \E h \in Handles, off \in Offsets, d \in Data : cWriteFails(h, off, d)
  \/ \E h \in Handles, size \in Sizes : cTruncate(h, size)
  \/ \E h \in Handles, size \in Sizes : cSizeHint(h, size)
  \/ \E n \in Names : cDelete(n)

Spec == Init /\ [][Next]_vars

----------------------------------------------------------------------------
(* What the file system should keep true. *)

\* The variables have their types, and the file list has no file twice: the
\* insertion and removal of list nodes (_fs_file_link, _fs_file_unlink).
TypeOK ==
  /\ status \in {"off", "on", "crashed"}
  /\ fileList \in Seq(Files) /\ IsInjective(fileList)
  /\ heap \subseteq UNION {Blocks(f) : f \in Files}
  /\ zName \in [Files -> Names \cup {NULL}]
  /\ buf \in [Files -> Seq(Bytes)]
  /\ len \in [Files -> Nat]
  /\ ref \in [Files -> Nat]
  /\ deleteOnClose \in [Files -> BOOLEAN]
  /\ fd \in [Handles -> Files \cup {NULL}]
  /\ cFileName \in [Handles -> Names \cup {NULL}]

OpenHandles(f) == {h \in Handles : fd[h] = f}

\* fs_file.ref is "the number of open cFile's the file has", whatever opens, closes
\* and deletes came before.
RefCountsOpenHandles == \A f \in Linked : ref[f] = Cardinality(OpenHandles(f))

\* No cFile keeps the address of a file that fs_close or fs_delete has freed: an
\* open file is in the list and owns its three allocations.
NoDanglingHandle ==
  \A h \in Handles : fd[h] # NULL => fd[h] \in Linked /\ Blocks(fd[h]) \subseteq heap

\* The live allocations are those of the files in the list: no error path and no
\* delete loses one or frees one too many.
NoLeak == heap = UNION {Blocks(f) : f \in Linked}

\* fs_open never makes a second file for a name it can find.
UniqueNames ==
  \A f, g \in Linked : zName[f] = zName[g] /\ zName[f] \notin LongNames => f = g

\* A file whose deletion is pending is still open: nothing else would delete it.
PendingDeleteIsOpen == \A f \in Linked : deleteOnClose[f] => ref[f] > 0

\* A handle stays on a file of the name it was opened with, and all handles of a
\* (findable) name share one file.
SameNameSameFile ==
  \A h, g \in Handles :
    /\ fd[h] # NULL => cFileName[h] \in Names /\ zName[fd[h]] = cFileName[h]
    /\ (fd[h] # NULL /\ fd[g] # NULL /\ cFileName[h] = cFileName[g]
         /\ cFileName[h] \notin LongNames) => fd[h] = fd[g]

\* The valid part of a file lies within its buffer, so that fs_read copies from
\* memory the file owns, however the file was grown, hinted and truncated.
LenWithinCapacity == \A f \in Linked : len[f] <= Len(buf[f])

\* What a write stored is what every handle of that file reads back from there.
ReadBack ==
  [][\A h \in Handles, off \in Offsets, d \in Data :
       cWrite(h, off, d) =>
         \A g \in Handles :
           fd[g] = fd[h] => CRead(fd[g], off, Len(d))' = [rc |-> "OK", data |-> d]]_vars

----------------------------------------------------------------------------
(* What SQLite and the comments of the code expect and the code does not do. *)

\* "Throughout a write-transaction, dbFileSize contains the size of the file on
\* disk in pages" (sqlite3.c:46950): the pager counts on xWrite never moving the
\* end of the file towards its beginning.
OnlyTruncateShrinks ==
  [][\A h \in Handles :
       IsOpen(h) /\ fd'[h] = fd[h] /\ len'[fd[h]] < len[fd[h]] =>
         \E g \in Handles, size \in Sizes : fd[g] = fd[h] /\ cTruncate(g, size)]_vars

\* fs_read "returns the number of bytes read, or -1 if an error occurred".
ReadCountIsACount ==
  \A h \in Handles, off \in Offsets : IsOpen(h) => FsRead(fd[h], off, 1) \in -1..1

\* A name of at most mxPathname characters finds the file it opened.
OpenFileIsFound == \A h \in Handles : IsOpen(h) => FindFile(cFileName[h]) = fd[h]
=============================================================================
