# A verification project for sqlite-composite

sqlite-composite ports SQLite to the Composite OS: it gives the SQLite amalgamation a
virtual file system that lives in memory, a memory allocator, and the glue that installs
both. This directory holds TLA+ models of that code, the TLC runs that check them on small
instances, and proofs checked by TLAPS. Line numbers refer to the files under `src/`.

    tlc -workers 2 -config MCInMemFs_lifetime.cfg MCInMemFs     # one model-checking run
    tlapm InMemFsProofs.tla                                     # the proofs of a module

## 1. The system

SQLite calls downwards through three tables of function pointers (`sqlite3_vfs`,
`sqlite3_io_methods`, `sqlite3_mem_methods`, all filled in at the end of
`os_composite.c`). The file system in turn allocates through the same
`composite_mem_methods`. Nothing calls back upwards. The Makefile sets
`SQLITE_THREADSAFE=0`: each call runs to completion before the next one starts. What
interleaves is the *calls* of several open files and several connections, and, inside
`sqlite3_initialize`, calls of the same function at different depths.

| Component | Source | State it keeps | Operations |
|---|---|---|---|
| in-memory file system | `os_composite_inmemfs.c` | the list of `struct fs_file` behind a sentinel: name, buffer, valid length, `ref`, `deleteOnClose` | `fs_init`, `fs_deinit`, `fs_open`, `fs_close`, `fs_read`, `fs_write`, `fs_truncate`, `fs_size_hint`, `fs_exists`, `fs_delete` |
| VFS entry points | `os_composite_vfs.c` | per open file a `struct cFile` (`fd`, `zName`), owned by SQLite | `cOpen`, `cDelete`, `cAccess`, `cClose`, `cRead`, `cWrite`, `cTruncate`, `cFileSize`, `cFileControl`, and constant stubs |
| file locks | `os_composite_vfs.c` 84-102 | none | `cLock`, `cUnlock`, `cCheckReservedLock`: always succeed, always "nobody holds a lock" |
| arena allocator (the default) | `os_composite_mem.c` | a bump pointer into 4 MB, an int in front of each block, two counters | `cMemMalloc`, `cMemFree`, `cMemRealloc`, `cMemSize` |
| malloc() allocator (`SQLITE_MEM_USE_MALLOC`) | `os_composite_mem.c` | the same header and counters over `malloc` | the same |
| random numbers | `os_composite_vfs.c` 247-283 | a 64-bit xorshift state | `get_random`, `cRandomness` |
| path names | `os_composite_vfs.c` 234-248 | none | `cFullPathname` |
| start and end | `os_composite.c` 935-960 | the installed method tables | `sqlite3_os_init`, `sqlite3_os_end` |
| tracing wrappers | `os_composite.c` | none | one `_cX` per `cX`, printing when profiling is compiled in |
| mutex methods | `os_composite_mutex.c` | none | stubs, compiled only when `SQLITE_THREADSAFE` is set |
| example shell | `shell.c` | a connection, a statement | `execute_statement` and its loop |
| SQLite | `sqlite3.c`, `sqlite3.h` | third party | the environment: the calls it makes, the contracts it states |

### What is hard, and what makes each component correct

*In-memory file system.* A file outlives its directory entry's deletion while it is open
(`deleteOnClose`), is shared by the handles of its name, and its address is reused once it
is freed. Opening makes three allocations, each of which can be refused. Correct means:
the reference count is the number of open handles; nothing freed is reachable from a
handle or the list; nothing allocated is lost; a name has one file; a pending deletion
happens at the last close; valid data lies within the buffer; a read gives back what was
written. Seen by the caller it is a store of named byte sequences (`FileStore`).

*Arena.* Blocks should be disjoint, inside the arena, and keep what their owner stored,
through reallocation too; the counters should match what was handed out.

*malloc() allocator.* The counters must be balanced by `cMemFree` and `cMemRealloc`, and a
reallocation must not copy more than the new block holds.

*Locks and journals.* What a rollback journal protects depends on the files under it: here
a write sets the length of the file. After a rollback, a recovery or a commit the file should
hold the pages that were committed, and damage should not pass unnoticed. With two connections a reader must be able to tell a journal in use from one left
behind by a crash; the lock methods never say that anyone holds a lock.

*Random numbers, path names.* The generator must stay off its fixed point 0; a full path
and its NUL must fit the caller's buffer.

*Start and end.* The allocator is replaced while SQLite initialises; nothing obtained from
one allocator may be returned to the other, and the files must be closed before the end.

*Shell.* Its loop must end, its verdict must be true, and its error paths should leave a
connection that can be closed.

`PROJECT.json` lists the hazards one by one, each at its line.

## 2. Modules

| Module | What it is |
|---|---|
| `InMemFs` | the file system together with the VFS entry points that drive it |
| `FileStore` | what it promises: a store of named files |
| `InMemFsRefinement` | the mapping from the first to the second |
| `MCInMemFs` | the instances for TLC |
| `InMemFsProofs` | the inductive invariant and the theorems that follow from it |
| `InMemFsRefinementProofs` | that `InMemFs` implements `FileStore` |
| `MemArena`, `MCMemArena` | the default allocator, byte by byte, and its instance |
| `MemArenaProofs` | its invariants, for every size of arena |
| `MemHeap`, `MCMemHeap` | the allocator of the `malloc()` build, over any heap, and its instance |
| `MemHeapProofs` | its invariants, for every heap and every set of requests |
| `Pager`, `MCPager` | SQLite's rollback-journal transactions on these files, and the instances |
| `PagerProofs` | what the journal protects, for a single connection and any number of pages and commits |
| `Shell` | the example program around `sqlite3_initialize` and `sqlite3_shutdown` |
| `ShellProofs` | its invariants, for any number of statements and rows |
| `VfsHelpers`, `MCVfsHelpers` | random numbers, path names, buffer sizes as ints, and the instance |
| `VfsHelpersProofs` | their properties, for every word size, buffer and `INT_MAX` |
| `SetLemmas` | lemmas on least elements and on sums over finite sets, for `MemHeapProofs` and `PagerProofs` |

### InMemFs

One action is one call made by SQLite: `cOpen`, `cClose`, `cWrite`, `cTruncate`,
`cSizeHint` (`cFileControl` with `SQLITE_FCNTL_SIZE_HINT`), `cDelete`, and `FsInit` and
`FsDeinit`. An action is the entry point *and* the `fs_` function under it. Calls that
change nothing are operators: `CRead` (result code and bytes), `FsRead`, `Exists`
(`cAccess`); `cFileSize` is `len`.

* `fileList` is the linked list in list order. `fs_file` fields are functions over
  `Files`, the addresses `malloc` may give; a freed address is picked again by a later
  open, so a stale pointer would reach a different file.
* `heap` is the set of live allocations, three to a file. `OpenNoMem` refuses the k-th of
  them. `FreedOnFailure` is what the error path gives back.
* `buf[f]` is the whole allocation, and `len[f]` the valid part. Memory that `malloc`,
  `realloc` or an earlier, longer content left behind holds arbitrary bytes.
* `status` is `"crashed"` once the code dereferences a null pointer: the sentinel's
  unchecked allocation (`FsInit`) and the null name of a temporary file (`cOpenTemp`).
  This is why the runs say `CHECK_DEADLOCK FALSE`: the process is gone.
* `LongNames` are names of `MAX_PATHNAME` characters or more. `_fs_strequals` finds no NUL
  in the part it looks at and answers "different".
* `DELETEONCLOSE` is in `OpenFlags` and is modelled as the code handles it, although
  SQLite itself only passes it together with a null name.

Two things the calling code owes are guards. SQLite opens a `cFile` only when it is closed and
uses it only when it is open (`CanOpen`, `IsOpen`), and `sqlite3_shutdown`, hence
`FsDeinit`, comes after every connection is closed (`sqlite3.h`: "All open database
connections must be closed and all other SQLite resources must be deallocated prior to
invoking sqlite3_shutdown()").

The file system is modelled over an allocator that keeps its contract (a block keeps its
content, `realloc` moves it). The default arena does not keep it; that is `MemArena`'s
subject, and the two findings are kept apart on purpose.

### FileStore and the refinement

A name maps to its content or to nothing, a handle to a name. `InMemFsRefinement` reads
the content of a name off the file that `FindFile` finds, and its first `len` bytes. Lists,
buffers, capacities, counts and addresses are gone, and failed calls and size hints are stutters.
The mapping needs `LongNames = {}`: a long name's file cannot be found.

### MemArena

Memory is a function from addresses to bytes, with the int headers stored *in* it, so that
the overlap of a header and the block before it is seen as what it is. `blocks` is a
history variable: what was handed out, and what its owner stored there. The owners' stores
are the environment's action `OwnerFills`. `cMemRealloc` copies as many bytes as the
*stored* header says, byte by byte, after writing the new header, as the code does.
The room left is compared with the size alone, so the last block may reach behind the arena; `Addresses`
goes on there. Properties say how far (`OverhangBounded`), whose the bytes of a block are
(`InnerBytesStable`), and which of them a `realloc` hands over (`MovedBytesKept`).
`cMemFree` calls the C library's `free` with an address inside the arena; the model takes the
library's answer to be an abort, which is what it does when it finds no chunk header there.

### MemHeap

The same entry points over `malloc` and `free`. Memory is counted in ints; a block is its header
and the words behind it. `malloc` is external: `Fresh` lets it return any place that is clear of the
blocks not yet freed, and `NullRegion` lets it return null, through which the header is
stored. `cMemFree` calls `free` itself and not `_free_region`, so it touches neither counter
(`FreeCounts`). `cMemRealloc` copies as many words as the *old* header says, whatever
the new size, reads the old header again after the copy, and counts it.
A copy whose header was overwritten may leave the heap (`ReallocRunsOff`, the process is gone).
`max()` converts its second argument to int (`Narrowed`). `blocks`, `overrun` and `peak` are
history: every block made with what its owner stored, whether a copy has run past a block, the
highest value of `outstanding_memory`.

### Pager

The part of `sqlite3.c` that the answers of this file system decide: `pager.c` from
`sqlite3PagerSharedLock` to `sqlite3PagerCommitPhaseTwo` and `sqlite3PagerRollback`, and of the B-tree
the header of page 1, its check in `lockBtree` and the growth at the end of the file. The
build fixes much: `journal_mode=DELETE`, and a device that claims safe appends and sequential
writes, so journal records are not synced or counted. Files are counted in pages, journals in
records.

* `db` is the file as `InMemFs` makes it: `buf` keeps what a shorter length hides,
  `Written` sets `len` to the page written last, `cap` decides whether a write can be refused.
* `jrnl` is the journal: it lives on after its deletion as long as somebody has it open
  (`doomed`), and a new header is written over what it held, so records of older headers, with their
  own checksum seed (`nonce`), lie behind. `Restored` is what a playback takes back from it.
* Per connection: the state of `Pager.eState`, the cache with its dirty and need-sync pages,
  the sizes, `pInJournal` and the journal offsets.
* `ReservedLock` is `FALSE` and `LockGranted` is `TRUE`: `cCheckReservedLock`, `cLock`.
* An action is a call of the B-tree (`BeginRead`, `Get`, `Write`, `Grow`, `Commit`,
  `Rollback`...), a decision of the page cache (`Evict`, `Spill`) or a refusal of memory
  (`SpillFails`, `CommitFails`). `BeginRead` is the whole of `sqlite3PagerSharedLock`, with the
  search for a hot journal, its playback and its deletion.
* `image` is history: what the last commit was to leave in each page.

A page read one page behind the end of the file comes as zeros, without an error (`cRead` sees a
short read); what a transaction makes of it may be committed, so the properties about content
are stated up to the first such read (`shortRead`). It only happens after a spill has cut the
file off, and `OnlyTruncateShrinks` names its cause. Read further behind the end, `cRead` writes in front of
its buffer and the model says `"crashed"`.

### Shell

`main` of `shell.c` with its callees, around `sqlite3_initialize`, which calls itself through
`sqlite3_malloc` and `sqlite3_vfs_register` while it is at work. `calls` is the stack of these calls, each with
the place it has reached, and `MainAt` says that none is running. `OsInit` is
`sqlite3_os_init` up to the registration: it exchanges the allocator (`m`) and makes the list of
files (`fileList`), or dies of the null pointer `fs_init` does not look for. What a statement does
is left to SQLite: `Step` picks any answer `sqlite3_step` may give, in any order, with
at most `MaxRows` rows in a row. `execute_statement` steps again on `SQLITE_ROW`, on
`SQLITE_BUSY` and on what it does not list; on `SQLITE_ERROR` and `SQLITE_MISUSE` it returns
without `sqlite3_finalize`. `Close` and `Shutdown` follow `sqlite3Close` (nothing happens while a
statement is left) and `sqlite3_shutdown` (everything happens, connection or not).

### VfsHelpers

Three small machines that share nothing. A word of the generator is the set of its bits, so the shifts
are set comprehensions and XOR is the symmetric difference; the final multiplication does not
enter the state. `cRandomness` stores 8, 4 and 1 bytes at a time. `PagerOpen` is `cFullPathname`
with the buffer its caller gives and the length check behind it. `EnsureCapacity` is
`_fs_data_ensure_capacity` with ints: doubling may overflow, which C does not define, so `NewSize` takes
both outcomes a compiler produces; a negative size is refused by `malloc`, whose null
is then written through. `SizeHint` reads the low int of a 64-bit number.

## 3. Runs

| Run | Shows | Bounds |
|---|---|---|
| `fs_lifetime` | type invariant, reference counts, no dangling handle, no leak, unique names, pending deletions, handle sharing | 2 ordinary names and 1 long one, 3 handles, 3 addresses, no data |
| `fs_store` | `InMemFs` implements `FileStore`; valid length within the buffer; what is written is read back | 2 names, 2 handles, 2 addresses, 2 byte values, buffers starting at 1 byte, offsets -1, 0, 2, sizes 0 and 3 |
| `arena_bounds` | regions tile the arena, counters add up, a block's inner bytes are its owner's and go where a `realloc` moves them, how far behind the arena anybody writes | 6 bytes, ints of 2 bytes, requests 1 and 3 |
| `heap` | blocks stay sound until a realloc shrinks one, how far the damage of that reaches, by how much `outstanding_memory` is wrong, `max_memory` | 7 words, requests 1 and 2, 4 blocks, `INT_MAX` 5 |
| `pager_one` | what one connection's journal protects: write-ahead, committed content, noticed damage, coherent cache, recovery before use | 4 pages, 2 commits, 2 contents, buffers starting at 2 pages |
| `shell` | nesting of `sqlite3_initialize`, the exchange of the allocator, the verdict, what is left open, and that the program ends | 8 statements, 3 rows |
| `vfs_helpers` | the generator stays off 0, `cRandomness` fills its buffer, paths are whole, ints never make a buffer too short | 64 bits and the real shifts and seed, 20 draws, lengths 0 to 21, names around 512, `INT_MAX` 7 |
| `fs_write_shrinks` | **violated**: a write inside a file cuts off what follows | 1 file, 2 handles, writes of 1 and 2 bytes at -1..2, sizes 0, 1, 3 |
| `fs_read_count` | **violated**: reading behind the end gives a negative count | as `fs_write_shrinks` |
| `fs_long_name` | **violated**: a 512-character name is never found again | as `fs_lifetime` |
| `arena_contents` | **violated**: a header is stored over the end of the block before it | as `arena_bounds` |
| `pager_two` | **violated**: a reader plays back the journal of a transaction in progress | 2 connections, 2 pages, 2 commits, 1 content |

*Why the bounds are enough.* Three handles are one more than it takes to share a file
and keep it open while another closes. Three addresses let a file be freed and its address
reused while two others are open. A buffer of one byte is grown to the exact size a write needs,
and a write behind the end exposes bytes that were never filled. Doubling a buffer would
take shorter writes as well, which is more than TLC can go through here; it is taken in
`vfs_helpers` and `pager_one`, and the proofs about `fs_store`'s properties hold for all sizes. In the arena six bytes hold up to five regions, of sizes
smaller and larger than the header, hence both kinds of overlap: a header over data only,
and a header over the header before it. Seven words of heap hold three blocks of 1 or two of 2, so a
block can be moved to where another was, made smaller with a neighbour behind it, and have its
header overwritten; 5 for `INT_MAX` is passed by four blocks. Four pages and buffers of two
let a transaction write pages the file had, pages it did not have, and pages its buffer must grow for;
a second commit needs a journal with records of an older one behind its header. Two contents tell an
old page from a new one. In the shell the number of statements only matters at the first and the last;
in `vfs_helpers` 21 bytes take all three loops and 20 draws take several such calls, one after the
other; `INT_MAX` 7 is reached from an initial size of 2 by two doublings.
The properties of all passing runs but `MainEnds` are proved for
all bounds (section 4). Symmetry is used over addresses, handles, connections and contents, which no
definition orders, and never where liveness is checked.

*Deadlock* is not checked: in every module here the process may be gone, an allocator may have no room
left, a bound may be reached, and the shell ends.

*Fairness.* Only `Shell` states one: `WF_vars(Next)`, that a sequential program which can go on does.
It is all that the code justifies, and it is not enough for the program to end: an
answer of `SQLITE_BUSY`, or one the switch does not list (here `SQLITE_NOMEM`), may come for ever: in the
arena build no room is ever regained (a free ends the process, as `MemArena` says), so a request that
is refused once is refused each time. `MainEnds` therefore says that
the program ends *if* these answers stop. The other modules are libraries that act when called;
nothing obliges a caller to close a file or to commit, and their specifications are
`Init /\ [][Next]_vars`.

*Mutants.* Beside some definitions stands an `X_Slip`, a form of `X` with a plausible
mistake. It is used by no specification. `PROJECT.json` names the property that catches it
when it takes the place of `X`.

### What the violated properties mean

* `OnlyTruncateShrinks`. `fs_write` assigns `offset + amt` to the length (line 270). The
  pager counts on a write never shortening a file. A transaction that rewrites only the
  first page of a longer database leaves a database of one page. What the journal still
  guarantees on such files is the subject of `pager_one`.
* `ReadCountIsACount`. `fs_read` (line 241) subtracts an offset behind the end from the
  length. At one byte behind it, the result is -1, an I/O error where a short read is due; further
  behind it is a smaller negative number, which `cRead` takes for an index into its buffer.
* `OpenFileIsFound`. `mxPathname` is 512 and the comparison needs the NUL at index 511 at
  the latest.
* `ContentsKept`. The bump pointer moves by the size without the header (`os_composite_mem.c`
  line 57).
* `HotJournalUnowned`. `cCheckReservedLock` answers that nobody holds a lock
  (`os_composite_vfs.c` line 98) and `cLock` grants every lock, so `hasHotJournal` takes the journal of a
  transaction in progress for one left by a crash, plays it back and deletes it. Pages the writer
  has already put on the file are taken back while it goes on. Its open handle keeps the
  records, so its own rollback still undoes the transaction.

## 4. Proofs

`InMemFsProofs` proves, for every set of names, handles, addresses, bytes, offsets and sizes
that meets the named assumptions of `InMemFs`:

* `Invariance`: `Spec => []IInv`, where `IInv` is the conjunction of the eight
  state invariants of the runs `fs_lifetime` and `fs_store`. None is inductive alone.
  That `ref` counts the handles needs every handle on a linked file; that no handle dangles
  at a close needs `ref` to count the handles, or a shared file would be freed; that a
  new file's address is unused needs the heap to be exactly the linked files' blocks, which
  in turn needs a list without repetitions; `SameNameSameFile` needs `UniqueNames`, and a
  deletion leaves `PendingDeleteIsOpen` because `ref` is right.
* `TypeCorrect`, `RefCountsCorrect`, `NoUseAfterFree`, `HeapBalanced`, `OneFilePerName`,
  `DeletionPending`, `HandlesShareFiles`, `ReadsStayInside`: each of the eight.
* `WritesReadBack`: the action property `ReadBack`, from the invariant and a lemma on
  `EnsureCapacity` and `CopyData`.

The proof has a lemma per action under `NextIInv`. Three steps recur and are lemmas
(`DataStep`, `FreeStep`, `StatusStep`). `FindFileCorrect` says what the search of the list returns.
`LinkRange` and `UnlinkRange` say what linking and unlinking do to the set of linked files.

`InMemFsRefinementProofs` proves

* `Refinement`: if `LongNames = {}` then `Spec => RefinesFileStore`. The search of the list is
  dealt with once: `ViewCorrect` shows that under `IInv` what the store shows of a name
  (`FileView`) is the content and mark of the one linked file of that name. Each action
  then has a lemma that maps it to an action of `FileStore` or to a stutter.
  Three steps carry the argument: `ref` is 1 exactly when no other handle is open on the name
  (so the last close of the one is that of the other); a file no handle has open is
  not pending deletion (so a deletion at once leaves no mark); and what a write makes of a
  buffer that may have been moved and enlarged is old bytes, then arbitrary bytes, then the
  bytes written (`WrittenContent`). The hypothesis is needed: `fs_long_name` shows it.

`MemArenaProofs` proves, for every arena size, header size, representation of ints and set
of requests,

* `TypeCorrect`, `RegionsDisjoint`, `CountersAgree`, `InnerBytesKept`, `OverhangIsBounded` and
  `MovedBytesArrive`. `RegionsTile`
  speaks of neighbours; that any two regions are disjoint would follow by induction over
  the list, so it is carried along as `Ordered`. `ReallocMemory` shows that a
  reallocation changes no byte below the bump pointer *whatever the overwritten header
  says*, since the copy goes upwards from there, and none behind the copy; the
  bound on the overhang is then that of the room left. An inner byte arrives in the new block although the new header may
  lie over the end of the old one, because it lies below the bump pointer and the distance
  of the two blocks is at least the old size, so no byte is copied twice (`MovedByteStep`).

`MemHeapProofs` proves, for every heap, every set of requests and every place `malloc` may give,

* `TypeCorrect`, `HeapStaysSound`, `PeakCovered`, `DamageIsBounded` and `FreesAreMissed`. The invariant adds to
  them that regions of live blocks are in the heap and share no word, that no owner has stored more than its
  block holds (`Disjoint`), and, for the counters, that `outstanding_memory` is not above its peak
  (`HighestKnown`). The difficult step is `ReallocStep`: the new region is clear of the old one, so
  the old header is still the size after the copy, the copy is the whole of what the owner stored,
  and when the block does not shrink every word written is in the new region. The type of
  `outstanding_memory` survives a copy that ran over, since all words are ints (`WordsAreInts`).
* `FreesAreMissed` is about a sum over all blocks but the moved ones, which is a fold over a set, and so a
  recursive function. `TotalIsTable` shows that it is the last entry of a table of the sums of all subsets;
  that there is such a table (`TableExists`), that it does not depend on what is not summed (`TablesAgree`) and that any term may be
  taken out, not only the one the fold starts with (`TermOfTable`), are lemmas of `SetLemmas`. Then a new block adds one term, a moved
  block takes one out (`TotalOfOneMore`), and a freed or filled one changes nothing (`TotalSame`). `ReallocInPlace`, which
  `ReallocStep` uses too, says that the old header read after the copy is still the size that was counted.

`ShellProofs` proves, for any number of statements and rows, all six invariants of the run `shell`.
The invariant has three parts: `Stacked` lists the fifteen stacks of calls there can be and says what
`isInit`, `inProgress` and the count of the mutex are for each; `Installed` does the same for the allocator, the
block SQLite tests it with and the list of files; `Worked` says at each place of `main` what became of the
statements. None of the properties is inductive alone: that nothing is held when the allocator is exchanged
(`BlockKnowsItsAllocator`), for one, needs that `sqlite3_os_init` is reached by the outermost call only.
`WorkIsOutermost` is the lemma that says so.

`VfsHelpersProofs` proves the four invariants of the run `vfs_helpers`, each from an invariant of its own:

* `RandomNeverStops`: the highest bit of a word survives `x ^= x >> k`, the lowest survives
  `x ^= x << k`, for every `k` of at least 1 (`RightStepAlive`, `LeftStepAlive`), so no word that is not 0
  becomes 0.
* `ExactlyFilled`, `PathsWhole`, `FilesFit`.

`PagerProofs` proves, for a single connection (`Single`, the premise of the run `pager_one` too: with two, a
reader may play back the other's journal while it is in use, as `pager_two` shows), and for any number of pages and
commits, any contents and any initial buffer, all seven invariants of `pager_one`: `TypeCorrect`,
`JournalCovers`, `ContentKept`, `DamageNoticed`, `CacheIsCoherent`, `ReadsAreOfTheFile` and
`RecoveredBeforeRead`. None is inductive. The invariant of `Invariance` says

* of the journal itself (`JournalSound`) that its records are of pages of its own database, once each, under its own
  seed: a record is appended only for a page that is not in `pInJournal`, and a journal is opened only when none is
  left, so a playback takes back *all* its records (`RestoredIsAll`);
* of who holds it (`JournalKnown`) that `journalOff` and `pInJournal` describe it, and of who does not, that
  nothing of the last transaction is left in the fields;
* of a reader (`Seen`) that no journal is there, since the shared lock was got by playing it back;
* of the file between transactions (`Kept`) that it is a beginning of what was committed and that the cache
  has pages of that, also pages the file has lost;
* of a write transaction (`Traced`) that a page is on the file as committed or in a record below
  `journalHdr`, that a journaled page whose record is not, is still in need of a sync, and that a page which is not
  journaled has not been touched in the cache. It is this that `Spill` needs: `SyncFirst` looks at the one page
  it writes. Before the first spill the file is `Untouched`;
* of any journal (`Protected`) that each record is the committed page and that all of them together cover the database, which is
  what makes `PlaybackRestores` true after an error, and (`NotEmptied`) that the file is empty only if the database is,
  which `DamageNoticed` needs.

`Commit` establishes `Kept` for the new `image` (`CommitStep`); `Rollback` and `CommitFails` share `RolledBackStep`,
in which the records of a journal undo what was done to file and cache (`Undoes`); `SettledStep` is the end of any
transaction that leaves no journal. The capacity of the buffer is a recursive table (`CapUpTo`): that
it has natural numbers only (`CapUpToIsNat`) is proved by looking at the first page where it would not
(`SmallestOf`). Well-foundedness of the natural numbers gives that without the induction theorems, and so do the
lemmas on sums, which look at a smallest set that would be wrong (`SmallestSet`).

Constants are assumed to be what the code makes them: finitely many handles; `NULL` not an
address, a name or a content; natural sizes; integer offsets; ints that are stored as
`HeaderSize` bytes, one int for each combination of bytes.

Only model-checked: `MainEnds` (liveness under fairness), and that the five violated properties are violated.
Out of the prover's reach: liveness under fairness, ENABLED, and the induction theorems, in whose place
a least counterexample is looked at.

## 5. Plan

Done: the file system with its abstraction and both refinement and invariant proofs; both allocators with theirs, the sum that `outstanding_memory` is included;
the pager over these files, with one and with two connections, and the proof of what the one can rely on; the shell with the start and the end of the
library; the helpers on words, ints and buffers.

Left, in this order:

1. **Savepoints** in `Pager`: the statement journal of a temporary file is opened with a null name, which
   this file system does not survive, so it matters only with memory journals.
2. **Free list and truncation** in `Pager`: a database that shrinks at a commit.

## 6. Not modelled

* The time and sleep functions keep no state, and `cCurrentTimeInt64` does not even set its result. The
  shared-memory and memory-map methods return constants, and SQLite does not call them at
  `iVersion` 1.
* Tracing: with profiling off each `_cX` wrapper is the function it calls; with it on, it prints.
* The mutex methods: not compiled at `SQLITE_THREADSAFE=0`.
* Of SQLite: WAL (not available at `iVersion` 1), savepoints, master journals (one database only),
  auto-vacuum, the free list, temporary files, and everything above the pager but the order of the calls it makes.
  `sqlite3.c` and `sqlite3.h` are vendored unchanged and make up all but about 2700 of the repository's
  212,590 lines of code; the models cover the parts the code of this repository calls, is called by, or decides about.
