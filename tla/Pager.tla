-------------------------------- MODULE Pager --------------------------------
(***************************************************************************)
(* Transactions of SQLite's pager (sqlite3.c) on the in-memory file        *)
(* system: what its rollback journal protects when a write sets the length *)
(* of a file (fs_write), when no file is ever locked (cLock, cUnlock,      *)
(* cCheckReservedLock), and when memory, the only thing here that can      *)
(* fail, is refused.                                                       *)
(*                                                                         *)
(* The build: journal_mode=DELETE, pages of one sector, safe appends and   *)
(* sequential writes (so the journal is never synced or counted).  Files   *)
(* are counted in pages and the journal in records.  A connection runs one *)
(* transaction at a time, with one statement in it.  Savepoints, master    *)
(* journals, WAL, temporary files, auto-vacuum and the free list are left  *)
(* out.  Only growing a buffer can fail: a page behind db.cap; a refused   *)
(* journal record makes the statement roll back, as Rollback does.         *)
(*                                                                         *)
(* The content of page 1 is the part of the header the pager compares: the *)
(* change counter and the size of the database.                            *)
(*                                                                         *)
(* X_Slip is a mutated form of X.                                          *)
(***************************************************************************)
EXTENDS Naturals, Sequences, FiniteSetsExt

CONSTANTS
  Conns,       \* connections
  MaxPages,    \* bound: pages of the database
  MaxCounter,  \* bound: commits
  Vals,        \* what the B-tree writes into a page
  Zero,        \* a page of zeros
  Junk,        \* a page nobody has written
  None,        \* no page
  InitCap      \* INITIAL_BUF_DATA_SIZE, in pages

ASSUME PagerAssumption ==
  /\ MaxPages \in Nat \ {0} /\ MaxCounter \in Nat /\ InitCap \in Nat \ {0}
  /\ {Zero, Junk, None} \cap Vals = {}

VARIABLES
  status,      \* "on", or "crashed"
  db,          \* the database file: its bytes, data.len and the size of its buffer
  jrnl,        \* the journal file
  eState,      \* Pager.eState; per connection, as all that follow
  cache,       \* the page cache
  dirty,       \* its pages with PGHDR_DIRTY
  needSync,    \* its pages with PGHDR_NEED_SYNC
  dbSize,      \* Pager.dbSize
  dbOrigSize,  \* Pager.dbOrigSize
  dbFileVers,  \* Pager.dbFileVers
  inJournal,   \* Pager.pInJournal
  journalOff,  \* Pager.journalOff: the records written
  journalHdr,  \* Pager.journalHdr: those of them that count as synced
  cksumInit,   \* Pager.cksumInit
  image,       \* history: what the last commit was to leave in each page
  shortRead    \* history: a page of the database was read as zeros

fileVars == <<db, jrnl>>
cacheVars == <<cache, dirty, needSync, dbFileVers>>
txnVars == <<dbSize, dbOrigSize, inJournal, journalOff, journalHdr, cksumInit>>
history == <<image, shortRead>>
vars == <<status, fileVars, eState, cacheVars, txnVars, history>>

Pages == 1..MaxPages
Headers == [cc : 0..MaxCounter, size : 0..MaxPages]
ZeroHeader == [cc |-> 0, size |-> 0]
Content == Vals \union {Zero, Junk} \union Headers

\* On page 1, zeros and garbage are alike: no header of a database.
ZeroPage(p) == IF p = 1 THEN ZeroHeader ELSE Zero
JunkPage(p) == IF p = 1 THEN ZeroHeader ELSE Junk

NoCache == [p \in Pages |-> None]
NoJournal == [exists |-> FALSE, doomed |-> FALSE, nonce |-> 0, size |-> 0,
              recs |-> <<>>, valid |-> 0]

----------------------------------------------------------------------------
(* The database file. *)

Grown(cap, n) == IF cap >= n THEN cap ELSE IF 2 * cap < n THEN n ELSE 2 * cap

\* The capacity after growing for each of a set of pages written in order, all granted.
CapUpTo(cap, ps) ==
  LET c[n \in 0..MaxPages] ==
        IF n = 0 THEN cap ELSE IF n \in ps THEN Grown(c[n - 1], n) ELSE c[n - 1]
  IN c[MaxPages]

\* Pages written in ascending order: the last one sets the length.
Written(f, ps, data) ==
  IF ps = {} THEN f
  ELSE [f EXCEPT !.buf = [p \in Pages |-> IF p \in ps THEN data[p] ELSE f.buf[p]],
                 !.len = Max(ps)]

\* pager_truncate: a file too short is extended by writing its last page with zeros.
Truncated_Slip(f, n) ==
  IF f.len < n THEN Written(f, {n}, [p \in Pages |-> ZeroPage(p)]) ELSE f
Truncated(f, n) ==
  IF f.len > n THEN [f EXCEPT !.len = n]
  ELSE IF f.len < n THEN Written(f, {n}, [p \in Pages |-> ZeroPage(p)])
  ELSE f

----------------------------------------------------------------------------
(* The journal file.  It outlives its deletion as long as a connection has it *)
(* open, and is found by its name until then.                                 *)

HasJournal(c) == eState[c] \in {"CACHEMOD", "DBMOD", "ERROR"}
Holders == {c \in Conns : HasJournal(c)}

OthersHold(c) == Holders \ {c} # {}
Closed(c, j) == IF j.doomed /\ ~OthersHold(c) THEN NoJournal ELSE j
Deleted(c, j) == IF OthersHold(c) THEN [j EXCEPT !.doomed = TRUE] ELSE NoJournal

\* The random seed of the checksums differs from every other one around.
FreshNonce ==
  CHOOSE n \in 1..(Cardinality(Conns) + Len(jrnl.recs) + 2) :
    /\ n # jrnl.nonce
    /\ \A i \in DOMAIN jrnl.recs : n # jrnl.recs[i].nonce
    /\ \A c \in Conns : n # cksumInit[c]

\* The header is written over what the file held: nothing behind it counts.
WithHeader(j, nonce, size) ==
  [j EXCEPT !.exists = TRUE, !.nonce = nonce, !.size = size, !.valid = 0]

WithRecord(j, off, rec) ==
  [j EXCEPT !.recs = IF off < Len(@) THEN [@ EXCEPT ![off + 1] = rec] ELSE Append(@, rec),
            !.valid = off + 1]

\* Playback ends at a record whose checksum is not of this header, and passes over
\* those of pages the database did not have.
Applies(j, i) == j.recs[i].pgno <= j.size
Intact(j, i) == Applies(j, i) => j.recs[i].nonce = j.nonce
Restored_Slip(j) == {i \in 1..j.valid : i < j.valid /\ Applies(j, i) /\ \A k \in 1..i : Intact(j, k)}
Restored(j) == {i \in 1..j.valid : Applies(j, i) /\ \A k \in 1..i : Intact(j, k)}

\* The last of some records that is of a page.
Latest(j, S, p) == j.recs[Max({i \in S : j.recs[i].pgno = p})].data
PagesOf(j, S) == {j.recs[i].pgno : i \in S}

\* The database file after the records of S are written back: they come in the order
\* of the journal, so the last of them sets the length.
PlayedBack(f, j, S) ==
  LET t == Truncated(f, j.size) IN
  IF S = {} THEN t
  ELSE [t EXCEPT !.buf = [p \in Pages |-> IF p \in PagesOf(j, S) THEN Latest(j, S, p)
                                          ELSE t.buf[p]],
                 !.len = j.recs[Max(S)].pgno]

----------------------------------------------------------------------------
(* Read transactions. *)

\* cCheckReservedLock answers that nobody has a RESERVED lock, whoever holds one, and
\* cLock gives every lock that is asked for.
ReservedLock == FALSE
LockGranted == TRUE

HotJournal_Slip == jrnl.exists /\ ~ReservedLock /\ db.len > jrnl.size
HotJournal == jrnl.exists /\ ~ReservedLock /\ db.len > 0

\* The journal of an empty database is deleted unread.
StaleJournal == jrnl.exists /\ ~ReservedLock /\ db.len = 0

\* The database file a reader goes on with.
Recovered == IF HotJournal THEN PlayedBack(db, jrnl, Restored(jrnl)) ELSE db

FileHeader(f) == IF f.len = 0 THEN ZeroHeader ELSE f.buf[1]

\* The cache is emptied when a record is played back, and when the file's header is not
\* the one remembered.
CacheFor(c) ==
  IF (HotJournal /\ jrnl.valid > 0) \/ FileHeader(Recovered) # dbFileVers[c]
  THEN NoCache
  ELSE [p \in Pages |-> IF HotJournal /\ p > jrnl.size THEN None ELSE cache[c][p]]

PageOne(c) == IF CacheFor(c)[1] = None THEN FileHeader(Recovered) ELSE CacheFor(c)[1]

\* lockBtree: not a database, or one with fewer pages than its header says.
Accepted_Slip(h, f) == h.size >= 1 \/ (h.size = 0 /\ f.len = 0)
Accepted(h, f) == h.size \in 1..f.len \/ (h.size = 0 /\ f.len = 0)

SharedLock(c) ==
  /\ status = "on" /\ eState[c] = "OPEN" /\ LockGranted
  /\ db' = Recovered
  /\ jrnl' = IF HotJournal \/ StaleJournal THEN Deleted(c, jrnl) ELSE jrnl
  /\ cache' = [cache EXCEPT ![c] = [CacheFor(c) EXCEPT ![1] = PageOne(c)]]
  /\ dbFileVers' = [dbFileVers EXCEPT ![c] =
       IF CacheFor(c)[1] = None /\ Recovered.len > 0 THEN FileHeader(Recovered) ELSE @]
  /\ UNCHANGED <<status, dirty, needSync, dbOrigSize, inJournal, journalOff, journalHdr,
                 cksumInit, history>>

BeginRead(c) ==
  /\ SharedLock(c)
  /\ Accepted(PageOne(c), Recovered)
  /\ eState' = [eState EXCEPT ![c] = "READER"]
  /\ dbSize' = [dbSize EXCEPT ![c] = Recovered.len]

BeginReadRefused(c) ==
  /\ SharedLock(c)
  /\ ~Accepted(PageOne(c), Recovered)
  /\ UNCHANGED <<eState, dbSize>>

\* The connection's fields between transactions.
Unlocked(c) ==
  /\ eState' = [eState EXCEPT ![c] = "OPEN"]
  /\ dbSize' = [dbSize EXCEPT ![c] = 0]
  /\ dbOrigSize' = [dbOrigSize EXCEPT ![c] = 0]
  /\ inJournal' = [inJournal EXCEPT ![c] = {}]
  /\ journalOff' = [journalOff EXCEPT ![c] = 0]
  /\ journalHdr' = [journalHdr EXCEPT ![c] = 0]
  /\ cksumInit' = [cksumInit EXCEPT ![c] = 0]
  /\ dirty' = [dirty EXCEPT ![c] = {}]
  /\ needSync' = [needSync EXCEPT ![c] = {}]

\* Also the end of a write transaction that has written nothing.
EndRead(c) ==
  /\ status = "on" /\ eState[c] \in {"READER", "LOCKED"}
  /\ Unlocked(c)
  /\ UNCHANGED <<status, fileVars, cache, dbFileVers, history>>

\* Page 1 is held from the start of a transaction to its end; its size field is the
\* B-tree's number of pages.
NPages(c) == cache[c][1].size
InTransaction(c) == eState[c] \in {"READER", "LOCKED", "CACHEMOD", "DBMOD"}
Missing(c, p) == p \in 2..NPages(c) /\ cache[c][p] = None

\* A page right behind the end of the file is read as zeros.
Get(c, p) ==
  /\ status = "on" /\ InTransaction(c) /\ Missing(c, p)
  /\ p <= db.len + 1
  /\ cache' = [cache EXCEPT ![c][p] = IF p <= db.len THEN db.buf[p] ELSE ZeroPage(p)]
  /\ shortRead' = (shortRead \/ p > db.len)
  /\ UNCHANGED <<status, fileVars, eState, dirty, needSync, dbFileVers, txnVars, image>>

\* Further behind, cRead fills the memory in front of the page with zeros.
GetBehind(c, p) ==
  /\ status = "on" /\ InTransaction(c) /\ Missing(c, p)
  /\ p > db.len + 1
  /\ status' = "crashed"
  /\ UNCHANGED <<fileVars, eState, cacheVars, txnVars, history>>

\* A clean page that is not in use may be recycled.
Evict(c, p) ==
  /\ status = "on" /\ eState[c] # "ERROR"
  /\ cache[c][p] # None /\ p \notin dirty[c]
  /\ p = 1 => eState[c] = "OPEN"
  /\ cache' = [cache EXCEPT ![c][p] = None]
  /\ UNCHANGED <<status, fileVars, eState, dirty, needSync, dbFileVers, txnVars, history>>

\* The connection is closed and opened again.
Reopen(c) ==
  /\ status = "on" /\ eState[c] = "OPEN"
  /\ cache' = [cache EXCEPT ![c] = NoCache]
  /\ dbFileVers' = [dbFileVers EXCEPT ![c] = ZeroHeader]
  /\ UNCHANGED <<status, fileVars, eState, dirty, needSync, txnVars, history>>

----------------------------------------------------------------------------
(* Write transactions. *)

\* pager_write of a page, up to its modification: the journal is opened at the first
\* one, and the content the page had is appended to it once.  The journal, and the
\* fields that say what is in it, after that.
Opening(c) == eState[c] = "LOCKED"
Nonce(c) == IF Opening(c) THEN FreshNonce ELSE cksumInit[c]
OpenedJournal(c) == IF Opening(c) THEN WithHeader(jrnl, FreshNonce, dbOrigSize[c]) ELSE jrnl

MustJournal(c, p) == p <= dbOrigSize[c] /\ p \notin inJournal[c]

JournalWith(c, p) ==
  IF MustJournal(c, p)
  THEN WithRecord(OpenedJournal(c), journalOff[c],
                  [nonce |-> Nonce(c), pgno |-> p, data |-> cache[c][p]])
  ELSE OpenedJournal(c)

OffWith(c, p) == IF MustJournal(c, p) THEN journalOff[c] + 1 ELSE journalOff[c]
InJournalWith(c, p) == IF p <= dbOrigSize[c] THEN inJournal[c] \union {p} ELSE inJournal[c]

\* Pages that may not be written before the journal is synced.
SyncWith(c, p) ==
  IF MustJournal(c, p) \/ (p > dbOrigSize[c] /\ eState[c] # "DBMOD")
  THEN needSync[c] \union {p} ELSE needSync[c]

PagerWrite(c, p) ==
  /\ jrnl' = JournalWith(c, p)
  /\ cksumInit' = [cksumInit EXCEPT ![c] = Nonce(c)]
  /\ journalOff' = [journalOff EXCEPT ![c] = OffWith(c, p)]
  /\ eState' = [eState EXCEPT ![c] = IF Opening(c) THEN "CACHEMOD" ELSE @]

Writing(c) == status = "on" /\ eState[c] \in {"LOCKED", "CACHEMOD", "DBMOD"}

BeginWrite(c) ==
  /\ status = "on" /\ eState[c] = "READER" /\ dbSize[c] > 0 /\ LockGranted
  /\ dbFileVers[c].cc < MaxCounter
  /\ eState' = [eState EXCEPT ![c] = "LOCKED"]
  /\ dbOrigSize' = [dbOrigSize EXCEPT ![c] = dbSize[c]]
  /\ UNCHANGED <<status, fileVars, cacheVars, dbSize, inJournal, journalOff, journalHdr,
                 cksumInit, history>>

\* newDatabase: the first transaction on an empty file writes the header of page 1.
BeginNew(c) ==
  /\ status = "on" /\ eState[c] = "READER" /\ dbSize[c] = 0 /\ LockGranted
  /\ dbFileVers[c].cc < MaxCounter
  /\ eState' = [eState EXCEPT ![c] = "CACHEMOD"]
  /\ jrnl' = WithHeader(jrnl, FreshNonce, 0)
  /\ cksumInit' = [cksumInit EXCEPT ![c] = FreshNonce]
  /\ cache' = [cache EXCEPT ![c][1] = [cc |-> 0, size |-> 1]]
  /\ dirty' = [dirty EXCEPT ![c] = {1}]
  /\ needSync' = [needSync EXCEPT ![c] = {1}]
  /\ dbSize' = [dbSize EXCEPT ![c] = 1]
  /\ UNCHANGED <<status, db, dbFileVers, dbOrigSize, inJournal, journalOff, journalHdr, history>>

Write(c, p, v) ==
  /\ Writing(c) /\ p \in 2..NPages(c) /\ cache[c][p] # None
  /\ PagerWrite(c, p)
  /\ inJournal' = [inJournal EXCEPT ![c] = InJournalWith(c, p)]
  /\ needSync' = [needSync EXCEPT ![c] = SyncWith(c, p)]
  /\ dirty' = [dirty EXCEPT ![c] = @ \union {p}]
  /\ cache' = [cache EXCEPT ![c][p] = v]
  /\ UNCHANGED <<status, db, dbSize, dbOrigSize, dbFileVers, journalHdr, history>>

\* allocateBtreePage at the end of the database: page 1 counts one more, and the new
\* page is got without its content, as if it were in the journal.
Grow(c, v) ==
  LET n == NPages(c) + 1 IN
  /\ Writing(c) /\ n <= MaxPages
  /\ PagerWrite(c, 1)
  /\ inJournal' = [inJournal EXCEPT ![c] =
       InJournalWith(c, 1) \union (IF n <= dbOrigSize[c] THEN {n} ELSE {})]
  /\ needSync' = [needSync EXCEPT ![c] =
       SyncWith(c, 1) \union (IF n > dbOrigSize[c] /\ eState[c] # "DBMOD" THEN {n} ELSE {})]
  /\ dirty' = [dirty EXCEPT ![c] = @ \union {1, n}]
  /\ cache' = [cache EXCEPT ![c][1].size = n, ![c][n] = v]
  /\ dbSize' = [dbSize EXCEPT ![c] = IF @ < n THEN n ELSE @]
  /\ UNCHANGED <<status, db, dbOrigSize, dbFileVers, journalHdr, history>>

\* pagerStress: the cache needs room, and a dirty page is written to the file in the
\* middle of the transaction, once the journal is "synced" as far as the page needs.
SyncFirst_Slip(c, p) == eState[c] = "CACHEMOD"
SyncFirst(c, p) == eState[c] = "CACHEMOD" \/ p \in needSync[c]

SyncFor(c, p) ==
  /\ journalHdr' = [journalHdr EXCEPT ![c] = IF SyncFirst(c, p) THEN journalOff[c] ELSE @]
  /\ needSync' = [needSync EXCEPT ![c] = IF SyncFirst(c, p) THEN {} ELSE @ \ {p}]
  /\ UNCHANGED <<dbSize, dbOrigSize, inJournal, journalOff, cksumInit>>

Spillable(c, p) == status = "on" /\ eState[c] \in {"CACHEMOD", "DBMOD"} /\ p \in dirty[c] \ {1}

\* The write of a page the file did not have may come behind a size hint, for all of
\* the database.
Spill(c, p) ==
  /\ Spillable(c, p)
  /\ SyncFor(c, p)
  /\ \E n \in IF p > dbOrigSize[c] THEN {p, dbSize[c]} ELSE {p} :
       db' = [Written(db, {p}, cache[c]) EXCEPT !.cap = Grown(@, n)]
  /\ dirty' = [dirty EXCEPT ![c] = @ \ {p}]
  /\ eState' = [eState EXCEPT ![c] = "DBMOD"]
  /\ UNCHANGED <<status, jrnl, cache, dbFileVers, history>>

SpillFails(c, p) ==
  /\ Spillable(c, p) /\ p > db.cap
  /\ SyncFor(c, p)
  /\ eState' = [eState EXCEPT ![c] = "ERROR"]
  /\ UNCHANGED <<status, fileVars, cache, dirty, dbFileVers, history>>

----------------------------------------------------------------------------
(* The end of a write transaction. *)

Changed(c) == status = "on" /\ eState[c] \in {"CACHEMOD", "DBMOD"}

\* pager_incr_changecounter: the header of page 1 with the next change counter.
NextHeader(c) == [cc |-> dbFileVers[c].cc + 1, size |-> NPages(c)]
CommitCache(c) == [cache[c] EXCEPT ![1] = NextHeader(c)]
CommitPages(c) == dirty[c] \union {1}

\* What this transaction leaves in each page, on the file or still to be written.
CommitImage(c) ==
  [p \in Pages |->
     IF p \in CommitPages(c) THEN CommitCache(c)[p]
     ELSE IF p \in inJournal[c] \/ p \in (dbOrigSize[c] + 1)..dbSize[c] THEN db.buf[p]
     ELSE image[p]]

\* Page 1 is journaled if it was not yet, all dirty pages are written, and the journal
\* is closed and deleted.
Commit(c) ==
  /\ Changed(c) /\ dbFileVers[c].cc < MaxCounter
  /\ \E cap \in {CapUpTo(db.cap, CommitPages(c)), Grown(db.cap, dbSize[c])} :
       db' = [Written(db, CommitPages(c), CommitCache(c)) EXCEPT !.cap = cap]
  /\ jrnl' = Deleted(c, JournalWith(c, 1))
  /\ cache' = [cache EXCEPT ![c] = CommitCache(c)]
  /\ dbFileVers' = [dbFileVers EXCEPT ![c] = NextHeader(c)]
  /\ image' = CommitImage(c)
  /\ Unlocked(c)
  /\ UNCHANGED <<status, shortRead>>

\* Rollback: the records go back into the cached pages, and pages the database did not
\* have leave the cache (page 1 stays, zeroed).
RestoredCache_Slip(c, j) ==
  [p \in Pages |-> IF p > j.size THEN IF p = 1 THEN ZeroHeader ELSE None ELSE cache[c][p]]
RestoredCache(c, j) ==
  [p \in Pages |->
     IF p > j.size THEN IF p = 1 THEN ZeroHeader ELSE None
     ELSE IF cache[c][p] # None /\ p \in PagesOf(j, Restored(j)) THEN Latest(j, Restored(j), p)
     ELSE cache[c][p]]

RolledBack(c, f, j, synced) ==
  /\ db' = PlayedBack(f, j, {i \in Restored(j) : i <= synced})
  /\ cache' = [cache EXCEPT ![c] = RestoredCache(c, j)]
  /\ jrnl' = Deleted(c, j)
  /\ Unlocked(c)
  /\ UNCHANGED <<status, history>>

\* dbFileVers is taken from a record of page 1.
VersAfter_Slip(c, j, vers) ==
  IF Restored(j) # {} THEN j.recs[Max(Restored(j))].data ELSE vers
VersAfter(c, j, vers) ==
  IF 1 \in PagesOf(j, Restored(j)) THEN Latest(j, Restored(j), 1) ELSE vers

\* The buffer of the file may not grow to the page k (nor to the size hinted before):
\* the dirty pages before k are on the file, and the transaction is rolled back.
CommitFails(c, k) ==
  LET done == {p \in CommitPages(c) : p < k}
      j == JournalWith(c, 1)
      f == [Written(db, done, CommitCache(c)) EXCEPT !.cap = CapUpTo(@, done)] IN
  /\ Changed(c) /\ dbFileVers[c].cc < MaxCounter
  /\ k \in CommitPages(c) /\ k > f.cap
  /\ RolledBack(c, f, j, OffWith(c, 1))
  /\ dbFileVers' = [dbFileVers EXCEPT ![c] = VersAfter(c, j, NextHeader(c))]

\* Before anything is on the file, only the cache is restored.
Rollback(c) ==
  /\ Changed(c)
  /\ IF eState[c] = "DBMOD"
     THEN RolledBack(c, db, jrnl, journalHdr[c])
     ELSE /\ cache' = [cache EXCEPT ![c] = RestoredCache(c, jrnl)]
          /\ jrnl' = Deleted(c, jrnl)
          /\ Unlocked(c)
          /\ UNCHANGED <<status, db, history>>
  /\ dbFileVers' = [dbFileVers EXCEPT ![c] = VersAfter(c, jrnl, @)]

\* After an error the transaction is given up: the journal is closed and left, for the
\* next reader to find.
ErrorUnlock(c) ==
  /\ status = "on" /\ eState[c] = "ERROR"
  /\ jrnl' = Closed(c, jrnl)
  /\ cache' = [cache EXCEPT ![c] = NoCache]
  /\ Unlocked(c)
  /\ UNCHANGED <<status, db, dbFileVers, history>>

----------------------------------------------------------------------------

Init ==
  /\ status = "on"
  /\ db = [buf |-> [p \in Pages |-> JunkPage(p)], len |-> 0, cap |-> InitCap]
  /\ jrnl = NoJournal
  /\ eState = [c \in Conns |-> "OPEN"]
  /\ cache = [c \in Conns |-> NoCache]
  /\ dirty = [c \in Conns |-> {}] /\ needSync = [c \in Conns |-> {}]
  /\ dbSize = [c \in Conns |-> 0] /\ dbOrigSize = [c \in Conns |-> 0]
  /\ dbFileVers = [c \in Conns |-> ZeroHeader]
  /\ inJournal = [c \in Conns |-> {}]
  /\ journalOff = [c \in Conns |-> 0] /\ journalHdr = [c \in Conns |-> 0]
  /\ cksumInit = [c \in Conns |-> 0]
  /\ image = [p \in Pages |-> ZeroPage(p)]
  /\ shortRead = FALSE

Reading(c) ==
  \/ BeginRead(c) \/ BeginReadRefused(c) \/ EndRead(c) \/ Reopen(c)
  \/ \E p \in Pages : Get(c, p) \/ GetBehind(c, p) \/ Evict(c, p)

Changing(c) ==
  \/ BeginWrite(c) \/ BeginNew(c)
  \/ \E p \in Pages, v \in Vals : Write(c, p, v)
  \/ \E v \in Vals : Grow(c, v)
  \/ \E p \in Pages : Spill(c, p) \/ SpillFails(c, p)

Ending(c) ==
  \/ Commit(c) \/ Rollback(c) \/ ErrorUnlock(c)
  \/ \E k \in Pages : CommitFails(c, k)

Next == \E c \in Conns : Reading(c) \/ Changing(c) \/ Ending(c)

Spec == Init /\ [][Next]_vars

----------------------------------------------------------------------------
(* What a single connection can rely on.  Pages that were read as zeros may have  *)
(* become content, so most of it ends with the first of them (shortRead).         *)

TypeOK ==
  /\ status \in {"on", "crashed"}
  /\ db \in [buf : [Pages -> Content], len : 0..MaxPages, cap : Nat]
  /\ jrnl \in [exists : BOOLEAN, doomed : BOOLEAN, nonce : Nat, size : 0..MaxPages,
               recs : Seq([nonce : Nat, pgno : Pages, data : Content]), valid : Nat]
  /\ eState \in [Conns -> {"OPEN", "READER", "LOCKED", "CACHEMOD", "DBMOD", "ERROR"}]
  /\ cache \in [Conns -> [Pages -> Content \union {None}]]
  /\ dirty \in [Conns -> SUBSET Pages] /\ needSync \in [Conns -> SUBSET Pages]
  /\ inJournal \in [Conns -> SUBSET Pages]
  /\ dbSize \in [Conns -> 0..MaxPages] /\ dbOrigSize \in [Conns -> 0..MaxPages]
  /\ dbFileVers \in [Conns -> Headers]
  /\ journalOff \in [Conns -> Nat] /\ journalHdr \in [Conns -> Nat]
  /\ cksumInit \in [Conns -> Nat]
  /\ image \in [Pages -> Content] /\ shortRead \in BOOLEAN

\* A journal that is left over from an error.
Abandoned == jrnl.exists /\ Holders = {}

\* The database file is being changed, or was left in the middle of that.
Unsettled == Abandoned \/ \E c \in Conns : eState[c] \in {"DBMOD", "ERROR"}

\* The records a playback would write back.
Protecting(i) ==
  /\ i \in Restored(jrnl)
  /\ \A c \in Conns : eState[c] \in {"DBMOD", "ERROR"} => i <= journalHdr[c]

CommittedSize == image[1].size

\* Write-ahead: a page of the committed database that the file no longer has as it was
\* committed, or no longer has at all, is in the journal as it was committed, in a
\* record that a rollback writes back - unless it is merely behind the end of a file that a
\* write has cut off.
JournalCoversFile ==
  ~shortRead /\ Unsettled => \A p \in 1..CommittedSize :
    \/ db.buf[p] = image[p]
    \/ \E i \in DOMAIN jrnl.recs : /\ Protecting(i)
                                   /\ jrnl.recs[i].pgno = p
                                   /\ jrnl.recs[i].data = image[p]

\* Whatever was committed, rolled back or recovered: what the file has of the database
\* is what was committed.  The writes that cut it off lose pages, they mix none.
CommittedContentKept ==
  ~shortRead /\ ~Unsettled => \A p \in 1..db.len : db.buf[p] = image[p]

\* ... and when pages are lost the file still says how many there were, so the next
\* reader is refused (SQLITE_CORRUPT): a database cut off is never taken for a whole
\* one, nor for a new one.
DamageIsNoticed ==
  ~shortRead /\ ~Unsettled =>
    /\ db.len <= CommittedSize
    /\ db.len < CommittedSize => db.len >= 1 /\ db.buf[1].size > db.len

\* A clean page in the cache is the page on the file.
CacheCoherent ==
  ~shortRead => \A c \in Conns : \A p \in 1..db.len :
    eState[c] # "OPEN" /\ cache[c][p] # None /\ p \notin dirty[c] => cache[c][p] = db.buf[p]

\* Pages are read behind the end of the file only by a transaction that has written to
\* the file: before that, it has every page of the database.
NoReadBehindEnd ==
  \A c \in Conns :
    /\ eState[c] \in {"READER", "LOCKED"} => NPages(c) <= db.len
    /\ eState[c] = "CACHEMOD" => dbOrigSize[c] <= db.len

\* Nobody reads or writes a database whose recovery is still to come.
NoUnrecoveredReader == Abandoned => \A c \in Conns : eState[c] = "OPEN"

----------------------------------------------------------------------------
(* What two connections cannot. *)

\* "no process holds a RESERVED or greater lock on the database file" (sqlite3.c:51256):
\* a journal that is played back for a reader is nobody's.
HotJournalUnowned ==
  [][\A c \in Conns : SharedLock(c) /\ HotJournal => Holders = {}]_vars
=============================================================================
