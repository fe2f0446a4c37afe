----------------------------- MODULE PagerProofs -----------------------------
(***************************************************************************)
(* What the rollback journal of a single connection protects, for any      *)
(* number of pages and commits, any contents and any buffer sizes.         *)
(***************************************************************************)
EXTENDS Pager, SequenceTheorems, SetLemmas

me == CHOOSE c \in Conns : TRUE
Single == Conns = {me}

----------------------------------------------------------------------------
(* The invariant.  First what holds in any case. *)

Record == [nonce : Nat, pgno : Pages, data : Content]
Journal == [exists : BOOLEAN, doomed : {FALSE}, nonce : Nat, size : 0..MaxPages,
            recs : Seq(Record), valid : Nat]

File(f) ==
  /\ f \in [buf : [Pages -> Content], len : 0..MaxPages, cap : Nat]
  /\ f.buf[1] \in Headers

Shape ==
  /\ File(db) /\ jrnl \in Journal
  /\ eState \in [Conns -> {"OPEN", "READER", "LOCKED", "CACHEMOD", "DBMOD", "ERROR"}]
  /\ cache \in [Conns -> [Pages -> Content \union {None}]]
  /\ cache[me][1] \in Headers \union {None}
  /\ dirty \in [Conns -> SUBSET Pages] /\ needSync \in [Conns -> SUBSET Pages]
  /\ inJournal \in [Conns -> SUBSET Pages]
  /\ dbSize \in [Conns -> 0..MaxPages] /\ dbOrigSize \in [Conns -> 0..MaxPages]
  /\ dbFileVers \in [Conns -> Headers]
  /\ journalOff \in [Conns -> Nat] /\ journalHdr \in [Conns -> Nat]
  /\ cksumInit \in [Conns -> Nat]
  /\ image \in [Pages -> Content] /\ image[1] \in Headers
  /\ shortRead \in BOOLEAN

\* A journal has pages of its header's database, each once, all of its own seed.
Sound(j) ==
  /\ j.valid = Len(j.recs)
  /\ \A i \in 1..Len(j.recs) :
       /\ j.recs[i].nonce = j.nonce
       /\ j.recs[i].pgno <= j.size
       /\ j.recs[i].pgno = 1 => j.recs[i].data \in Headers
       /\ \A k \in 1..Len(j.recs) : j.recs[i].pgno = j.recs[k].pgno => i = k

JournalSound == Sound(jrnl) /\ (~jrnl.exists => jrnl = NoJournal)

\* A connection that holds the journal knows what is in it.
JournalKnown ==
  IF HasJournal(me)
  THEN /\ jrnl.exists /\ jrnl.nonce = cksumInit[me] /\ jrnl.size = dbOrigSize[me]
       /\ journalOff[me] = Len(jrnl.recs) /\ journalHdr[me] <= journalOff[me]
       /\ \A i \in 1..Len(jrnl.recs) : jrnl.recs[i].pgno \in inJournal[me]
  ELSE /\ dirty[me] = {} /\ needSync[me] = {} /\ inJournal[me] = {}
       /\ journalOff[me] = 0 /\ journalHdr[me] = 0
       /\ eState[me] # "LOCKED" => dbOrigSize[me] = 0

\* The database as the connection sees it.
Seen ==
  /\ eState[me] # "OPEN" => cache[me][1] \in Headers
  /\ eState[me] \in {"READER", "LOCKED"} =>
       ~jrnl.exists /\ dbSize[me] = db.len /\ NPages(me) <= db.len
       /\ (db.len > 0 => NPages(me) >= 1)
  /\ HasJournal(me) => NPages(me) >= 1
  /\ eState[me] = "LOCKED" => dbOrigSize[me] = db.len /\ db.len > 0
  /\ eState[me] = "CACHEMOD" => dbOrigSize[me] = db.len
  /\ \A p \in dirty[me] : cache[me][p] \in Content
  /\ eState[me] = "OPEN" /\ jrnl.exists => cache[me] = NoCache

\* From here on, as long as no page was read as zeros.  Between write transactions the
\* file is a beginning of what was committed.
Kept ==
  ~shortRead /\ ~HasJournal(me) /\ ~jrnl.exists =>
    /\ db.len <= CommittedSize
    /\ \A p \in 1..db.len : db.buf[p] = image[p]
    /\ \A p \in 1..db.len : cache[me][p] # None => cache[me][p] = db.buf[p]
    /\ \A p \in 2..MaxPages : cache[me][p] # None => p <= CommittedSize
    /\ eState[me] # "OPEN" =>
         NPages(me) = db.len /\ db.len = CommittedSize /\ (db.len > 0 => cache[me][1] = db.buf[1])

\* A page is on the file as it was committed, or is in the journal so.
Covered(p, n) ==
  \/ db.buf[p] = image[p]
  \/ \E i \in 1..n : jrnl.recs[i].pgno = p

\* What a transaction has done to the file and to the cache.
Traced ==
  /\ dbOrigSize[me] = CommittedSize
  /\ NPages(me) = dbSize[me] /\ dbSize[me] >= 1 /\ dbOrigSize[me] <= dbSize[me]
  /\ \A p \in 1..dbOrigSize[me] : Covered(p, journalHdr[me])
  /\ \A p \in inJournal[me] :
       /\ p \in needSync[me] \/ \E i \in 1..journalHdr[me] : jrnl.recs[i].pgno = p
       /\ \E i \in 1..Len(jrnl.recs) : jrnl.recs[i].pgno = p
  /\ \A p \in 1..dbOrigSize[me] : p \notin inJournal[me] =>
       p \notin dirty[me] /\ (cache[me][p] # None \/ p = 1 => cache[me][p] = image[p])
  /\ \A p \in Pages : cache[me][p] # None /\ p \notin dirty[me] => cache[me][p] = db.buf[p]
  /\ \A p \in 2..MaxPages : cache[me][p] # None \/ p \in dirty[me] => p <= dbSize[me]
  /\ db.len <= dbSize[me]
  /\ db.len < dbOrigSize[me] => journalHdr[me] >= 1

Untouched == \A p \in 1..dbOrigSize[me] : db.buf[p] = image[p]

InWriting ==
  ~shortRead /\ HasJournal(me) => Traced /\ (eState[me] = "CACHEMOD" => Untouched)

\* What any journal holds is what was committed.
Protected ==
  ~shortRead /\ jrnl.exists =>
    /\ jrnl.size = CommittedSize
    /\ \A i \in 1..Len(jrnl.recs) : jrnl.recs[i].data = image[jrnl.recs[i].pgno]
    /\ \A p \in 1..jrnl.size : Covered(p, Len(jrnl.recs))
    /\ db.len < jrnl.size => Len(jrnl.recs) >= 1

NotEmptied == ~shortRead /\ db.len = 0 => CommittedSize = 0

IInv ==
  /\ Shape /\ JournalSound /\ JournalKnown /\ Seen
  /\ Kept /\ InWriting /\ Protected /\ NotEmptied

----------------------------------------------------------------------------
(* Sets, files and journals. *)

LEMMA PagesFacts ==
  /\ MaxPages \in Nat \ {0} /\ 1 \in Pages /\ Pages \subseteq 0..MaxPages
  /\ ZeroHeader \in Headers /\ Headers \subseteq Content
  /\ \A h \in Headers : h.size \in 0..MaxPages
  /\ \A q \in Pages : ZeroPage(q) \in Content
BY PagerAssumption DEF Pages, ZeroHeader, Headers, Content, ZeroPage

\* A table of capacities: what is wrong with it would be wrong first at some page, and is
\* right there when it is right at the page before.
LEMMA CapUpToIsNat ==
  ASSUME NEW cap \in Nat, NEW ps
  PROVE  CapUpTo(cap, ps) \in Nat
<1> DEFINE Step(c, n) ==
             IF n = 0 THEN cap ELSE IF n \in ps THEN Grown(c[n - 1], n) ELSE c[n - 1]
           Filled(c, n) == c \in [0..n -> Nat] /\ \A i \in 0..n : c[i] = Step(c, i)
           Stuck == {n \in 0..MaxPages : ~ \E c : Filled(c, n)}
           table == CHOOSE c : c = [n \in 0..MaxPages |-> Step(c, n)]
<1>1. MaxPages \in Nat
  BY PagerAssumption
<1>2. ASSUME NEW x \in Nat, NEW n \in Nat PROVE Grown(x, n) \in Nat
  BY DEF Grown
<1>3. Stuck = {}
  <2> SUFFICES ASSUME Stuck # {} PROVE FALSE
    OBVIOUS
  <2>1. PICK m \in Stuck : \A k \in Stuck : m <= k
    <3>1. Stuck \in SUBSET Nat
      BY <1>1
    <3> QED BY <3>1, SmallestOf
  <2>2. m \in 0..MaxPages /\ ~ \E c : Filled(c, m)
    OBVIOUS
  <2>3. CASE m = 0
    <3>1. Filled([n \in 0..0 |-> cap], 0)
      OBVIOUS
    <3> QED BY <2>2, <2>3, <3>1
  <2>4. CASE m # 0
    <3>1. m \in Nat /\ m - 1 \in 0..MaxPages /\ ~ (m <= m - 1)
      BY <1>1, <2>2, <2>4
    <3>2. PICK c : Filled(c, m - 1)
      <4> HIDE DEF Filled
      <4> QED BY <2>1, <3>1
    <3> DEFINE e == [n \in 0..m |-> IF n = m THEN Step(c, m) ELSE c[n]]
    <3>3. m \in Nat /\ m - 1 \in 0..(m - 1)
      BY <1>1, <2>2, <3>1
    <3>4. Step(c, m) \in Nat
      BY <1>2, <3>2, <3>3
    <3>5. ASSUME NEW n \in 0..m PROVE e[n] \in Nat /\ e[n] = Step(e, n)
      <4>1. CASE n = m
        <5>1. e[m - 1] = c[m - 1]
          BY <3>3
        <5> QED BY <3>3, <3>4, <4>1, <5>1
      <4>2. CASE n # m
        <5>1. n \in 0..(m - 1) /\ (n # 0 => n - 1 \in 0..m /\ n - 1 # m)
          BY <3>3, <4>2
        <5>2. e[n] = c[n] /\ (n # 0 => e[n - 1] = c[n - 1])
          BY <4>2, <5>1
        <5> QED BY <3>2, <5>1, <5>2
      <4> QED BY <4>1, <4>2
    <3>6. e \in [0..m -> Nat]
      BY <3>5
    <3> HIDE DEF e, Step
    <3>7. Filled(e, m)
      BY <3>5, <3>6
    <3> QED BY <2>2, <3>7
  <2> QED BY <2>3, <2>4
<1>4. PICK d : Filled(d, MaxPages)
  <2>1. MaxPages \in 0..MaxPages
    BY <1>1
  <2> HIDE DEF Filled
  <2> QED BY <1>3, <2>1
<1>5. d = [n \in 0..MaxPages |-> Step(d, n)]
  BY <1>4
<1>6. table = [n \in 0..MaxPages |-> Step(table, n)]
  BY <1>5
<1>7. ASSUME NEW m \in 0..MaxPages PROVE table[m] \in Nat
  <2> DEFINE Wrong == {n \in 0..MaxPages : table[n] \notin Nat}
  <2>0. \A n \in 0..MaxPages : table[n] = Step(table, n)
    BY <1>6
  <2> HIDE DEF table
  <2> SUFFICES ASSUME Wrong # {} PROVE FALSE
    OBVIOUS
  <2>1. PICK w \in Wrong : \A k \in Wrong : w <= k
    <3>1. Wrong \in SUBSET Nat
      BY <1>1
    <3> QED BY <3>1, SmallestOf
  <2>2. w \in Nat /\ w \in 0..MaxPages /\ (w # 0 => w - 1 \in 0..MaxPages /\ w - 1 \notin Wrong)
    BY <1>1, <2>1
  <2>3. table[w] = Step(table, w)
    BY <2>0, <2>2
  <2>4. Step(table, w) \in Nat
    BY <1>2, <2>2
  <2> QED BY <2>1, <2>3, <2>4
<1>8. CapUpTo(cap, ps) = table[MaxPages]
  BY DEF CapUpTo
<1> HIDE DEF table
<1> QED BY <1>1, <1>7, <1>8

\* All records of a sound journal are played back.
LEMMA RestoredIsAll ==
  ASSUME NEW j \in Journal, Sound(j)
  PROVE  Restored(j) = 1..Len(j.recs) /\ Len(j.recs) \in Nat
<1>1. Len(j.recs) \in Nat /\ j.valid = Len(j.recs)
  BY DEF Journal, Sound
<1>2. \A i \in 1..Len(j.recs) : Applies(j, i) /\ Intact(j, i)
  BY DEF Sound, Applies, Intact
<1> QED BY <1>1, <1>2 DEF Restored

LEMMA WrittenCorrect ==
  ASSUME NEW f, File(f), NEW ps \in SUBSET Pages, ps # {}, NEW data,
         \A p \in ps : data[p] \in Content, 1 \in ps => data[1] \in Headers,
         NEW g, g = Written(f, ps, data)
  PROVE  /\ File(g) /\ g.len \in ps /\ \A p \in ps : p <= g.len
         /\ \A p \in Pages : g.buf[p] = IF p \in ps THEN data[p] ELSE f.buf[p]
<1> DEFINE b == [p \in Pages |-> IF p \in ps THEN data[p] ELSE f.buf[p]]
<1>1. g = [f EXCEPT !.buf = b, !.len = Max(ps)]
  BY DEF Written
<1>2. Max(ps) \in ps /\ \A p \in ps : p <= Max(ps)
  BY MaxCorrect, PagesFacts
<1>3. b \in [Pages -> Content] /\ b[1] \in Headers
  BY PagesFacts DEF File
<1>4. \A p \in Pages : b[p] = IF p \in ps THEN data[p] ELSE f.buf[p]
  OBVIOUS
<1> HIDE DEF b
<1>5. Max(ps) \in 0..MaxPages
  BY <1>2, PagesFacts
<1>6. g = [buf |-> b, len |-> Max(ps), cap |-> f.cap] /\ f.cap \in Nat
  BY <1>1 DEF File
<1>7. File(g)
  BY <1>3, <1>5, <1>6 DEF File
<1> QED BY <1>2, <1>4, <1>6, <1>7

LEMMA TruncatedCorrect ==
  ASSUME NEW f, File(f), NEW n \in 0..MaxPages, NEW g, g = Truncated(f, n)
  PROVE  /\ File(g) /\ g.len = n
         /\ \A p \in Pages : g.buf[p] = f.buf[p] \/ (p = n /\ f.len < n)
<1>0. f.len \in Nat /\ n \in Nat
  BY PagesFacts DEF File
<1>1. CASE f.len > n
  <2>1. g = [f EXCEPT !.len = n]
    BY <1>1 DEF Truncated
  <2> QED BY <2>1 DEF File
<1>2. CASE f.len < n
  <2> DEFINE ps == {n}
             b == [p \in Pages |-> IF p \in ps THEN ZeroPage(p) ELSE f.buf[p]]
  <2>1. n \in Pages /\ ps \in SUBSET (0..n) /\ ps # {} /\ \A p \in ps : p = n
    BY <1>0, <1>2, PagesFacts DEF Pages
  <2>2. Max(ps) = n
    <3> HIDE DEF ps
    <3>1. Max(ps) \in ps
      BY <1>0, <2>1, MaxCorrect
    <3> QED BY <2>1, <3>1
  <2>3. g = [f EXCEPT !.buf = b, !.len = n]
    <3>1. g = Written(f, ps, [p \in Pages |-> ZeroPage(p)])
      BY <1>0, <1>2 DEF Truncated
    <3> QED BY <2>1, <2>2, <3>1 DEF Written
  <2>4. b \in [Pages -> Content]
    BY PagesFacts DEF File
  <2>5. b[1] \in Headers
    BY PagesFacts DEF File, ZeroPage
  <2>6. \A p \in Pages : p # n => b[p] = f.buf[p]
    OBVIOUS
  <2> HIDE DEF b
  <2>7. g = [buf |-> b, len |-> n, cap |-> f.cap] /\ f.cap \in Nat
    BY <2>3 DEF File
  <2>8. File(g)
    BY <2>4, <2>5, <2>7 DEF File
  <2> QED BY <1>2, <2>6, <2>7, <2>8
<1>3. CASE f.len = n
  BY <1>0, <1>3 DEF Truncated
<1> QED BY <1>0, <1>1, <1>2, <1>3

LEMMA RecordsOfJournal ==
  ASSUME NEW j \in Journal
  PROVE  /\ j.size \in 0..MaxPages /\ Len(j.recs) \in Nat /\ j.recs \in Seq(Record)
         /\ \A i \in 1..Len(j.recs) : /\ j.recs[i] \in Record /\ j.recs[i].nonce \in Nat
                                      /\ j.recs[i].pgno \in Pages /\ j.recs[i].data \in Content
<1>1. j.size \in 0..MaxPages /\ j.recs \in Seq(Record)
  BY DEF Journal
<1>2. \A i \in 1..Len(j.recs) : j.recs[i] \in Record
  BY <1>1, ElementOfSeq
<1> QED BY <1>1, <1>2, LenProperties DEF Record

LEMMA LatestCorrect ==
  ASSUME NEW j \in Journal, NEW n \in 0..Len(j.recs), NEW p, p \in PagesOf(j, 1..n)
  PROVE  \E i \in 1..n : j.recs[i].pgno = p /\ Latest(j, 1..n, p) = j.recs[i].data
<1> DEFINE Q == {i \in 1..n : j.recs[i].pgno = p}
<1>1. n \in Nat
  BY RecordsOfJournal
<1>2. Q # {} /\ Q \in SUBSET (0..n)
  BY <1>1 DEF PagesOf
<1>3. Max(Q) \in Q
  BY <1>1, <1>2, MaxCorrect
<1> QED BY <1>3 DEF Latest

\* What a playback of the first n records makes of a file.
LEMMA PlayedBackCorrect ==
  ASSUME NEW f, File(f), NEW j \in Journal, Sound(j), NEW n \in 0..Len(j.recs),
         NEW g, g = PlayedBack(f, j, 1..n)
  PROVE  /\ File(g) /\ g.len = IF n = 0 THEN j.size ELSE j.recs[n].pgno
         /\ \A i \in 1..n : g.buf[j.recs[i].pgno] = j.recs[i].data
         /\ \A p \in Pages : (\A i \in 1..n : j.recs[i].pgno # p) =>
              g.buf[p] = f.buf[p] \/ (p = j.size /\ f.len < j.size)
<1>1. /\ j.size \in 0..MaxPages /\ n \in Nat /\ Len(j.recs) \in Nat
      /\ \A i \in 1..n : j.recs[i] \in Record /\ j.recs[i].pgno \in Pages
  BY RecordsOfJournal
<1>2. PICK t : t = Truncated(f, j.size)
  OBVIOUS
<1>3. /\ File(t) /\ t.len = j.size
      /\ \A p \in Pages : t.buf[p] = f.buf[p] \/ (p = j.size /\ f.len < j.size)
  BY <1>1, <1>2, TruncatedCorrect
<1>4. CASE n = 0
  <2>1. 1..n = {} /\ g = t
    BY <1>2, <1>4 DEF PlayedBack
  <2> QED BY <1>3, <1>4, <2>1
<1>5. CASE n # 0
  <2> DEFINE S == 1..n
             b == [p \in Pages |-> IF p \in PagesOf(j, S) THEN Latest(j, S, p) ELSE t.buf[p]]
  <2>0. n \in S /\ \A i \in S : i <= n
    BY <1>1, <1>5
  <2>1. S # {} /\ S \in SUBSET (0..n)
    BY <1>1, <2>0
  <2>2. Max(S) = n
    <3> HIDE DEF S
    <3>1. PICK m : m = Max(S)
      OBVIOUS
    <3>2. m \in S /\ \A y \in S : y <= m
      BY <1>1, <2>1, <3>1, MaxCorrect
    <3>3. m \in Nat /\ m <= n /\ n <= m
      BY <1>1, <2>0, <2>1, <3>2
    <3> QED BY <1>1, <3>1, <3>3
  <2>3. g = [t EXCEPT !.buf = b, !.len = j.recs[n].pgno]
    BY <1>2, <2>1, <2>2 DEF PlayedBack
  <2>4. ASSUME NEW p \in Pages, p \in PagesOf(j, S)
        PROVE  \E i \in S : j.recs[i].pgno = p /\ Latest(j, S, p) = j.recs[i].data
    BY <2>4, LatestCorrect
  <2>5. ASSUME NEW p \in Pages PROVE b[p] \in Content /\ (p = 1 => b[p] \in Headers)
    <3>1. CASE p \in PagesOf(j, S)
      <4>1. PICK i \in S : j.recs[i].pgno = p /\ Latest(j, S, p) = j.recs[i].data
        BY <2>4, <3>1
      <4>2. b[p] = j.recs[i].data /\ i \in 1..Len(j.recs)
        BY <1>1, <3>1, <4>1
      <4> QED BY <1>1, <4>1, <4>2 DEF Sound, Record
    <3>2. CASE p \notin PagesOf(j, S)
      BY <1>3, <3>2 DEF File
    <3> QED BY <3>1, <3>2
  <2>6. ASSUME NEW i \in S PROVE b[j.recs[i].pgno] = j.recs[i].data
    <3>1. j.recs[i].pgno \in Pages /\ j.recs[i].pgno \in PagesOf(j, S)
      BY <1>1 DEF PagesOf
    <3>2. PICK k \in S : j.recs[k].pgno = j.recs[i].pgno
                         /\ Latest(j, S, j.recs[i].pgno) = j.recs[k].data
      BY <2>4, <3>1
    <3>3. i \in 1..Len(j.recs) /\ k \in 1..Len(j.recs)
      BY <1>1
    <3>4. k = i
      BY <3>2, <3>3 DEF Sound
    <3> QED BY <3>1, <3>2, <3>4
  <2>7. ASSUME NEW p \in Pages, \A i \in 1..n : j.recs[i].pgno # p PROVE b[p] = t.buf[p]
    BY <2>7 DEF PagesOf
  <2>8. b \in [Pages -> Content] /\ b[1] \in Headers
    BY <2>5, PagesFacts
  <2>9. j.recs[n].pgno \in Pages /\ j.recs[n].pgno \in 0..MaxPages
    BY <1>1, <2>0, PagesFacts
  <2> HIDE DEF b
  <2>10. g = [buf |-> b, len |-> j.recs[n].pgno, cap |-> t.cap] /\ t.cap \in Nat
    BY <1>3, <2>3 DEF File
  <2>11. File(g)
    BY <2>8, <2>9, <2>10 DEF File
  <2> QED BY <1>3, <1>5, <2>6, <2>7, <2>10, <2>11
<1> QED BY <1>4, <1>5

----------------------------------------------------------------------------
(* One connection: a journal that it deletes is gone, and one that it opens is empty. *)

LEMMA OnlyMe ==
  ASSUME Single
  PROVE  me \in Conns /\ \A c \in Conns : c = me
BY DEF Single

LEMMA NobodyElse ==
  ASSUME Single, NEW j
  PROVE  /\ Deleted(me, j) = NoJournal
         /\ j \in Journal => Closed(me, j) = j
<1>1. ~ OthersHold(me)
  BY OnlyMe DEF OthersHold, Holders
<1> QED BY <1>1 DEF Deleted, Closed, Journal

LEMMA NoJournalCorrect ==
  /\ NoJournal \in Journal /\ Sound(NoJournal)
  /\ ~ NoJournal.exists /\ NoJournal.size = 0 /\ NoJournal.recs = <<>>
<1>1. NoJournal.recs = <<>> /\ NoJournal.valid = 0 /\ ~ NoJournal.exists /\ NoJournal.size = 0
  BY DEF NoJournal
<1>2. NoJournal \in Journal
  BY PagesFacts DEF NoJournal, Journal
<1>3. Len(NoJournal.recs) = 0 /\ 1..0 = {}
  BY <1>1
<1> QED BY <1>1, <1>2, <1>3 DEF Sound

LEMMA FreshNonceIsNat ==
  ASSUME Single, cksumInit \in [Conns -> Nat], jrnl = NoJournal
  PROVE  FreshNonce \in Nat
<1>1. Cardinality(Conns) = 1
  BY FS_Singleton DEF Single
<1>2. jrnl.recs = <<>> /\ jrnl.nonce = 0 /\ Len(jrnl.recs) = 0 /\ DOMAIN jrnl.recs = {}
  BY DEF NoJournal
<1>3. PICK n \in 1..3 : n # 0 /\ n # cksumInit[me]
  <2>1. 1 # 0 /\ 2 # 0 /\ (1 # cksumInit[me] \/ 2 # cksumInit[me]) /\ 1 \in 1..3 /\ 2 \in 1..3
    OBVIOUS
  <2> QED BY <2>1
<1>4. Cardinality(Conns) + Len(jrnl.recs) + 2 = 3
  BY <1>1, <1>2
<1>5. /\ n # jrnl.nonce
      /\ \A i \in DOMAIN jrnl.recs : n # jrnl.recs[i].nonce
      /\ \A c \in Conns : n # cksumInit[c]
  BY <1>2, <1>3, OnlyMe
<1>6. FreshNonce \in 1..3
  BY <1>3, <1>4, <1>5 DEF FreshNonce
<1> QED BY <1>6

WriteStates == {"LOCKED", "CACHEMOD", "DBMOD"}

LEMMA OpenedCorrect ==
  ASSUME Single, Shape, JournalSound, JournalKnown, Seen, eState[me] \in WriteStates,
         NEW j, j = OpenedJournal(me)
  PROVE  /\ j \in Journal /\ Sound(j) /\ j.exists /\ j.recs = jrnl.recs
         /\ j.nonce = Nonce(me) /\ j.nonce \in Nat /\ j.size = dbOrigSize[me]
         /\ journalOff[me] = Len(jrnl.recs) /\ journalHdr[me] \in 0..journalOff[me]
         /\ \A i \in 1..Len(jrnl.recs) : jrnl.recs[i].pgno \in inJournal[me]
         /\ Opening(me) => jrnl = NoJournal /\ Len(jrnl.recs) = 0
<1>1. me \in Conns /\ journalHdr[me] \in Nat /\ dbOrigSize[me] \in 0..MaxPages
  BY OnlyMe DEF Shape
<1>2. CASE eState[me] = "LOCKED"
  <2>1. jrnl = NoJournal /\ journalOff[me] = 0 /\ journalHdr[me] = 0
    BY <1>2 DEF JournalSound, Seen, JournalKnown, HasJournal
  <2>2. FreshNonce \in Nat /\ Nonce(me) = FreshNonce
    BY <1>2, <2>1, FreshNonceIsNat DEF Shape, Nonce, Opening
  <2>3. j = [NoJournal EXCEPT !.exists = TRUE, !.nonce = FreshNonce, !.size = dbOrigSize[me],
                              !.valid = 0]
    BY <1>2, <2>1 DEF OpenedJournal, Opening, WithHeader
  <2>4. j = [exists |-> TRUE, doomed |-> FALSE, nonce |-> FreshNonce, size |-> dbOrigSize[me],
             recs |-> <<>>, valid |-> 0]
    BY <2>3 DEF NoJournal
  <2>5. j \in Journal
    BY <1>1, <2>2, <2>4 DEF Journal
  <2>6. jrnl.recs = <<>> /\ Len(jrnl.recs) = 0 /\ 1..0 = {}
    BY <2>1 DEF NoJournal
  <2>7. Sound(j)
    BY <2>4, <2>6 DEF Sound
  <2> QED BY <1>1, <2>1, <2>2, <2>4, <2>5, <2>6, <2>7
<1>3. CASE eState[me] # "LOCKED"
  <2>1. HasJournal(me) /\ ~ Opening(me)
    BY <1>3 DEF HasJournal, WriteStates, Opening
  <2>2. j = jrnl /\ Nonce(me) = cksumInit[me]
    BY <2>1 DEF OpenedJournal, Nonce
  <2>3. /\ jrnl.exists /\ jrnl.nonce = cksumInit[me] /\ jrnl.size = dbOrigSize[me]
        /\ journalOff[me] = Len(jrnl.recs) /\ journalHdr[me] <= journalOff[me]
        /\ \A i \in 1..Len(jrnl.recs) : jrnl.recs[i].pgno \in inJournal[me]
    BY <2>1 DEF JournalKnown
  <2>4. jrnl \in Journal /\ Sound(jrnl) /\ cksumInit[me] \in Nat /\ journalOff[me] \in Nat
    BY <1>1 DEF Shape, JournalSound
  <2> QED BY <1>1, <2>1, <2>2, <2>3, <2>4
<1> QED BY <1>2, <1>3

LEMMA WithRecordCorrect ==
  ASSUME NEW o \in Journal, NEW n, n = Len(o.recs), NEW r
  PROVE  WithRecord(o, n, r) = [exists |-> o.exists, doomed |-> FALSE, nonce |-> o.nonce,
                                size |-> o.size, recs |-> Append(o.recs, r), valid |-> n + 1]
<1>1. n \in Nat /\ ~ (n < n)
  BY RecordsOfJournal
<1>2. PICK e, x, s, rs, v :
        o = [exists |-> e, doomed |-> FALSE, nonce |-> x, size |-> s, recs |-> rs, valid |-> v]
  BY DEF Journal
<1>3. WithRecord(o, n, r) = [[o EXCEPT !.recs = Append(o.recs, r)] EXCEPT !.valid = n + 1]
  BY <1>1 DEF WithRecord
<1> QED BY <1>2, <1>3

\* What the journal is after a page of the cache was journaled.
LEMMA JournalWithCorrect ==
  ASSUME Single, Shape, JournalSound, JournalKnown, Seen, eState[me] \in WriteStates,
         NEW p \in Pages, cache[me][p] \in Content, p = 1 => cache[me][p] \in Headers,
         NEW j, j = JournalWith(me, p), NEW n, n = Len(jrnl.recs)
  PROVE  /\ j \in Journal /\ Sound(j) /\ j.exists
         /\ j.nonce = Nonce(me) /\ Nonce(me) \in Nat /\ j.size = dbOrigSize[me]
         /\ n \in Nat /\ journalOff[me] = n /\ journalHdr[me] \in 0..n
         /\ Len(j.recs) = OffWith(me, p)
         /\ \A i \in 1..n : j.recs[i] = jrnl.recs[i] /\ jrnl.recs[i].pgno \in inJournal[me]
         /\ IF MustJournal(me, p)
            THEN Len(j.recs) = n + 1 /\ j.recs[n + 1].pgno = p /\ j.recs[n + 1].data = cache[me][p]
            ELSE Len(j.recs) = n
         /\ Opening(me) => jrnl = NoJournal /\ n = 0
<1> DEFINE o == OpenedJournal(me)
<1>1. /\ o \in Journal /\ Sound(o) /\ o.exists /\ o.recs = jrnl.recs
      /\ o.nonce = Nonce(me) /\ o.nonce \in Nat /\ o.size = dbOrigSize[me]
      /\ journalOff[me] = n /\ journalHdr[me] \in 0..n
      /\ \A i \in 1..n : jrnl.recs[i].pgno \in inJournal[me]
      /\ Opening(me) => jrnl = NoJournal /\ n = 0
  BY OpenedCorrect
<1> HIDE DEF o
<1>2. /\ o.size \in 0..MaxPages /\ n \in Nat /\ o.recs \in Seq(Record)
      /\ \A i \in 1..n : o.recs[i] \in Record
  BY <1>1, RecordsOfJournal
<1>3. CASE ~ MustJournal(me, p)
  <2>1. j = o /\ OffWith(me, p) = n
    BY <1>1, <1>3 DEF JournalWith, OffWith, o
  <2> QED BY <1>1, <1>2, <1>3, <2>1
<1>4. CASE MustJournal(me, p)
  <2> DEFINE r == [nonce |-> Nonce(me), pgno |-> p, data |-> cache[me][p]]
  <2>1. p <= o.size /\ p \notin inJournal[me] /\ OffWith(me, p) = n + 1
    BY <1>1, <1>4 DEF MustJournal, OffWith
  <2>2. r \in Record /\ r.nonce = o.nonce /\ r.pgno = p /\ r.data = cache[me][p]
    BY <1>1 DEF Record
  <2>3. j = WithRecord(o, n, r)
    BY <1>1, <1>4 DEF JournalWith, o
  <2>4. n = Len(o.recs)
    BY <1>1
  <2> HIDE DEF r
  <2> DEFINE q == Append(o.recs, r)
  <2>5. /\ q \in Seq(Record) /\ Len(q) = n + 1 /\ q[n + 1] = r
        /\ \A i \in 1..n : q[i] = o.recs[i]
    BY <1>1, <1>2, <2>2, AppendProperties
  <2> HIDE DEF q
  <2>6. j = [exists |-> o.exists, doomed |-> FALSE, nonce |-> o.nonce, size |-> o.size,
             recs |-> q, valid |-> n + 1]
    BY <1>1, <2>3, <2>4, WithRecordCorrect DEF q
  <2>7. j \in Journal
    BY <1>1, <1>2, <2>5, <2>6 DEF Journal
  <2>8. \A i \in 1..(n + 1) : i \in 1..n \/ i = n + 1
    BY <1>2
  <2>9. ASSUME NEW i \in 1..(n + 1)
        PROVE  /\ q[i].nonce = o.nonce /\ q[i].pgno <= o.size
               /\ q[i].pgno = 1 => q[i].data \in Headers
               /\ \A k \in 1..(n + 1) : q[i].pgno = q[k].pgno => i = k
    <3>1. \A k \in 1..n : /\ q[k].nonce = o.nonce /\ q[k].pgno <= o.size
                          /\ q[k].pgno = 1 => q[k].data \in Headers
                          /\ q[k].pgno \in inJournal[me]
                          /\ \A l \in 1..n : q[k].pgno = q[l].pgno => k = l
      <4>1. \A k \in 1..n : q[k] = o.recs[k] /\ o.recs[k].pgno \in inJournal[me]
        BY <1>1, <2>5
      <4>2. \A k \in 1..n : /\ o.recs[k].nonce = o.nonce /\ o.recs[k].pgno <= o.size
                            /\ o.recs[k].pgno = 1 => o.recs[k].data \in Headers
                            /\ \A l \in 1..n : o.recs[k].pgno = o.recs[l].pgno => k = l
        BY <1>1, <2>4 DEF Sound
      <4> QED BY <4>1, <4>2
    <3>2. /\ q[n + 1].nonce = o.nonce /\ q[n + 1].pgno = p /\ p <= o.size
          /\ p = 1 => q[n + 1].data \in Headers
      BY <2>1, <2>2, <2>5
    <3>3. CASE i \in 1..n
      BY <2>1, <2>8, <3>1, <3>2, <3>3
    <3>4. CASE i = n + 1
      BY <2>1, <2>8, <3>1, <3>2, <3>4
    <3> QED BY <2>8, <3>3, <3>4
  <2>10. Sound(j)
    BY SMTT(30), <2>5, <2>6, <2>9 DEF Sound
  <2> QED BY <1>1, <1>2, <1>4, <2>1, <2>2, <2>5, <2>6, <2>7, <2>10
<1> QED BY <1>3, <1>4

----------------------------------------------------------------------------
(* What a journal that has the committed pages brings back. *)

Faithful(j) ==
  /\ j.size = CommittedSize
  /\ \A i \in 1..Len(j.recs) : j.recs[i].data = image[j.recs[i].pgno]

LEMMA RestoredUpTo ==
  ASSUME NEW j \in Journal, Sound(j), NEW n \in 0..Len(j.recs)
  PROVE  {i \in Restored(j) : i <= n} = 1..n
<1>1. Restored(j) = 1..Len(j.recs) /\ Len(j.recs) \in Nat
  BY RestoredIsAll
<1> QED BY <1>1

\* The file after a playback is a beginning of the committed database, and empty only
\* if that is.
LEMMA PlaybackRestores ==
  ASSUME NEW f, File(f), NEW j \in Journal, Sound(j), Faithful(j), NEW n \in 0..Len(j.recs),
         \A p \in 1..j.size : f.buf[p] = image[p] \/ \E i \in 1..n : j.recs[i].pgno = p,
         f.len < j.size => n >= 1,
         NEW g, g = PlayedBack(f, j, 1..n)
  PROVE  /\ File(g) /\ g.len <= CommittedSize
         /\ \A p \in 1..g.len : g.buf[p] = image[p]
         /\ g.len = 0 => CommittedSize = 0
<1>1. /\ File(g) /\ g.len = IF n = 0 THEN j.size ELSE j.recs[n].pgno
      /\ \A i \in 1..n : g.buf[j.recs[i].pgno] = j.recs[i].data
      /\ \A p \in Pages : (\A i \in 1..n : j.recs[i].pgno # p) =>
           g.buf[p] = f.buf[p] \/ (p = j.size /\ f.len < j.size)
  BY SMTT(30), PlayedBackCorrect
<1>2. /\ j.size \in 0..MaxPages /\ MaxPages \in Nat /\ Len(j.recs) \in Nat /\ n \in Nat
      /\ \A i \in 1..Len(j.recs) : j.recs[i].pgno \in Pages /\ j.recs[i].pgno \in Nat \ {0}
      /\ n # 0 => n \in 1..Len(j.recs)
  BY RecordsOfJournal, PagesFacts DEF Pages
<1>3. n # 0 => j.recs[n].pgno <= j.size /\ j.recs[n].pgno \in Nat \ {0}
  BY <1>2 DEF Sound
<1>4. g.len \in Nat /\ g.len <= j.size /\ (g.len = 0 => j.size = 0)
  BY <1>1, <1>2, <1>3
<1>5. ASSUME NEW p \in 1..g.len PROVE g.buf[p] = image[p]
  <2>1. p \in Pages /\ p \in 1..j.size
    BY <1>2, <1>4 DEF Pages
  <2>2. CASE \E i \in 1..n : j.recs[i].pgno = p
    <3>1. PICK i \in 1..n : j.recs[i].pgno = p
      BY <2>2
    <3>2. i \in 1..Len(j.recs)
      BY <1>2
    <3> QED BY <1>1, <3>1, <3>2 DEF Faithful
  <2>3. CASE \A i \in 1..n : j.recs[i].pgno # p
    <3>1. ~ (p = j.size /\ f.len < j.size)
      <4> SUFFICES ASSUME p = j.size, f.len < j.size PROVE FALSE
        OBVIOUS
      <4>1. n >= 1 /\ n \in 1..n
        BY <1>2
      <4>2. g.len = j.recs[n].pgno /\ j.recs[n].pgno # p
        BY <1>1, <1>2, <2>3, <4>1
      <4> QED BY <1>4, <2>1, <4>2
    <3> QED BY <1>1, <2>1, <2>3, <3>1
  <2> QED BY <2>2, <2>3
<1> QED BY <1>1, <1>4, <1>5 DEF Faithful

LEMMA RestoredCacheCorrect ==
  ASSUME Single, Shape, NEW j \in Journal, Sound(j), NEW r, r = RestoredCache(me, j)
  PROVE  /\ r \in [Pages -> Content \union {None}] /\ r[1] \in Headers \union {None}
         /\ \A v \in Headers : VersAfter(me, j, v) \in Headers
         /\ \A p \in Pages : r[p] =
              IF p > j.size THEN IF p = 1 THEN ZeroHeader ELSE None
              ELSE IF cache[me][p] # None /\ p \in PagesOf(j, 1..Len(j.recs))
              THEN Latest(j, 1..Len(j.recs), p) ELSE cache[me][p]
<1> DEFINE n == Len(j.recs)
           S == 1..n
<1>1. Restored(j) = S /\ n \in 0..Len(j.recs)
  BY RestoredIsAll
<1>2. \A p \in Pages : r[p] =
        IF p > j.size THEN IF p = 1 THEN ZeroHeader ELSE None
        ELSE IF cache[me][p] # None /\ p \in PagesOf(j, S) THEN Latest(j, S, p) ELSE cache[me][p]
  BY <1>1 DEF RestoredCache
<1>3. ASSUME NEW p \in Pages, p \in PagesOf(j, S)
      PROVE  Latest(j, S, p) \in Content /\ (p = 1 => Latest(j, S, p) \in Headers)
  <2>1. PICK i \in S : j.recs[i].pgno = p /\ Latest(j, S, p) = j.recs[i].data
    BY <1>1, <1>3, LatestCorrect
  <2> QED BY <2>1, RecordsOfJournal DEF Sound
<1>4. cache[me] \in [Pages -> Content \union {None}] /\ cache[me][1] \in Headers \union {None}
  BY OnlyMe DEF Shape
<1> HIDE DEF n, S
<1>5. ASSUME NEW p \in Pages
      PROVE  r[p] \in Content \union {None} /\ (p = 1 => r[p] \in Headers \union {None})
  BY <1>2, <1>3, <1>4, PagesFacts
<1>6. r \in [Pages -> Content \union {None}]
  <2>1. r = [p \in Pages |-> r[p]]
    BY DEF RestoredCache
  <2> QED BY <1>5, <2>1
<1>7. \A v \in Headers : VersAfter(me, j, v) \in Headers
  BY <1>1, <1>3, PagesFacts DEF VersAfter
<1> QED BY <1>2, <1>5, <1>6, <1>7, PagesFacts DEF n, S

\* What a rollback leaves in the cache is as it was committed.
LEMMA CacheRestored ==
  ASSUME Single, Shape, NEW j \in Journal, Sound(j), Faithful(j),
         \A p \in 1..j.size : \/ cache[me][p] \in {None, image[p]}
                              \/ \E i \in 1..Len(j.recs) : j.recs[i].pgno = p,
         NEW r, r = RestoredCache(me, j)
  PROVE  /\ \A p \in 1..j.size : r[p] # None => r[p] = image[p]
         /\ \A p \in 2..MaxPages : r[p] # None => p <= CommittedSize
<1>1. \A p \in Pages : r[p] =
        IF p > j.size THEN IF p = 1 THEN ZeroHeader ELSE None
        ELSE IF cache[me][p] # None /\ p \in PagesOf(j, 1..Len(j.recs))
        THEN Latest(j, 1..Len(j.recs), p) ELSE cache[me][p]
  BY RestoredCacheCorrect
<1>2. j.size \in 0..MaxPages /\ MaxPages \in Nat /\ j.size = CommittedSize /\ Len(j.recs) \in Nat
  BY RecordsOfJournal, PagesFacts DEF Faithful
<1>3. ASSUME NEW p \in 1..j.size, r[p] # None PROVE r[p] = image[p]
  <2>1. p \in Pages /\ ~ (p > j.size)
    BY <1>2 DEF Pages
  <2>2. CASE cache[me][p] # None /\ p \in PagesOf(j, 1..Len(j.recs))
    <3>1. r[p] = Latest(j, 1..Len(j.recs), p)
      BY <1>1, <2>1, <2>2
    <3>2. PICK i \in 1..Len(j.recs) :
            j.recs[i].pgno = p /\ Latest(j, 1..Len(j.recs), p) = j.recs[i].data
      BY <1>2, <2>2, LatestCorrect
    <3> QED BY <3>1, <3>2 DEF Faithful
  <2>3. CASE cache[me][p] = None
    BY <1>1, <1>3, <2>1, <2>3
  <2>4. CASE cache[me][p] # None /\ p \notin PagesOf(j, 1..Len(j.recs))
    <3>1. ~ \E i \in 1..Len(j.recs) : j.recs[i].pgno = p
      BY <2>4 DEF PagesOf
    <3> QED BY <1>1, <2>1, <2>4, <3>1
  <2> QED BY <2>2, <2>3, <2>4
<1>4. ASSUME NEW p \in 2..MaxPages, r[p] # None PROVE p <= CommittedSize
  BY <1>1, <1>2, <1>4 DEF Pages
<1> QED BY <1>3, <1>4

----------------------------------------------------------------------------
(* Read transactions. *)

LEMMA HeaderOfFile ==
  ASSUME NEW f, File(f)
  PROVE  /\ FileHeader(f) \in Headers
         /\ f.len > 0 => FileHeader(f) = f.buf[1]
         /\ f.len \in 0..MaxPages /\ f.len \in Nat
BY PagesFacts DEF File, FileHeader

LEMMA CommittedSizeIsNat ==
  ASSUME Shape
  PROVE  CommittedSize \in 0..MaxPages /\ CommittedSize \in Nat
BY PagesFacts DEF Shape, CommittedSize

\* The file a reader goes on with, what is cached of it, and the journal it leaves.
LEMMA RecoveredCorrect ==
  ASSUME Single, IInv, eState[me] = "OPEN"
  PROVE  /\ File(Recovered)
         /\ HotJournal \/ StaleJournal \/ jrnl = NoJournal
         /\ \A p \in Pages : CacheFor(me)[p] \in {None, cache[me][p]}
         /\ CacheFor(me) \in [Pages -> Content \union {None}]
         /\ ~ shortRead =>
              /\ Recovered.len <= CommittedSize
              /\ \A p \in 1..Recovered.len :
                   /\ Recovered.buf[p] = image[p]
                   /\ CacheFor(me)[p] \in {None, Recovered.buf[p]}
              /\ \A p \in 2..MaxPages : CacheFor(me)[p] # None => p <= CommittedSize
              /\ Recovered.len = 0 => CommittedSize = 0
<1>1. /\ File(db) /\ jrnl \in Journal /\ Sound(jrnl) /\ ~ HasJournal(me)
      /\ cache[me] \in [Pages -> Content \union {None}] /\ MaxPages \in Nat
  BY OnlyMe, PagesFacts DEF IInv, Shape, JournalSound, HasJournal
<1>2. Restored(jrnl) = 1..Len(jrnl.recs) /\ Len(jrnl.recs) \in 0..Len(jrnl.recs)
  BY <1>1, RestoredIsAll
<1>3. /\ \A p \in Pages : CacheFor(me)[p] \in {None, cache[me][p]}
      /\ CacheFor(me) \in [Pages -> Content \union {None}]
  BY <1>1 DEF CacheFor, NoCache
<1>4. CASE HotJournal
  <2>1. Recovered = PlayedBack(db, jrnl, 1..Len(jrnl.recs))
    BY <1>2, <1>4 DEF Recovered
  <2>2. File(Recovered)
    BY <1>1, <1>2, <2>1, PlayedBackCorrect
  <2>3. \A p \in Pages : CacheFor(me)[p] = None
    <3>1. cache[me] = NoCache
      BY <1>1, <1>4 DEF HotJournal, IInv, Seen
    <3> QED BY <1>3, <3>1 DEF NoCache
  <2>4. ASSUME ~ shortRead
        PROVE  /\ Recovered.len <= CommittedSize
               /\ \A p \in 1..Recovered.len : Recovered.buf[p] = image[p]
               /\ Recovered.len = 0 => CommittedSize = 0
    <3>1. /\ Faithful(jrnl)
          /\ \A p \in 1..jrnl.size : Covered(p, Len(jrnl.recs))
          /\ db.len < jrnl.size => Len(jrnl.recs) >= 1
      BY <1>4, <2>4 DEF IInv, Protected, Faithful, HotJournal
    <3>2. \A p \in 1..jrnl.size :
            db.buf[p] = image[p] \/ \E i \in 1..Len(jrnl.recs) : jrnl.recs[i].pgno = p
      BY <3>1 DEF Covered
    <3> QED BY <1>1, <1>2, <2>1, <3>1, <3>2, PlaybackRestores
  <2>5. \A p \in 1..Recovered.len : p \in Pages
    BY <2>2, <1>1, HeaderOfFile DEF Pages
  <2>6. \A p \in 2..MaxPages : p \in Pages
    BY <1>1 DEF Pages
  <2> QED BY <1>3, <1>4, <2>2, <2>3, <2>4, <2>5, <2>6
<1>5. CASE ~ HotJournal
  <2>1. Recovered = db
    BY <1>5 DEF Recovered
  <2>2. StaleJournal \/ jrnl = NoJournal
    BY <1>1, <1>5, HeaderOfFile DEF HotJournal, StaleJournal, ReservedLock, IInv, JournalSound
  <2>3. ASSUME ~ shortRead
        PROVE  /\ db.len <= CommittedSize
               /\ \A p \in 1..db.len :
                    db.buf[p] = image[p] /\ CacheFor(me)[p] \in {None, db.buf[p]}
               /\ \A p \in 2..MaxPages : CacheFor(me)[p] # None => p <= CommittedSize
               /\ db.len = 0 => CommittedSize = 0
    <3>1. db.len = 0 => CommittedSize = 0
      BY <2>3 DEF IInv, NotEmptied
    <3>2. CASE jrnl.exists
      <4>1. db.len = 0 /\ cache[me] = NoCache
        BY <1>1, <1>5, <3>2, HeaderOfFile DEF HotJournal, ReservedLock, IInv, Seen
      <4>2. \A p \in 2..MaxPages : p \in Pages /\ CacheFor(me)[p] = None
        BY <1>1, <1>3, <4>1 DEF NoCache, Pages
      <4> QED BY <3>1, <4>1, <4>2
    <3>3. CASE ~ jrnl.exists
      <4>1. /\ db.len <= CommittedSize
            /\ \A p \in 1..db.len : db.buf[p] = image[p]
            /\ \A p \in 1..db.len : cache[me][p] # None => cache[me][p] = db.buf[p]
            /\ \A p \in 2..MaxPages : cache[me][p] # None => p <= CommittedSize
        BY <1>1, <2>3, <3>3 DEF IInv, Kept
      <4>2. (\A p \in 1..db.len : p \in Pages) /\ \A p \in 2..MaxPages : p \in Pages
        BY <1>1, HeaderOfFile DEF Pages
      <4> QED BY <1>3, <3>1, <4>1, <4>2
    <3> QED BY <3>2, <3>3
  <2> QED BY <1>1, <1>3, <2>1, <2>2, <2>3
<1> QED BY <1>4, <1>5

\* What cLock, the search for a hot journal and the look at page 1 have done, before the
\* file is accepted or refused.
LEMMA SharedLockStep ==
  ASSUME Single, IInv, SharedLock(me)
  PROVE  /\ db' = Recovered /\ File(db') /\ jrnl' = NoJournal
         /\ cache' \in [Conns -> [Pages -> Content \union {None}]]
         /\ cache'[me][1] = PageOne(me) /\ PageOne(me) \in Headers
         /\ dbFileVers' \in [Conns -> Headers]
         /\ ~ shortRead =>
              /\ db'.len <= CommittedSize
              /\ \A p \in 1..db'.len : db'.buf[p] = image[p]
              /\ \A p \in 1..db'.len : cache'[me][p] # None => cache'[me][p] = db'.buf[p]
              /\ db'.len > 0 => cache'[me][1] = db'.buf[1]
              /\ \A p \in 2..MaxPages : cache'[me][p] # None => p <= CommittedSize
              /\ db'.len = 0 => CommittedSize = 0
<1> DEFINE r == Recovered
           k == CacheFor(me)
           h == PageOne(me)
<1>1. me \in Conns /\ eState[me] = "OPEN" /\ Shape /\ MaxPages \in Nat
  BY OnlyMe, PagesFacts DEF SharedLock, IInv
<1>2. /\ File(r) /\ (HotJournal \/ StaleJournal \/ jrnl = NoJournal)
      /\ \A p \in Pages : k[p] \in {None, cache[me][p]}
      /\ k \in [Pages -> Content \union {None}]
      /\ ~ shortRead =>
           /\ r.len <= CommittedSize
           /\ \A p \in 1..r.len : r.buf[p] = image[p] /\ k[p] \in {None, r.buf[p]}
           /\ \A p \in 2..MaxPages : k[p] # None => p <= CommittedSize
           /\ r.len = 0 => CommittedSize = 0
  BY <1>1, RecoveredCorrect
<1>3. db' = r
  BY DEF SharedLock
<1>4. jrnl' = NoJournal
  BY <1>2, NobodyElse DEF SharedLock
<1>5. FileHeader(r) \in Headers /\ r.len \in Nat /\ (r.len > 0 => FileHeader(r) = r.buf[1])
  BY <1>2, HeaderOfFile
<1>6. h \in Headers /\ h = IF k[1] = None THEN FileHeader(r) ELSE k[1]
  BY <1>1, <1>2, <1>5, PagesFacts DEF PageOne, Shape
<1>7. /\ cache' = [cache EXCEPT ![me] = [k EXCEPT ![1] = h]]
      /\ dbFileVers' = [dbFileVers EXCEPT ![me] =
           IF k[1] = None /\ r.len > 0 THEN FileHeader(r) ELSE dbFileVers[me]]
  BY DEF SharedLock
<1> HIDE DEF r, k, h
<1>8. /\ cache'[me] = [k EXCEPT ![1] = h]
      /\ cache' \in [Conns -> [Pages -> Content \union {None}]]
      /\ dbFileVers' \in [Conns -> Headers]
  BY <1>1, <1>2, <1>5, <1>6, <1>7, PagesFacts DEF Shape
<1>9. cache'[me][1] = h /\ \A p \in Pages : p # 1 => cache'[me][p] = k[p]
  BY <1>2, <1>8, PagesFacts
<1>10. ASSUME ~ shortRead, NEW p \in 1..r.len, cache'[me][p] # None
       PROVE  cache'[me][p] = r.buf[p]
  <2>1. p \in Pages /\ r.len > 0 /\ 1 \in 1..r.len /\ k[p] \in {None, r.buf[p]}
    BY <1>1, <1>2, <1>5, <1>10 DEF Pages, File
  <2>2. CASE p = 1
    BY <1>2, <1>5, <1>6, <1>9, <1>10, <2>1, <2>2
  <2>3. CASE p # 1
    BY <1>9, <1>10, <2>1, <2>3
  <2> QED BY <2>2, <2>3
<1>11. ASSUME ~ shortRead, r.len > 0 PROVE h = r.buf[1]
  <2>1. 1 \in 1..r.len
    BY <1>5, <1>11
  <2> QED BY <1>2, <1>5, <1>6, <1>11, <2>1
<1>12. ASSUME ~ shortRead, NEW p \in 2..MaxPages, cache'[me][p] # None
       PROVE  p <= CommittedSize
  <2>1. p \in Pages /\ p # 1
    BY <1>1 DEF Pages
  <2> QED BY <1>2, <1>9, <1>12, <2>1
<1> QED BY <1>2, <1>3, <1>4, <1>6, <1>8, <1>9, <1>10, <1>11, <1>12 DEF r, k, h

LEMMA BeginReadStep ==
  ASSUME Single, IInv, BeginRead(me)
  PROVE  IInv'
<1> DEFINE h == PageOne(me)
<1>1. /\ SharedLock(me) /\ Accepted(h, Recovered) /\ eState[me] = "OPEN" /\ me \in Conns
      /\ eState' = [eState EXCEPT ![me] = "READER"]
      /\ dbSize' = [dbSize EXCEPT ![me] = Recovered.len]
  BY OnlyMe DEF BeginRead, SharedLock
<1>2. UNCHANGED <<dirty, needSync, dbOrigSize, inJournal, journalOff, journalHdr, cksumInit,
                  image, shortRead>>
  BY <1>1 DEF SharedLock, history
<1>3. /\ db' = Recovered /\ File(db') /\ jrnl' = NoJournal
      /\ cache' \in [Conns -> [Pages -> Content \union {None}]]
      /\ cache'[me][1] = h /\ h \in Headers
      /\ dbFileVers' \in [Conns -> Headers]
      /\ ~ shortRead =>
           /\ db'.len <= CommittedSize
           /\ \A p \in 1..db'.len : db'.buf[p] = image[p]
           /\ \A p \in 1..db'.len : cache'[me][p] # None => cache'[me][p] = db'.buf[p]
           /\ db'.len > 0 => cache'[me][1] = db'.buf[1]
           /\ \A p \in 2..MaxPages : cache'[me][p] # None => p <= CommittedSize
           /\ db'.len = 0 => CommittedSize = 0
  BY <1>1, SharedLockStep
<1> HIDE DEF h
<1>4. /\ Shape /\ JournalKnown /\ ~ HasJournal(me) /\ CommittedSize \in Nat
      /\ CommittedSize' = CommittedSize
  BY <1>1, <1>2, CommittedSizeIsNat DEF IInv, HasJournal, CommittedSize
<1>5. /\ db'.len \in 0..MaxPages /\ db'.len \in Nat /\ h.size \in Nat
      /\ h.size <= db'.len /\ (db'.len > 0 => h.size >= 1)
  <2>1. db'.len \in 0..MaxPages /\ db'.len \in Nat /\ h.size \in Nat
    BY <1>3, HeaderOfFile, PagesFacts
  <2> QED BY <1>1, <1>3, <2>1 DEF Accepted
<1>6. eState'[me] = "READER" /\ dbSize'[me] = db'.len /\ NPages(me)' = h.size
  BY <1>1, <1>3, <1>4 DEF Shape, NPages
<1>7. Shape'
  BY <1>1, <1>2, <1>3, <1>4, <1>5, NoJournalCorrect DEF Shape
<1>8. JournalSound'
  BY <1>3, NoJournalCorrect DEF JournalSound
<1>9. ~ HasJournal(me)'
  BY <1>6 DEF HasJournal
<1>10. JournalKnown'
  BY <1>1, <1>2, <1>4, <1>6, <1>9 DEF JournalKnown
<1>11. Seen'
  BY <1>2, <1>3, <1>4, <1>5, <1>6, <1>9, NoJournalCorrect DEF Seen, JournalKnown
<1>12. Kept'
  <2> SUFFICES ASSUME ~ shortRead PROVE Kept'
    BY <1>2 DEF Kept
  <2>1. db'.len > 0 => cache'[me][1] = db'.buf[1] /\ h = image[1]
    <3>1. db'.len > 0 => 1 \in 1..db'.len
      BY <1>5
    <3> QED BY <1>3, <3>1
  <2>2. h.size = db'.len /\ db'.len = CommittedSize
    <3>1. CASE db'.len > 0
      <4>1. h.size = CommittedSize /\ db'.len <= CommittedSize
        BY <1>3, <2>1, <3>1 DEF CommittedSize
      <4> QED BY <1>4, <1>5, <4>1
    <3>2. CASE db'.len = 0
      BY <1>3, <1>4, <1>5, <3>2
    <3> QED BY <1>5, <3>1, <3>2
  <2> QED BY <1>2, <1>3, <1>4, <1>6, <2>1, <2>2 DEF Kept
<1>13. InWriting' /\ Protected' /\ NotEmptied'
  BY <1>2, <1>3, <1>4, <1>9, NoJournalCorrect DEF InWriting, Protected, NotEmptied
<1> QED BY <1>7, <1>8, <1>10, <1>11, <1>12, <1>13 DEF IInv

LEMMA BeginReadRefusedStep ==
  ASSUME Single, IInv, BeginReadRefused(me)
  PROVE  IInv'
<1>1. /\ SharedLock(me) /\ eState[me] = "OPEN" /\ me \in Conns
      /\ UNCHANGED <<eState, dbSize, dirty, needSync, dbOrigSize, inJournal, journalOff,
                     journalHdr, cksumInit, image, shortRead>>
  BY OnlyMe DEF BeginReadRefused, SharedLock, history
<1>2. /\ File(db') /\ jrnl' = NoJournal
      /\ cache' \in [Conns -> [Pages -> Content \union {None}]]
      /\ cache'[me][1] \in Headers
      /\ dbFileVers' \in [Conns -> Headers]
      /\ ~ shortRead =>
           /\ db'.len <= CommittedSize
           /\ \A p \in 1..db'.len : db'.buf[p] = image[p]
           /\ \A p \in 1..db'.len : cache'[me][p] # None => cache'[me][p] = db'.buf[p]
           /\ \A p \in 2..MaxPages : cache'[me][p] # None => p <= CommittedSize
           /\ db'.len = 0 => CommittedSize = 0
  BY <1>1, SharedLockStep
<1>3. /\ Shape /\ JournalKnown /\ ~ HasJournal(me) /\ ~ HasJournal(me)'
      /\ eState'[me] = "OPEN" /\ CommittedSize' = CommittedSize
  BY <1>1 DEF IInv, HasJournal, CommittedSize
<1>4. Shape'
  BY <1>1, <1>2, <1>3, NoJournalCorrect DEF Shape
<1>5. JournalSound' /\ JournalKnown'
  BY <1>1, <1>2, <1>3, NoJournalCorrect DEF JournalSound, JournalKnown
<1>6. Seen'
  BY <1>1, <1>2, <1>3, NoJournalCorrect DEF Seen, JournalKnown
<1>7. Kept'
  BY <1>1, <1>2, <1>3 DEF Kept
<1>8. InWriting' /\ Protected' /\ NotEmptied'
  BY <1>1, <1>2, <1>3, NoJournalCorrect DEF InWriting, Protected, NotEmptied
<1> QED BY <1>4, <1>5, <1>6, <1>7, <1>8 DEF IInv

\* The end of a transaction, whatever it was: nothing is held.
LEMMA UnlockedStep ==
  ASSUME Single, Shape, Unlocked(me)
  PROVE  /\ eState'[me] = "OPEN" /\ ~ HasJournal(me)' /\ dirty'[me] = {}
         /\ eState' \in [Conns -> {"OPEN", "READER", "LOCKED", "CACHEMOD", "DBMOD", "ERROR"}]
         /\ dirty' \in [Conns -> SUBSET Pages] /\ needSync' \in [Conns -> SUBSET Pages]
         /\ inJournal' \in [Conns -> SUBSET Pages]
         /\ dbSize' \in [Conns -> 0..MaxPages] /\ dbOrigSize' \in [Conns -> 0..MaxPages]
         /\ journalOff' \in [Conns -> Nat] /\ journalHdr' \in [Conns -> Nat]
         /\ cksumInit' \in [Conns -> Nat]
         /\ JournalKnown'
<1>1. me \in Conns /\ 0 \in 0..MaxPages
  BY OnlyMe, PagesFacts
<1>2. eState'[me] = "OPEN" /\ ~ HasJournal(me)'
  BY <1>1 DEF Unlocked, Shape, HasJournal
<1>3. /\ eState' \in [Conns -> {"OPEN", "READER", "LOCKED", "CACHEMOD", "DBMOD", "ERROR"}]
      /\ dirty' \in [Conns -> SUBSET Pages] /\ needSync' \in [Conns -> SUBSET Pages]
      /\ inJournal' \in [Conns -> SUBSET Pages]
      /\ dbSize' \in [Conns -> 0..MaxPages] /\ dbOrigSize' \in [Conns -> 0..MaxPages]
      /\ journalOff' \in [Conns -> Nat] /\ journalHdr' \in [Conns -> Nat]
      /\ cksumInit' \in [Conns -> Nat]
  BY <1>1 DEF Unlocked, Shape
<1>4. /\ dirty'[me] = {} /\ needSync'[me] = {} /\ inJournal'[me] = {} /\ dbOrigSize'[me] = 0
      /\ journalOff'[me] = 0 /\ journalHdr'[me] = 0
  BY <1>1 DEF Unlocked, Shape
<1> QED BY <1>2, <1>3, <1>4 DEF JournalKnown

\* ... and when the journal is gone too, what has to hold is that the file is a beginning
\* of what is committed, and the cache has pages of that.
LEMMA SettledStep ==
  ASSUME Single, Shape, Unlocked(me), UNCHANGED shortRead,
         File(db'), jrnl' = NoJournal,
         cache' \in [Conns -> [Pages -> Content \union {None}]],
         cache'[me][1] \in Headers \union {None},
         dbFileVers' \in [Conns -> Headers],
         image' \in [Pages -> Content], image'[1] \in Headers,
         ~ shortRead =>
           /\ db'.len <= CommittedSize'
           /\ \A p \in 1..db'.len : db'.buf[p] = image'[p]
           /\ \A p \in 1..db'.len : cache'[me][p] # None => cache'[me][p] = image'[p]
           /\ \A p \in 2..MaxPages : cache'[me][p] # None => p <= CommittedSize'
           /\ db'.len = 0 => CommittedSize' = 0
  PROVE  IInv'
<1>1. Shape'
  BY UnlockedStep, NoJournalCorrect DEF Shape
<1>2. JournalSound' /\ JournalKnown'
  BY UnlockedStep, NoJournalCorrect DEF JournalSound
<1>3. Seen'
  BY UnlockedStep, NoJournalCorrect DEF Seen
<1>4. Kept'
  BY UnlockedStep DEF Kept
<1>5. InWriting' /\ Protected' /\ NotEmptied'
  BY UnlockedStep, NoJournalCorrect DEF InWriting, Protected, NotEmptied
<1> QED BY <1>1, <1>2, <1>3, <1>4, <1>5 DEF IInv

LEMMA EndReadStep ==
  ASSUME Single, IInv, EndRead(me)
  PROVE  IInv'
<1>1. /\ eState[me] \in {"READER", "LOCKED"} /\ Unlocked(me)
      /\ UNCHANGED <<db, jrnl, cache, dbFileVers, image, shortRead>>
  BY DEF EndRead, fileVars, history
<1>2. Shape /\ JournalSound /\ Seen /\ Kept /\ NotEmptied /\ ~ HasJournal(me)
  BY <1>1 DEF IInv, HasJournal
<1>3. jrnl' = NoJournal /\ ~ jrnl.exists
  BY <1>1, <1>2 DEF Seen, JournalSound
<1>4. CommittedSize' = CommittedSize
  BY <1>1 DEF CommittedSize
<1>5. ~ shortRead =>
        /\ db'.len <= CommittedSize'
        /\ \A p \in 1..db'.len : db'.buf[p] = image'[p]
        /\ \A p \in 1..db'.len : cache'[me][p] # None => cache'[me][p] = image'[p]
        /\ \A p \in 2..MaxPages : cache'[me][p] # None => p <= CommittedSize'
        /\ db'.len = 0 => CommittedSize' = 0
  BY <1>1, <1>2, <1>3, <1>4 DEF Kept, NotEmptied
<1>6. /\ File(db') /\ cache' \in [Conns -> [Pages -> Content \union {None}]]
      /\ cache'[me][1] \in Headers \union {None} /\ dbFileVers' \in [Conns -> Headers]
      /\ image' \in [Pages -> Content] /\ image'[1] \in Headers
  BY <1>1, <1>2 DEF Shape
<1> QED BY <1>1, <1>2, <1>3, <1>5, <1>6, SettledStep

\* Where no page is read behind the end of the file.
LEMMA PageCount ==
  ASSUME Single, IInv, eState[me] # "OPEN"
  PROVE  NPages(me) \in 0..MaxPages /\ cache[me][1] \in Headers
BY PagesFacts DEF IInv, Seen, NPages

LEMMA GetStep ==
  ASSUME Single, IInv, NEW p \in Pages, Get(me, p)
  PROVE  IInv'
<1> DEFINE x == IF p <= db.len THEN db.buf[p] ELSE ZeroPage(p)
<1>1. /\ InTransaction(me) /\ p \in 2..NPages(me) /\ cache[me][p] = None
      /\ cache' = [cache EXCEPT ![me][p] = x]
      /\ shortRead' = (shortRead \/ p > db.len)
      /\ UNCHANGED <<db, jrnl, eState, dirty, needSync, dbFileVers, dbSize, dbOrigSize, inJournal,
                     journalOff, journalHdr, cksumInit, image>>
  BY DEF Get, Missing, fileVars, txnVars
<1>2. /\ Shape /\ JournalSound /\ JournalKnown /\ Seen /\ me \in Conns
      /\ eState[me] # "OPEN" /\ NPages(me) \in 0..MaxPages
      /\ CommittedSize' = CommittedSize /\ HasJournal(me)' = HasJournal(me)
  BY <1>1, OnlyMe, PageCount DEF IInv, InTransaction, CommittedSize, HasJournal
<1>3. x \in Content
  BY <1>2, PagesFacts DEF Shape, File
<1> HIDE DEF x
<1>4. /\ cache' \in [Conns -> [Pages -> Content \union {None}]]
      /\ cache'[me][p] = x /\ \A q \in Pages : q # p => cache'[me][q] = cache[me][q]
  BY <1>1, <1>2, <1>3 DEF Shape
<1>5. p # 1 /\ cache'[me][1] = cache[me][1] /\ NPages(me)' = NPages(me)
  BY <1>1, <1>2, <1>4, PagesFacts DEF NPages
<1>6. Shape'
  BY <1>1, <1>2, <1>4, <1>5 DEF Shape
<1>7. JournalSound' /\ JournalKnown'
  BY <1>1, <1>2 DEF JournalSound, JournalKnown
<1>8. Seen'
  <2>1. \A q \in dirty[me] : cache'[me][q] \in Content
    BY <1>2, <1>3, <1>4 DEF Seen, Shape
  <2> QED BY <1>1, <1>2, <1>5, <2>1 DEF Seen
<1>9. ASSUME ~ shortRead' PROVE ~ shortRead /\ x = db.buf[p] /\ p \in 1..db.len
  <2>1. ~ (shortRead \/ p > db.len)
    BY <1>1, <1>9
  <2>2. ~ (p > db.len)
    BY <2>1
  <2>3. db.len \in Nat /\ p \in Nat \ {0}
    BY <1>2, PagesFacts, HeaderOfFile DEF Shape, Pages
  <2>4. p <= db.len /\ p \in 1..db.len
    BY <2>2, <2>3
  <2> QED BY <2>1, <2>4 DEF x
<1>10. (\A q \in 2..MaxPages : q \in Pages) /\ \A q \in 1..db.len : q \in Pages
  BY <1>2, PagesFacts, HeaderOfFile DEF Shape, Pages
<1>11. Kept'
  <2> SUFFICES ASSUME ~ shortRead', ~ HasJournal(me), ~ jrnl.exists PROVE Kept'
    BY <1>1, <1>2 DEF Kept
  <2>1. /\ db.len <= CommittedSize
        /\ \A q \in 1..db.len : db.buf[q] = image[q]
        /\ \A q \in 1..db.len : cache[me][q] # None => cache[me][q] = db.buf[q]
        /\ \A q \in 2..MaxPages : cache[me][q] # None => q <= CommittedSize
        /\ NPages(me) = db.len /\ db.len = CommittedSize
        /\ db.len > 0 => cache[me][1] = db.buf[1]
    BY <1>2, <1>9 DEF IInv, Kept
  <2>2. p <= CommittedSize
    BY <1>1, <2>1
  <2>3. \A q \in 1..db.len : cache'[me][q] # None => cache'[me][q] = db.buf[q]
    BY <1>4, <1>9, <1>10, <2>1
  <2>4. \A q \in 2..MaxPages : cache'[me][q] # None => q <= CommittedSize
    BY <1>4, <1>10, <2>1, <2>2
  <2> QED BY <1>1, <1>2, <1>5, <2>1, <2>3, <2>4 DEF Kept
<1>12. InWriting'
  <2> SUFFICES ASSUME ~ shortRead', HasJournal(me)
               PROVE  Traced' /\ (eState[me] = "CACHEMOD" => Untouched')
    BY <1>1, <1>2 DEF InWriting
  <2>1. Traced /\ (eState[me] = "CACHEMOD" => Untouched)
    BY <1>9 DEF IInv, InWriting
  <2>2. eState[me] = "CACHEMOD" => Untouched'
    BY <1>1, <2>1 DEF Untouched
  <2>3. \A q \in 1..dbOrigSize[me] : Covered(q, journalHdr[me]) /\ Covered(q, journalHdr[me])'
    BY <1>1, <2>1 DEF Traced, Covered
  <2>4. ASSUME NEW q \in 1..dbOrigSize[me], q \notin inJournal[me]
        PROVE  /\ q \notin dirty[me]
               /\ cache'[me][q] # None \/ q = 1 => cache'[me][q] = image[q]
    <3>1. q \in Pages
      BY <1>2, PagesFacts DEF Shape, Pages
    <3>2. q \notin dirty[me] /\ (cache[me][q] # None \/ q = 1 => cache[me][q] = image[q])
      BY <2>1, <2>4 DEF Traced
    <3>3. CASE q # p
      BY <1>4, <3>1, <3>2, <3>3
    <3>4. CASE q = p
      <4>1. ~ \E i \in 1..journalHdr[me] : jrnl.recs[i].pgno = p
        <5>1. \A i \in 1..journalHdr[me] : i \in 1..Len(jrnl.recs)
          BY <1>2, RecordsOfJournal DEF Shape, JournalKnown
        <5> QED BY <1>2, <2>4, <3>4, <5>1 DEF JournalKnown
      <4>2. db.buf[p] = image[p]
        BY <2>3, <2>4, <3>4, <4>1 DEF Covered
      <4> QED BY <1>4, <1>9, <3>2, <3>4, <4>2
    <3> QED BY <3>3, <3>4
  <2>5. \A q \in Pages : cache'[me][q] # None /\ q \notin dirty[me] => cache'[me][q] = db.buf[q]
    BY <1>4, <1>9, <2>1 DEF Traced
  <2>6. \A q \in 2..MaxPages : cache'[me][q] # None \/ q \in dirty[me] => q <= dbSize[me]
    <3>1. p <= dbSize[me]
      BY <1>1, <2>1 DEF Traced
    <3> QED BY <1>4, <1>10, <2>1, <3>1 DEF Traced
  <2>7. Traced'
    BY <1>1, <1>2, <1>5, <2>1, <2>3, <2>4, <2>5, <2>6 DEF Traced
  <2> QED BY <2>2, <2>7
<1>13. Protected' /\ NotEmptied'
  BY <1>1, <1>2, <1>9 DEF IInv, Protected, NotEmptied, Covered
<1> QED BY <1>6, <1>7, <1>8, <1>11, <1>12, <1>13 DEF IInv

\* A step that leaves alone all but the status.
LEMMA UnchangedStep ==
  ASSUME IInv,
         UNCHANGED <<db, jrnl, eState, cache, dirty, needSync, dbFileVers, dbSize, dbOrigSize,
                     inJournal, journalOff, journalHdr, cksumInit, image, shortRead>>
  PROVE  IInv'
<1>1. NPages(me)' = NPages(me) /\ HasJournal(me)' = HasJournal(me) /\ CommittedSize' = CommittedSize
  BY DEF NPages, HasJournal, CommittedSize
<1>2. Shape' /\ JournalSound' /\ JournalKnown'
  BY <1>1 DEF IInv, Shape, JournalSound, JournalKnown
<1>3. Seen' /\ Kept' /\ NotEmptied'
  BY <1>1 DEF IInv, Seen, Kept, NotEmptied
<1>4. Traced => Traced'
  <2>1. \A p : Covered(p, journalHdr[me])' <=> Covered(p, journalHdr[me])
    BY DEF Covered
  <2> QED BY <1>1, <2>1 DEF Traced
<1>5. InWriting'
  BY <1>1, <1>4 DEF IInv, InWriting, Untouched
<1>6. Protected'
  <2>1. \A p : Covered(p, Len(jrnl.recs))' <=> Covered(p, Len(jrnl.recs))
    BY DEF Covered
  <2> QED BY <1>1, <2>1 DEF IInv, Protected
<1> QED BY <1>2, <1>3, <1>5, <1>6 DEF IInv

LEMMA GetBehindStep ==
  ASSUME Single, IInv, NEW p \in Pages, GetBehind(me, p)
  PROVE  IInv'
<1>1. UNCHANGED <<db, jrnl, eState, cache, dirty, needSync, dbFileVers, dbSize, dbOrigSize,
                  inJournal, journalOff, journalHdr, cksumInit, image, shortRead>>
  BY DEF GetBehind, fileVars, cacheVars, txnVars, history
<1> QED BY <1>1, UnchangedStep

LEMMA EvictStep ==
  ASSUME Single, IInv, NEW p \in Pages, Evict(me, p)
  PROVE  IInv'
<1>1. /\ eState[me] # "ERROR" /\ p \notin dirty[me] /\ (p = 1 => eState[me] = "OPEN")
      /\ cache' = [cache EXCEPT ![me][p] = None]
      /\ UNCHANGED <<db, jrnl, eState, dirty, needSync, dbFileVers, dbSize, dbOrigSize, inJournal,
                     journalOff, journalHdr, cksumInit, image, shortRead>>
  BY DEF Evict, fileVars, txnVars, history
<1>2. /\ Shape /\ JournalSound /\ JournalKnown /\ Seen /\ me \in Conns
      /\ CommittedSize' = CommittedSize /\ HasJournal(me)' = HasJournal(me)
  BY <1>1, OnlyMe DEF IInv, CommittedSize, HasJournal
<1>3. /\ cache' \in [Conns -> [Pages -> Content \union {None}]]
      /\ cache'[me][p] = None /\ \A q \in Pages : q # p => cache'[me][q] = cache[me][q]
  BY <1>1, <1>2 DEF Shape
<1>4. /\ eState[me] # "OPEN" => p # 1 /\ cache'[me][1] = cache[me][1] /\ NPages(me)' = NPages(me)
      /\ cache'[me][1] \in Headers \union {None}
  BY <1>1, <1>2, <1>3, PagesFacts DEF NPages, Shape
<1>5. Shape'
  BY <1>1, <1>2, <1>3, <1>4 DEF Shape
<1>6. JournalSound' /\ JournalKnown'
  BY <1>1, <1>2 DEF JournalSound, JournalKnown
<1>7. Seen'
  <2>1. \A q \in dirty[me] : cache'[me][q] \in Content
    BY <1>1, <1>2, <1>3 DEF Seen, Shape
  <2>2. cache[me] = NoCache => cache'[me] = NoCache
    BY <1>1, <1>2 DEF Shape, NoCache
  <2>3. HasJournal(me) => eState[me] # "OPEN"
    BY DEF HasJournal
  <2> QED BY <1>1, <1>2, <1>4, <2>1, <2>2, <2>3 DEF Seen
<1>8. (\A q \in 2..MaxPages : q \in Pages) /\ \A q \in 1..db.len : q \in Pages
  BY <1>2, PagesFacts, HeaderOfFile DEF Shape, Pages
<1>9. Kept'
  BY <1>1, <1>2, <1>3, <1>4, <1>8 DEF IInv, Kept
<1>10. InWriting'
  <2> SUFFICES ASSUME ~ shortRead, HasJournal(me)
               PROVE  Traced' /\ (eState[me] = "CACHEMOD" => Untouched')
    BY <1>1, <1>2 DEF InWriting
  <2>1. Traced /\ (eState[me] = "CACHEMOD" => Untouched) /\ eState[me] # "OPEN"
    BY DEF IInv, InWriting, HasJournal
  <2>2. eState[me] = "CACHEMOD" => Untouched'
    BY <1>1, <2>1 DEF Untouched
  <2>3. \A q \in 1..dbOrigSize[me] : Covered(q, journalHdr[me])'
    BY <1>1, <2>1 DEF Traced, Covered
  <2>4. \A q \in 1..dbOrigSize[me] : q \notin inJournal[me] =>
          q \notin dirty[me] /\ (cache'[me][q] # None \/ q = 1 => cache'[me][q] = image[q])
    <3>1. \A q \in 1..dbOrigSize[me] : q \in Pages
      BY <1>2, PagesFacts DEF Shape, Pages
    <3> QED BY <1>3, <1>4, <2>1, <3>1 DEF Traced
  <2>5. \A q \in Pages : cache'[me][q] # None /\ q \notin dirty[me] => cache'[me][q] = db.buf[q]
    BY <1>3, <2>1 DEF Traced
  <2>6. \A q \in 2..MaxPages : cache'[me][q] # None \/ q \in dirty[me] => q <= dbSize[me]
    BY <1>3, <1>8, <2>1 DEF Traced
  <2>7. Traced'
    BY <1>1, <1>2, <1>4, <2>1, <2>3, <2>4, <2>5, <2>6 DEF Traced
  <2> QED BY <2>2, <2>7
<1>11. Protected' /\ NotEmptied'
  BY <1>1, <1>2 DEF IInv, Protected, NotEmptied, Covered
<1> QED BY <1>5, <1>6, <1>7, <1>9, <1>10, <1>11 DEF IInv

LEMMA ReopenStep ==
  ASSUME Single, IInv, Reopen(me)
  PROVE  IInv'
<1>1. /\ eState[me] = "OPEN" /\ me \in Conns
      /\ cache' = [cache EXCEPT ![me] = NoCache]
      /\ dbFileVers' = [dbFileVers EXCEPT ![me] = ZeroHeader]
      /\ UNCHANGED <<db, jrnl, eState, dirty, needSync, dbSize, dbOrigSize, inJournal,
                     journalOff, journalHdr, cksumInit, image, shortRead>>
  BY OnlyMe DEF Reopen, fileVars, txnVars, history
<1>2. /\ Shape /\ JournalSound /\ JournalKnown /\ Seen /\ Kept /\ Protected /\ NotEmptied
      /\ CommittedSize' = CommittedSize /\ ~ HasJournal(me) /\ ~ HasJournal(me)'
  BY <1>1 DEF IInv, CommittedSize, HasJournal
<1>3. NoCache \in [Pages -> Content \union {None}] /\ \A q \in Pages : NoCache[q] = None
  BY DEF NoCache
<1>4. cache' \in [Conns -> [Pages -> Content \union {None}]] /\ cache'[me] = NoCache
  BY <1>1, <1>2, <1>3 DEF Shape
<1>5. dbFileVers' \in [Conns -> Headers]
  BY <1>1, <1>2, PagesFacts DEF Shape
<1>6. Shape'
  BY <1>1, <1>2, <1>3, <1>4, <1>5, PagesFacts DEF Shape
<1>7. JournalSound' /\ JournalKnown'
  BY <1>1, <1>2 DEF JournalSound, JournalKnown
<1>8. Seen'
  BY <1>1, <1>2, <1>4 DEF Seen, JournalKnown
<1>9. (\A q \in 2..MaxPages : q \in Pages) /\ \A q \in 1..db.len : q \in Pages
  BY <1>2, PagesFacts, HeaderOfFile DEF Shape, Pages
<1>10. Kept'
  BY <1>1, <1>2, <1>3, <1>4, <1>9 DEF Kept
<1>11. InWriting' /\ Protected' /\ NotEmptied'
  BY <1>1, <1>2 DEF InWriting, Protected, NotEmptied, Covered
<1> QED BY <1>6, <1>7, <1>8, <1>10, <1>11 DEF IInv

----------------------------------------------------------------------------
(* Write transactions. *)

\* A transaction that has written nothing yet has done to the file and the cache what
\* one that writes may have done.
LEMMA WritingIsTraced ==
  ASSUME Single, IInv, eState[me] \in WriteStates, ~ shortRead
  PROVE  /\ Traced /\ (eState[me] # "DBMOD" => Untouched)
         /\ \A i \in 1..Len(jrnl.recs) : jrnl.recs[i].data = image[jrnl.recs[i].pgno]
<1>1. CASE eState[me] = "LOCKED"
  <2>1. /\ ~ HasJournal(me) /\ ~ jrnl.exists /\ jrnl = NoJournal
        /\ dbSize[me] = db.len /\ dbOrigSize[me] = db.len /\ db.len > 0
        /\ dirty[me] = {} /\ inJournal[me] = {} /\ journalHdr[me] = 0
    BY <1>1 DEF IInv, Seen, JournalSound, JournalKnown, HasJournal
  <2>2. /\ \A p \in 1..db.len : db.buf[p] = image[p]
        /\ \A p \in 1..db.len : cache[me][p] # None => cache[me][p] = db.buf[p]
        /\ \A p \in 2..MaxPages : cache[me][p] # None => p <= CommittedSize
        /\ NPages(me) = db.len /\ db.len = CommittedSize /\ cache[me][1] = db.buf[1]
    BY <1>1, <2>1 DEF IInv, Kept
  <2>3. /\ db.len \in Nat /\ MaxPages \in Nat /\ \A p \in Pages : p = 1 \/ p \in 2..MaxPages
        /\ \A p \in Pages : p <= db.len => p \in 1..db.len
    BY PagesFacts, HeaderOfFile DEF IInv, Shape, Pages
  <2>4. Untouched
    BY <2>1, <2>2 DEF Untouched
  <2>5. \A p \in Pages : cache[me][p] # None => cache[me][p] = db.buf[p]
    BY <2>2, <2>3
  <2>6. Traced
    BY <2>1, <2>2, <2>3, <2>5 DEF Traced, Covered
  <2>7. Len(jrnl.recs) = 0 /\ 1..0 = {}
    BY <2>1, NoJournalCorrect
  <2> QED BY <2>4, <2>6, <2>7
<1>2. CASE eState[me] # "LOCKED"
  <2>1. HasJournal(me) /\ jrnl.exists /\ (eState[me] # "DBMOD" => eState[me] = "CACHEMOD")
    BY <1>2 DEF WriteStates, HasJournal, IInv, JournalKnown
  <2> QED BY <2>1 DEF IInv, InWriting, Protected
<1> QED BY <1>1, <1>2

LEMMA BeginWriteStep ==
  ASSUME Single, IInv, BeginWrite(me)
  PROVE  IInv'
<1>1. /\ eState[me] = "READER" /\ dbSize[me] > 0 /\ me \in Conns
      /\ eState' = [eState EXCEPT ![me] = "LOCKED"]
      /\ dbOrigSize' = [dbOrigSize EXCEPT ![me] = dbSize[me]]
      /\ UNCHANGED <<db, jrnl, cache, dirty, needSync, dbFileVers, dbSize, inJournal,
                     journalOff, journalHdr, cksumInit, image, shortRead>>
  BY OnlyMe DEF BeginWrite, fileVars, cacheVars, history
<1>2. /\ Shape /\ JournalSound /\ JournalKnown /\ Seen /\ Kept /\ Protected /\ NotEmptied
      /\ ~ HasJournal(me)
  BY <1>1 DEF IInv, HasJournal
<1>3. /\ eState'[me] = "LOCKED" /\ dbOrigSize'[me] = dbSize[me] /\ ~ HasJournal(me)'
      /\ CommittedSize' = CommittedSize /\ NPages(me)' = NPages(me)
  BY <1>1, <1>2 DEF Shape, HasJournal, CommittedSize, NPages
<1>4. Shape'
  BY <1>1, <1>2 DEF Shape
<1>5. JournalSound' /\ JournalKnown'
  BY <1>1, <1>2, <1>3 DEF JournalSound, JournalKnown
<1>6. Seen'
  BY <1>1, <1>2, <1>3 DEF Seen
<1>7. Kept'
  BY <1>1, <1>2, <1>3 DEF Kept
<1>8. InWriting' /\ Protected' /\ NotEmptied'
  BY <1>1, <1>2, <1>3 DEF InWriting, Protected, NotEmptied, Covered
<1> QED BY <1>4, <1>5, <1>6, <1>7, <1>8 DEF IInv

LEMMA BeginNewStep ==
  ASSUME Single, IInv, BeginNew(me)
  PROVE  IInv'
<1> DEFINE h == [cc |-> 0, size |-> 1]
<1>1. /\ eState[me] = "READER" /\ dbSize[me] = 0 /\ me \in Conns
      /\ eState' = [eState EXCEPT ![me] = "CACHEMOD"]
      /\ jrnl' = WithHeader(jrnl, FreshNonce, 0)
      /\ cksumInit' = [cksumInit EXCEPT ![me] = FreshNonce]
      /\ cache' = [cache EXCEPT ![me][1] = h]
      /\ dirty' = [dirty EXCEPT ![me] = {1}] /\ needSync' = [needSync EXCEPT ![me] = {1}]
      /\ dbSize' = [dbSize EXCEPT ![me] = 1]
      /\ UNCHANGED <<db, dbFileVers, dbOrigSize, inJournal, journalOff, journalHdr,
                     image, shortRead>>
  BY OnlyMe DEF BeginNew, history
<1>2. /\ Shape /\ JournalSound /\ JournalKnown /\ Seen /\ Kept /\ NotEmptied
      /\ ~ HasJournal(me) /\ jrnl = NoJournal /\ db.len = 0
      /\ dbOrigSize[me] = 0 /\ inJournal[me] = {} /\ journalOff[me] = 0 /\ journalHdr[me] = 0
  BY <1>1 DEF IInv, HasJournal, Seen, JournalSound, JournalKnown
<1>3. FreshNonce \in Nat
  BY <1>2, FreshNonceIsNat DEF Shape
<1>4. jrnl' = [exists |-> TRUE, doomed |-> FALSE, nonce |-> FreshNonce, size |-> 0,
               recs |-> <<>>, valid |-> 0]
  BY <1>1, <1>2 DEF WithHeader, NoJournal
<1>5. jrnl' \in Journal
  BY <1>3, <1>4, PagesFacts DEF Journal
<1>6. h \in Headers /\ h.size = 1 /\ 1 \in Pages /\ MaxPages \in Nat \ {0}
  BY PagesFacts, PagerAssumption DEF Headers
<1> HIDE DEF h
<1>7. /\ cache' \in [Conns -> [Pages -> Content \union {None}]]
      /\ cache'[me][1] = h /\ \A q \in Pages : q # 1 => cache'[me][q] = cache[me][q]
  BY <1>1, <1>2, <1>6, PagesFacts DEF Shape
<1>8. /\ eState'[me] = "CACHEMOD" /\ HasJournal(me)' /\ NPages(me)' = 1 /\ dbSize'[me] = 1
      /\ dirty'[me] = {1} /\ needSync'[me] = {1} /\ cksumInit'[me] = FreshNonce
      /\ CommittedSize' = CommittedSize
  BY <1>1, <1>2, <1>6, <1>7 DEF Shape, HasJournal, NPages, CommittedSize
<1>9. Len(jrnl'.recs) = 0 /\ 1..0 = {}
  BY <1>4
<1>10. Shape'
  BY <1>1, <1>2, <1>3, <1>5, <1>6, <1>7 DEF Shape
<1>11. JournalSound'
  BY <1>4, <1>9 DEF JournalSound, Sound
<1>12. JournalKnown'
  BY <1>1, <1>2, <1>4, <1>8, <1>9 DEF JournalKnown
<1>13. Seen'
  BY <1>1, <1>2, <1>6, <1>7, <1>8, PagesFacts DEF Seen
<1>14. Kept' /\ NotEmptied'
  BY <1>1, <1>2, <1>8 DEF Kept, NotEmptied
<1>15. ASSUME ~ shortRead PROVE Traced' /\ Untouched' /\ CommittedSize = 0
  <2>1. CommittedSize = 0 /\ \A p \in 2..MaxPages : cache[me][p] = None
    <3>1. CommittedSize = 0 /\ \A p \in 2..MaxPages : cache[me][p] # None => p <= CommittedSize
      BY <1>1, <1>2, <1>15, NoJournalCorrect DEF Kept
    <3> QED BY <1>6, <3>1
  <2>2. \A q \in Pages : q = 1 \/ (q \in 2..MaxPages /\ q # 1)
    BY <1>6 DEF Pages
  <2>3. \A q \in 2..MaxPages : q \in Pages /\ q # 1
    BY <1>6 DEF Pages
  <2>4. \A q \in 2..MaxPages : cache'[me][q] = None
    BY <1>7, <2>1, <2>3
  <2> QED BY <1>1, <1>2, <1>8, <1>9, <2>1, <2>2, <2>3, <2>4 DEF Traced, Untouched
<1>16. InWriting' /\ Protected'
  BY <1>1, <1>4, <1>8, <1>9, <1>15, <1>2 DEF InWriting, Protected
<1> QED BY <1>10, <1>11, <1>12, <1>13, <1>14, <1>16 DEF IInv

\* A step that journals the page p and then changes the pages of W in the cache.
LEMMA ChangeStep ==
  ASSUME Single, IInv, Writing(me), NEW p \in Pages, PagerWrite(me, p),
         cache[me][p] \in Content, cache[me][p] # None \/ p = 1,
         NEW W \in SUBSET Pages, p \in W, dirty' = [dirty EXCEPT ![me] = dirty[me] \union W],
         inJournal' \in [Conns -> SUBSET Pages], needSync' \in [Conns -> SUBSET Pages],
         InJournalWith(me, p) \subseteq inJournal'[me], SyncWith(me, p) \subseteq needSync'[me],
         cache' \in [Conns -> [Pages -> Content \union {None}]],
         \A q \in Pages : IF q \in W THEN cache'[me][q] \in Content
                          ELSE cache'[me][q] = cache[me][q],
         cache'[me][1] \in Headers, NPages(me)' >= 1,
         dbSize' \in [Conns -> 0..MaxPages],
         UNCHANGED <<db, dbOrigSize, dbFileVers, journalHdr, image, shortRead>>,
         ~ shortRead =>
           /\ inJournal'[me] = InJournalWith(me, p)
           /\ NPages(me)' = dbSize'[me] /\ dbSize[me] <= dbSize'[me]
           /\ \A q \in W : q <= dbSize'[me] /\ (q = p \/ q > dbOrigSize[me])
  PROVE  IInv'
<1> DEFINE j == JournalWith(me, p)
           n == Len(jrnl.recs)
<1>1. /\ Shape /\ JournalSound /\ JournalKnown /\ Seen /\ NotEmptied /\ me \in Conns
      /\ eState[me] \in WriteStates /\ MaxPages \in Nat /\ cache[me][1] \in Headers
  BY OnlyMe, PagesFacts DEF IInv, Writing, WriteStates, Seen
<1>2. /\ jrnl' = j /\ cksumInit' = [cksumInit EXCEPT ![me] = Nonce(me)]
      /\ journalOff' = [journalOff EXCEPT ![me] = OffWith(me, p)]
      /\ eState' = [eState EXCEPT ![me] = IF Opening(me) THEN "CACHEMOD" ELSE eState[me]]
  BY DEF PagerWrite
<1>3. p = 1 => cache[me][p] \in Headers
  BY <1>1
<1>4. /\ j \in Journal /\ Sound(j) /\ j.exists
      /\ j.nonce = Nonce(me) /\ Nonce(me) \in Nat /\ j.size = dbOrigSize[me]
      /\ n \in Nat /\ journalOff[me] = n /\ journalHdr[me] \in 0..n
      /\ Len(j.recs) = OffWith(me, p)
      /\ \A i \in 1..n : j.recs[i] = jrnl.recs[i] /\ jrnl.recs[i].pgno \in inJournal[me]
      /\ IF MustJournal(me, p)
         THEN Len(j.recs) = n + 1 /\ j.recs[n + 1].pgno = p /\ j.recs[n + 1].data = cache[me][p]
         ELSE Len(j.recs) = n
      /\ Opening(me) => jrnl = NoJournal /\ n = 0
  <2>1. j = JournalWith(me, p) /\ n = Len(jrnl.recs)
    OBVIOUS
  <2> HIDE DEF j, n
  <2> QED BY SMTT(30), <1>1, <1>3, <2>1, JournalWithCorrect
<1> HIDE DEF j, n
<1>5. /\ Len(j.recs) \in Nat /\ n <= Len(j.recs)
      /\ \A i \in 1..Len(j.recs) : i \in 1..n \/ (MustJournal(me, p) /\ i = n + 1)
      /\ \A i \in 1..n : i \in 1..Len(j.recs)
      /\ MustJournal(me, p) => n + 1 \in 1..Len(j.recs)
  BY <1>4
<1>6. /\ eState'[me] = IF Opening(me) THEN "CACHEMOD" ELSE eState[me]
      /\ HasJournal(me)' /\ cksumInit'[me] = Nonce(me) /\ journalOff'[me] = Len(j.recs)
      /\ dirty'[me] = dirty[me] \union W /\ CommittedSize' = CommittedSize
      /\ dbOrigSize[me] \in 0..MaxPages
  <2>1. eState'[me] = IF Opening(me) THEN "CACHEMOD" ELSE eState[me]
    BY <1>1, <1>2 DEF Shape
  <2>2. HasJournal(me)'
    BY <1>1, <2>1 DEF Opening, HasJournal, WriteStates
  <2>3. /\ cksumInit'[me] = Nonce(me) /\ journalOff'[me] = Len(j.recs)
        /\ dirty'[me] = dirty[me] \union W /\ dbOrigSize[me] \in 0..MaxPages
    BY <1>1, <1>2, <1>4 DEF Shape
  <2> QED BY <2>1, <2>2, <2>3 DEF CommittedSize
<1>7. Shape'
  <2>1. /\ eState' \in [Conns -> {"OPEN", "READER", "LOCKED", "CACHEMOD", "DBMOD", "ERROR"}]
        /\ journalOff' \in [Conns -> Nat] /\ cksumInit' \in [Conns -> Nat]
        /\ dirty' \in [Conns -> SUBSET Pages]
    BY <1>1, <1>2, <1>4, <1>5 DEF Shape
  <2> QED BY <1>1, <1>2, <1>4, <2>1 DEF Shape
<1>8. JournalSound'
  BY <1>2, <1>4 DEF JournalSound
<1>9. inJournal[me] \subseteq InJournalWith(me, p) /\ needSync[me] \subseteq SyncWith(me, p)
      /\ (p <= dbOrigSize[me] => p \in InJournalWith(me, p))
      /\ (MustJournal(me, p) => p \in SyncWith(me, p) /\ p <= dbOrigSize[me] /\ p \notin inJournal[me])
      /\ \A q \in InJournalWith(me, p) : q \in inJournal[me] \/ (MustJournal(me, p) /\ q = p)
  BY DEF InJournalWith, SyncWith, MustJournal
<1>10. JournalKnown'
  <2>1. \A i \in 1..Len(j.recs) : j.recs[i].pgno \in inJournal'[me]
    BY SMTT(30), <1>4, <1>5, <1>9
  <2>2. journalHdr[me] <= Len(j.recs)
    BY <1>4, <1>5
  <2> QED BY <1>2, <1>4, <1>6, <2>1, <2>2 DEF JournalKnown
<1>11. Seen'
  <2>1. \A q \in dirty'[me] : cache'[me][q] \in Content
    BY <1>1, <1>6 DEF Seen, Shape
  <2>2. eState'[me] = "CACHEMOD" => dbOrigSize[me] = db.len
    BY <1>1, <1>6 DEF Seen, Opening
  <2>3. eState'[me] \notin {"OPEN", "READER", "LOCKED"}
    BY <1>1, <1>6 DEF Opening, WriteStates
  <2> QED BY <2>1, <2>2, <2>3 DEF Seen
<1>12. Kept' /\ NotEmptied'
  BY <1>1, <1>6 DEF Kept, NotEmptied
<1>13. ASSUME ~ shortRead
       PROVE  /\ Traced /\ (eState'[me] = "CACHEMOD" => Untouched)
              /\ \A i \in 1..Len(j.recs) : j.recs[i].data = image[j.recs[i].pgno]
  <2>1. /\ Traced /\ (eState[me] # "DBMOD" => Untouched)
        /\ \A i \in 1..n : jrnl.recs[i].data = image[jrnl.recs[i].pgno]
    BY <1>1, <1>13, WritingIsTraced DEF n
  <2>2. eState'[me] = "CACHEMOD" => Untouched
    BY <1>6, <2>1 DEF Opening
  <2>3. MustJournal(me, p) => cache[me][p] = image[p]
    <3>1. MustJournal(me, p) => p \in 1..dbOrigSize[me] /\ p \notin inJournal[me]
      BY <1>1, <1>6, PagesFacts DEF MustJournal, Pages
    <3> QED BY <2>1, <3>1 DEF Traced
  <2> QED BY <1>4, <1>5, <2>1, <2>2, <2>3
<1>14. ASSUME ~ shortRead PROVE Traced'
  <2>1. Traced
    BY <1>13, <1>14
  <2>2. /\ inJournal'[me] = InJournalWith(me, p)
        /\ NPages(me)' = dbSize'[me] /\ dbSize[me] <= dbSize'[me]
        /\ \A q \in W : q <= dbSize'[me] /\ (q = p \/ q > dbOrigSize[me])
    BY <1>14
  <2>3. /\ dbSize[me] \in Nat /\ dbSize'[me] \in Nat /\ dbOrigSize[me] \in Nat /\ db.len \in Nat
        /\ journalHdr[me] \in Nat
        /\ \A q \in 1..dbOrigSize[me] : q \in Pages /\ q \in Nat
        /\ \A q \in 2..MaxPages : q \in Pages /\ q \in Nat
        /\ \A i \in 1..journalHdr[me] : i \in 1..n
    BY SMTT(30), <1>1, <1>4, <1>6, PagesFacts, HeaderOfFile DEF Shape, Pages
  <2>4. ASSUME NEW q \in 1..dbOrigSize[me]
        PROVE  db.buf[q] = image[q] \/ \E i \in 1..journalHdr[me] : j.recs[i].pgno = q
    <3>1. db.buf[q] = image[q] \/ \E i \in 1..journalHdr[me] : jrnl.recs[i].pgno = q
      BY <2>1 DEF Traced, Covered
    <3> QED BY <1>4, <2>3, <3>1
  <2>5. ASSUME NEW q \in inJournal'[me]
        PROVE  /\ q \in needSync'[me] \/ \E i \in 1..journalHdr[me] : j.recs[i].pgno = q
               /\ \E i \in 1..Len(j.recs) : j.recs[i].pgno = q
    <3>1. CASE q \in inJournal[me]
      <4>1. /\ q \in needSync[me] \/ \E i \in 1..journalHdr[me] : jrnl.recs[i].pgno = q
            /\ \E i \in 1..n : jrnl.recs[i].pgno = q
        BY <2>1, <3>1 DEF Traced, n
      <4> QED BY <1>4, <1>5, <1>9, <2>3, <4>1
    <3>2. CASE MustJournal(me, p) /\ q = p
      BY <1>4, <1>5, <1>9, <3>2
    <3> QED BY <1>9, <2>2, <2>5, <3>1, <3>2
  <2>6. ASSUME NEW q \in 1..dbOrigSize[me], q \notin inJournal'[me]
        PROVE  /\ q \notin dirty'[me]
               /\ cache'[me][q] # None \/ q = 1 => cache'[me][q] = image[q]
    <3>1. q \in Pages /\ q \notin inJournal[me] /\ q \notin W
      BY <1>9, <2>2, <2>3, <2>6
    <3> QED BY <1>6, <2>1, <3>1 DEF Traced
  <2>7. \A q \in Pages : cache'[me][q] # None /\ q \notin dirty'[me] => cache'[me][q] = db.buf[q]
    BY <1>6, <2>1 DEF Traced
  <2>8. \A q \in 2..MaxPages : cache'[me][q] # None \/ q \in dirty'[me] => q <= dbSize'[me]
    <3>1. \A q \in 2..MaxPages : cache[me][q] # None \/ q \in dirty[me] => q <= dbSize[me]
      BY <2>1 DEF Traced
    <3>2. ASSUME NEW q \in 2..MaxPages, cache'[me][q] # None \/ q \in dirty'[me]
          PROVE  q <= dbSize'[me]
      <4>1. CASE q \in W
        BY <2>2, <4>1
      <4>2. CASE q \notin W
        <5>1. q <= dbSize[me]
          BY <1>6, <2>3, <3>1, <3>2, <4>2
        <5> QED BY <2>2, <2>3, <5>1
      <4> QED BY <4>1, <4>2
    <3> QED BY <3>2
  <2>9. /\ dbOrigSize[me] = CommittedSize /\ dbSize'[me] >= 1 /\ dbOrigSize[me] <= dbSize'[me]
        /\ db.len <= dbSize'[me] /\ (db.len < dbOrigSize[me] => journalHdr[me] >= 1)
    BY <2>1, <2>2, <2>3 DEF Traced
  <2>10. \A q \in 1..dbOrigSize'[me] : Covered(q, journalHdr[me])'
    BY <1>2, <2>4 DEF Covered
  <2> QED BY <1>2, <1>6, <2>2, <2>5, <2>6, <2>7, <2>8, <2>9, <2>10 DEF Traced
<1>15. InWriting'
  BY <1>6, <1>13, <1>14 DEF InWriting, Untouched
<1>16. Protected'
  <2> SUFFICES ASSUME ~ shortRead PROVE Protected'
    BY DEF Protected
  <2>1. Traced' /\ dbOrigSize'[me] = j.size /\ \A i \in 1..journalHdr[me] : i \in 1..Len(j.recs)
    BY <1>4, <1>5, <1>14
  <2>2. \A q \in 1..jrnl'.size : Covered(q, Len(jrnl.recs))'
    <3>1. \A q \in 1..dbOrigSize'[me] : Covered(q, journalHdr[me])'
      BY <2>1 DEF Traced
    <3> QED BY <1>2, <2>1, <3>1 DEF Covered
  <2>3. db.len < j.size => Len(j.recs) >= 1
    <3>1. db.len < j.size => journalHdr[me] >= 1
      BY <2>1 DEF Traced
    <3> QED BY <1>4, <1>5, <3>1
  <2>4. j.size = CommittedSize'
    BY <2>1 DEF Traced
  <2> QED BY <1>2, <1>13, <2>2, <2>3, <2>4 DEF Protected
<1> QED BY <1>7, <1>8, <1>10, <1>11, <1>12, <1>15, <1>16 DEF IInv

LEMMA WriteStep ==
  ASSUME Single, IInv, NEW p \in Pages, NEW v \in Vals, Write(me, p, v)
  PROVE  IInv'
<1>1. /\ Writing(me) /\ p \in 2..NPages(me) /\ cache[me][p] # None /\ PagerWrite(me, p)
      /\ inJournal' = [inJournal EXCEPT ![me] = InJournalWith(me, p)]
      /\ needSync' = [needSync EXCEPT ![me] = SyncWith(me, p)]
      /\ dirty' = [dirty EXCEPT ![me] = dirty[me] \union {p}]
      /\ cache' = [cache EXCEPT ![me][p] = v]
      /\ UNCHANGED <<db, dbSize, dbOrigSize, dbFileVers, journalHdr, image, shortRead>>
  BY DEF Write, history
<1>2. /\ Shape /\ me \in Conns /\ eState[me] \in WriteStates /\ v \in Content
      /\ NPages(me) \in 0..MaxPages /\ cache[me][1] \in Headers /\ p # 1 /\ p \in Nat
  BY <1>1, OnlyMe, PageCount, PagesFacts DEF IInv, Writing, WriteStates, Content
<1>3. cache[me][p] \in Content
  BY <1>1, <1>2 DEF Shape
<1>4. /\ cache' \in [Conns -> [Pages -> Content \union {None}]]
      /\ cache'[me][p] = v /\ \A q \in Pages : q # p => cache'[me][q] = cache[me][q]
      /\ cache'[me][1] = cache[me][1] /\ NPages(me)' = NPages(me)
  BY <1>1, <1>2, PagesFacts DEF Shape, NPages
<1>5. NPages(me)' >= 1
  BY <1>1, <1>2, <1>4
<1>6. /\ inJournal' \in [Conns -> SUBSET Pages] /\ inJournal'[me] = InJournalWith(me, p)
      /\ needSync' \in [Conns -> SUBSET Pages] /\ needSync'[me] = SyncWith(me, p)
      /\ dbSize' \in [Conns -> 0..MaxPages]
  BY <1>1, <1>2 DEF Shape, InJournalWith, SyncWith
<1>7. ~ shortRead => NPages(me) = dbSize[me]
  BY <1>2, WritingIsTraced DEF Traced
<1>8. ~ shortRead =>
        /\ inJournal'[me] = InJournalWith(me, p)
        /\ NPages(me)' = dbSize'[me] /\ dbSize[me] <= dbSize'[me]
        /\ \A q \in {p} : q <= dbSize'[me] /\ (q = p \/ q > dbOrigSize[me])
  BY <1>1, <1>2, <1>4, <1>6, <1>7
<1>9. \A q \in Pages : IF q \in {p} THEN cache'[me][q] \in Content
                       ELSE cache'[me][q] = cache[me][q]
  BY <1>2, <1>4
<1> DEFINE W == {p}
<1>10. W \in SUBSET Pages /\ p \in W
  OBVIOUS
<1> HIDE DEF W
<1>11. /\ \A q \in Pages : IF q \in W THEN cache'[me][q] \in Content
                           ELSE cache'[me][q] = cache[me][q]
       /\ dirty' = [dirty EXCEPT ![me] = dirty[me] \union W]
       /\ ~ shortRead =>
            /\ inJournal'[me] = InJournalWith(me, p)
            /\ NPages(me)' = dbSize'[me] /\ dbSize[me] <= dbSize'[me]
            /\ \A q \in W : q <= dbSize'[me] /\ (q = p \/ q > dbOrigSize[me])
       /\ cache'[me][1] \in Headers
       /\ InJournalWith(me, p) \subseteq inJournal'[me] /\ SyncWith(me, p) \subseteq needSync'[me]
  BY <1>1, <1>2, <1>4, <1>6, <1>8, <1>9 DEF W
<1> QED BY <1>1, <1>3, <1>4, <1>5, <1>6, <1>10, <1>11, ChangeStep

LEMMA GrowStep ==
  ASSUME Single, IInv, NEW v \in Vals, Grow(me, v)
  PROVE  IInv'
<1> DEFINE n == NPages(me) + 1
           W == {1, n}
<1>1. /\ Writing(me) /\ n <= MaxPages /\ PagerWrite(me, 1)
      /\ inJournal' = [inJournal EXCEPT ![me] =
           InJournalWith(me, 1) \union (IF n <= dbOrigSize[me] THEN {n} ELSE {})]
      /\ needSync' = [needSync EXCEPT ![me] =
           SyncWith(me, 1) \union (IF n > dbOrigSize[me] /\ eState[me] # "DBMOD" THEN {n} ELSE {})]
      /\ dirty' = [dirty EXCEPT ![me] = dirty[me] \union W]
      /\ cache' = [cache EXCEPT ![me][1].size = n, ![me][n] = v]
      /\ dbSize' = [dbSize EXCEPT ![me] = IF dbSize[me] < n THEN n ELSE dbSize[me]]
      /\ UNCHANGED <<db, dbOrigSize, dbFileVers, journalHdr, image, shortRead>>
  BY DEF Grow, history
<1>2. /\ Shape /\ me \in Conns /\ eState[me] \in WriteStates /\ v \in Content /\ 1 \in Pages
      /\ NPages(me) \in 0..MaxPages /\ cache[me][1] \in Headers /\ NPages(me) >= 1
  <2>1. eState[me] \in WriteStates /\ v \in Content /\ me \in Conns /\ Shape
    BY <1>1, OnlyMe DEF IInv, Writing, WriteStates, Content
  <2>2. NPages(me) >= 1
    BY <2>1 DEF IInv, Seen, HasJournal, WriteStates
  <2> QED BY <2>1, <2>2, PageCount, PagesFacts DEF WriteStates
<1>3. n \in Pages /\ n # 1 /\ n \in 2..MaxPages /\ W \in SUBSET Pages /\ n \in Nat
  BY <1>1, <1>2, PagesFacts DEF Pages
<1>4. cache[me][1] = [cc |-> cache[me][1].cc, size |-> NPages(me)] /\ cache[me][1].cc \in 0..MaxCounter
  BY <1>2 DEF Headers, NPages
<1> DEFINE h == [cc |-> cache[me][1].cc, size |-> n]
<1>5. h \in Headers /\ h \in Content /\ h.size = n
  BY <1>3, <1>4, PagesFacts DEF Headers
<1> HIDE DEF n, W
<1>6. /\ cache' \in [Conns -> [Pages -> Content \union {None}]]
      /\ cache'[me] = [cache[me] EXCEPT ![1] = h, ![n] = v]
  <2>1. [cache[me][1] EXCEPT !.size = n] = h
    BY <1>4
  <2>2. cache' = [cache EXCEPT ![me] = [cache[me] EXCEPT ![1] = h, ![n] = v]]
    BY <1>1, <1>2, <1>3, <2>1 DEF Shape
  <2> HIDE DEF h
  <2>3. [cache[me] EXCEPT ![1] = h, ![n] = v] \in [Pages -> Content \union {None}]
    BY <1>2, <1>3, <1>5 DEF Shape
  <2> QED BY <1>2, <2>2, <2>3 DEF Shape
<1> HIDE DEF h
<1>7. /\ cache'[me][1] = h /\ cache'[me][n] = v
      /\ \A q \in Pages : q # 1 /\ q # n => cache'[me][q] = cache[me][q]
  BY <1>2, <1>3, <1>6 DEF Shape
<1>8. NPages(me)' = n /\ NPages(me)' >= 1
  BY <1>3, <1>5, <1>7 DEF NPages
<1>9. /\ inJournal' \in [Conns -> SUBSET Pages] /\ needSync' \in [Conns -> SUBSET Pages]
      /\ inJournal'[me] = InJournalWith(me, 1) \union (IF n <= dbOrigSize[me] THEN {n} ELSE {})
      /\ SyncWith(me, 1) \subseteq needSync'[me]
      /\ InJournalWith(me, 1) \subseteq inJournal'[me]
  BY <1>1, <1>2, <1>3 DEF Shape, InJournalWith, SyncWith
<1>10. /\ dbSize' \in [Conns -> 0..MaxPages]
       /\ dbSize'[me] = IF dbSize[me] < n THEN n ELSE dbSize[me]
  BY <1>1, <1>2, <1>3 DEF Shape, Pages
<1>11. ~ shortRead =>
         /\ inJournal'[me] = InJournalWith(me, 1)
         /\ NPages(me)' = dbSize'[me] /\ dbSize[me] <= dbSize'[me]
         /\ \A q \in W : q <= dbSize'[me] /\ (q = 1 \/ q > dbOrigSize[me])
  <2> SUFFICES ASSUME ~ shortRead
               PROVE  /\ inJournal'[me] = InJournalWith(me, 1)
                      /\ NPages(me)' = dbSize'[me] /\ dbSize[me] <= dbSize'[me]
                      /\ \A q \in W : q <= dbSize'[me] /\ (q = 1 \/ q > dbOrigSize[me])
    OBVIOUS
  <2>1. /\ n = dbSize[me] + 1 /\ dbOrigSize[me] <= dbSize[me]
        /\ dbSize[me] \in Nat /\ dbOrigSize[me] \in Nat
    BY <1>2, WritingIsTraced, PagesFacts DEF Traced, Shape, n
  <2>2. dbSize'[me] = n /\ ~ (n <= dbOrigSize[me]) /\ n > dbOrigSize[me] /\ 1 <= n
    BY <1>10, <2>1
  <2> QED BY <1>8, <1>9, <2>1, <2>2 DEF W
<1>12. \A q \in Pages : IF q \in W THEN cache'[me][q] \in Content
                        ELSE cache'[me][q] = cache[me][q]
  BY <1>2, <1>5, <1>7 DEF W
<1>13. cache[me][1] \in Content /\ 1 \in W /\ cache'[me][1] \in Headers
  BY <1>2, <1>5, <1>7, PagesFacts DEF W
<1>14. /\ Writing(me) /\ PagerWrite(me, 1)
       /\ dirty' = [dirty EXCEPT ![me] = dirty[me] \union W]
       /\ UNCHANGED <<db, dbOrigSize, dbFileVers, journalHdr, image, shortRead>>
  BY <1>1
<1> QED BY ZenonT(60), <1>2, <1>3, <1>6, <1>8, <1>9, <1>10, <1>11, <1>12, <1>13, <1>14, ChangeStep

\* Once the journal is synced as far as a page needs, the record of that page counts.
LEMMA SyncStep ==
  ASSUME Single, IInv, NEW p \in Pages, Spillable(me, p), SyncFor(me, p)
  PROVE  /\ HasJournal(me) /\ jrnl.exists /\ p \in dirty[me] /\ p # 1 /\ me \in Conns
         /\ journalHdr' \in [Conns -> Nat] /\ needSync' \in [Conns -> SUBSET Pages]
         /\ journalOff[me] = Len(jrnl.recs)
         /\ journalHdr[me] <= journalHdr'[me] /\ journalHdr'[me] <= journalOff[me]
         /\ ~ shortRead =>
              /\ p \in inJournal[me] => \E i \in 1..journalHdr'[me] : jrnl.recs[i].pgno = p
              /\ \A q \in inJournal[me] :
                   q \in needSync'[me] \/ \E i \in 1..journalHdr'[me] : jrnl.recs[i].pgno = q
<1>1. /\ HasJournal(me) /\ jrnl.exists /\ p \in dirty[me] /\ p # 1 /\ me \in Conns /\ Shape
      /\ journalOff[me] = Len(jrnl.recs) /\ journalHdr[me] <= journalOff[me]
      /\ journalOff[me] \in Nat /\ journalHdr[me] \in Nat
  BY OnlyMe DEF Spillable, HasJournal, IInv, JournalKnown, Shape
<1>2. /\ journalHdr' = [journalHdr EXCEPT ![me] =
           IF SyncFirst(me, p) THEN journalOff[me] ELSE journalHdr[me]]
      /\ needSync' = [needSync EXCEPT ![me] =
           IF SyncFirst(me, p) THEN {} ELSE needSync[me] \ {p}]
  BY DEF SyncFor
<1>3. /\ journalHdr' \in [Conns -> Nat] /\ needSync' \in [Conns -> SUBSET Pages]
      /\ journalHdr'[me] = IF SyncFirst(me, p) THEN journalOff[me] ELSE journalHdr[me]
      /\ needSync'[me] = IF SyncFirst(me, p) THEN {} ELSE needSync[me] \ {p}
  BY <1>1, <1>2 DEF Shape
<1>4. journalHdr[me] <= journalHdr'[me] /\ journalHdr'[me] <= journalOff[me]
  BY <1>1, <1>3
<1>5. ASSUME ~ shortRead, NEW q \in inJournal[me]
      PROVE  /\ q = p => \E i \in 1..journalHdr'[me] : jrnl.recs[i].pgno = q
             /\ q \in needSync'[me] \/ \E i \in 1..journalHdr'[me] : jrnl.recs[i].pgno = q
  <2>1. /\ q \in needSync[me] \/ \E i \in 1..journalHdr[me] : jrnl.recs[i].pgno = q
        /\ \E i \in 1..Len(jrnl.recs) : jrnl.recs[i].pgno = q
    BY <1>1, <1>5 DEF IInv, InWriting, Traced
  <2>2. CASE SyncFirst(me, p)
    BY <1>1, <1>3, <2>1, <2>2
  <2>3. CASE ~ SyncFirst(me, p)
    <3>1. p \notin needSync[me]
      BY <2>3 DEF SyncFirst
    <3> QED BY <1>3, <2>1, <2>3, <3>1
  <2> QED BY <2>2, <2>3
<1> QED BY <1>1, <1>3, <1>4, <1>5

LEMMA SpillFailsStep ==
  ASSUME Single, IInv, NEW p \in Pages, SpillFails(me, p)
  PROVE  IInv'
<1>1. /\ Spillable(me, p) /\ SyncFor(me, p)
      /\ eState' = [eState EXCEPT ![me] = "ERROR"]
      /\ UNCHANGED <<db, jrnl, cache, dirty, dbFileVers, image, shortRead,
                     dbSize, dbOrigSize, inJournal, journalOff, cksumInit>>
  BY DEF SpillFails, SyncFor, fileVars, history
<1>2. /\ HasJournal(me) /\ jrnl.exists /\ me \in Conns
      /\ journalHdr' \in [Conns -> Nat] /\ needSync' \in [Conns -> SUBSET Pages]
      /\ journalOff[me] = Len(jrnl.recs)
      /\ journalHdr[me] <= journalHdr'[me] /\ journalHdr'[me] <= journalOff[me]
      /\ ~ shortRead => \A q \in inJournal[me] :
           q \in needSync'[me] \/ \E i \in 1..journalHdr'[me] : jrnl.recs[i].pgno = q
  BY <1>1, SyncStep
<1>3. /\ Shape /\ JournalSound /\ JournalKnown /\ Seen /\ NotEmptied /\ Protected
      /\ eState'[me] = "ERROR" /\ HasJournal(me)' /\ CommittedSize' = CommittedSize
      /\ NPages(me)' = NPages(me) /\ eState[me] # "OPEN"
      /\ journalHdr[me] \in Nat /\ journalHdr'[me] \in Nat
  BY <1>1, <1>2 DEF IInv, Shape, HasJournal, CommittedSize, NPages
<1>4. Shape'
  BY <1>1, <1>2, <1>3 DEF Shape
<1>5. JournalSound' /\ JournalKnown'
  BY <1>1, <1>2, <1>3 DEF JournalSound, JournalKnown
<1>6. Seen'
  BY <1>1, <1>2, <1>3 DEF Seen
<1>7. Kept' /\ NotEmptied'
  BY <1>1, <1>3 DEF Kept, NotEmptied
<1>8. InWriting'
  <2> SUFFICES ASSUME ~ shortRead PROVE Traced'
    BY <1>1, <1>3 DEF InWriting
  <2>1. Traced
    BY <1>2 DEF IInv, InWriting
  <2>2. \A i \in 1..journalHdr[me] : i \in 1..journalHdr'[me]
    BY <1>2, <1>3
  <2>3. \A q \in 1..dbOrigSize'[me] : Covered(q, journalHdr[me])'
    BY <1>1, <2>1, <2>2 DEF Traced, Covered
  <2>4. \A q \in inJournal'[me] :
          /\ q \in needSync'[me] \/ \E i \in 1..journalHdr'[me] : jrnl'.recs[i].pgno = q
          /\ \E i \in 1..Len(jrnl'.recs) : jrnl'.recs[i].pgno = q
    BY <1>1, <1>2, <2>1 DEF Traced
  <2>5. db.len < dbOrigSize[me] => journalHdr'[me] >= 1
    BY <1>2, <1>3, <2>1 DEF Traced
  <2> QED BY <1>1, <1>3, <2>1, <2>3, <2>4, <2>5 DEF Traced
<1>9. Protected'
  BY <1>1, <1>3 DEF Protected, Covered
<1> QED BY <1>4, <1>5, <1>6, <1>7, <1>8, <1>9 DEF IInv

LEMMA SpillStep ==
  ASSUME Single, IInv, NEW p \in Pages, Spill(me, p)
  PROVE  IInv'
<1>1. /\ Spillable(me, p) /\ SyncFor(me, p)
      /\ dirty' = [dirty EXCEPT ![me] = dirty[me] \ {p}]
      /\ eState' = [eState EXCEPT ![me] = "DBMOD"]
      /\ UNCHANGED <<jrnl, cache, dbFileVers, image, shortRead,
                     dbSize, dbOrigSize, inJournal, journalOff, cksumInit>>
  BY DEF Spill, SyncFor, history
<1>2. /\ HasJournal(me) /\ jrnl.exists /\ p \in dirty[me] /\ p # 1 /\ me \in Conns
      /\ journalHdr' \in [Conns -> Nat] /\ needSync' \in [Conns -> SUBSET Pages]
      /\ journalOff[me] = Len(jrnl.recs)
      /\ journalHdr[me] <= journalHdr'[me] /\ journalHdr'[me] <= journalOff[me]
      /\ ~ shortRead =>
           /\ p \in inJournal[me] => \E i \in 1..journalHdr'[me] : jrnl.recs[i].pgno = p
           /\ \A q \in inJournal[me] :
                q \in needSync'[me] \/ \E i \in 1..journalHdr'[me] : jrnl.recs[i].pgno = q
  BY <1>1, SyncStep
<1>3. /\ Shape /\ JournalSound /\ JournalKnown /\ Seen /\ NotEmptied /\ Protected
      /\ eState'[me] = "DBMOD" /\ HasJournal(me)' /\ CommittedSize' = CommittedSize
      /\ NPages(me)' = NPages(me) /\ dirty'[me] = dirty[me] \ {p}
      /\ journalHdr[me] \in Nat /\ journalHdr'[me] \in Nat
      /\ cache[me][p] \in Content /\ eState[me] # "OPEN"
  BY <1>1, <1>2 DEF IInv, Shape, HasJournal, CommittedSize, NPages, Seen
<1>4. /\ File(db') /\ db'.len = p /\ db'.buf[p] = cache[me][p]
      /\ \A q \in Pages : q # p => db'.buf[q] = db.buf[q]
  <2> DEFINE W == {p}
  <2>1. W \in SUBSET Pages /\ W # {} /\ (\A q \in W : q = p) /\ p \in W /\ 1 \notin W
    BY <1>2
  <2>2. PICK n \in {p, dbSize[me]} :
          db' = [Written(db, W, cache[me]) EXCEPT !.cap = Grown(Written(db, W, cache[me]).cap, n)]
    BY DEF Spill
  <2> HIDE DEF W
  <2>3. PICK g : g = Written(db, W, cache[me])
    OBVIOUS
  <2>4. File(db) /\ \A q \in W : cache[me][q] \in Content
    BY <1>3, <2>1 DEF Shape
  <2>5. /\ File(g) /\ g.len \in W
        /\ \A q \in Pages : g.buf[q] = IF q \in W THEN cache[me][q] ELSE db.buf[q]
    BY <2>1, <2>3, <2>4, WrittenCorrect
  <2>6. p \in Nat /\ dbSize[me] \in Nat /\ g.cap \in Nat
    BY <1>2, <1>3, <2>5, PagesFacts DEF Shape, Pages, File
  <2>7. Grown(g.cap, n) \in Nat
    BY <2>6 DEF Grown
  <2>8. db' = [g EXCEPT !.cap = Grown(g.cap, n)]
    BY <2>2, <2>3
  <2>9. File(db') /\ db'.len = g.len /\ db'.buf = g.buf
    BY <2>5, <2>7, <2>8 DEF File
  <2> QED BY <2>1, <2>5, <2>9
<1>5. Shape'
  BY <1>1, <1>2, <1>3, <1>4 DEF Shape
<1>6. JournalSound' /\ JournalKnown'
  BY <1>1, <1>2, <1>3 DEF JournalSound, JournalKnown
<1>7. Seen'
  BY <1>1, <1>2, <1>3 DEF Seen
<1>8. p \in Nat /\ p >= 1 /\ p \in 2..MaxPages
  BY <1>2, PagesFacts DEF Pages
<1>9. Kept' /\ NotEmptied'
  BY <1>3, <1>4, <1>8 DEF Kept, NotEmptied
<1>10. ASSUME ~ shortRead
       PROVE  /\ Traced'
              /\ \A q \in 1..dbOrigSize[me] :
                   db'.buf[q] = image[q] \/ \E i \in 1..journalHdr'[me] : jrnl.recs[i].pgno = q
              /\ db'.len < dbOrigSize[me] => journalHdr'[me] >= 1
  <2>1. Traced
    BY <1>2, <1>10 DEF IInv, InWriting
  <2>2. \A i \in 1..journalHdr[me] : i \in 1..journalHdr'[me]
    BY <1>2, <1>3
  <2>3. \A q \in 1..dbOrigSize[me] : q \in Pages
    BY <1>2, <1>3, PagesFacts DEF Shape, Pages
  <2>4. p \in 1..dbOrigSize[me] => \E i \in 1..journalHdr'[me] : jrnl.recs[i].pgno = p
    BY <1>2, <1>10, <2>1 DEF Traced
  <2>5. ASSUME NEW q \in 1..dbOrigSize[me]
        PROVE  db'.buf[q] = image[q] \/ \E i \in 1..journalHdr'[me] : jrnl.recs[i].pgno = q
    <3>1. CASE q = p
      BY <2>4, <3>1
    <3>2. CASE q # p
      <4>1. db.buf[q] = image[q] \/ \E i \in 1..journalHdr[me] : jrnl.recs[i].pgno = q
        BY <2>1 DEF Traced, Covered
      <4> QED BY <1>4, <2>2, <2>3, <3>2, <4>1
    <3> QED BY <3>1, <3>2
  <2>6. \A q \in 1..dbOrigSize'[me] : Covered(q, journalHdr[me])'
    BY <1>1, <2>5 DEF Covered
  <2>7. \A q \in inJournal'[me] :
          /\ q \in needSync'[me] \/ \E i \in 1..journalHdr'[me] : jrnl'.recs[i].pgno = q
          /\ \E i \in 1..Len(jrnl'.recs) : jrnl'.recs[i].pgno = q
    BY <1>1, <1>2, <1>10, <2>1 DEF Traced
  <2>8. db'.len < dbOrigSize[me] => journalHdr'[me] >= 1
    <3>1. dbOrigSize[me] \in Nat
      BY <1>2, <1>3, PagesFacts DEF Shape
    <3> QED BY <1>3, <1>4, <1>8, <2>4, <3>1
  <2>9. \A q \in Pages : cache[me][q] # None /\ q \notin dirty'[me] => cache[me][q] = db'.buf[q]
    BY <1>3, <1>4, <2>1 DEF Traced
  <2>10. \A q \in 2..MaxPages : cache[me][q] # None \/ q \in dirty'[me] => q <= dbSize[me]
    BY <1>3, <2>1 DEF Traced
  <2>11. \A q \in 1..dbOrigSize[me] : q \notin inJournal[me] =>
           q \notin dirty'[me] /\ (cache[me][q] # None \/ q = 1 => cache[me][q] = image[q])
    BY <1>3, <2>1 DEF Traced
  <2>12. p <= dbSize[me]
    BY <1>2, <1>8, <2>1 DEF Traced
  <2>13. Traced'
    BY <1>1, <1>3, <1>4, <2>1, <2>6, <2>7, <2>8, <2>9, <2>10, <2>11, <2>12 DEF Traced
  <2> QED BY <2>5, <2>8, <2>13
<1>11. InWriting'
  BY <1>1, <1>3, <1>10 DEF InWriting
<1>12. Protected'
  <2> SUFFICES ASSUME ~ shortRead PROVE Protected'
    BY <1>1 DEF Protected
  <2>1. jrnl.size = dbOrigSize[me] /\ \A i \in 1..journalHdr'[me] : i \in 1..Len(jrnl.recs)
    BY <1>2, <1>3, RecordsOfJournal DEF JournalKnown, Shape
  <2>2. \A q \in 1..jrnl'.size : Covered(q, Len(jrnl.recs))'
    BY <1>1, <1>10, <2>1 DEF Covered
  <2>3. db'.len < jrnl'.size => Len(jrnl'.recs) >= 1
    <3>1. Len(jrnl.recs) \in Nat
      BY <1>3, RecordsOfJournal DEF Shape
    <3> QED BY <1>1, <1>2, <1>3, <1>10, <2>1, <3>1
  <2> QED BY <1>1, <1>2, <1>3, <2>2, <2>3 DEF Protected
<1> QED BY <1>5, <1>6, <1>7, <1>9, <1>11, <1>12 DEF IInv

----------------------------------------------------------------------------
(* The end of a write transaction. *)

\* What a commit writes.
LEMMA CommitWrites ==
  ASSUME Single, IInv, Changed(me), dbFileVers[me].cc < MaxCounter
  PROVE  /\ me \in Conns /\ Shape /\ eState[me] \in WriteStates /\ HasJournal(me)
         /\ NextHeader(me) \in Headers /\ NextHeader(me).size = NPages(me)
         /\ CommitCache(me) \in [Pages -> Content \union {None}]
         /\ CommitCache(me)[1] = NextHeader(me)
         /\ \A q \in Pages : q # 1 => CommitCache(me)[q] = cache[me][q]
         /\ CommitPages(me) \in SUBSET Pages /\ 1 \in CommitPages(me)
         /\ \A q \in CommitPages(me) : CommitCache(me)[q] \in Content /\ (q # 1 => q \in dirty[me])
         /\ dirty[me] \subseteq CommitPages(me)
<1>1. /\ me \in Conns /\ Shape /\ Seen /\ eState[me] \in WriteStates /\ HasJournal(me)
      /\ eState[me] # "OPEN"
  BY OnlyMe DEF IInv, Changed, WriteStates, HasJournal
<1>2. NPages(me) \in 0..MaxPages /\ cache[me] \in [Pages -> Content \union {None}]
      /\ dirty[me] \in SUBSET Pages /\ \A q \in dirty[me] : cache[me][q] \in Content
  BY <1>1, PageCount DEF Shape, Seen
<1>3. dbFileVers[me] \in Headers
  BY <1>1 DEF Shape
<1>4. NextHeader(me) \in Headers /\ NextHeader(me).size = NPages(me)
  <2>1. dbFileVers[me].cc \in 0..MaxCounter /\ MaxCounter \in Nat
    BY <1>3, PagerAssumption DEF Headers
  <2>2. dbFileVers[me].cc + 1 \in 0..MaxCounter
    BY <2>1
  <2> QED BY <1>2, <2>2 DEF NextHeader, Headers
<1>5. /\ CommitCache(me) \in [Pages -> Content \union {None}]
      /\ CommitCache(me)[1] = NextHeader(me)
      /\ \A q \in Pages : q # 1 => CommitCache(me)[q] = cache[me][q]
  BY <1>2, <1>4, PagesFacts DEF CommitCache
<1>6. /\ CommitPages(me) \in SUBSET Pages /\ 1 \in CommitPages(me)
      /\ dirty[me] \subseteq CommitPages(me)
      /\ \A q \in CommitPages(me) : q # 1 => q \in dirty[me]
  BY <1>2, PagesFacts DEF CommitPages
<1>7. \A q \in CommitPages(me) : CommitCache(me)[q] \in Content
  BY <1>2, <1>4, <1>5, <1>6, PagesFacts
<1> QED BY <1>1, <1>4, <1>5, <1>6, <1>7

LEMMA CommitStep ==
  ASSUME Single, IInv, Commit(me)
  PROVE  IInv'
<1> DEFINE d == CommitCache(me)
           W == CommitPages(me)
           m == CommitImage(me)
<1>1. /\ Changed(me) /\ dbFileVers[me].cc < MaxCounter
      /\ \E x \in {CapUpTo(db.cap, W), Grown(db.cap, dbSize[me])} :
           db' = [Written(db, W, d) EXCEPT !.cap = x]
      /\ jrnl' = Deleted(me, JournalWith(me, 1))
      /\ cache' = [cache EXCEPT ![me] = d]
      /\ dbFileVers' = [dbFileVers EXCEPT ![me] = NextHeader(me)]
      /\ image' = m /\ Unlocked(me) /\ UNCHANGED shortRead
  BY DEF Commit
<1>2. /\ me \in Conns /\ Shape /\ eState[me] \in WriteStates /\ HasJournal(me)
      /\ NextHeader(me) \in Headers /\ NextHeader(me).size = NPages(me)
      /\ d \in [Pages -> Content \union {None}] /\ d[1] = NextHeader(me)
      /\ \A q \in Pages : q # 1 => d[q] = cache[me][q]
      /\ W \in SUBSET Pages /\ 1 \in W
      /\ \A q \in W : d[q] \in Content /\ (q # 1 => q \in dirty[me])
      /\ dirty[me] \subseteq W
  BY <1>1, CommitWrites
<1>3. \A q \in Pages : m[q] = IF q \in W THEN d[q]
        ELSE IF q \in inJournal[me] \/ q \in (dbOrigSize[me] + 1)..dbSize[me] THEN db.buf[q]
        ELSE image[q]
  BY DEF CommitImage
<1>4. m = [q \in Pages |-> m[q]]
  BY DEF CommitImage
<1> HIDE DEF d, W, m
<1>5. /\ File(db') /\ db'.len \in W
      /\ \A q \in Pages : db'.buf[q] = IF q \in W THEN d[q] ELSE db.buf[q]
  <2>1. PICK x \in {CapUpTo(db.cap, W), Grown(db.cap, dbSize[me])} :
          db' = [Written(db, W, d) EXCEPT !.cap = x]
    BY <1>1
  <2>2. PICK g : g = Written(db, W, d)
    OBVIOUS
  <2>3. File(db) /\ db.cap \in Nat /\ dbSize[me] \in Nat
    BY <1>2, PagesFacts DEF Shape, File
  <2>4. /\ File(g) /\ g.len \in W
        /\ \A q \in Pages : g.buf[q] = IF q \in W THEN d[q] ELSE db.buf[q]
    BY <1>2, <2>2, <2>3, WrittenCorrect
  <2>5. CapUpTo(db.cap, W) \in Nat
    BY <2>3, CapUpToIsNat
  <2>6. Grown(db.cap, dbSize[me]) \in Nat
    BY <2>3 DEF Grown
  <2>7. db' = [g EXCEPT !.cap = x] /\ x \in Nat
    BY <2>1, <2>2, <2>5, <2>6
  <2>8. File(db') /\ db'.len = g.len /\ db'.buf = g.buf
    BY <2>4, <2>7 DEF File
  <2> QED BY <2>4, <2>8
<1>6. m \in [Pages -> Content] /\ m[1] \in Headers
  <2>1. m[1] = d[1]
    BY <1>2, <1>3, PagesFacts
  <2>2. \A q \in Pages : db.buf[q] \in Content /\ image[q] \in Content
    BY <1>2 DEF Shape, File
  <2>3. \A q \in Pages : m[q] \in Content
    BY <1>2, <1>3, <2>2
  <2> QED BY <1>2, <1>4, <2>1, <2>3
<1>7. /\ cache'[me] = d /\ cache' \in [Conns -> [Pages -> Content \union {None}]]
      /\ dbFileVers' \in [Conns -> Headers]
  BY <1>1, <1>2 DEF Shape
<1>8. jrnl' = NoJournal
  BY <1>1, NobodyElse
<1>9. ASSUME ~ shortRead
      PROVE  /\ db'.len <= CommittedSize'
             /\ \A p \in 1..db'.len : db'.buf[p] = image'[p]
             /\ \A p \in 1..db'.len : cache'[me][p] # None => cache'[me][p] = image'[p]
             /\ \A p \in 2..MaxPages : cache'[me][p] # None => p <= CommittedSize'
             /\ db'.len = 0 => CommittedSize' = 0
  <2>1. Traced
    BY <1>2, <1>9 DEF IInv, InWriting
  <2>2. CommittedSize' = dbSize[me]
    <3>1. image'[1] = NextHeader(me)
      BY <1>1, <1>2, <1>3, PagesFacts
    <3> QED BY <1>2, <2>1, <3>1 DEF CommittedSize, Traced
  <2>3. /\ MaxPages \in Nat /\ dbSize[me] \in Nat /\ dbSize[me] >= 1 /\ dbOrigSize[me] \in Nat
        /\ \A q \in Pages : q \in Nat \ {0} /\ (q = 1 \/ q \in 2..MaxPages)
        /\ \A q \in 2..MaxPages : q \in Pages /\ q # 1
    BY <1>2, <2>1, PagesFacts DEF Shape, Traced, Pages
  <2>4. \A q \in W : q <= dbSize[me]
    BY <1>2, <2>1, <2>3 DEF Traced
  <2>5. /\ db'.len <= dbSize[me] /\ db'.len \in Nat \ {0}
        /\ \A p \in 1..db'.len : p \in Pages /\ p <= dbSize[me]
    <3>1. db'.len \in Pages /\ db'.len <= dbSize[me] /\ db'.len \in Nat \ {0}
      BY <1>2, <1>5, <2>3, <2>4
    <3> QED BY <2>3, <3>1 DEF Pages
  <2>6. ASSUME NEW p \in 1..db'.len, p \notin W
        PROVE  m[p] = db.buf[p]
    <3>1. p \in Pages /\ p <= dbSize[me] /\ p \in Nat \ {0}
      BY <2>3, <2>5
    <3>2. CASE p \in inJournal[me] \/ p \in (dbOrigSize[me] + 1)..dbSize[me]
      BY <1>3, <2>6, <3>1, <3>2
    <3>3. CASE ~ (p \in inJournal[me] \/ p \in (dbOrigSize[me] + 1)..dbSize[me])
      <4>1. p \in 1..dbOrigSize[me] /\ p \notin inJournal[me]
        BY <2>3, <3>1, <3>3
      <4>2. \A i \in 1..journalHdr[me] : i \in 1..Len(jrnl.recs) /\ jrnl.recs[i].pgno \in inJournal[me]
        BY <1>2, RecordsOfJournal DEF IInv, JournalKnown, Shape
      <4>3. db.buf[p] = image[p]
        BY <2>1, <4>1, <4>2 DEF Traced, Covered
      <4>4. m[p] = image[p]
        BY <1>3, <2>6, <3>1, <3>3
      <4> QED BY <4>3, <4>4
    <3> QED BY <3>2, <3>3
  <2>7. \A p \in 1..db'.len : db'.buf[p] = m[p]
    BY <1>3, <1>5, <2>5, <2>6
  <2>8. ASSUME NEW p \in 1..db'.len, d[p] # None PROVE d[p] = m[p]
    <3>1. CASE p \in W
      BY <1>3, <2>5, <3>1
    <3>2. CASE p \notin W
      <4>1. p # 1 /\ p \notin dirty[me] /\ p \in Pages /\ d[p] = cache[me][p]
        BY <1>2, <2>5, <3>2
      <4>2. cache[me][p] = db.buf[p]
        BY <2>1, <2>8, <4>1 DEF Traced
      <4> QED BY <2>6, <3>2, <4>1, <4>2
    <3> QED BY <3>1, <3>2
  <2>9. \A p \in 2..MaxPages : d[p] # None => p <= dbSize[me]
    BY <1>2, <2>1, <2>3 DEF Traced
  <2> QED BY <1>1, <1>7, <2>2, <2>5, <2>7, <2>8, <2>9
<1>10. cache'[me][1] \in Headers \union {None}
  BY <1>2, <1>7
<1> QED BY <1>1, <1>2, <1>5, <1>6, <1>7, <1>8, <1>9, <1>10, SettledStep

\* The first n records of a journal undo what was done to a file and to the cache.
Undoes(f, j, n) ==
  /\ Faithful(j)
  /\ \A p \in 1..j.size : f.buf[p] = image[p] \/ \E i \in 1..n : j.recs[i].pgno = p
  /\ f.len < j.size => n >= 1
  /\ \A p \in 1..j.size : \/ cache[me][p] \in {None, image[p]}
                          \/ \E i \in 1..Len(j.recs) : j.recs[i].pgno = p

LEMMA RolledBackStep ==
  ASSUME Single, IInv, NEW f, File(f), NEW j \in Journal, Sound(j), NEW n \in 0..Len(j.recs),
         RolledBack(me, f, j, n),
         NEW v \in Headers, dbFileVers' = [dbFileVers EXCEPT ![me] = VersAfter(me, j, v)],
         ~ shortRead => Undoes(f, j, n)
  PROVE  IInv'
<1> DEFINE r == RestoredCache(me, j)
<1>1. /\ db' = PlayedBack(f, j, 1..n) /\ cache' = [cache EXCEPT ![me] = r]
      /\ jrnl' = NoJournal /\ Unlocked(me) /\ UNCHANGED <<image, shortRead>>
  BY NobodyElse, RestoredUpTo DEF RolledBack, history
<1>2. me \in Conns /\ Shape /\ CommittedSize' = CommittedSize
  BY <1>1, OnlyMe DEF IInv, CommittedSize
<1>3. File(db')
  BY <1>1, PlayedBackCorrect
<1>4. /\ r \in [Pages -> Content \union {None}] /\ r[1] \in Headers \union {None}
      /\ VersAfter(me, j, v) \in Headers
  BY <1>2, RestoredCacheCorrect
<1>5. ASSUME ~ shortRead
      PROVE  /\ db'.len <= CommittedSize /\ (db'.len = 0 => CommittedSize = 0)
             /\ \A p \in 1..db'.len : db'.buf[p] = image[p]
             /\ \A p \in 1..j.size : r[p] # None => r[p] = image[p]
             /\ \A p \in 2..MaxPages : r[p] # None => p <= CommittedSize
             /\ j.size = CommittedSize
  <2>1. /\ Faithful(j)
        /\ \A p \in 1..j.size : f.buf[p] = image[p] \/ \E i \in 1..n : j.recs[i].pgno = p
        /\ f.len < j.size => n >= 1
        /\ \A p \in 1..j.size : \/ cache[me][p] \in {None, image[p]}
                                \/ \E i \in 1..Len(j.recs) : j.recs[i].pgno = p
    BY <1>5 DEF Undoes
  <2>2. /\ db'.len <= CommittedSize /\ (db'.len = 0 => CommittedSize = 0)
        /\ \A p \in 1..db'.len : db'.buf[p] = image[p]
    BY <1>1, <2>1, PlaybackRestores
  <2>3. /\ \A p \in 1..j.size : r[p] # None => r[p] = image[p]
        /\ \A p \in 2..MaxPages : r[p] # None => p <= CommittedSize
    BY <1>2, <2>1, CacheRestored
  <2> QED BY <2>1, <2>2, <2>3 DEF Faithful
<1> HIDE DEF r
<1>6. /\ cache'[me] = r /\ cache' \in [Conns -> [Pages -> Content \union {None}]]
      /\ dbFileVers' \in [Conns -> Headers]
  BY <1>1, <1>2, <1>4 DEF Shape
<1>7. ASSUME ~ shortRead PROVE \A p \in 1..db'.len : p \in 1..j.size
  BY <1>2, <1>3, <1>5, <1>7, HeaderOfFile, CommittedSizeIsNat
<1>8. image' \in [Pages -> Content] /\ image'[1] \in Headers
  BY <1>1, <1>2 DEF Shape
<1>9. ~ shortRead =>
        /\ db'.len <= CommittedSize'
        /\ \A p \in 1..db'.len : db'.buf[p] = image'[p]
        /\ \A p \in 1..db'.len : cache'[me][p] # None => cache'[me][p] = image'[p]
        /\ \A p \in 2..MaxPages : cache'[me][p] # None => p <= CommittedSize'
        /\ db'.len = 0 => CommittedSize' = 0
  BY <1>1, <1>2, <1>5, <1>6, <1>7
<1>10. cache'[me][1] \in Headers \union {None}
  BY <1>4, <1>6
<1> QED BY <1>1, <1>2, <1>3, <1>6, <1>8, <1>9, <1>10, SettledStep

LEMMA RollbackStep ==
  ASSUME Single, IInv, Rollback(me)
  PROVE  IInv'
<1>1. /\ me \in Conns /\ Shape /\ HasJournal(me) /\ eState[me] \in {"CACHEMOD", "DBMOD"}
      /\ dbFileVers' = [dbFileVers EXCEPT ![me] = VersAfter(me, jrnl, dbFileVers[me])]
      /\ dbFileVers[me] \in Headers
  BY OnlyMe DEF Rollback, Changed, IInv, Shape, HasJournal
<1>2. /\ File(db) /\ jrnl \in Journal /\ Sound(jrnl) /\ jrnl.exists
      /\ jrnl.size = dbOrigSize[me] /\ Len(jrnl.recs) \in Nat
      /\ journalHdr[me] \in 0..Len(jrnl.recs)
      /\ jrnl.size \in 0..MaxPages /\ MaxPages \in Nat
  BY <1>1, RecordsOfJournal, PagesFacts DEF IInv, Shape, JournalSound, JournalKnown
<1>3. ASSUME ~ shortRead
      PROVE  /\ Faithful(jrnl) /\ Traced /\ (eState[me] = "CACHEMOD" => Untouched)
             /\ \A p \in 1..jrnl.size : \/ cache[me][p] \in {None, image[p]}
                                        \/ \E i \in 1..Len(jrnl.recs) : jrnl.recs[i].pgno = p
  <2>1. Faithful(jrnl) /\ Traced /\ (eState[me] = "CACHEMOD" => Untouched)
    BY <1>1, <1>2, <1>3 DEF IInv, Protected, InWriting, Faithful
  <2> QED BY <1>2, <2>1 DEF Traced
<1>4. CASE eState[me] = "DBMOD"
  <2>1. RolledBack(me, db, jrnl, journalHdr[me])
    BY <1>4 DEF Rollback
  <2>2. ASSUME ~ shortRead
        PROVE  /\ \A p \in 1..jrnl.size :
                    db.buf[p] = image[p] \/ \E i \in 1..journalHdr[me] : jrnl.recs[i].pgno = p
               /\ db.len < jrnl.size => journalHdr[me] >= 1
    BY <1>2, <1>3, <2>2 DEF Traced, Covered
  <2>3. ~ shortRead => Undoes(db, jrnl, journalHdr[me])
    BY <1>3, <2>2 DEF Undoes
  <2>4. /\ File(db) /\ jrnl \in Journal /\ Sound(jrnl) /\ journalHdr[me] \in 0..Len(jrnl.recs)
        /\ dbFileVers[me] \in Headers
        /\ dbFileVers' = [dbFileVers EXCEPT ![me] = VersAfter(me, jrnl, dbFileVers[me])]
    BY <1>1, <1>2
  <2> QED BY <2>1, <2>3, <2>4, RolledBackStep
<1>5. CASE eState[me] = "CACHEMOD"
  <2> DEFINE r == RestoredCache(me, jrnl)
  <2>1. /\ cache' = [cache EXCEPT ![me] = r] /\ jrnl' = NoJournal
        /\ Unlocked(me) /\ UNCHANGED <<db, image, shortRead>>
    BY <1>5, NobodyElse DEF Rollback, history
  <2>2. /\ r \in [Pages -> Content \union {None}] /\ r[1] \in Headers \union {None}
        /\ VersAfter(me, jrnl, dbFileVers[me]) \in Headers
    BY <1>1, <1>2, RestoredCacheCorrect
  <2>3. ASSUME ~ shortRead
        PROVE  /\ \A p \in 1..jrnl.size : r[p] # None => r[p] = image[p]
               /\ \A p \in 2..MaxPages : r[p] # None => p <= CommittedSize
    BY <1>1, <1>2, <1>3, <2>3, CacheRestored
  <2> HIDE DEF r
  <2>4. /\ cache'[me] = r /\ cache' \in [Conns -> [Pages -> Content \union {None}]]
        /\ dbFileVers' \in [Conns -> Headers] /\ CommittedSize' = CommittedSize
    BY <1>1, <2>1, <2>2 DEF Shape, CommittedSize
  <2>5. /\ db.len = jrnl.size
        /\ ~ shortRead => \A p \in 1..db.len : db.buf[p] = image[p] /\ jrnl.size = CommittedSize
    BY <1>2, <1>3, <1>5 DEF IInv, Seen, Untouched, Traced
  <2>6. ~ shortRead => jrnl.size = CommittedSize
    BY <1>3 DEF Faithful
  <2>7. ~ shortRead =>
          /\ db'.len <= CommittedSize'
          /\ \A p \in 1..db'.len : db'.buf[p] = image'[p]
          /\ \A p \in 1..db'.len : cache'[me][p] # None => cache'[me][p] = image'[p]
          /\ \A p \in 2..MaxPages : cache'[me][p] # None => p <= CommittedSize'
          /\ db'.len = 0 => CommittedSize' = 0
    BY <1>2, <2>1, <2>3, <2>4, <2>5, <2>6
  <2>8. /\ File(db') /\ cache'[me][1] \in Headers \union {None}
        /\ image' \in [Pages -> Content] /\ image'[1] \in Headers
    BY <1>1, <1>2, <2>1, <2>2, <2>4 DEF Shape
  <2> QED BY <1>1, <2>1, <2>4, <2>7, <2>8, SettledStep
<1> QED BY <1>1, <1>4, <1>5

\* The pages before the one that did not fit are on the file, page 1 is journaled.
LEMMA CommitFailsStep ==
  ASSUME Single, IInv, NEW k \in Pages, CommitFails(me, k)
  PROVE  IInv'
<1> DEFINE done == {p \in CommitPages(me) : p < k}
           d == CommitCache(me)
           j == JournalWith(me, 1)
           f == [Written(db, done, d) EXCEPT !.cap = CapUpTo(Written(db, done, d).cap, done)]
           n == OffWith(me, 1)
           v == NextHeader(me)
           o == Len(jrnl.recs)
<1>1. /\ Changed(me) /\ dbFileVers[me].cc < MaxCounter
      /\ RolledBack(me, f, j, n)
      /\ dbFileVers' = [dbFileVers EXCEPT ![me] = VersAfter(me, j, v)]
  BY DEF CommitFails
<1>2. /\ me \in Conns /\ Shape /\ eState[me] \in WriteStates /\ HasJournal(me)
      /\ v \in Headers
      /\ d \in [Pages -> Content \union {None}] /\ d[1] = v
      /\ \A q \in Pages : q # 1 => d[q] = cache[me][q]
      /\ CommitPages(me) \in SUBSET Pages
      /\ \A q \in CommitPages(me) : d[q] \in Content /\ (q # 1 => q \in dirty[me])
  BY <1>1, CommitWrites
<1>3. /\ JournalSound /\ JournalKnown /\ Seen /\ cache[me][1] \in Headers /\ File(db)
      /\ cache[me][1] \in Content
  BY <1>2, PagesFacts DEF IInv, Seen, Shape, HasJournal
<1>4. /\ j \in Journal /\ Sound(j) /\ j.size = dbOrigSize[me] /\ Len(j.recs) = n
      /\ o \in Nat /\ journalHdr[me] \in 0..o
      /\ \A i \in 1..o : j.recs[i] = jrnl.recs[i] /\ jrnl.recs[i].pgno \in inJournal[me]
      /\ IF MustJournal(me, 1)
         THEN Len(j.recs) = o + 1 /\ j.recs[o + 1].pgno = 1 /\ j.recs[o + 1].data = cache[me][1]
         ELSE Len(j.recs) = o
  <2>1. j = JournalWith(me, 1) /\ o = Len(jrnl.recs) /\ 1 \in Pages
    BY PagesFacts
  <2> HIDE DEF j, o
  <2> QED BY <1>2, <1>3, <2>1, JournalWithCorrect
<1>5. done \in SUBSET Pages /\ done \subseteq CommitPages(me) /\ done \subseteq dirty[me] \union {1}
  BY <1>2
<1> HIDE DEF done, d, j, n, v, o
<1>6. /\ File(f) /\ \A q \in Pages : q \notin done => f.buf[q] = db.buf[q]
      /\ f.len < db.len => 1 \in Pages
  <2>1. PICK g : g = Written(db, done, d)
    OBVIOUS
  <2>2. File(g) /\ \A q \in Pages : q \notin done => g.buf[q] = db.buf[q]
    <3>1. CASE done = {}
      BY <1>3, <2>1, <3>1 DEF Written
    <3>2. CASE done # {}
      <4>1. (\A q \in done : d[q] \in Content) /\ (1 \in done => d[1] \in Headers)
        BY <1>2, <1>5
      <4>2. File(g) /\ \A q \in Pages : g.buf[q] = IF q \in done THEN d[q] ELSE db.buf[q]
        BY <1>3, <1>5, <2>1, <3>2, <4>1, WrittenCorrect
      <4> QED BY <4>2
    <3> QED BY <3>1, <3>2
  <2>3. CapUpTo(g.cap, done) \in Nat
    BY <2>2, CapUpToIsNat DEF File
  <2>4. f = [g EXCEPT !.cap = CapUpTo(g.cap, done)]
    BY <2>1
  <2>5. File(f) /\ f.buf = g.buf
    BY <2>2, <2>3, <2>4 DEF File
  <2> QED BY <2>2, <2>5, PagesFacts
<1> HIDE DEF f
<1>7. /\ n \in Nat /\ n \in 0..Len(j.recs) /\ o <= n
      /\ \A i \in 1..n : i \in 1..o \/ (MustJournal(me, 1) /\ i = o + 1)
      /\ \A i \in 1..o : i \in 1..n
      /\ MustJournal(me, 1) => o + 1 \in 1..n
      /\ dbOrigSize[me] \in 0..MaxPages /\ MaxPages \in Nat
      /\ \A q \in 1..dbOrigSize[me] : q \in Pages
  BY <1>2, <1>4, PagesFacts DEF Shape, Pages
<1>8. ASSUME ~ shortRead
      PROVE  /\ Faithful(j)
             /\ \A p \in 1..j.size : f.buf[p] = image[p] \/ \E i \in 1..n : j.recs[i].pgno = p
             /\ f.len < j.size => n >= 1
             /\ \A p \in 1..j.size : \/ cache[me][p] \in {None, image[p]}
                                     \/ \E i \in 1..Len(j.recs) : j.recs[i].pgno = p
  <2>1. Traced /\ \A i \in 1..o : jrnl.recs[i].data = image[jrnl.recs[i].pgno]
    BY <1>2, <1>8, WritingIsTraced DEF o
  <2>2. ASSUME NEW q \in inJournal[me] PROVE \E i \in 1..n : j.recs[i].pgno = q
    <3>1. PICK i \in 1..o : jrnl.recs[i].pgno = q
      BY <2>1 DEF Traced, o
    <3>2. i \in 1..n /\ j.recs[i].pgno = q
      BY <1>4, <1>7, <3>1
    <3> QED BY <3>2
  <2>3. 1 <= dbOrigSize[me] => \E i \in 1..n : j.recs[i].pgno = 1
    <3>1. CASE MustJournal(me, 1)
      BY <1>4, <1>7, <3>1
    <3>2. CASE ~ MustJournal(me, 1)
      <4>1. 1 <= dbOrigSize[me] => 1 \in 1..dbOrigSize[me] /\ 1 \in inJournal[me]
        BY <1>7, <3>2 DEF MustJournal
      <4> QED BY <2>2, <4>1
    <3> QED BY <3>1, <3>2
  <2>4. Faithful(j)
    <3>1. MustJournal(me, 1) => cache[me][1] = image[1]
      <4>1. MustJournal(me, 1) => 1 \in 1..dbOrigSize[me] /\ 1 \notin inJournal[me]
        BY <1>7 DEF MustJournal
      <4> QED BY <2>1, <4>1 DEF Traced
    <3>2. \A i \in 1..n : j.recs[i].data = image[j.recs[i].pgno]
      BY <1>4, <1>7, <2>1, <3>1
    <3> QED BY <1>4, <2>1, <3>2 DEF Faithful, Traced
  <2>5. ASSUME NEW p \in 1..dbOrigSize[me], ~ \E i \in 1..n : j.recs[i].pgno = p
        PROVE  f.buf[p] = image[p] /\ cache[me][p] \in {None, image[p]}
    <3>1. p \in Pages /\ p # 1 /\ p \notin inJournal[me] /\ p \notin dirty[me]
      <4>1. 1 <= dbOrigSize[me]
        BY <1>7
      <4>2. p \in Pages /\ p # 1 /\ p \notin inJournal[me]
        BY <1>7, <2>2, <2>3, <2>5, <4>1
      <4> QED BY <2>1, <4>2 DEF Traced
    <3>2. p \notin done
      BY <1>5, <3>1
    <3>3. ~ \E i \in 1..journalHdr[me] : jrnl.recs[i].pgno = p
      <4>1. \A i \in 1..journalHdr[me] : i \in 1..o
        BY <1>4
      <4> QED BY <1>4, <3>1, <4>1
    <3>4. db.buf[p] = image[p]
      BY <2>1, <3>3 DEF Traced, Covered
    <3> QED BY <1>6, <2>1, <3>1, <3>2, <3>4 DEF Traced
  <2>6. f.len < j.size => n >= 1
    <3>1. f.len \in Nat
      BY <1>6, HeaderOfFile
    <3>2. f.len < j.size => 1 <= dbOrigSize[me]
      BY <1>4, <1>7, <3>1
    <3> QED BY <1>7, <2>3, <3>2
  <2> QED BY <1>4, <2>4, <2>5, <2>6
<1>9. ~ shortRead => Undoes(f, j, n)
  BY <1>8 DEF Undoes
<1>10. File(f) /\ j \in Journal /\ Sound(j) /\ n \in 0..Len(j.recs) /\ v \in Headers
  BY <1>2, <1>4, <1>6, <1>7
<1> QED BY <1>1, <1>9, <1>10, RolledBackStep

LEMMA ErrorUnlockStep ==
  ASSUME Single, IInv, ErrorUnlock(me)
  PROVE  IInv'
<1>1. /\ eState[me] = "ERROR" /\ Unlocked(me) /\ me \in Conns
      /\ jrnl' = Closed(me, jrnl) /\ cache' = [cache EXCEPT ![me] = NoCache]
      /\ UNCHANGED <<db, dbFileVers, image, shortRead>>
  BY OnlyMe DEF ErrorUnlock, history
<1>2. /\ Shape /\ JournalSound /\ Protected /\ NotEmptied /\ jrnl.exists
      /\ CommittedSize' = CommittedSize
  BY <1>1 DEF IInv, JournalKnown, HasJournal, CommittedSize
<1>3. jrnl' = jrnl
  BY <1>1, <1>2, NobodyElse DEF Shape
<1>4. /\ cache' \in [Conns -> [Pages -> Content \union {None}]] /\ cache'[me] = NoCache
      /\ cache'[me][1] = None
  BY <1>1, <1>2, PagesFacts DEF Shape, NoCache
<1>5. Shape'
  BY <1>1, <1>2, <1>3, <1>4, UnlockedStep DEF Shape
<1>6. JournalSound' /\ JournalKnown'
  BY <1>1, <1>2, <1>3, UnlockedStep DEF JournalSound
<1>7. Seen'
  BY <1>2, <1>1, <1>4, UnlockedStep DEF Seen
<1>8. Kept' /\ InWriting'
  BY <1>1, <1>2, <1>3, UnlockedStep DEF Kept, InWriting
<1>9. Protected' /\ NotEmptied'
  BY <1>1, <1>2, <1>3 DEF Protected, NotEmptied, Covered
<1> QED BY <1>5, <1>6, <1>7, <1>8, <1>9 DEF IInv

----------------------------------------------------------------------------
(* The invariant holds always. *)

LEMMA InitCorrect ==
  ASSUME Single, Init
  PROVE  IInv
<1>1. /\ me \in Conns /\ jrnl = NoJournal /\ eState[me] = "OPEN" /\ cache[me] = NoCache
      /\ dirty[me] = {} /\ needSync[me] = {} /\ inJournal[me] = {} /\ dbOrigSize[me] = 0
      /\ journalOff[me] = 0 /\ journalHdr[me] = 0
      /\ db.len = 0 /\ ~ HasJournal(me)
  BY OnlyMe DEF Init, HasJournal
<1>2. image[1] = ZeroHeader /\ ZeroHeader.size = 0 /\ CommittedSize = 0
  BY PagesFacts DEF Init, ZeroPage, ZeroHeader, CommittedSize
<1>3. NoCache \in [Pages -> Content \union {None}] /\ \A p \in Pages : NoCache[p] = None
  BY DEF NoCache
<1>4. File(db)
  <2>1. \A p \in Pages : JunkPage(p) \in Content
    BY PagesFacts DEF JunkPage, Content
  <2>2. JunkPage(1) \in Headers
    BY PagesFacts DEF JunkPage
  <2> QED BY <2>1, <2>2, PagesFacts, PagerAssumption DEF Init, File
<1>5. Shape
  <2>1. image \in [Pages -> Content]
    BY PagesFacts DEF Init
  <2>2. cache \in [Conns -> [Pages -> Content \union {None}]] /\ cache[me][1] = None
    BY <1>1, <1>3, PagesFacts DEF Init
  <2> QED BY <1>1, <1>2, <1>4, <2>1, <2>2, PagesFacts, NoJournalCorrect DEF Init, Shape
<1>6. JournalSound /\ JournalKnown
  BY <1>1, NoJournalCorrect DEF JournalSound, JournalKnown
<1>7. Seen
  BY <1>1 DEF Seen
<1>8. Kept
  <2>1. \A p \in 2..MaxPages : p \in Pages
    BY PagesFacts DEF Pages
  <2> QED BY <1>1, <1>2, <1>3, <2>1 DEF Kept
<1>9. InWriting /\ Protected /\ NotEmptied
  BY <1>1, <1>2, NoJournalCorrect DEF InWriting, Protected, NotEmptied
<1> QED BY <1>5, <1>6, <1>7, <1>8, <1>9 DEF IInv

LEMMA NextStep ==
  ASSUME Single, IInv, [Next]_vars
  PROVE  IInv'
<1>1. CASE Next
  <2>1. Reading(me) \/ Changing(me) \/ Ending(me)
    BY <1>1, OnlyMe DEF Next
  <2>2. CASE Reading(me)
    BY <2>2, BeginReadStep, BeginReadRefusedStep, EndReadStep, ReopenStep, GetStep,
       GetBehindStep, EvictStep DEF Reading
  <2>3. CASE Changing(me)
    BY <2>3, BeginWriteStep, BeginNewStep, WriteStep, GrowStep, SpillStep, SpillFailsStep
       DEF Changing
  <2>4. CASE Ending(me)
    BY <2>4, CommitStep, RollbackStep, ErrorUnlockStep, CommitFailsStep DEF Ending
  <2> QED BY <2>1, <2>2, <2>3, <2>4
<1>2. CASE UNCHANGED vars
  <2>1. UNCHANGED <<db, jrnl, eState, cache, dirty, needSync, dbFileVers, dbSize, dbOrigSize,
                    inJournal, journalOff, journalHdr, cksumInit, image, shortRead>>
    BY <1>2 DEF vars, fileVars, cacheVars, txnVars, history
  <2> QED BY <2>1, UnchangedStep
<1> QED BY <1>1, <1>2

\* What is proved below rests on this: what the file, the journal, the cache and the fields
\* of the Pager have to do with each other and with what was committed, at every moment of a
\* single connection's life, after any error and any recovery.
THEOREM Invariance ==
  ASSUME Single
  PROVE  Spec => []IInv
<1>1. Init => IInv
  BY InitCorrect
<1>2. IInv /\ [Next]_vars => IInv'
  BY NextStep
<1> QED BY <1>1, <1>2, PTL DEF Spec

StatusOK == status \in {"on", "crashed"}

LEMMA StatusStep ==
  ASSUME StatusOK, [Next]_vars
  PROVE  StatusOK'
<1> USE DEF StatusOK
<1>1. CASE Next
  <2>1. PICK c \in Conns : Reading(c) \/ Changing(c) \/ Ending(c)
    BY <1>1 DEF Next
  <2>2. CASE Reading(c)
    BY <2>2 DEF Reading, BeginRead, BeginReadRefused, SharedLock, EndRead, Reopen, Get, GetBehind,
       Evict
  <2>3. CASE Changing(c)
    BY <2>3 DEF Changing, BeginWrite, BeginNew, Write, Grow, Spill, SpillFails
  <2>4. CASE Ending(c)
    BY <2>4 DEF Ending, Commit, Rollback, RolledBack, ErrorUnlock, CommitFails
  <2> QED BY <2>1, <2>2, <2>3, <2>4
<1>2. CASE UNCHANGED vars
  BY <1>2 DEF vars
<1> QED BY <1>1, <1>2

\* Every field of the Pager, the database file and its buffer, and the journal keep the shape
\* they are given: no journal without an end, no page of page 1's that is not a header.
THEOREM TypeCorrect ==
  ASSUME Single
  PROVE  Spec => []TypeOK
<1>1. Init => StatusOK
  BY DEF Init, StatusOK
<1>2. StatusOK /\ [Next]_vars => StatusOK'
  BY StatusStep
<1>3. IInv /\ StatusOK => TypeOK
  BY DEF IInv, Shape, File, Journal, Record, StatusOK, TypeOK
<1> QED BY <1>1, <1>2, <1>3, Invariance, PTL DEF Spec

----------------------------------------------------------------------------
(* What the invariant says. *)

LEMMA HoldersAreMe ==
  ASSUME Single
  PROVE  Holders = {} <=> ~ HasJournal(me)
BY OnlyMe DEF Holders

\* Nobody reads or writes the database while a journal that was left over from an error
\* (pager_unlock after PAGER_ERROR) waits to be played back by sqlite3PagerSharedLock.
THEOREM RecoveredBeforeRead ==
  ASSUME Single
  PROVE  Spec => []NoUnrecoveredReader
<1>1. IInv => NoUnrecoveredReader
  <2> SUFFICES ASSUME IInv, Abandoned PROVE eState[me] = "OPEN"
    BY OnlyMe DEF NoUnrecoveredReader
  <2>1. jrnl.exists /\ ~ HasJournal(me)
    BY HoldersAreMe DEF Abandoned
  <2>2. eState[me] \notin {"READER", "LOCKED"}
    BY <2>1 DEF IInv, Seen
  <2> QED BY <2>1, <2>2, OnlyMe DEF IInv, Shape, HasJournal
<1> QED BY <1>1, Invariance, PTL

\* Before a transaction has written to the file, the file has every page the connection
\* takes the database to have: getPageNormal and readDbPage find them all.
THEOREM ReadsAreOfTheFile ==
  ASSUME Single
  PROVE  Spec => []NoReadBehindEnd
<1>1. IInv => NoReadBehindEnd
  <2> SUFFICES ASSUME IInv
               PROVE  /\ eState[me] \in {"READER", "LOCKED"} => NPages(me) <= db.len
                      /\ eState[me] = "CACHEMOD" => dbOrigSize[me] <= db.len
    BY OnlyMe DEF NoReadBehindEnd
  <2>1. db.len \in Nat
    BY HeaderOfFile DEF IInv, Shape
  <2> QED BY <2>1 DEF IInv, Seen
<1> QED BY <1>1, Invariance, PTL

\* Write-ahead: while a transaction is writing to the file, and after it gave up, a page that
\* the file does not have as it was committed is in a record that pager_playback puts back,
\* however the writes of pagerStress and the refusals of fs_write fell.
THEOREM JournalCovers ==
  ASSUME Single
  PROVE  Spec => []JournalCoversFile
<1>1. IInv => JournalCoversFile
  <2> SUFFICES ASSUME IInv, ~ shortRead, Unsettled, NEW p \in 1..CommittedSize,
                      db.buf[p] # image[p]
               PROVE  \E i \in DOMAIN jrnl.recs : Protecting(i) /\ jrnl.recs[i].pgno = p
                                                  /\ jrnl.recs[i].data = image[p]
    BY DEF JournalCoversFile
  <2> DEFINE n == IF HasJournal(me) THEN journalHdr[me] ELSE Len(jrnl.recs)
  <2>1. /\ Restored(jrnl) = 1..Len(jrnl.recs) /\ Len(jrnl.recs) \in Nat
        /\ DOMAIN jrnl.recs = 1..Len(jrnl.recs)
    BY RestoredIsAll, RecordsOfJournal, LenProperties DEF IInv, Shape, JournalSound
  <2>2. jrnl.exists /\ (eState[me] \in {"DBMOD", "ERROR"} <=> HasJournal(me))
    <3>1. CASE Abandoned
      BY <3>1, HoldersAreMe DEF Abandoned, HasJournal
    <3>2. CASE eState[me] \in {"DBMOD", "ERROR"}
      BY <3>2 DEF HasJournal, IInv, JournalKnown
    <3> QED BY <3>1, <3>2, OnlyMe DEF Unsettled
  <2>3. n \in 0..Len(jrnl.recs)
    BY <2>1, OnlyMe DEF IInv, JournalKnown, Shape
  <2>4. \E i \in 1..n : jrnl.recs[i].pgno = p
    BY <2>2, OnlyMe DEF IInv, Protected, InWriting, Traced, Covered
  <2>5. PICK i \in 1..n : jrnl.recs[i].pgno = p
    BY <2>4
  <2>6. i \in 1..Len(jrnl.recs) /\ (HasJournal(me) => i <= journalHdr[me])
    BY <2>1, <2>3, <2>5
  <2>7. jrnl.recs[i].data = image[p]
    BY <2>2, <2>5, <2>6 DEF IInv, Protected
  <2>8. Protecting(i)
    BY <2>1, <2>2, <2>6, OnlyMe DEF Protecting
  <2> QED BY <2>1, <2>5, <2>6, <2>7, <2>8
<1> QED BY <1>1, Invariance, PTL

\* A file that no transaction is writing to, and that nobody left in the middle of that.
LEMMA SettledFile ==
  ASSUME Single, IInv, ~ shortRead, ~ Unsettled
  PROVE  /\ db.len \in Nat /\ CommittedSize \in Nat
         /\ db.len <= CommittedSize /\ (db.len = 0 => CommittedSize = 0)
         /\ \A p \in 1..db.len : db.buf[p] = image[p]
<1>1. /\ db.len \in Nat /\ CommittedSize \in Nat /\ me \in Conns
      /\ eState[me] \notin {"DBMOD", "ERROR"} /\ (jrnl.exists => HasJournal(me))
  BY OnlyMe, HoldersAreMe, HeaderOfFile, CommittedSizeIsNat
     DEF IInv, Shape, Unsettled, Abandoned
<1>2. CASE HasJournal(me)
  <2>1. eState[me] = "CACHEMOD" /\ Traced /\ Untouched /\ dbOrigSize[me] = db.len
    BY <1>1, <1>2 DEF HasJournal, IInv, InWriting, Seen
  <2> QED BY <1>1, <2>1 DEF Traced, Untouched
<1>3. CASE ~ HasJournal(me)
  BY <1>1, <1>3 DEF IInv, Kept, NotEmptied
<1> QED BY <1>2, <1>3

\* After commits, rollbacks and recoveries, what the file has of the database is what was
\* committed: a fs_write that cuts the file off loses pages, it mixes none.
THEOREM ContentKept ==
  ASSUME Single
  PROVE  Spec => []CommittedContentKept
<1>1. IInv => CommittedContentKept
  BY SettledFile DEF CommittedContentKept
<1> QED BY <1>1, Invariance, PTL

\* A database that fs_write has cut off still says how many pages it had, so lockBtree
\* refuses it, and it is never taken for a new one.
THEOREM DamageNoticed ==
  ASSUME Single
  PROVE  Spec => []DamageIsNoticed
<1>1. IInv => DamageIsNoticed
  <2> SUFFICES ASSUME IInv, ~ shortRead, ~ Unsettled
               PROVE  /\ db.len <= CommittedSize
                      /\ db.len < CommittedSize => db.len >= 1 /\ db.buf[1].size > db.len
    BY DEF DamageIsNoticed
  <2>1. /\ db.len \in Nat /\ CommittedSize \in Nat
        /\ db.len <= CommittedSize /\ (db.len = 0 => CommittedSize = 0)
        /\ \A p \in 1..db.len : db.buf[p] = image[p]
    BY SettledFile
  <2>2. ASSUME db.len < CommittedSize PROVE db.len >= 1 /\ db.buf[1].size > db.len
    <3>1. db.len >= 1 /\ 1 \in 1..db.len
      BY <2>1, <2>2
    <3>2. db.buf[1].size = CommittedSize
      BY <2>1, <3>1 DEF CommittedSize
    <3> QED BY <2>1, <2>2, <3>1, <3>2
  <2> QED BY <2>1, <2>2
<1> QED BY <1>1, Invariance, PTL

\* A clean page in the cache of a connection with a lock is the page on the file: neither
\* the writes of pagerStress, nor the check of dbFileVers, nor a recovery leaves a stale one.
THEOREM CacheIsCoherent ==
  ASSUME Single
  PROVE  Spec => []CacheCoherent
<1>1. IInv => CacheCoherent
  <2> SUFFICES ASSUME IInv, ~ shortRead, NEW p \in 1..db.len, eState[me] # "OPEN",
                      cache[me][p] # None, p \notin dirty[me]
               PROVE  cache[me][p] = db.buf[p]
    BY OnlyMe DEF CacheCoherent
  <2>1. p \in Pages /\ me \in Conns
    BY OnlyMe, HeaderOfFile, PagesFacts DEF IInv, Shape, Pages
  <2>2. CASE HasJournal(me)
    BY <2>1, <2>2 DEF IInv, InWriting, Traced
  <2>3. CASE ~ HasJournal(me)
    <3>1. eState[me] \in {"READER", "LOCKED"}
      BY <2>1, <2>3 DEF IInv, Shape, HasJournal
    <3>2. ~ jrnl.exists
      BY <3>1 DEF IInv, Seen
    <3> QED BY <2>3, <3>2 DEF IInv, Kept
  <2> QED BY <2>2, <2>3
<1> QED BY <1>1, Invariance, PTL

=============================================================================
