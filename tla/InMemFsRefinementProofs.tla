---------------------- MODULE InMemFsRefinementProofs ----------------------
(***************************************************************************)
(* InMemFs implements FileStore, for every number of names, handles and    *)
(* addresses and any data, when no name is too long to be found again.     *)
(***************************************************************************)
EXTENDS InMemFsRefinement, InMemFsProofs

\* What the store shows of a file, without the search of the list.
FileView ==
  \A n \in Names :
    /\ \A f \in Linked :
         zName[f] = n => /\ StoredContent[n] = ContentOf(f)
                         /\ n \in Doomed <=> deleteOnClose[f]
    /\ (\A f \in Linked : zName[f] # n) => StoredContent[n] = NULL /\ n \notin Doomed

\* The search finds the one file of a name, if there is one.
LEMMA ViewCorrect ==
  ASSUME LongNames = {}
  PROVE  IInv => FileView
<1> SUFFICES ASSUME IInv, NEW n \in Names
             PROVE  /\ \A f \in Linked :
                         zName[f] = n => /\ StoredContent[n] = ContentOf(f)
                                         /\ n \in Doomed <=> deleteOnClose[f]
                    /\ (\A f \in Linked : zName[f] # n) =>
                         StoredContent[n] = NULL /\ n \notin Doomed
  BY DEF FileView
<1>1. TypeOK /\ UniqueNames
  BY DEF IInv
<1>2. ASSUME NEW f \in Linked, zName[f] = n
      PROVE  Exists(n) /\ FindFile(n) = f
  BY <1>1, <1>2, FindFileCorrect DEF UniqueNames
<1>3. ASSUME \A f \in Linked : zName[f] # n
      PROVE  ~Exists(n)
  BY <1>1, <1>3, FindFileCorrect
<1> QED BY <1>2, <1>3 DEF StoredContent, Doomed

\* Functions over the names and handles, a subset of the names.
LEMMA Shapes ==
  /\ StoredContent = [n \in Names |-> StoredContent[n]]
  /\ Doomed \subseteq Names
  /\ Opened = [h \in Handles |-> Opened[h]]
BY DEF StoredContent, Doomed, Opened

\* The same of the next state.
LEMMA ShapesNext ==
  /\ StoredContent' = [n \in Names |-> StoredContent'[n]]
  /\ Doomed' \subseteq Names
  /\ Opened' = [h \in Handles |-> Opened'[h]]
BY DEF StoredContent, Doomed, Opened

\* The content of a file in the list is a sequence of bytes, and not NULL.
LEMMA ContentCorrect ==
  ASSUME IInv, NEW f \in Linked
  PROVE  /\ ContentOf(f) \in Seq(Bytes) /\ ContentOf(f) # NULL
         /\ Len(ContentOf(f)) = len[f]
         /\ \A i \in 1..len[f] : ContentOf(f)[i] = buf[f][i]
<1>1. f \in Files
  BY LinkedFiles DEF IInv
<1>2. buf[f] \in Seq(Bytes) /\ len[f] \in Nat /\ len[f] <= Len(buf[f]) /\ Len(buf[f]) \in Nat
  BY <1>1, LenProperties DEF IInv, TypeOK, LenWithinCapacity
<1>3. /\ SubSeq(buf[f], 1, len[f]) \in Seq(Bytes)
      /\ Len(SubSeq(buf[f], 1, len[f])) = len[f]
      /\ \A i \in 1..len[f] : SubSeq(buf[f], 1, len[f])[i] = buf[f][i]
  BY <1>2, SubSeqProperties
<1> QED BY <1>3, BytesAssumption DEF ContentOf

\* An open handle is open on the name of its file.
LEMMA OpenedCorrect ==
  ASSUME LongNames = {}, IInv, NEW n \in Names, NEW f \in Linked, zName[f] = n,
         NEW g \in Handles
  PROVE  Opened[g] = n <=> fd[g] = f
<1>1. f # NULL /\ n # NULL
  BY LinkedFiles, FilesAssumption, NamesAssumption DEF IInv
<1>2. ASSUME fd[g] = f PROVE Opened[g] = n
  BY <1>1, <1>2 DEF Opened, IInv, SameNameSameFile
<1>3. ASSUME Opened[g] = n PROVE fd[g] = f
  <2>1. fd[g] # NULL /\ cFileName[g] = n
    BY <1>1, <1>3 DEF Opened
  <2>2. fd[g] \in Linked /\ zName[fd[g]] = n
    BY <2>1 DEF IInv, NoDanglingHandle, SameNameSameFile
  <2> QED BY <2>2 DEF IInv, UniqueNames
<1> QED BY <1>2, <1>3

----------------------------------------------------------------------------
(* When the store does not change. *)

\* A name whose file, if any, stays in place with its content shows the same.
LEMMA SameName ==
  ASSUME FileView, FileView', NEW n \in Names,
         \A f : f \in Linked /\ zName[f] = n <=> f \in Linked' /\ zName'[f] = n,
         \A f \in Linked : zName[f] = n =>
            ContentOf(f)' = ContentOf(f) /\ (deleteOnClose'[f] <=> deleteOnClose[f])
  PROVE  StoredContent'[n] = StoredContent[n] /\ (n \in Doomed' <=> n \in Doomed)
<1>1. CASE \E f \in Linked : zName[f] = n
  <2>1. PICK f \in Linked : zName[f] = n
    BY <1>1
  <2>2. f \in Linked' /\ zName'[f] = n
    BY <2>1
  <2>3. StoredContent[n] = ContentOf(f) /\ (n \in Doomed <=> deleteOnClose[f])
    BY <2>1 DEF FileView
  <2>4. StoredContent'[n] = ContentOf(f)' /\ (n \in Doomed' <=> deleteOnClose'[f])
    BY <2>2 DEF FileView
  <2> QED BY <2>1, <2>3, <2>4
<1>2. CASE ~\E f \in Linked : zName[f] = n
  <2>1. StoredContent[n] = NULL /\ n \notin Doomed
    BY <1>2 DEF FileView
  <2>2. \A f \in Linked' : zName'[f] # n
    BY <1>2
  <2>3. StoredContent'[n] = NULL /\ n \notin Doomed'
    BY <2>2 DEF FileView
  <2> QED BY <2>1, <2>3
<1> QED BY <1>1, <1>2

\* When only other things happen, the store stays as it is.
LEMMA SameStore ==
  ASSUME FileView, FileView', fileList' = fileList, zName' = zName,
         deleteOnClose' = deleteOnClose,
         \A f \in Linked : ContentOf(f)' = ContentOf(f)
  PROVE  StoredContent' = StoredContent /\ Doomed' = Doomed
<1>1. Linked' = Linked
  BY DEF Linked
<1>2. \A n \in Names :
        StoredContent'[n] = StoredContent[n] /\ (n \in Doomed' <=> n \in Doomed)
  BY <1>1, SameName
<1> QED BY <1>2, Shapes, ShapesNext

\* The store stays as it is when names, data and marks do.
LEMMA SameData ==
  ASSUME FileView, FileView', UNCHANGED <<fileList, zName, buf, len, deleteOnClose>>
  PROVE  StoredContent' = StoredContent /\ Doomed' = Doomed
<1>1. \A f \in Linked : ContentOf(f)' = ContentOf(f)
  BY DEF ContentOf
<1> QED BY <1>1, SameStore

\* Unchanged handles are open on unchanged names.
LEMMA SameHandles ==
  ASSUME fd' = fd, cFileName' = cFileName
  PROVE  Opened' = Opened
BY DEF Opened

----------------------------------------------------------------------------
(* Steps. *)

\* The file system starts empty, as the store does.
LEMMA InitRefines == ASSUME LongNames = {}, Init PROVE store!Init
<1>1. FileView
  BY InitIInv, ViewCorrect
<1>2. Linked = {}
  BY DEF Init, Linked, Range
<1>3. \A n \in Names : StoredContent[n] = NULL /\ n \notin Doomed
  BY <1>1, <1>2 DEF FileView
<1>4. StoredContent = [n \in Names |-> NULL] /\ Doomed = {}
  BY <1>3, Shapes
<1>5. Opened = [h \in Handles |-> NULL]
  BY DEF Init, Opened
<1> QED BY <1>4, <1>5 DEF Init, store!Init

\* fs_init starts the store.
LEMMA FsInitRefines ==
  ASSUME FileView, FileView', FsInit PROVE store!Start
<1>1. StoredContent' = StoredContent /\ Doomed' = Doomed
  BY SameData DEF FsInit, fileVars, dataVars
<1>2. Opened' = Opened
  BY SameHandles DEF FsInit, handleVars
<1> QED BY <1>1, <1>2 DEF FsInit, store!Start

\* fs_deinit empties the store.
LEMMA FsDeinitRefines ==
  ASSUME FileView, FileView', FsDeinit PROVE store!Stop
<1>1. Linked' = {}
  BY DEF FsDeinit, Linked, Range
<1>2. \A n \in Names : StoredContent'[n] = NULL /\ n \notin Doomed'
  BY <1>1 DEF FileView
<1>3. StoredContent' = [n \in Names |-> NULL] /\ Doomed' = {}
  BY <1>2, ShapesNext
<1>4. Opened' = Opened
  BY SameHandles DEF FsDeinit, handleVars
<1>5. \A h \in Handles : Opened[h] = NULL
  BY DEF FsDeinit, Opened
<1> QED BY <1>3, <1>4, <1>5 DEF FsDeinit, store!Stop

\* Reading a null name crashes both.
LEMMA cOpenTempRefines ==
  ASSUME FileView, FileView', NEW h \in Handles, cOpenTemp(h) PROVE store!Crash
<1>1. StoredContent' = StoredContent /\ Doomed' = Doomed
  BY SameData DEF cOpenTemp, fileVars, dataVars
<1>2. Opened' = Opened
  BY SameHandles DEF cOpenTemp, handleVars
<1> QED BY <1>1, <1>2 DEF cOpenTemp, CanOpen, store!Crash

\* A step that leaves the files and the handles alone is a stutter.
LEMMA Stutters ==
  ASSUME FileView, FileView', UNCHANGED <<status, fileList, zName, buf, len, deleteOnClose>>,
         UNCHANGED handleVars
  PROVE  UNCHANGED store!vars
<1>1. StoredContent' = StoredContent /\ Doomed' = Doomed
  BY SameData
<1>2. Opened' = Opened
  BY SameHandles DEF handleVars
<1> QED BY <1>1, <1>2 DEF store!vars
\* Bind: the handle is opened on the name.
LEMMA BindOpens ==
  ASSUME IInv, NEW h \in Handles, NEW n \in Names, NEW f, f # NULL, CanOpen(h), Bind(h, n, f)
  PROVE  Opened[h] = NULL /\ Opened' = [Opened EXCEPT ![h] = n]
<1>1. fd' = [fd EXCEPT ![h] = f] /\ cFileName' = [cFileName EXCEPT ![h] = n]
  BY DEF Bind
<1>2. \A g \in Handles : Opened'[g] = IF g = h THEN n ELSE Opened[g]
  BY <1>1 DEF Opened, IInv, TypeOK
<1>3. Opened[h] = NULL
  BY DEF CanOpen, Opened
<1> QED BY <1>2, <1>3, Shapes, ShapesNext

\* Opening a file that exists leaves its content alone.
LEMMA OpenExistingRefines ==
  ASSUME LongNames = {}, IInv, FileView, FileView',
         NEW h \in Handles, NEW n \in Names, NEW flags, OpenExisting(h, n, flags)
  PROVE  store!Open(h, n, FALSE, "DELETEONCLOSE" \in flags)
<1>1. PICK f : f = FindFile(n)
  OBVIOUS
<1>2. f \in Linked /\ f \in Files /\ zName[f] = n /\ f # NULL
  BY <1>1, FindFileCorrect, LinkedFiles, FilesAssumption DEF IInv, OpenExisting
<1>3. /\ CanOpen(h) /\ Bind(h, n, f)
      /\ deleteOnClose' = [deleteOnClose EXCEPT ![f] = @ \/ "DELETEONCLOSE" \in flags]
      /\ UNCHANGED <<status, fileList, zName, buf, len>>
  BY <1>1 DEF OpenExisting, dataVars
<1>4. Opened[h] = NULL /\ Opened' = [Opened EXCEPT ![h] = n]
  BY <1>2, <1>3, BindOpens
<1>5. Linked' = Linked /\ \A g : ContentOf(g)' = ContentOf(g)
  BY <1>3 DEF Linked, ContentOf
<1>6. ASSUME NEW m \in Names, m # n
      PROVE  StoredContent'[m] = StoredContent[m] /\ (m \in Doomed' <=> m \in Doomed)
  <2>1. \A g \in Linked : zName[g] = m => (deleteOnClose'[g] <=> deleteOnClose[g])
    BY <1>2, <1>3, <1>6, LinkedFiles DEF IInv, TypeOK
  <2> QED BY <1>3, <1>5, <2>1, SameName
<1>7. StoredContent[n] # NULL /\ StoredContent'[n] = StoredContent[n]
  BY <1>2, <1>3, <1>5, ContentCorrect DEF FileView
<1>8. n \in Doomed' <=> n \in Doomed \/ "DELETEONCLOSE" \in flags
  <2>1. deleteOnClose'[f] = (deleteOnClose[f] \/ "DELETEONCLOSE" \in flags)
    BY <1>2, <1>3 DEF IInv, TypeOK
  <2>2. n \in Doomed <=> deleteOnClose[f]
    BY <1>2 DEF FileView
  <2>3. n \in Doomed' <=> deleteOnClose'[f]
    BY <1>2, <1>3, <1>5 DEF FileView
  <2> QED BY <2>1, <2>2, <2>3
<1>9. StoredContent' =
        [StoredContent EXCEPT ![n] = IF @ = NULL THEN <<>> ELSE @]
  BY <1>6, <1>7, Shapes, ShapesNext
<1>10. Doomed' = IF "DELETEONCLOSE" \in flags THEN Doomed \cup {n} ELSE Doomed
  <2>1. Doomed \subseteq Names /\ Doomed' \subseteq Names
    BY Shapes, ShapesNext
  <2>2. CASE "DELETEONCLOSE" \in flags
    <3>1. Doomed' = Doomed \cup {n}
      BY <1>6, <1>8, <2>1, <2>2
    <3> QED BY <2>2, <3>1
  <2>3. CASE "DELETEONCLOSE" \notin flags
    <3>1. Doomed' = Doomed
      BY <1>6, <1>8, <2>1, <2>3
    <3> QED BY <2>3, <3>1
  <2> QED BY <2>2, <2>3
<1> QED BY <1>3, <1>4, <1>9, <1>10 DEF CanOpen, store!Open

\* Opening a missing file makes an empty one.
LEMMA OpenNewRefines ==
  ASSUME LongNames = {}, IInv, IInv', FileView, FileView',
         NEW h \in Handles, NEW n \in Names, NEW flags, NEW f \in Files,
         OpenNew(h, n, flags, f)
  PROVE  store!Open(h, n, FALSE, "DELETEONCLOSE" \in flags)
<1>1. /\ CanOpen(h) /\ ~Exists(n) /\ Bind(h, n, f)
      /\ zName' = [zName EXCEPT ![f] = n]
      /\ len' = [len EXCEPT ![f] = 0]
      /\ deleteOnClose' =
           [deleteOnClose EXCEPT ![f] = "DELETEONCLOSE" \in flags /\ StrEquals(n, n)]
      /\ Link(f) /\ UNCHANGED status
  BY DEF OpenNew
<1>2. StrEquals(n, n)
  BY DEF StrEquals
<1>3. PICK g \in Garbage(InitCap) : buf' = [buf EXCEPT ![f] = g]
  BY DEF OpenNew
<1>4. f \notin Linked /\ Linked \subseteq Files /\ f # NULL
  <2>1. \A e \in Linked : Blocks(e) \subseteq heap /\ Blocks(e) # {}
    BY BlocksDistinct DEF IInv, NoLeak
  <2> QED BY <2>1, LinkedFiles, FilesAssumption DEF IInv, OpenNew
<1>5. Linked' = Linked \cup {f}
  BY <1>1, <1>4, LinkRange DEF Link, Linked, IInv, TypeOK
<1>6. Opened[h] = NULL /\ Opened' = [Opened EXCEPT ![h] = n]
  BY <1>1, <1>4, BindOpens
<1>7. \A e \in Linked : zName[e] # n
  BY <1>1, FindFileCorrect DEF IInv
<1>8. StoredContent[n] = NULL /\ n \notin Doomed
  BY <1>7 DEF FileView
<1>9. \A e \in Linked : /\ zName'[e] = zName[e] /\ ContentOf(e)' = ContentOf(e)
                        /\ deleteOnClose'[e] = deleteOnClose[e]
  BY <1>1, <1>3, <1>4 DEF ContentOf, IInv, TypeOK
<1>10. zName'[f] = n /\ len'[f] = 0 /\ (deleteOnClose'[f] <=> "DELETEONCLOSE" \in flags)
  BY <1>1, <1>2 DEF IInv, TypeOK
<1>11. ASSUME NEW m \in Names, m # n
       PROVE  StoredContent'[m] = StoredContent[m] /\ (m \in Doomed' <=> m \in Doomed)
  <2>1. \A e : e \in Linked /\ zName[e] = m <=> e \in Linked' /\ zName'[e] = m
    BY <1>4, <1>5, <1>9, <1>10, <1>11
  <2> QED BY <1>9, <2>1, SameName
<1>12. StoredContent'[n] = <<>> /\ (n \in Doomed' <=> "DELETEONCLOSE" \in flags)
  <2>1. ContentOf(f)' = <<>>
    BY <1>10 DEF ContentOf
  <2> QED BY <1>5, <1>10, <2>1 DEF FileView
<1>13. StoredContent' =
         [StoredContent EXCEPT ![n] = IF @ = NULL THEN <<>> ELSE @]
  BY <1>8, <1>11, <1>12, Shapes, ShapesNext
<1>14. Doomed' = IF "DELETEONCLOSE" \in flags THEN Doomed \cup {n} ELSE Doomed
  <2>1. Doomed \subseteq Names /\ Doomed' \subseteq Names
    BY Shapes, ShapesNext
  <2>2. CASE "DELETEONCLOSE" \in flags
    <3>1. Doomed' = Doomed \cup {n}
      BY <1>8, <1>11, <1>12, <2>1, <2>2
    <3> QED BY <2>2, <3>1
  <2>3. CASE "DELETEONCLOSE" \notin flags
    <3>1. Doomed' = Doomed
      BY <1>8, <1>11, <1>12, <2>1, <2>3
    <3> QED BY <2>3, <3>1
  <2> QED BY <2>2, <2>3
<1> QED BY <1>1, <1>6, <1>13, <1>14 DEF CanOpen, store!Open
\* A handle's close, as the store sees it.
LEMMA HandleCloses ==
  ASSUME IInv, NEW h \in Handles, fd' = [fd EXCEPT ![h] = NULL], cFileName' = cFileName
  PROVE  Opened' = [Opened EXCEPT ![h] = NULL]
<1>1. \A g \in Handles : Opened'[g] = IF g = h THEN NULL ELSE Opened[g]
  BY DEF Opened, IInv, TypeOK
<1> QED BY <1>1, Shapes, ShapesNext

\* A file leaves the list: its name has no file any more, and no other changes.
LEMMA FileGoes ==
  ASSUME LongNames = {}, IInv, FileView, FileView', NEW n \in Names, NEW f \in Linked,
         zName[f] = n, Unlink(f), Free(f)
  PROVE  /\ StoredContent' = [StoredContent EXCEPT ![n] = NULL]
         /\ Doomed' = Doomed \ {n}
<1>1. Linked' = Linked \ {f} /\ Linked \subseteq Files
  <2>1. fileList \in Seq(Files) /\ IsInjective(fileList) /\ f \in Range(fileList)
    BY DEF IInv, TypeOK, Linked
  <2> QED BY <2>1, UnlinkRange, LinkedFiles DEF Unlink, Linked, IInv
<1>2. \A e \in Linked \ {f} :
        /\ zName'[e] = zName[e] /\ zName[e] # n
        /\ ContentOf(e)' = ContentOf(e) /\ deleteOnClose'[e] = deleteOnClose[e]
  BY <1>1 DEF Free, ContentOf, IInv, TypeOK, UniqueNames
<1>3. StoredContent'[n] = NULL /\ n \notin Doomed'
  BY <1>1, <1>2 DEF FileView
<1>4. ASSUME NEW m \in Names, m # n
      PROVE  StoredContent'[m] = StoredContent[m] /\ (m \in Doomed' <=> m \in Doomed)
  <2>1. \A e : e \in Linked /\ zName[e] = m <=> e \in Linked' /\ zName'[e] = m
    BY <1>1, <1>2, <1>4
  <2>2. \A e \in Linked : zName[e] = m =>
          ContentOf(e)' = ContentOf(e) /\ (deleteOnClose'[e] <=> deleteOnClose[e])
    BY <1>2, <1>4
  <2> QED BY <2>1, <2>2, SameName
<1>5. StoredContent' = [StoredContent EXCEPT ![n] = NULL]
  BY <1>3, <1>4, Shapes, ShapesNext
<1>6. Doomed' = Doomed \ {n}
  BY <1>3, <1>4, Shapes, ShapesNext
<1> QED BY <1>5, <1>6

\* ref is 1 exactly when no other handle is open on the name.
LEMMA cCloseRefines ==
  ASSUME LongNames = {}, IInv, FileView, FileView', NEW h \in Handles, cClose(h)
  PROVE  store!Close(h)
<1>1. PICK f : f = fd[h] /\ f \in Files /\ f \in Linked /\ f # NULL
  BY LinkedFiles, FilesAssumption DEF IInv, cClose, IsOpen, NoDanglingHandle
<1>2. PICK n : n = cFileName[h] /\ n = zName[f] /\ Opened[h] = n
  BY <1>1 DEF IInv, SameNameSameFile, Opened
<1>3. n \in Names /\ n # NULL
  BY <1>1, <1>2, NamesAssumption DEF IInv, SameNameSameFile
<1>4. \A g \in Handles : Opened[g] = n <=> fd[g] = f
  BY <1>1, <1>2, <1>3, OpenedCorrect
<1>5. ref[f] = 1 <=> \A g \in Handles \ {h} : Opened[g] # n
  <2>1. IsFiniteSet(OpenHandles(f)) /\ h \in OpenHandles(f) /\ ref[f] = Cardinality(OpenHandles(f))
    BY <1>1, OpenHandlesFinite DEF IInv, RefCountsOpenHandles, OpenHandles
  <2>2. Cardinality(OpenHandles(f)) = 1 <=> OpenHandles(f) = {h}
    BY <2>1, FS_Singleton
  <2>3. OpenHandles(f) = {h} <=> \A g \in Handles \ {h} : fd[g] # f
    BY <1>1 DEF OpenHandles
  <2> QED BY <1>4, <2>1, <2>2, <2>3
<1>6. n \in Doomed <=> deleteOnClose[f]
  BY <1>1, <1>2, <1>3 DEF FileView
<1>7. Opened' = [Opened EXCEPT ![h] = NULL]
  BY HandleCloses DEF cClose
<1>8. CASE LastClose(f)
  <2>1. Unlink(f) /\ Free(f)
    BY <1>1, <1>8 DEF cClose
  <2>2. StoredContent' = [StoredContent EXCEPT ![n] = NULL] /\ Doomed' = Doomed \ {n}
    BY <1>1, <1>2, <1>3, <2>1, FileGoes
  <2>3. n \in Doomed /\ \A g \in Handles \ {h} : Opened[g] # n
    BY <1>5, <1>6, <1>8 DEF LastClose
  <2> QED BY <1>2, <1>3, <1>7, <2>2, <2>3 DEF cClose, IsOpen, store!Close, store!IsOpen
<1>9. CASE ~LastClose(f)
  <2>1. UNCHANGED <<fileList, zName, buf, len, deleteOnClose>>
    BY <1>1, <1>9 DEF cClose, dataVars
  <2>2. StoredContent' = StoredContent /\ Doomed' = Doomed
    BY <2>1, SameData
  <2>3. ~(n \in Doomed /\ \A g \in Handles \ {h} : Opened[g] # n)
    BY <1>5, <1>6, <1>9 DEF LastClose
  <2> QED BY <1>2, <1>3, <1>7, <2>2, <2>3 DEF cClose, IsOpen, store!Close, store!IsOpen
<1> QED BY <1>8, <1>9
\* What an open handle is open on.
LEMMA OpenOn ==
  ASSUME LongNames = {}, IInv, FileView, NEW h \in Handles, IsOpen(h)
  PROVE  \E f \in Linked, n \in Names :
           /\ f = fd[h] /\ f \in Files /\ zName[f] = n /\ Opened[h] = n
           /\ store!IsOpen(h)
           /\ StoredContent[n] = ContentOf(f)
<1>1. PICK f : f = fd[h] /\ f \in Linked /\ f \in Files /\ f # NULL
  BY LinkedFiles, FilesAssumption DEF IInv, IsOpen, NoDanglingHandle
<1>2. PICK n \in Names : n = cFileName[h] /\ zName[f] = n /\ n # NULL
  BY <1>1, NamesAssumption DEF IInv, SameNameSameFile
<1>3. Opened[h] = n
  BY <1>1, <1>2 DEF Opened
<1>4. store!IsOpen(h)
  BY <1>2, <1>3 DEF IsOpen, store!IsOpen
<1>5. StoredContent[n] = ContentOf(f)
  BY <1>1, <1>2 DEF FileView
<1> QED BY <1>1, <1>2, <1>3, <1>4, <1>5

\* One file's content is replaced.
LEMMA OneFileChanges ==
  ASSUME LongNames = {}, IInv, FileView, FileView', NEW n \in Names, NEW f \in Linked,
         zName[f] = n, UNCHANGED <<fileList, zName, deleteOnClose>>,
         \A g \in Linked \ {f} : ContentOf(g)' = ContentOf(g)
  PROVE  StoredContent' = [StoredContent EXCEPT ![n] = ContentOf(f)'] /\ Doomed' = Doomed
<1>1. Linked' = Linked
  BY DEF Linked
<1>2. StoredContent'[n] = ContentOf(f)' /\ (n \in Doomed' <=> n \in Doomed)
  BY <1>1 DEF FileView
<1>3. ASSUME NEW m \in Names, m # n
      PROVE  StoredContent'[m] = StoredContent[m] /\ (m \in Doomed' <=> m \in Doomed)
  <2>1. \A g \in Linked : zName[g] = m => ContentOf(g)' = ContentOf(g)
    BY <1>3
  <2> QED BY <1>1, <2>1, SameName
<1> QED BY <1>2, <1>3, Shapes, ShapesNext

\* Only the data of one file is assigned to.
LEMMA OtherContents ==
  ASSUME IInv, NEW f \in Files, NEW b, NEW m,
         buf' = [buf EXCEPT ![f] = b], len' = [len EXCEPT ![f] = m]
  PROVE  /\ ContentOf(f)' = SubSeq(b, 1, m)
         /\ \A g \in Linked \ {f} : ContentOf(g)' = ContentOf(g)
<1>1. buf'[f] = b /\ len'[f] = m
  BY DEF IInv, TypeOK
<1>2. \A g \in Linked \ {f} : buf'[g] = buf[g] /\ len'[g] = len[g]
  BY LinkedFiles DEF IInv, TypeOK
<1> QED BY <1>1, <1>2 DEF ContentOf

\* What a write makes of a file is what the store says of it: the bytes that were
\* there, arbitrary ones up to the write, and the bytes written.
LEMMA WrittenContent ==
  ASSUME NEW c \in Seq(Bytes), NEW b \in Seq(Bytes), NEW d \in Seq(Bytes), NEW off \in Nat,
         Len(b) >= off + Len(d), Len(b) >= Len(c), \A i \in 1..Len(c) : b[i] = c[i]
  PROVE  \E gap \in [(Len(c) + 1)..off -> Bytes] :
           SubSeq(CopyData(b, off, d), 1, off + Len(d)) = store!Written(c, off, d, gap)
<1> DEFINE m == off + Len(d)
           w == CopyData(b, off, d)
           gap == [i \in (Len(c) + 1)..off |-> b[i]]
<1>1. Len(c) \in Nat /\ Len(b) \in Nat /\ Len(d) \in Nat /\ m \in Nat
  BY LenProperties
<1>2. gap \in [(Len(c) + 1)..off -> Bytes]
  <2>1. \A i \in (Len(c) + 1)..off : b[i] \in Bytes
    <3>1. \A i \in (Len(c) + 1)..off : i \in 1..Len(b)
      BY <1>1
    <3> QED BY <3>1
  <2> QED BY <2>1
<1>3. /\ w \in Seq(Bytes) /\ Len(w) = Len(b)
  BY CopyDataCorrect
<1>4. \A i \in 1..m : i \in 1..Len(b)
  BY <1>1
<1>5. \A i \in 1..m : w[i] = IF i > off THEN d[i - off] ELSE b[i]
  BY <1>1, <1>4 DEF CopyData
<1>6. m <= Len(w)
  BY <1>1, <1>3
<1> HIDE DEF m, w
<1>7. SubSeq(w, 1, m) = [i \in 1..m |-> w[i]]
  BY <1>1, <1>3, <1>6
<1>8. \A i \in 1..m :
        w[i] = IF i > off THEN d[i - off] ELSE IF i <= Len(c) THEN c[i] ELSE gap[i]
  <2>1. ASSUME NEW i \in 1..m, ~(i > off), i <= Len(c) PROVE b[i] = c[i]
    BY <1>1, <2>1
  <2>2. ASSUME NEW i \in 1..m, ~(i > off), ~(i <= Len(c)) PROVE b[i] = gap[i]
    <3>1. i \in (Len(c) + 1)..off
      BY <1>1, <2>2
    <3> QED BY <3>1
  <2> HIDE DEF gap
  <2> QED BY <1>5, <2>1, <2>2
<1>9. SubSeq(w, 1, m) = store!Written(c, off, d, gap)
  BY <1>7, <1>8 DEF store!Written, m
<1> QED BY <1>2, <1>9 DEF m, w

\* A write to the buffer is one of the store's writes.
LEMMA cWriteRefines ==
  ASSUME LongNames = {}, IInv, FileView, FileView',
         NEW h \in Handles, NEW off \in Offsets, NEW d \in Data, cWrite(h, off, d)
  PROVE  store!Write(h, off, d)
<1>1. off \in Nat /\ d \in Seq(Bytes) /\ Len(d) \in Nat
  BY SizesAssumption, LenProperties DEF cWrite
<1>2. PICK f \in Linked, n \in Names :
         /\ f = fd[h] /\ f \in Files /\ zName[f] = n /\ Opened[h] = n /\ store!IsOpen(h)
         /\ StoredContent[n] = ContentOf(f)
  BY OpenOn DEF cWrite
<1>3. PICK b \in EnsureCapacity(buf[f], off + Len(d)) :
        buf' = [buf EXCEPT ![f] = CopyData(b, off, d)]
  BY <1>2 DEF cWrite
<1>4. /\ len' = [len EXCEPT ![f] = off + Len(d)]
      /\ UNCHANGED <<status, fileList, zName, deleteOnClose, fd, cFileName>>
  BY <1>2 DEF cWrite, LenAfterWrite, handleVars
<1>5. /\ buf[f] \in Seq(Bytes) /\ len[f] \in Nat /\ len[f] <= Len(buf[f])
  BY <1>2 DEF IInv, TypeOK, LenWithinCapacity
<1>6. /\ b \in Seq(Bytes) /\ Len(b) >= off + Len(d) /\ Len(b) >= Len(buf[f])
      /\ \A i \in 1..Len(buf[f]) : b[i] = buf[f][i]
  BY <1>1, <1>5, EnsureCapacityCorrect
<1>7. PICK c \in Seq(Bytes) : /\ c = ContentOf(f) /\ Len(c) = len[f]
                             /\ \A i \in 1..len[f] : c[i] = buf[f][i]
  BY ContentCorrect
<1>8. Len(b) >= Len(c) /\ \A i \in 1..Len(c) : b[i] = c[i]
  <2>1. Len(b) \in Nat /\ Len(buf[f]) \in Nat
    BY <1>5, <1>6, LenProperties
  <2> QED BY <1>5, <1>6, <1>7, <2>1
<1>9. PICK gap \in [(Len(c) + 1)..off -> Bytes] :
        SubSeq(CopyData(b, off, d), 1, off + Len(d)) = store!Written(c, off, d, gap)
  BY <1>1, <1>6, <1>8, WrittenContent
<1>10. /\ ContentOf(f)' = store!Written(c, off, d, gap)
       /\ \A g \in Linked \ {f} : ContentOf(g)' = ContentOf(g)
  BY <1>2, <1>3, <1>4, <1>9, OtherContents
<1>11. /\ StoredContent' = [StoredContent EXCEPT ![n] = store!Written(c, off, d, gap)]
       /\ Doomed' = Doomed
  BY <1>2, <1>4, <1>10, OneFileChanges
<1>12. Opened' = Opened
  BY <1>4, SameHandles
<1>13. StoredContent' = [StoredContent EXCEPT ![n] = store!Written(@, off, d, gap)]
  BY <1>2, <1>7, <1>11
<1>14. gap \in [(Len(StoredContent[n]) + 1)..off -> Bytes]
  BY <1>2, <1>7, <1>9
<1>15. \E g \in [(Len(StoredContent[Opened[h]]) + 1)..off -> Bytes] :
         StoredContent' =
           [StoredContent EXCEPT ![Opened[h]] = store!Written(@, off, d, g)]
  BY <1>2, <1>13, <1>14
<1>16. /\ store!IsOpen(h) /\ off >= 0
       /\ status' = status /\ Doomed' = Doomed /\ Opened' = Opened
  BY <1>1, <1>2, <1>4, <1>11, <1>12
<1> QED BY <1>15, <1>16 DEF store!Write

\* Shortening the valid part cuts the content.
LEMMA cTruncateRefines ==
  ASSUME LongNames = {}, IInv, FileView, FileView',
         NEW h \in Handles, NEW size \in Sizes, cTruncate(h, size)
  PROVE  store!Truncate(h, size)
<1>1. PICK f \in Linked, n \in Names :
         /\ f = fd[h] /\ f \in Files /\ zName[f] = n /\ Opened[h] = n /\ store!IsOpen(h)
         /\ StoredContent[n] = ContentOf(f)
  BY OpenOn DEF cTruncate
<1>2. PICK m : m = IF size < len[f] THEN size ELSE len[f]
  OBVIOUS
<1>3. /\ len' = [len EXCEPT ![f] = m] /\ buf' = [buf EXCEPT ![f] = buf[f]]
      /\ UNCHANGED <<status, fileList, zName, deleteOnClose, fd, cFileName>>
  BY <1>1, <1>2 DEF cTruncate, handleVars, IInv, TypeOK
<1>4. /\ buf[f] \in Seq(Bytes) /\ len[f] \in Nat /\ len[f] <= Len(buf[f])
      /\ Len(buf[f]) \in Nat /\ size \in Nat
  BY <1>1, LenProperties, SizesAssumption DEF IInv, TypeOK, LenWithinCapacity
<1>5. PICK c : c = ContentOf(f) /\ c = SubSeq(buf[f], 1, len[f]) /\ Len(c) = len[f]
  BY ContentCorrect DEF ContentOf
<1>6a. PICK e : e = IF size < Len(c) THEN SubSeq(c, 1, size) ELSE c
  OBVIOUS
<1>6. SubSeq(buf[f], 1, m) = e
  <2>1. CASE size < len[f]
    <3>1. SubSeq(SubSeq(buf[f], 1, len[f]), 1, size) = SubSeq(buf[f], 1, size)
      BY <1>4, <2>1
    <3> QED BY <1>2, <1>5, <1>6a, <2>1, <3>1
  <2>2. CASE ~(size < len[f])
    BY <1>2, <1>5, <1>6a, <2>2
  <2> QED BY <2>1, <2>2
<1>7. /\ ContentOf(f)' = e
      /\ \A g \in Linked \ {f} : ContentOf(g)' = ContentOf(g)
  <2>1. PICK b : b = buf[f]
    OBVIOUS
  <2>2. buf' = [buf EXCEPT ![f] = b] /\ len' = [len EXCEPT ![f] = m]
    BY <1>3, <2>1
  <2>3. /\ ContentOf(f)' = SubSeq(b, 1, m)
        /\ \A g \in Linked \ {f} : ContentOf(g)' = ContentOf(g)
    <3>1. f \in Files
      BY <1>1
    <3> QED BY <2>2, <3>1, OtherContents
  <2> QED BY <1>6, <2>1, <2>3
<1>8. StoredContent' = [StoredContent EXCEPT ![n] = e] /\ Doomed' = Doomed
  BY <1>1, <1>3, <1>7, OneFileChanges
<1>9. Opened' = Opened
  BY <1>3, SameHandles
<1>10. StoredContent' = [StoredContent EXCEPT ![n] =
                           IF size < Len(@) THEN SubSeq(@, 1, size) ELSE @]
  BY <1>1, <1>5, <1>6a, <1>8
<1> QED BY <1>1, <1>3, <1>8, <1>9, <1>10 DEF store!Truncate

\* A hint keeps every byte of the file.
LEMMA cSizeHintRefines ==
  ASSUME LongNames = {}, IInv, FileView, FileView',
         NEW h \in Handles, NEW size \in Sizes, cSizeHint(h, size)
  PROVE  UNCHANGED store!vars
<1>1. PICK f \in Linked : f = fd[h] /\ f \in Files
  BY OpenOn DEF cSizeHint
<1>2. UNCHANGED <<status, fileList, zName, len, deleteOnClose, fd, cFileName>>
  BY DEF cSizeHint, handleVars
<1>3. CASE buf' = buf
  BY <1>2, <1>3, Stutters DEF handleVars
<1>4. ASSUME NEW b \in EnsureCapacity(buf[f], size), buf' = [buf EXCEPT ![f] = b]
      PROVE  UNCHANGED store!vars
  <2>1. /\ buf[f] \in Seq(Bytes) /\ len[f] \in Nat /\ len[f] <= Len(buf[f])
        /\ Len(buf[f]) \in Nat /\ size \in Int
    BY <1>1, LenProperties, SizesAssumption DEF IInv, TypeOK, LenWithinCapacity
  <2>2. /\ b \in Seq(Bytes) /\ Len(b) >= Len(buf[f])
        /\ \A i \in 1..Len(buf[f]) : b[i] = buf[f][i]
    BY <1>4, <2>1, EnsureCapacityCorrect
  <2>3. SubSeq(b, 1, len[f]) = SubSeq(buf[f], 1, len[f])
    <3>1. \A i \in 1..len[f] : b[i] = buf[f][i]
      BY <2>1, <2>2
    <3>2. Len(b) \in Nat /\ len[f] <= Len(b)
      BY <2>1, <2>2, LenProperties
    <3> QED BY <2>1, <2>2, <3>1, <3>2
  <2>4. len' = [len EXCEPT ![f] = len[f]]
    BY <1>2 DEF IInv, TypeOK
  <2>5. \A g \in Linked : ContentOf(g)' = ContentOf(g)
    <3>1. /\ ContentOf(f)' = SubSeq(b, 1, len[f])
          /\ \A g \in Linked \ {f} : ContentOf(g)' = ContentOf(g)
      BY <1>1, <1>4, <2>4, OtherContents
    <3>2. ContentOf(f)' = ContentOf(f)
      BY <2>3, <3>1 DEF ContentOf
    <3> QED BY <3>1, <3>2
  <2>6. StoredContent' = StoredContent /\ Doomed' = Doomed
    BY <1>2, <2>5, SameStore
  <2> QED BY <1>2, <2>6, SameHandles DEF store!vars
<1> QED BY <1>1, <1>3, <1>4 DEF cSizeHint

\* A delete takes the named file, now or at its last close.
LEMMA cDeleteRefines ==
  ASSUME LongNames = {}, IInv, FileView, FileView', NEW n \in Names, cDelete(n)
  PROVE  store!Delete(n) \/ UNCHANGED store!vars
<1>1. UNCHANGED <<status, fd, cFileName>> /\ status = "on"
  BY DEF cDelete, handleVars
<1>2. CASE ~Exists(n)
  BY <1>1, <1>2, Stutters DEF cDelete, fileVars, dataVars, handleVars
<1>3. CASE Exists(n)
  <2>1. PICK f \in Linked : f = FindFile(n) /\ f \in Files /\ zName[f] = n
    BY <1>3, FindFileCorrect, LinkedFiles DEF IInv
  <2>2. Opened' = Opened
    BY <1>1, SameHandles
  <2>3. StoredContent[n] # NULL
    BY <2>1, ContentCorrect DEF FileView
  <2>4. \A g \in Handles : Opened[g] = n <=> fd[g] = f
    BY <2>1, OpenedCorrect
  <2>5. ref[f] = 0 <=> ~\E g \in Handles : Opened[g] = n
    <3>1. ref[f] = 0 <=> OpenHandles(f) = {}
      BY <2>1, OpenHandlesFinite DEF IInv, RefCountsOpenHandles
    <3> QED BY <2>4, <3>1 DEF OpenHandles
  <2>6. CASE ref[f] = 0
    <3>1. Unlink(f) /\ Free(f)
      BY <1>3, <2>1, <2>6 DEF cDelete
    <3>2. StoredContent' = [StoredContent EXCEPT ![n] = NULL] /\ Doomed' = Doomed \ {n}
      BY <2>1, <3>1, FileGoes
    <3>3. n \notin Doomed
      BY <2>1, <2>6 DEF FileView, IInv, PendingDeleteIsOpen
    <3>4. Doomed' = Doomed
      BY <3>2, <3>3
    <3> QED BY <1>1, <2>2, <2>3, <2>5, <2>6, <3>2, <3>4 DEF store!Delete
  <2>7. CASE ref[f] # 0
    <3>1. /\ deleteOnClose' = [deleteOnClose EXCEPT ![f] = TRUE]
          /\ UNCHANGED <<fileList, zName, buf, len>>
      BY <1>3, <2>1, <2>7 DEF cDelete, dataVars
    <3>2. Linked' = Linked /\ \A g : ContentOf(g)' = ContentOf(g)
      BY <3>1 DEF Linked, ContentOf
    <3>3. StoredContent'[n] = StoredContent[n] /\ n \in Doomed'
      <4>1. deleteOnClose'[f]
        BY <2>1, <3>1 DEF IInv, TypeOK
      <4> QED BY <2>1, <3>1, <3>2, <4>1 DEF FileView
    <3>4. ASSUME NEW m \in Names, m # n
          PROVE  StoredContent'[m] = StoredContent[m] /\ (m \in Doomed' <=> m \in Doomed)
      <4>1. \A g \in Linked : zName[g] = m => (deleteOnClose'[g] <=> deleteOnClose[g])
        BY <2>1, <3>1, <3>4, LinkedFiles DEF IInv, TypeOK
      <4> QED BY <3>1, <3>2, <4>1, SameName
    <3>5. StoredContent' = StoredContent
      BY <3>3, <3>4, Shapes, ShapesNext
    <3>6. Doomed' = Doomed \cup {n}
      BY <3>3, <3>4, Shapes, ShapesNext
    <3> QED BY <1>1, <2>2, <2>3, <2>5, <2>7, <3>5, <3>6 DEF store!Delete
  <2> QED BY <2>6, <2>7
<1> QED BY <1>2, <1>3

\* Every step is one of the store, or changes nothing the store shows.
LEMMA NextRefines ==
  ASSUME LongNames = {}, IInv, IInv', FileView, FileView', [Next]_vars
  PROVE  [store!Next]_store!vars
<1>1. CASE FsInit
  BY <1>1, FsInitRefines DEF store!Next
<1>2. CASE FsDeinit
  BY <1>2, FsDeinitRefines DEF store!Next
<1>3. ASSUME NEW h \in Handles, NEW n \in Names, NEW flags \in SUBSET OpenFlags,
             cOpen(h, n, flags)
      PROVE  [store!Next]_store!vars
  <2>1. CASE OpenRefused(h, n, flags)
    BY <2>1, Stutters DEF OpenRefused, vars, fileVars, dataVars
  <2>2. ("DELETEONCLOSE" \in flags) \in BOOLEAN
    OBVIOUS
  <2>3. CASE OpenExisting(h, n, flags)
    BY <2>2, <2>3, OpenExistingRefines DEF store!Next
  <2>4. CASE \E f \in Files : OpenNew(h, n, flags, f)
    BY <2>2, <2>4, OpenNewRefines DEF store!Next
  <2>5. CASE \E f \in Files, k \in 1..3 : OpenNoMem(h, n, f, k)
    BY <2>5, Stutters DEF OpenNoMem, fileVars, dataVars
  <2> QED BY <1>3, <2>1, <2>3, <2>4, <2>5 DEF cOpen
<1>4. CASE \E h \in Handles : cOpenTemp(h)
  BY <1>4, cOpenTempRefines DEF store!Next
<1>5. CASE \E h \in Handles : cClose(h)
  BY <1>5, cCloseRefines DEF store!Next
<1>6. CASE \E h \in Handles, off \in Offsets, d \in Data : cWrite(h, off, d)
  BY <1>6, cWriteRefines DEF store!Next
<1>7. CASE \E h \in Handles, off \in Offsets, d \in Data : cWriteFails(h, off, d)
  BY <1>7, Stutters DEF cWriteFails, vars, fileVars, dataVars
<1>8. CASE \E h \in Handles, size \in Sizes : cTruncate(h, size)
  BY <1>8, cTruncateRefines DEF store!Next
<1>9. CASE \E h \in Handles, size \in Sizes : cSizeHint(h, size)
  BY <1>9, cSizeHintRefines
<1>10. CASE \E n \in Names : cDelete(n)
  BY <1>10, cDeleteRefines DEF store!Next
<1>11. CASE UNCHANGED vars
  BY <1>11, Stutters DEF vars, fileVars, dataVars
<1> QED BY <1>1, <1>2, <1>3, <1>4, <1>5, <1>6, <1>7, <1>8, <1>9, <1>10, <1>11 DEF Next

\* The file system implements the named store, if every name can be found again.
THEOREM Refinement ==
  ASSUME LongNames = {}
  PROVE  Spec => RefinesFileStore
<1>1. Init => store!Init
  BY InitRefines
<1>2. IInv => FileView
  BY ViewCorrect
<1>3. IInv /\ IInv' /\ FileView /\ FileView' /\ [Next]_vars => [store!Next]_store!vars
  BY NextRefines
<1> QED BY <1>1, <1>2, <1>3, Invariance, PTL DEF Spec, store!Spec, RefinesFileStore
=============================================================================
