------------------------- MODULE InMemFsRefinement -------------------------
(***************************************************************************)
(* InMemFs implements FileStore, as long as no name is too long to be      *)
(* found again (LongNames = {}): the file list, the buffers and their      *)
(* capacity, the reference counts and the reuse of addresses are           *)
(* invisible to the callers of the VFS.                                    *)
(***************************************************************************)
EXTENDS InMemFs

ContentOf(f) == SubSeq(buf[f], 1, len[f])

StoredContent == [n \in Names |-> IF Exists(n) THEN ContentOf(FindFile(n)) ELSE NULL]
Doomed == {n \in Names : Exists(n) /\ deleteOnClose[FindFile(n)]}
Opened == [h \in Handles |-> IF fd[h] = NULL THEN NULL ELSE cFileName[h]]

store == INSTANCE FileStore WITH
  content <- StoredContent,
  doomed  <- Doomed,
  opened  <- Opened

\* Every behaviour of the file system is one of the named store: a file keeps its
\* content, whoever opens and closes it, until a handle of it writes or truncates,
\* and a deletion removes exactly the named file, at once or at its last close.
RefinesFileStore == store!Spec
=============================================================================
