------------------------------ MODULE FileStore ------------------------------
(***************************************************************************)
(* What the in-memory file system promises its caller: a store of named    *)
(* files, with no list, no buffers, no reference counts and no addresses.  *)
(* A name is bound to a content or to nothing; a handle is bound to a      *)
(* name; a deletion that finds the file open waits for its last handle.    *)
(* A call that reports an error changes nothing.  InMemFs is shown to      *)
(* implement this specification (InMemFsRefinement).                       *)
(***************************************************************************)
EXTENDS Integers, Sequences

CONSTANTS Names, Handles, Bytes, Offsets, Data, Sizes, NULL

VARIABLES
  status,   \* "off", "on", "crashed"
  content,  \* the bytes of each name's file, NULL when there is none
  doomed,   \* the names whose file goes away with its last handle
  opened    \* the name each handle is open on, or NULL

vars == <<status, content, doomed, opened>>

Init ==
  /\ status = "off"
  /\ content = [n \in Names |-> NULL]
  /\ doomed = {}
  /\ opened = [h \in Handles |-> NULL]

Start ==
  /\ status = "off"
  /\ status' \in {"on", "crashed"}
  /\ UNCHANGED <<content, doomed, opened>>

\* The store is volatile: nothing outlives a shutdown.
Stop ==
  /\ status = "on"
  /\ \A h \in Handles : opened[h] = NULL
  /\ status' = "off"
  /\ content' = [n \in Names |-> NULL]
  /\ doomed' = {}
  /\ UNCHANGED opened

Crash ==
  /\ status = "on"
  /\ status' = "crashed"
  /\ UNCHANGED <<content, doomed, opened>>

\* Opening always succeeds in creating a missing file.
Open(h, n, exclusive, deleteOnClose) ==
  /\ status = "on" /\ opened[h] = NULL
  /\ exclusive => content[n] = NULL
  /\ content' = [content EXCEPT ![n] = IF @ = NULL THEN <<>> ELSE @]
  /\ doomed' = IF deleteOnClose THEN doomed \cup {n} ELSE doomed
  /\ opened' = [opened EXCEPT ![h] = n]
  /\ UNCHANGED status

IsOpen(h) == status = "on" /\ opened[h] # NULL

Close(h) ==
  LET n == opened[h]
      last == \A g \in Handles \ {h} : opened[g] # n
  IN
  /\ IsOpen(h)
  /\ opened' = [opened EXCEPT ![h] = NULL]
  /\ IF last /\ n \in doomed
     THEN /\ content' = [content EXCEPT ![n] = NULL]
          /\ doomed' = doomed \ {n}
     ELSE UNCHANGED <<content, doomed>>
  /\ UNCHANGED status

\* The file ends where the write ends.  The bytes between the old end of the file
\* and the write are arbitrary.
Written(c, off, d, gap) ==
  [i \in 1..(off + Len(d)) |->
     IF i > off THEN d[i - off] ELSE IF i <= Len(c) THEN c[i] ELSE gap[i]]

Write(h, off, d) ==
  LET n == opened[h] IN
  /\ IsOpen(h)
  /\ off >= 0
  /\ \E gap \in [(Len(content[n]) + 1)..off -> Bytes] :
       content' = [content EXCEPT ![n] = Written(@, off, d, gap)]
  /\ UNCHANGED <<status, doomed, opened>>

Truncate(h, size) ==
  LET n == opened[h] IN
  /\ IsOpen(h)
  /\ content' = [content EXCEPT ![n] = IF size < Len(@) THEN SubSeq(@, 1, size) ELSE @]
  /\ UNCHANGED <<status, doomed, opened>>

Delete(n) ==
  /\ status = "on"
  /\ content[n] # NULL
  /\ IF \E h \in Handles : opened[h] = n
     THEN doomed' = doomed \cup {n} /\ UNCHANGED content
     ELSE content' = [content EXCEPT ![n] = NULL] /\ UNCHANGED doomed
  /\ UNCHANGED <<status, opened>>

Next ==
  \/ Start
  \/ Stop
  \/ Crash
  \/ \E h \in Handles, n \in Names, exclusive, deleteOnClose \in BOOLEAN :
       Open(h, n, exclusive, deleteOnClose)
  \/ \E h \in Handles : Close(h)
  \/ \E h \in Handles, off \in Offsets, d \in Data : Write(h, off, d)
  \/ \E h \in Handles, size \in Sizes : Truncate(h, size)
  \/ \E n \in Names : Delete(n)

Spec == Init /\ [][Next]_vars
=============================================================================
