-------------------------------- MODULE Shell --------------------------------
(***************************************************************************)
(* The example program (shell.c) from sqlite3_initialize to                *)
(* sqlite3_shutdown: how the library installs this system's allocator and  *)
(* file system (sqlite3_os_init, sqlite3_os_end) while it initialises      *)
(* itself, and how the program's statements end, with every answer the     *)
(* library may give them.                                                  *)
(*                                                                         *)
(* One thread; sqlite3_initialize is called by the program, by             *)
(* sqlite3_open, and by itself through sqlite3_malloc and                  *)
(* sqlite3_vfs_register.  What a statement does is left to SQLite: it is   *)
(* prepared or not, gives some rows and ends with some answer.             *)
(*                                                                         *)
(* X_Slip is a mutated form of X.                                          *)
(***************************************************************************)
EXTENDS Naturals, SequencesExt

CONSTANTS
  StatementCount,  \* statement_count
  MaxRows          \* bound: rows of a statement

ASSUME ShellAssumption == StatementCount \in Nat /\ MaxRows \in Nat

VARIABLES
  main,           \* where main() is, its callees of shell.c included
  calls,          \* the sqlite3_initialize in progress: where each is, the innermost last
  initRc,         \* what the last of them to return answered
  isMallocInit, isPCacheInit, isInit, inProgress, nRefInitMutex, \* sqlite3GlobalConfig
  m,              \* sqlite3GlobalConfig.m, the allocator in use
  block,          \* the allocator that gave the block sqlite3OsInit holds
  fileList,       \* _fs_file_list
  vfsList,        \* composite_vfs is registered
  db,             \* the connection
  stmts,          \* statements prepared and not finalized
  next,           \* the statement to run
  rows,           \* rows given since it was (re)started
  answer,         \* what sqlite3_step answered last
  verdict,        \* what main printed
  finished        \* history: statements that ran to SQLITE_DONE and were finalized

libVars == <<isMallocInit, isPCacheInit, isInit, inProgress, nRefInitMutex>>
osVars == <<m, block, fileList, vfsList>>
runVars == <<db, stmts, next, rows, answer, verdict, finished>>
vars == <<main, calls, initRc, libVars, osVars, runVars>>

Statements == 1..StatementCount

\* What sqlite3_step may answer for a statement of sqlite3_prepare.
Answers == {"ROW", "DONE", "ERROR", "BUSY", "MISUSE", "NOMEM"}

----------------------------------------------------------------------------
(* sqlite3_initialize. *)

At(place) == calls # <<>> /\ Last(calls) = place
GoesTo(place) == calls' = Append(Front(calls), place)
CallsFrom(place) == calls' = Front(calls) \o <<place, "enter">>
Returns(rc) == calls' = Front(calls) /\ initRc' = rc

EnterInitialized ==
  /\ At("enter") /\ isInit
  /\ Returns("OK")
  /\ UNCHANGED <<main, libVars, osVars, runVars>>

Enter ==
  /\ At("enter") /\ ~isInit
  /\ isMallocInit' = TRUE
  /\ nRefInitMutex' = nRefInitMutex + 1
  /\ GoesTo("init")
  /\ UNCHANGED <<main, initRc, isPCacheInit, isInit, inProgress, osVars, runVars>>

\* The work is for the outermost call.
Mine_Slip == ~isInit
Mine == ~isInit /\ ~inProgress

\* ... which begins sqlite3OsInit: sqlite3_malloc(10) initialises first.
Begin ==
  /\ At("init") /\ Mine
  /\ inProgress' = TRUE /\ isPCacheInit' = TRUE
  /\ CallsFrom("test")
  /\ UNCHANGED <<main, initRc, isMallocInit, isInit, nRefInitMutex, osVars, runVars>>

PassBy ==
  /\ At("init") /\ ~Mine
  /\ GoesTo("leave")
  /\ UNCHANGED <<main, initRc, libVars, osVars, runVars>>

TestFails ==
  /\ At("test")
  /\ inProgress' = FALSE
  /\ GoesTo("fail")
  /\ UNCHANGED <<main, initRc, isMallocInit, isPCacheInit, isInit, nRefInitMutex, osVars, runVars>>

\* The test block is freed before sqlite3_os_init.
AfterTest_Slip == "os_init"
AfterTest == "free"

Test ==
  /\ At("test") /\ initRc = "OK"
  /\ block' = m
  /\ GoesTo(AfterTest)
  /\ UNCHANGED <<main, initRc, libVars, m, fileList, vfsList, runVars>>

FreeTest ==
  /\ At("free")
  /\ block' = "none"
  /\ GoesTo("os_init")
  /\ UNCHANGED <<main, initRc, libVars, m, fileList, vfsList, runVars>>

\* sqlite3_os_init up to sqlite3_vfs_register, which initialises first.
OsInit ==
  /\ At("os_init")
  /\ m' = "composite"
  /\ fileList' = "live"
  /\ CallsFrom("register")
  /\ UNCHANGED <<main, initRc, libVars, block, vfsList, runVars>>

\* fs_init stores into the sentinel it did not get.
OsInitCrashes ==
  /\ At("os_init")
  /\ m' = "composite"
  /\ main' = "crashed" /\ calls' = <<>>
  /\ UNCHANGED <<initRc, libVars, block, fileList, vfsList, runVars>>

Register ==
  /\ At("register")
  /\ vfsList' = (vfsList \/ initRc = "OK")
  /\ isInit' = TRUE /\ inProgress' = FALSE
  /\ GoesTo("leave")
  /\ UNCHANGED <<main, initRc, isMallocInit, isPCacheInit, nRefInitMutex, m, block, fileList,
                 runVars>>

Leave ==
  /\ At("leave") \/ At("fail")
  /\ nRefInitMutex' = nRefInitMutex - 1
  /\ Returns(IF At("leave") THEN "OK" ELSE "NOMEM")
  /\ UNCHANGED <<main, isMallocInit, isPCacheInit, isInit, inProgress, osVars, runVars>>

Initializing ==
  \/ EnterInitialized \/ Enter \/ Begin \/ PassBy \/ TestFails \/ Test \/ FreeTest
  \/ OsInit \/ OsInitCrashes \/ Register \/ Leave

----------------------------------------------------------------------------
(* main, run_example_statements, execute_statement. *)

MainAt(place) == main = place /\ calls = <<>>

\* Its result is not looked at.
Initialize ==
  /\ MainAt("initialize")
  /\ main' = "open" /\ calls' = <<"enter">>
  /\ UNCHANGED <<initRc, libVars, osVars, runVars>>

OpenInitializes ==
  /\ MainAt("open")
  /\ main' = "opening" /\ calls' = <<"enter">>
  /\ UNCHANGED <<initRc, libVars, osVars, runVars>>

\* Nor is that of sqlite3_open: no connection when memory is short, one that is no use
\* when the file cannot be opened.
Open ==
  /\ MainAt("opening")
  /\ main' = "prepare"
  /\ db' \in IF initRc = "OK" THEN {"open", "sick", "none"} ELSE {"none"}
  /\ UNCHANGED <<calls, initRc, libVars, osVars, stmts, next, rows, answer, verdict, finished>>

Unchanged == UNCHANGED <<calls, initRc, libVars, osVars>>

\* The first statement that fails is the last.
Failed == main' = "close" /\ verdict' = "failed"

Left_SlipShort == next < StatementCount
Left_SlipLong == next <= StatementCount + 1
Left == next <= StatementCount

Prepare ==
  /\ MainAt("prepare") /\ Left /\ db = "open"
  /\ main' = "step"
  /\ stmts' = stmts \union {next}
  /\ rows' = 0
  /\ UNCHANGED <<db, next, answer, verdict, finished>> /\ Unchanged

PrepareFails ==
  /\ MainAt("prepare") /\ Left
  /\ Failed
  /\ UNCHANGED <<db, stmts, next, rows, answer, finished>> /\ Unchanged

\* The answers that end the loop; on any other one it steps again.
Ends_Slip(a) == a \in {"ERROR", "MISUSE"}
Ends(a) == a \in {"DONE", "ERROR", "MISUSE"}

\* ... and those that end it without sqlite3_finalize.
Abandons_Slip(a) == a \in {"ERROR", "BUSY", "MISUSE"}
Abandons(a) == a \in {"ERROR", "MISUSE"}

Step ==
  /\ MainAt("step")
  /\ \E a \in Answers :
       /\ a = "ROW" => rows < MaxRows
       /\ answer' = a
       /\ rows' = IF a = "ROW" THEN rows + 1 ELSE 0
       /\ IF Abandons(a) THEN Failed
          ELSE /\ main' = IF Ends(a) THEN "finalize" ELSE "step"
               /\ UNCHANGED verdict
  /\ UNCHANGED <<db, stmts, next, finished>> /\ Unchanged

\* The statement is gone whatever sqlite3_finalize answers.
Finalize ==
  /\ MainAt("finalize")
  /\ stmts' = stmts \ {next}
  /\ main' = "prepare" /\ next' = next + 1
  /\ finished' = finished \union {next}
  /\ UNCHANGED <<db, rows, answer, verdict>> /\ Unchanged

FinalizeFails ==
  /\ MainAt("finalize")
  /\ stmts' = stmts \ {next}
  /\ Failed
  /\ UNCHANGED <<db, next, rows, answer, finished>> /\ Unchanged

Passed ==
  /\ MainAt("prepare") /\ ~Left
  /\ main' = "close" /\ verdict' = "passed"
  /\ UNCHANGED <<db, stmts, next, rows, answer, finished>> /\ Unchanged

\* sqlite3_close answers SQLITE_BUSY while statements are left; nobody looks.
Close ==
  /\ MainAt("close")
  /\ main' = "shutdown"
  /\ db' = IF stmts = {} THEN "none" ELSE db
  /\ UNCHANGED <<stmts, next, rows, answer, verdict, finished>> /\ Unchanged

AfterShutdown_Slip == isInit
AfterShutdown == FALSE

\* sqlite3_shutdown, with sqlite3_os_end in it.
Shutdown ==
  /\ MainAt("shutdown")
  /\ main' = "exit"
  /\ fileList' = IF isInit THEN "freed" ELSE fileList
  /\ isInit' = AfterShutdown
  /\ isPCacheInit' = FALSE /\ isMallocInit' = FALSE
  /\ UNCHANGED <<calls, initRc, inProgress, nRefInitMutex, m, block, vfsList, runVars>>

----------------------------------------------------------------------------

Init ==
  /\ main = "initialize" /\ calls = <<>> /\ initRc = "OK"
  /\ isMallocInit = FALSE /\ isPCacheInit = FALSE /\ isInit = FALSE
  /\ inProgress = FALSE /\ nRefInitMutex = 0
  /\ m = "default" /\ block = "none" /\ fileList = "none" /\ vfsList = FALSE
  /\ db = "none" /\ stmts = {} /\ next = 1 /\ rows = 0
  /\ answer = "none" /\ verdict = "none" /\ finished = {}

Running ==
  \/ Initialize \/ OpenInitializes \/ Open \/ Prepare \/ PrepareFails \/ Step
  \/ Finalize \/ FinalizeFails \/ Passed \/ Close \/ Shutdown

Next == Initializing \/ Running

\* The program runs on.
Spec == Init /\ [][Next]_vars /\ WF_vars(Next)

----------------------------------------------------------------------------
(* Properties. *)

\* The variables keep their types.
TypeOK ==
  /\ main \in {"initialize", "open", "opening", "prepare", "step", "finalize", "close",
               "shutdown", "exit", "crashed"}
  /\ calls \in Seq({"enter", "init", "test", "free", "os_init", "register", "leave", "fail"})
  /\ initRc \in {"OK", "NOMEM"}
  /\ isMallocInit \in BOOLEAN /\ isPCacheInit \in BOOLEAN /\ isInit \in BOOLEAN
  /\ inProgress \in BOOLEAN /\ nRefInitMutex \in Nat
  /\ m \in {"default", "composite"} /\ block \in {"none", "default", "composite"}
  /\ fileList \in {"none", "live", "freed"} /\ vfsList \in BOOLEAN
  /\ db \in {"none", "sick", "open"}
  /\ stmts \subseteq Statements /\ next \in 1..(StatementCount + 1)
  /\ rows \in 0..MaxRows /\ answer \in Answers \union {"none"}
  /\ verdict \in {"none", "passed", "failed"} /\ finished \subseteq Statements

Working == {i \in DOMAIN calls : calls[i] \in {"test", "free", "os_init", "register"}}

\* sqlite3_initialize, which calls itself while it initialises (through sqlite3_malloc
\* and sqlite3_vfs_register), does the work in one call only and counts the calls under
\* its mutex: it is never more than two deep, and nobody initialises the file system twice.
InitializeNests ==
  /\ Len(calls) <= 2
  /\ (inProgress /\ main # "crashed") <=> \E i \in DOMAIN calls : Working = {i}
  /\ main # "crashed" => nRefInitMutex = Cardinality({i \in DOMAIN calls : calls[i] # "enter"})
  /\ At("os_init") => fileList # "live"

\* The allocator is exchanged while the library is being initialised; nothing is held
\* then, or the block would be returned to an allocator that did not give it.
BlockKnowsItsAllocator == block # "none" => block = m

\* "isInit must not be set until the very end of this routine": a library that calls
\* itself initialised has its allocator, its file system and its list of files.
ReadyWhenInit == isInit => m = "composite" /\ fileList = "live" /\ vfsList

\* "All tests passed" is printed when each statement ran to its end and was finalized;
\* otherwise the statements before the failing one were, and no other was begun.
VerdictIsRight ==
  /\ verdict = "passed" => finished = Statements /\ stmts = {}
  /\ verdict # "passed" => finished = 1..(next - 1) /\ stmts \subseteq {next}

\* The connection outlives sqlite3_close, and the list of files it reads from, exactly
\* when a step failed: only that path leaves a statement behind.
LeftOpenByAFailedStep ==
  main \in {"shutdown", "exit"} =>
    /\ db = "open" <=> stmts # {}
    /\ stmts # {} <=> answer \in {"ERROR", "MISUSE"}
    /\ main = "exit" /\ db = "open" => fileList = "freed"

\* If the library stops asking for retries (and memory is found in the end), the program
\* ends: no answer but those keeps it in its loop.
MainEnds ==
  <>[](answer \notin {"BUSY", "NOMEM"}) => <>(main \in {"exit", "crashed"})
=============================================================================
