----------------------------- MODULE ShellProofs -----------------------------
(***************************************************************************)
(* The safety properties of Shell, for any number of statements and rows.  *)
(*                                                                         *)
(* IInv says, for each stack of calls of sqlite3_initialize there can be,  *)
(* what the library's fields are then (Stacked, Installed), and what main  *)
(* has done with its statements (Worked).                                  *)
(***************************************************************************)
EXTENDS Shell, FiniteSetTheorems, SequenceTheorems, TLAPS

Busy == {"test", "free", "os_init", "register"}
Places == Busy \union {"enter", "init", "leave", "fail"}

\* A call within a call is one of the two that initialise first, and never does the work.
Outer == {"test", "register"}
Inner == {"enter", "init", "leave"}
Alone == {<<p>> : p \in Places}
Nested == {<<q, p>> : q \in Outer, p \in Inner}
Stacks == {<<>>} \union Alone \union Nested

\* The calls that have passed the mutex.
Counted(c) == IF c = <<>> \/ c = <<"enter">> THEN 0
              ELSE IF c \in Alone \/ c[2] = "enter" THEN 1 ELSE 2

Outermost(place) == calls # <<>> /\ calls[1] = place
AtWork == calls # <<>> /\ calls[1] \in Busy

Stacked ==
  /\ calls \in Stacks
  /\ calls # <<>> => main \in {"open", "opening"}
  /\ main # "crashed" => /\ inProgress <=> AtWork
                         /\ nRefInitMutex = Counted(calls)
  /\ isInit => calls \in {<<>>, <<"enter">>, <<"leave">>}
  /\ calls = <<"leave">> => isInit

Installed ==
  /\ block # "none" => calls = <<"free">> /\ block = m
  /\ fileList = "live" => isInit \/ Outermost("register")
  /\ Outermost("register") => m = "composite" /\ fileList = "live"
  /\ calls = <<"register">> => initRc = "OK"
  /\ main = "opening" /\ calls = <<>> /\ initRc = "OK" => isInit

Before == {"initialize", "open", "opening", "crashed"}
Ended == {"close", "shutdown", "exit"}

Worked ==
  /\ finished = 1..(next - 1)
  /\ stmts \subseteq {next}
  /\ verdict = "passed" => next = StatementCount + 1 /\ stmts = {}
  /\ main \notin Ended => verdict = "none" /\ answer \notin {"ERROR", "MISUSE"}
  /\ main \in Before => db = "none"
  /\ main \in Before \union {"prepare"} => stmts = {}
  /\ main \in {"step", "finalize"} => stmts = {next} /\ next <= StatementCount /\ db = "open"
  /\ main \in Ended => (stmts # {} <=> answer \in {"ERROR", "MISUSE"})
  /\ stmts # {} => db = "open"
  /\ main \in {"shutdown", "exit"} /\ db = "open" => stmts # {}
  /\ db = "open" => IF main = "exit" THEN fileList = "freed" ELSE isInit

IInv == TypeOK /\ Stacked /\ Installed /\ ReadyWhenInit /\ Worked

----------------------------------------------------------------------------
(* Stacks of one and of two calls. *)

LEMMA Tuples ==
  ASSUME NEW p, NEW q
  PROVE  /\ Last(<<p>>) = p /\ Front(<<p>>) = <<>>
         /\ Last(<<q, p>>) = p /\ Front(<<q, p>>) = <<q>>
         /\ Append(<<>>, p) = <<p>> /\ Append(<<q>>, p) = <<q, p>>
         /\ <<>> \o <<q, p>> = <<q, p>>
<1>1. Last(<<p>>) = p /\ Last(<<q, p>>) = p
  BY DEF Last
<1>2. Front(<<p>>) = <<>>
  BY SubSeqEmpty DEF Front
<1> DEFINE S == {p, q}
<1>3. Front(<<q, p>>) = <<q>>
  <2>1. Len(<<q, p>>) - 1 = 1 /\ <<q, p>>[1] = q
    OBVIOUS
  <2> DEFINE f == SubSeq(<<q, p>>, 1, 1)
  <2>2. \A i \in 1..1 : <<q, p>>[i] \in S
    BY <2>1
  <2>3. f \in Seq(S) /\ Len(f) = 1 /\ f[1] = q
    BY <2>1, <2>2, SubSeqProperties
  <2>4. <<q>> \in Seq(S) /\ Len(<<q>>) = 1 /\ <<q>>[1] = q
    OBVIOUS
  <2>5. f = <<q>>
    <3> HIDE DEF f
    <3> QED BY <2>3, <2>4, SeqEqual
  <2> QED BY <2>1, <2>5 DEF Front
<1>4. Append(<<>>, p) = <<p>>
  OBVIOUS
<1>5. Append(<<q>>, p) = <<q, p>>
  <2>1. <<q>> \in Seq(S) /\ <<q, p>> \in Seq(S) /\ p \in S
    OBVIOUS
  <2>2. Len(<<q>>) = 1 /\ <<q>>[1] = q /\ Len(<<q, p>>) = 2 /\ <<q, p>>[1] = q /\ <<q, p>>[2] = p
    OBVIOUS
  <2> DEFINE a == Append(<<q>>, p)
  <2>3. a \in Seq(S) /\ Len(a) = 2 /\ a[1] = q /\ a[2] = p
    BY <2>1, <2>2, AppendProperties
  <2> HIDE DEF a
  <2>4. a = <<q, p>>
    BY <2>1, <2>2, <2>3, SeqEqual
  <2> QED BY <2>4 DEF a
<1>6. <<>> \o <<q, p>> = <<q, p>>
  <2>1. <<q, p>> \in Seq(S)
    OBVIOUS
  <2> QED BY <2>1, ConcatEmptySeq
<1> QED BY <1>1, <1>2, <1>3, <1>4, <1>5, <1>6

LEMMA Where ==
  ASSUME Stacked, NEW place, At(place)
  PROVE  \/ place \in Places /\ calls = <<place>> /\ Front(calls) = <<>>
         \/ \E q \in Outer :
              place \in Inner /\ calls = <<q, place>> /\ Front(calls) = <<q>>
<1>1. CASE calls \in Alone
  <2>1. PICK p \in Places : calls = <<p>>
    BY <1>1 DEF Alone
  <2> QED BY <2>1, Tuples DEF At
<1>2. CASE calls \in Nested
  <2>1. PICK q \in Outer, p \in Inner : calls = <<q, p>>
    BY <1>2 DEF Nested
  <2>2. Last(calls) = p /\ Front(calls) = <<q>>
    BY <2>1, Tuples
  <2> QED BY <2>1, <2>2 DEF At
<1> QED BY <1>1, <1>2 DEF Stacked, Stacks, At

LEMMA StacksAreSequences ==
  ASSUME NEW c \in Stacks
  PROVE  c \in Seq({"enter", "init", "test", "free", "os_init", "register", "leave", "fail"})
<1>1. CASE c = <<>>
  BY <1>1
<1>2. CASE c \in Alone
  <2>1. PICK p \in Places : c = <<p>>
    BY <1>2 DEF Alone
  <2> QED BY <2>1 DEF Places, Busy
<1>3. CASE c \in Nested
  <2>1. PICK q \in Outer, p \in Inner : c = <<q, p>>
    BY <1>3 DEF Nested
  <2> QED BY <2>1 DEF Outer, Inner
<1> QED BY <1>1, <1>2, <1>3 DEF Stacks

LEMMA CountedCorrect ==
  /\ Counted(<<>>) = 0 /\ Counted(<<"enter">>) = 0
  /\ \A p \in Places \ {"enter"} : Counted(<<p>>) = 1
  /\ \A q \in Outer : Counted(<<q, "enter">>) = 1
  /\ \A q \in Outer, p \in Inner \ {"enter"} : Counted(<<q, p>>) = 2
<1>1. Counted(<<>>) = 0 /\ Counted(<<"enter">>) = 0
  BY DEF Counted
<1>2. ASSUME NEW p \in Places \ {"enter"} PROVE Counted(<<p>>) = 1
  <2>1. <<p>> \in Alone /\ <<p>> # <<>> /\ <<p>> # <<"enter">>
    BY DEF Alone
  <2> QED BY <2>1 DEF Counted
<1>3. ASSUME NEW q \in Outer, NEW p PROVE <<q, p>> \notin Alone /\ <<q, p>> # <<>> /\ <<q, p>> # <<"enter">>
  BY DEF Alone
<1>4. ASSUME NEW q \in Outer PROVE Counted(<<q, "enter">>) = 1
  BY <1>3 DEF Counted
<1>5. ASSUME NEW q \in Outer, NEW p \in Inner \ {"enter"} PROVE Counted(<<q, p>>) = 2
  BY <1>3 DEF Counted
<1> QED BY <1>1, <1>2, <1>4, <1>5

\* While the library initialises, main and its statements wait.
LEMMA WorkedKept ==
  ASSUME IInv, calls # <<>>, main' = main \/ main' = "crashed", UNCHANGED runVars
  PROVE  Worked'
<1>1. main \in {"open", "opening"}
  BY DEF IInv, Stacked
<1> QED BY <1>1 DEF IInv, Worked, runVars, Before, Ended

----------------------------------------------------------------------------
(* The actions of sqlite3_initialize. *)

\* What is to show of a step of an initialisation: the worked part follows.
LEMMA InitializingConclusion ==
  ASSUME IInv, calls # <<>>, main' = main, UNCHANGED runVars,
         calls' \in Stacks, initRc' \in {"OK", "NOMEM"},
         isMallocInit' \in BOOLEAN, isPCacheInit' \in BOOLEAN, isInit' \in BOOLEAN,
         inProgress' \in BOOLEAN, m' \in {"default", "composite"},
         block' \in {"none", "default", "composite"}, fileList' \in {"none", "live", "freed"},
         vfsList' \in BOOLEAN, nRefInitMutex' = Counted(calls'), Counted(calls') \in Nat,
         (inProgress <=> AtWork)', Installed', ReadyWhenInit',
         isInit' => calls' \in {<<>>, <<"enter">>, <<"leave">>},
         calls' = <<"leave">> => isInit'
  PROVE  IInv'
<1>1. main \in {"open", "opening"}
  BY DEF IInv, Stacked
<1>2. calls' \in Seq({"enter", "init", "test", "free", "os_init", "register", "leave", "fail"})
  BY StacksAreSequences
<1>3. TypeOK'
  BY <1>1, <1>2 DEF IInv, TypeOK, runVars
<1>4. Stacked'
  BY <1>1 DEF Stacked
<1>5. Worked'
  BY WorkedKept
<1> QED BY <1>3, <1>4, <1>5 DEF IInv

LEMMA EnterInitializedStep ==
  ASSUME IInv, EnterInitialized PROVE IInv'
<1>1. calls = <<"enter">> /\ Front(calls) = <<>>
  <2>1. calls \in {<<>>, <<"enter">>, <<"leave">>}
    BY DEF EnterInitialized, IInv, Stacked
  <2> QED BY <2>1, Tuples DEF EnterInitialized, At
<1>2. calls' = <<>> /\ initRc' = "OK" /\ main' = main /\ UNCHANGED <<libVars, osVars, runVars>>
  BY <1>1 DEF EnterInitialized, Returns
<1>3. Counted(calls) = 0 /\ Counted(calls') = 0
  BY <1>1, <1>2, CountedCorrect
<1>4. ~AtWork /\ ~AtWork'
  BY <1>1, <1>2 DEF AtWork, Busy
<1>5. main # "crashed" /\ ~inProgress /\ nRefInitMutex = 0
  BY <1>1, <1>3, <1>4 DEF IInv, Stacked
<1>6. Installed'
  BY <1>1, <1>2 DEF IInv, Installed, Outermost, EnterInitialized, libVars, osVars
<1>7. ReadyWhenInit'
  BY <1>2 DEF IInv, ReadyWhenInit, libVars, osVars
<1> QED
  BY <1>1, <1>2, <1>3, <1>4, <1>5, <1>6, <1>7, InitializingConclusion, SMTT(30)
  DEF IInv, TypeOK, libVars, osVars, Stacks

LEMMA GoesToCorrect ==
  ASSUME Stacked, NEW place, NEW to, At(place), GoesTo(to)
  PROVE  \/ place \in Places /\ calls = <<place>> /\ calls' = <<to>>
         \/ \E q \in Outer : /\ place \in Inner
                             /\ calls = <<q, place>> /\ calls' = <<q, to>>
<1>1. CASE place \in Places /\ calls = <<place>> /\ Front(calls) = <<>>
  BY <1>1, Tuples DEF GoesTo
<1>2. ASSUME NEW q \in Outer, place \in Inner, calls = <<q, place>>, Front(calls) = <<q>>
      PROVE  calls' = <<q, to>>
  BY <1>2, Tuples DEF GoesTo
<1> QED BY <1>1, <1>2, Where

\* Only the outermost call works.
LEMMA WorkIsOutermost ==
  ASSUME IInv, NEW place \in Busy \union {"fail"}, At(place)
  PROVE  /\ calls = <<place>> /\ Counted(calls) = 1
         /\ main \in {"open", "opening"} /\ ~isInit
         /\ nRefInitMutex = 1
         /\ inProgress <=> place # "fail"
<1>1. place \notin Inner /\ place \in Places /\ place # "enter"
  BY DEF Busy, Inner, Places
<1>2. calls = <<place>>
  BY <1>1, Where DEF IInv
<1>3. Counted(calls) = 1
  BY <1>1, <1>2, CountedCorrect
<1>4. main \in {"open", "opening"}
  BY <1>2 DEF IInv, Stacked
<1>5. AtWork <=> place # "fail"
  BY <1>2 DEF AtWork, Busy
<1>6. calls \notin {<<>>, <<"enter">>, <<"leave">>}
  BY <1>1, <1>2 DEF Busy
<1> QED BY <1>2, <1>3, <1>4, <1>5, <1>6 DEF IInv, Stacked

LEMMA EnterStep ==
  ASSUME IInv, Enter PROVE IInv'
<1>1. /\ At("enter") /\ ~isInit /\ GoesTo("init") /\ isMallocInit' = TRUE
      /\ nRefInitMutex' = nRefInitMutex + 1
      /\ UNCHANGED <<main, initRc, isPCacheInit, isInit, inProgress, osVars, runVars>>
  BY DEF Enter
<1>2. calls # <<>> /\ main \in {"open", "opening"}
  BY <1>1 DEF At, IInv, Stacked
<1>3. CASE calls = <<"enter">> /\ calls' = <<"init">>
  <2>1. Counted(calls) = 0 /\ Counted(calls') = 1
    BY <1>3, CountedCorrect DEF Places
  <2>2. calls' \in Stacks
    BY <1>3 DEF Stacks, Alone, Places
  <2>3. ~AtWork /\ ~AtWork'
    BY <1>3 DEF AtWork, Busy
  <2>4. Installed'
    BY <1>1, <1>2, <1>3 DEF IInv, Installed, Outermost, osVars
  <2>5. ReadyWhenInit'
    BY <1>1 DEF ReadyWhenInit
  <2>6. ~inProgress /\ nRefInitMutex = 0
    BY <1>2, <2>1, <2>3 DEF IInv, Stacked
  <2> QED
    BY <1>1, <1>2, <1>3, <2>1, <2>2, <2>3, <2>4, <2>5, <2>6, InitializingConclusion, SMTT(30)
    DEF IInv, TypeOK, osVars
<1>4. CASE \E q \in Outer : calls = <<q, "enter">> /\ calls' = <<q, "init">>
  <2>0. PICK q \in Outer : calls = <<q, "enter">> /\ calls' = <<q, "init">>
    BY <1>4
  <2>1. Counted(calls) = 1 /\ Counted(calls') = 2
    BY <2>0, CountedCorrect DEF Inner
  <2>2. calls' \in Stacks
    BY <2>0 DEF Stacks, Nested, Inner
  <2>3. AtWork /\ AtWork'
    BY <2>0 DEF AtWork, Busy, Outer
  <2>4. Installed'
    BY <1>1, <1>2, <2>0 DEF IInv, Installed, Outermost, osVars
  <2>5. ReadyWhenInit'
    BY <1>1 DEF ReadyWhenInit
  <2>6. inProgress /\ nRefInitMutex = 1
    BY <1>2, <2>1, <2>3 DEF IInv, Stacked
  <2>7. calls' # <<"leave">>
    BY <2>0
  <2> QED
    BY <1>1, <1>2, <2>1, <2>2, <2>3, <2>4, <2>5, <2>6, <2>7, InitializingConclusion, SMTT(30)
    DEF IInv, TypeOK, osVars
<1> QED BY <1>1, <1>3, <1>4, GoesToCorrect DEF IInv

LEMMA BeginStep ==
  ASSUME IInv, Begin PROVE IInv'
<1>1. /\ At("init") /\ Mine /\ CallsFrom("test") /\ inProgress' = TRUE /\ isPCacheInit' = TRUE
      /\ UNCHANGED <<main, initRc, isMallocInit, isInit, nRefInitMutex, osVars, runVars>>
  BY DEF Begin
<1>2. calls # <<>> /\ main \in {"open", "opening"} /\ ~inProgress /\ ~isInit
  BY <1>1 DEF At, IInv, Stacked, Mine
<1>3. calls = <<"init">> /\ Front(calls) = <<>>
  <2>1. ASSUME NEW q \in Outer, calls = <<q, "init">> PROVE FALSE
    <3>1. AtWork
      BY <2>1 DEF AtWork, Outer, Busy
    <3> QED BY <1>2, <3>1 DEF IInv, Stacked
  <2> QED BY <1>1, <2>1, Where DEF IInv
<1>4. calls' = <<"test", "enter">>
  BY <1>1, <1>3, Tuples DEF CallsFrom
<1>5. Counted(calls) = 1 /\ Counted(calls') = 1
  BY <1>3, <1>4, CountedCorrect DEF Places, Outer
<1>6. calls' \in Stacks /\ calls' # <<"leave">>
  BY <1>4 DEF Stacks, Nested, Outer, Inner
<1>7. AtWork'
  BY <1>4 DEF AtWork, Busy
<1>8. nRefInitMutex = 1
  BY <1>2, <1>5 DEF IInv, Stacked
<1>9. Installed'
  BY <1>1, <1>2, <1>3, <1>4 DEF IInv, Installed, Outermost, osVars
<1>10. ReadyWhenInit'
  BY <1>1, <1>2 DEF ReadyWhenInit
<1> QED
  BY <1>1, <1>2, <1>5, <1>6, <1>7, <1>8, <1>9, <1>10, InitializingConclusion, SMTT(30)
  DEF IInv, TypeOK, osVars

LEMMA PassByStep ==
  ASSUME IInv, PassBy PROVE IInv'
<1>1. /\ At("init") /\ ~Mine /\ GoesTo("leave")
      /\ UNCHANGED <<main, initRc, libVars, osVars, runVars>>
  BY DEF PassBy
<1>2. calls # <<>> /\ main \in {"open", "opening"}
  BY <1>1 DEF At, IInv, Stacked
<1>3. calls # <<"init">>
  <2> SUFFICES ASSUME calls = <<"init">> PROVE FALSE
    OBVIOUS
  <2>1. ~AtWork
    BY DEF AtWork, Busy
  <2>2. ~inProgress /\ ~isInit
    BY <1>2, <2>1 DEF IInv, Stacked
  <2> QED BY <1>1, <2>2 DEF Mine
<1>4. PICK q \in Outer : calls = <<q, "init">> /\ calls' = <<q, "leave">>
  BY <1>1, <1>3, GoesToCorrect DEF IInv
<1>5. Counted(calls) = 2 /\ Counted(calls') = 2
  BY <1>4, CountedCorrect DEF Inner
<1>6. calls' \in Stacks /\ calls' # <<"leave">>
  BY <1>4 DEF Stacks, Nested, Inner
<1>7. AtWork /\ AtWork'
  BY <1>4 DEF AtWork, Busy, Outer
<1>8. inProgress /\ nRefInitMutex = 2 /\ ~isInit
  BY <1>2, <1>4, <1>5, <1>7 DEF IInv, Stacked
<1>9. Installed'
  BY <1>1, <1>2, <1>4 DEF IInv, Installed, Outermost, osVars, libVars
<1>10. ReadyWhenInit'
  BY <1>1, <1>8 DEF ReadyWhenInit, libVars
<1> QED
  BY <1>1, <1>2, <1>5, <1>6, <1>7, <1>8, <1>9, <1>10, InitializingConclusion, SMTT(30)
  DEF IInv, TypeOK, osVars, libVars

LEMMA TestFailsStep ==
  ASSUME IInv, TestFails PROVE IInv'
<1>1. /\ At("test") /\ GoesTo("fail") /\ inProgress' = FALSE
      /\ UNCHANGED <<main, initRc, isMallocInit, isPCacheInit, isInit, nRefInitMutex, osVars,
                     runVars>>
  BY DEF TestFails
<1>2. /\ calls = <<"test">> /\ Counted(calls) = 1 /\ main \in {"open", "opening"}
      /\ ~isInit /\ nRefInitMutex = 1
  BY <1>1, WorkIsOutermost DEF Busy
<1>3. calls' = <<"fail">>
  BY <1>1, <1>2, GoesToCorrect DEF IInv
<1>4. Counted(calls') = 1
  BY <1>3, CountedCorrect DEF Places
<1>5. calls' \in Stacks /\ calls' # <<"leave">>
  BY <1>3 DEF Stacks, Alone, Places
<1>6. ~AtWork'
  BY <1>3 DEF AtWork, Busy
<1>7. Installed'
  BY <1>1, <1>2, <1>3 DEF IInv, Installed, Outermost, osVars
<1>8. ReadyWhenInit'
  BY <1>1, <1>2 DEF ReadyWhenInit
<1> QED
  BY <1>1, <1>2, <1>4, <1>5, <1>6, <1>7, <1>8, InitializingConclusion, ZenonT(40)
  DEF IInv, TypeOK, osVars

LEMMA TestStep ==
  ASSUME IInv, Test PROVE IInv'
<1>1. /\ At("test") /\ GoesTo("free") /\ block' = m
      /\ UNCHANGED <<main, initRc, libVars, m, fileList, vfsList, runVars>>
  BY DEF Test, AfterTest
<1>2. /\ calls = <<"test">> /\ Counted(calls) = 1 /\ main \in {"open", "opening"}
      /\ ~isInit /\ nRefInitMutex = 1 /\ inProgress
  BY <1>1, WorkIsOutermost DEF Busy
<1>3. calls' = <<"free">>
  BY <1>1, <1>2, GoesToCorrect DEF IInv
<1>4. Counted(calls') = 1
  BY <1>3, CountedCorrect DEF Places, Busy
<1>5. calls' \in Stacks /\ calls' # <<"leave">>
  BY <1>3 DEF Stacks, Alone, Places, Busy
<1>6. AtWork'
  BY <1>3 DEF AtWork, Busy
<1>7. Installed'
  BY <1>1, <1>2, <1>3 DEF IInv, Installed, Outermost, libVars
<1>8. ReadyWhenInit'
  BY <1>1, <1>2 DEF ReadyWhenInit, libVars
<1> QED
  BY <1>1, <1>2, <1>4, <1>5, <1>6, <1>7, <1>8, InitializingConclusion, SMTT(30)
  DEF IInv, TypeOK, libVars

LEMMA FreeTestStep ==
  ASSUME IInv, FreeTest PROVE IInv'
<1>1. /\ At("free") /\ GoesTo("os_init") /\ block' = "none"
      /\ UNCHANGED <<main, initRc, libVars, m, fileList, vfsList, runVars>>
  BY DEF FreeTest
<1>2. /\ calls = <<"free">> /\ Counted(calls) = 1 /\ main \in {"open", "opening"}
      /\ ~isInit /\ nRefInitMutex = 1 /\ inProgress
  BY <1>1, WorkIsOutermost DEF Busy
<1>3. calls' = <<"os_init">>
  BY <1>1, <1>2, GoesToCorrect DEF IInv
<1>4. Counted(calls') = 1
  BY <1>3, CountedCorrect DEF Places, Busy
<1>5. calls' \in Stacks /\ calls' # <<"leave">>
  BY <1>3 DEF Stacks, Alone, Places, Busy
<1>6. AtWork'
  BY <1>3 DEF AtWork, Busy
<1>7. Installed'
  BY <1>1, <1>2, <1>3 DEF IInv, Installed, Outermost, libVars
<1>8. ReadyWhenInit'
  BY <1>1, <1>2 DEF ReadyWhenInit, libVars
<1> QED
  BY <1>1, <1>2, <1>4, <1>5, <1>6, <1>7, <1>8, InitializingConclusion, SMTT(30)
  DEF IInv, TypeOK, libVars

LEMMA OsInitStep ==
  ASSUME IInv, OsInit PROVE IInv'
<1>1. /\ At("os_init") /\ CallsFrom("register") /\ m' = "composite" /\ fileList' = "live"
      /\ UNCHANGED <<main, initRc, libVars, block, vfsList, runVars>>
  BY DEF OsInit
<1>2. /\ calls = <<"os_init">> /\ Counted(calls) = 1 /\ main \in {"open", "opening"}
      /\ ~isInit /\ nRefInitMutex = 1 /\ inProgress
  BY <1>1, WorkIsOutermost DEF Busy
<1>3. calls' = <<"register", "enter">>
  <2>1. Front(calls) = <<>>
    BY <1>2, Tuples
  <2> QED BY <1>1, <2>1, Tuples DEF CallsFrom
<1>4. Counted(calls') = 1
  BY <1>3, CountedCorrect DEF Outer
<1>5. calls' \in Stacks /\ calls' # <<"leave">> /\ calls' # <<"register">>
  BY <1>3 DEF Stacks, Nested, Outer, Inner
<1>6. AtWork'
  BY <1>3 DEF AtWork, Busy
<1>7. block = "none"
  BY <1>2 DEF IInv, Installed
<1>8. Installed'
  BY <1>1, <1>2, <1>3, <1>5, <1>7 DEF Installed, Outermost
<1>9. ReadyWhenInit'
  BY <1>1, <1>2 DEF ReadyWhenInit, libVars
<1> QED
  BY <1>1, <1>2, <1>4, <1>5, <1>6, <1>8, <1>9, InitializingConclusion, SMTT(30)
  DEF IInv, TypeOK, libVars

LEMMA OsInitCrashesStep ==
  ASSUME IInv, OsInitCrashes PROVE IInv'
<1>1. /\ At("os_init") /\ m' = "composite" /\ main' = "crashed" /\ calls' = <<>>
      /\ UNCHANGED <<initRc, libVars, block, fileList, vfsList, runVars>>
  BY DEF OsInitCrashes
<1>2. calls = <<"os_init">> /\ ~isInit
  BY <1>1, WorkIsOutermost DEF Busy
<1>3. block = "none" /\ fileList # "live"
  BY <1>2 DEF IInv, Installed, Outermost
<1>4. TypeOK'
  BY <1>1, StacksAreSequences DEF Stacks, IInv, TypeOK, libVars, runVars
<1>5. Stacked'
  BY <1>1, <1>2 DEF Stacked, Stacks, libVars
<1>6. Installed'
  BY <1>1, <1>3 DEF Installed, Outermost
<1>7. ReadyWhenInit'
  BY <1>1, <1>2 DEF ReadyWhenInit, libVars
<1>8. Worked'
  BY <1>1, <1>2, WorkedKept
<1> QED BY <1>4, <1>5, <1>6, <1>7, <1>8 DEF IInv

LEMMA RegisterStep ==
  ASSUME IInv, Register PROVE IInv'
<1>1. /\ At("register") /\ GoesTo("leave") /\ vfsList' = (vfsList \/ initRc = "OK")
      /\ isInit' = TRUE /\ inProgress' = FALSE
      /\ UNCHANGED <<main, initRc, isMallocInit, isPCacheInit, nRefInitMutex, m, block,
                     fileList, runVars>>
  BY DEF Register
<1>2. /\ calls = <<"register">> /\ Counted(calls) = 1 /\ main \in {"open", "opening"}
      /\ nRefInitMutex = 1
  BY <1>1, WorkIsOutermost DEF Busy
<1>3. calls' = <<"leave">>
  BY <1>1, <1>2, GoesToCorrect DEF IInv
<1>4. Counted(calls') = 1
  BY <1>3, CountedCorrect DEF Places, Busy
<1>5. calls' \in Stacks
  BY <1>3 DEF Stacks, Alone, Places
<1>6. ~AtWork'
  BY <1>3 DEF AtWork, Busy
<1>7. m = "composite" /\ fileList = "live" /\ initRc = "OK" /\ block = "none"
  BY <1>2 DEF IInv, Installed, Outermost
<1>8. Installed'
  BY <1>1, <1>3, <1>7 DEF Installed, Outermost
<1>9. ReadyWhenInit' /\ vfsList' = TRUE
  BY <1>1, <1>7 DEF ReadyWhenInit
<1> QED
  BY <1>1, <1>2, <1>3, <1>4, <1>5, <1>6, <1>8, <1>9, InitializingConclusion, ZenonT(40)
  DEF IInv, TypeOK

LEMMA LeaveStep ==
  ASSUME IInv, Leave PROVE IInv'
<1>1. /\ At("leave") \/ At("fail")
      /\ nRefInitMutex' = nRefInitMutex - 1 /\ calls' = Front(calls)
      /\ initRc' = IF At("leave") THEN "OK" ELSE "NOMEM"
      /\ UNCHANGED <<main, isMallocInit, isPCacheInit, isInit, inProgress, osVars, runVars>>
  BY DEF Leave, Returns
<1>2. calls # <<>> /\ main \in {"open", "opening"}
  BY <1>1 DEF At, IInv, Stacked
<1>3. CASE \E p \in {"leave", "fail"} : calls = <<p>>
  <2>1. PICK p \in {"leave", "fail"} : calls = <<p>>
    BY <1>3
  <2>2. calls' = <<>> /\ Last(calls) = p
    BY <1>1, <2>1, Tuples
  <2>3. initRc' = IF p = "leave" THEN "OK" ELSE "NOMEM"
    BY <1>1, <1>2, <2>2 DEF At
  <2>4. Counted(calls) = 1 /\ Counted(calls') = 0
    BY <2>1, <2>2, CountedCorrect DEF Places
  <2>5. ~AtWork /\ ~AtWork'
    BY <2>1, <2>2 DEF AtWork, Busy
  <2>6. ~inProgress /\ nRefInitMutex = 1
    BY <1>2, <2>4, <2>5 DEF IInv, Stacked
  <2>7. initRc' = "OK" => isInit
    BY <2>1, <2>3 DEF IInv, Stacked
  <2>8. block = "none" /\ (fileList = "live" => isInit)
    BY <2>1 DEF IInv, Installed, Outermost
  <2>9. Installed'
    BY <1>1, <2>2, <2>7, <2>8 DEF Installed, Outermost, osVars
  <2>10. ReadyWhenInit'
    BY <1>1 DEF IInv, ReadyWhenInit, osVars
  <2>11. calls' \in Stacks
    BY <2>2 DEF Stacks
  <2> QED
    BY <1>1, <1>2, <2>2, <2>3, <2>4, <2>5, <2>6, <2>9, <2>10, <2>11, InitializingConclusion, SMTT(30)
    DEF IInv, TypeOK, osVars
<1>4. CASE \E q \in Outer : calls = <<q, "leave">>
  <2>1. PICK q \in Outer : calls = <<q, "leave">>
    BY <1>4
  <2>2. calls' = <<q>> /\ Last(calls) = "leave"
    BY <1>1, <2>1, Tuples
  <2>3. initRc' = "OK"
    BY <1>1, <1>2, <2>2 DEF At
  <2>4. Counted(calls) = 2 /\ Counted(calls') = 1
    BY <2>1, <2>2, CountedCorrect DEF Places, Busy, Outer, Inner
  <2>5. AtWork /\ AtWork'
    BY <2>1, <2>2 DEF AtWork, Busy, Outer
  <2>6. inProgress /\ nRefInitMutex = 2 /\ ~isInit
    BY <1>2, <2>1, <2>4, <2>5 DEF IInv, Stacked
  <2>7. calls' # <<"free">> /\ calls' # <<"leave">> /\ calls' # <<>>
    BY <2>2 DEF Outer
  <2>8. block = "none"
    BY <2>1 DEF IInv, Installed
  <2>9. Outermost("register")' <=> Outermost("register")
    BY <2>1, <2>2 DEF Outermost
  <2>10. Installed'
    BY <1>1, <2>3, <2>6, <2>7, <2>8, <2>9 DEF IInv, Installed, osVars
  <2>11. ReadyWhenInit'
    BY <1>1 DEF IInv, ReadyWhenInit, osVars
  <2>12. calls' \in Stacks
    BY <2>2 DEF Stacks, Alone, Places, Outer, Busy
  <2> QED
    BY <1>1, <1>2, <2>3, <2>4, <2>5, <2>6, <2>7, <2>10, <2>11, <2>12, InitializingConclusion, SMTT(30)
    DEF IInv, TypeOK, osVars
<1> QED
  <2>1. CASE At("leave")
    BY <2>1, <1>3, <1>4, Where DEF IInv
  <2>2. CASE At("fail")
    BY <2>2, <1>3, WorkIsOutermost
  <2> QED BY <1>1, <2>1, <2>2

----------------------------------------------------------------------------
(* The actions of main. *)

LEMMA InitializeStep ==
  ASSUME IInv, Initialize \/ OpenInitializes PROVE IInv'
<1>1. /\ calls = <<>> /\ main \in {"initialize", "open"} /\ calls' = <<"enter">>
      /\ main' \in {"open", "opening"}
      /\ UNCHANGED <<initRc, libVars, osVars, runVars>>
  BY DEF Initialize, OpenInitializes, MainAt
<1>2. Counted(calls) = 0 /\ Counted(calls') = 0
  BY <1>1, CountedCorrect
<1>3. calls' \in Stacks /\ calls' # <<"leave">> /\ calls' # <<"register">>
  BY <1>1 DEF Stacks, Alone, Places
<1>4. ~AtWork /\ ~AtWork'
  BY <1>1 DEF AtWork, Busy
<1>5. ~inProgress /\ nRefInitMutex = 0
  BY <1>1, <1>2, <1>4 DEF IInv, Stacked
<1>6. TypeOK'
  <2>1. calls' \in Seq({"enter", "init", "test", "free", "os_init", "register", "leave", "fail"})
    BY <1>3, StacksAreSequences
  <2> QED BY <1>1, <2>1 DEF IInv, TypeOK, libVars, osVars, runVars
<1>7. Stacked'
  BY <1>1, <1>2, <1>3, <1>4, <1>5 DEF Stacked, libVars
<1>8. Installed'
  BY <1>1, <1>3 DEF IInv, Installed, Outermost, libVars, osVars
<1>9. ReadyWhenInit'
  BY <1>1 DEF IInv, ReadyWhenInit, libVars, osVars
<1>10. Worked'
  BY <1>1 DEF IInv, Worked, Before, Ended, runVars, libVars, osVars
<1> QED BY <1>6, <1>7, <1>8, <1>9, <1>10 DEF IInv

\* Apart from the start and the end, main leaves the library as it is.
LEMMA LibraryKept ==
  ASSUME IInv, calls = <<>>, main # "crashed", main' \notin {"crashed", "opening"}, Unchanged
  PROVE  Stacked' /\ Installed' /\ ReadyWhenInit'
<1>1. Stacked'
  BY DEF IInv, Stacked, AtWork, Unchanged, libVars
<1>2. Installed'
  BY DEF IInv, Installed, Outermost, Unchanged, libVars, osVars
<1>3. ReadyWhenInit'
  BY DEF IInv, ReadyWhenInit, Unchanged, libVars, osVars
<1> QED BY <1>1, <1>2, <1>3

LEMMA OpenStep ==
  ASSUME IInv, Open PROVE IInv'
<1>1. /\ main = "opening" /\ calls = <<>> /\ main' = "prepare" /\ Unchanged
      /\ db' \in {"open", "sick", "none"} /\ (db' = "open" => initRc = "OK")
      /\ UNCHANGED <<stmts, next, rows, answer, verdict, finished>>
  BY DEF Open, MainAt, Unchanged
<1>2. TypeOK'
  BY <1>1 DEF IInv, TypeOK, Unchanged, libVars, osVars
<1>3. db' = "open" => isInit'
  BY <1>1 DEF IInv, Installed, Unchanged, libVars
<1>4. Worked'
  BY <1>1, <1>3 DEF IInv, Worked, Before, Ended
<1> QED BY <1>1, <1>2, <1>4, LibraryKept DEF IInv

LEMMA PrepareStep ==
  ASSUME IInv, Prepare \/ PrepareFails \/ Passed PROVE IInv'
<1> USE ShellAssumption
<1>1. /\ main = "prepare" /\ calls = <<>> /\ Unchanged /\ main' \in {"step", "close"}
      /\ UNCHANGED <<db, next, answer, finished>>
  BY DEF Prepare, PrepareFails, Passed, Failed, MainAt
<1>2. stmts = {} /\ next \in 1..(StatementCount + 1) /\ answer \notin {"ERROR", "MISUSE"}
  BY <1>1 DEF IInv, Worked, TypeOK, Before, Ended
<1>3. UNCHANGED isInit
  BY <1>1 DEF Unchanged, libVars
<1>4. CASE Prepare
  <2>1. /\ next <= StatementCount /\ db = "open" /\ main' = "step" /\ rows' = 0
        /\ stmts' = {next} /\ UNCHANGED verdict
    BY <1>2, <1>4 DEF Prepare, Left
  <2>2. TypeOK'
    BY <1>1, <1>2, <2>1 DEF IInv, TypeOK, Statements, Unchanged, libVars, osVars
  <2>3. Worked'
    BY <1>1, <1>2, <1>3, <2>1 DEF IInv, Worked, Before, Ended
  <2> QED BY <1>1, <2>1, <2>2, <2>3, LibraryKept DEF IInv
<1>5. CASE PrepareFails \/ Passed
  <2>1. main' = "close" /\ UNCHANGED <<rows, stmts>> /\ verdict' \in {"passed", "failed"}
    BY <1>5 DEF PrepareFails, Passed, Failed
  <2>2. verdict' = "passed" => next = StatementCount + 1
    BY <1>2, <1>5 DEF PrepareFails, Passed, Failed, Left
  <2>3. TypeOK'
    BY <1>1, <2>1 DEF IInv, TypeOK, Unchanged, libVars, osVars
  <2>4. Worked'
    BY <1>1, <1>2, <1>3, <2>1, <2>2 DEF IInv, Worked, Before, Ended
  <2> QED BY <1>1, <2>1, <2>3, <2>4, LibraryKept DEF IInv
<1> QED BY <1>4, <1>5

LEMMA StepStep ==
  ASSUME IInv, Step PROVE IInv'
<1> USE ShellAssumption
<1>1. /\ main = "step" /\ calls = <<>> /\ Unchanged /\ UNCHANGED <<db, stmts, next, finished>>
  BY DEF Step, MainAt
<1>2. PICK a \in Answers :
        /\ a = "ROW" => rows < MaxRows
        /\ answer' = a
        /\ rows' = IF a = "ROW" THEN rows + 1 ELSE 0
        /\ IF Abandons(a) THEN Failed
           ELSE /\ main' = IF Ends(a) THEN "finalize" ELSE "step"
                /\ UNCHANGED verdict
  BY DEF Step
<1>3. /\ stmts = {next} /\ next <= StatementCount /\ db = "open" /\ isInit /\ verdict = "none"
  BY <1>1 DEF IInv, Worked, Ended
<1>4. /\ main' \in {"step", "finalize", "close"} /\ verdict' \in {"none", "failed"}
      /\ (main' = "close") <=> a \in {"ERROR", "MISUSE"}
      /\ main' # "close" => verdict' = "none"
  BY <1>2, <1>3 DEF Failed, Abandons, Ends
<1>5. TypeOK'
  <2>1. rows' \in 0..MaxRows
    BY <1>2 DEF IInv, TypeOK
  <2> QED BY <1>1, <1>2, <1>4, <2>1 DEF IInv, TypeOK, Unchanged, libVars, osVars
<1>6. isInit'
  BY <1>1, <1>3 DEF Unchanged, libVars
<1>7. Worked'
  BY <1>1, <1>2, <1>3, <1>4, <1>6 DEF IInv, Worked, Before, Ended
<1> QED BY <1>1, <1>4, <1>5, <1>7, LibraryKept DEF IInv

LEMMA FinalizeStep ==
  ASSUME IInv, Finalize \/ FinalizeFails PROVE IInv'
<1> USE ShellAssumption
<1>1. /\ main = "finalize" /\ calls = <<>> /\ Unchanged /\ UNCHANGED <<db, rows, answer>>
      /\ stmts' = stmts \ {next}
  BY DEF Finalize, FinalizeFails, MainAt
<1>2. /\ stmts = {next} /\ next \in 1..StatementCount /\ isInit /\ verdict = "none"
      /\ answer \notin {"ERROR", "MISUSE"} /\ finished = 1..(next - 1)
  BY <1>1 DEF IInv, Worked, TypeOK, Ended
<1>3. stmts' = {}
  BY <1>1, <1>2
<1>4. isInit'
  BY <1>1, <1>2 DEF Unchanged, libVars
<1>5. CASE Finalize
  <2>1. main' = "prepare" /\ next' = next + 1 /\ UNCHANGED verdict
    BY <1>5 DEF Finalize
  <2>2. finished' = 1..(next' - 1) /\ finished' \subseteq Statements
    BY <1>2, <1>5, <2>1 DEF Finalize, Statements
  <2>3. TypeOK'
    BY <1>1, <1>2, <1>3, <2>1, <2>2 DEF IInv, TypeOK, Unchanged, libVars, osVars
  <2>4. Worked'
    BY <1>1, <1>2, <1>3, <1>4, <2>1, <2>2 DEF Worked, Before, Ended
  <2> QED BY <1>1, <2>1, <2>3, <2>4, LibraryKept DEF IInv
<1>6. CASE FinalizeFails
  <2>1. main' = "close" /\ verdict' = "failed" /\ UNCHANGED <<next, finished>>
    BY <1>6 DEF FinalizeFails, Failed
  <2>2. TypeOK'
    BY <1>1, <1>3, <2>1 DEF IInv, TypeOK, Unchanged, libVars, osVars
  <2>3. Worked'
    BY <1>1, <1>2, <1>3, <1>4, <2>1 DEF Worked, Before, Ended
  <2> QED BY <1>1, <2>1, <2>2, <2>3, LibraryKept DEF IInv
<1> QED BY <1>5, <1>6

LEMMA CloseStep ==
  ASSUME IInv, Close PROVE IInv'
<1>1. /\ main = "close" /\ calls = <<>> /\ Unchanged /\ main' = "shutdown"
      /\ db' = IF stmts = {} THEN "none" ELSE db
      /\ UNCHANGED <<stmts, next, rows, answer, verdict, finished>>
  BY DEF Close, MainAt
<1>2. TypeOK'
  BY <1>1 DEF IInv, TypeOK, Unchanged, libVars, osVars
<1>3. db' = "open" => isInit'
  BY <1>1 DEF IInv, Worked, Unchanged, libVars
<1>4. Worked'
  BY <1>1, <1>3 DEF IInv, Worked, Before, Ended
<1> QED BY <1>1, <1>2, <1>4, LibraryKept DEF IInv

LEMMA ShutdownStep ==
  ASSUME IInv, Shutdown PROVE IInv'
<1>1. /\ main = "shutdown" /\ calls = <<>> /\ main' = "exit" /\ isInit' = FALSE
      /\ fileList' = IF isInit THEN "freed" ELSE fileList
      /\ isPCacheInit' = FALSE /\ isMallocInit' = FALSE
      /\ UNCHANGED <<calls, initRc, inProgress, nRefInitMutex, m, block, vfsList, runVars>>
  BY DEF Shutdown, MainAt, AfterShutdown
<1>2. TypeOK'
  BY <1>1, ZenonT(40) DEF IInv, TypeOK, runVars
<1>3. Stacked'
  BY <1>1 DEF IInv, Stacked, AtWork
<1>4. Installed'
  BY <1>1 DEF IInv, Installed, Outermost
<1>5. ReadyWhenInit'
  BY <1>1 DEF ReadyWhenInit
<1>6. Worked'
  BY <1>1 DEF IInv, Worked, Before, Ended, runVars
<1> QED BY <1>2, <1>3, <1>4, <1>5, <1>6 DEF IInv

----------------------------------------------------------------------------
(* The invariant, and what follows from it. *)

LEMMA InitIInv == Init => IInv
<1> SUFFICES ASSUME Init PROVE IInv
  OBVIOUS
<1> USE ShellAssumption
<1>1. TypeOK
  <2>1. calls \in Seq({"enter", "init", "test", "free", "os_init", "register", "leave", "fail"})
    BY StacksAreSequences DEF Stacks, Init
  <2>2. next \in 1..(StatementCount + 1) /\ rows \in 0..MaxRows /\ nRefInitMutex \in Nat
    BY DEF Init
  <2>3. stmts \subseteq Statements /\ finished \subseteq Statements
    BY DEF Init
  <2>4. /\ isMallocInit \in BOOLEAN /\ isPCacheInit \in BOOLEAN /\ isInit \in BOOLEAN
        /\ inProgress \in BOOLEAN /\ vfsList \in BOOLEAN
    BY DEF Init
  <2>5. /\ main = "initialize" /\ initRc = "OK" /\ m = "default" /\ block = "none"
        /\ fileList = "none" /\ db = "none" /\ answer = "none" /\ verdict = "none"
    BY DEF Init
  <2> QED BY <2>1, <2>2, <2>3, <2>4, <2>5 DEF TypeOK
<1>2. Stacked
  BY CountedCorrect DEF Init, Stacked, Stacks, AtWork
<1>3. Installed /\ ReadyWhenInit
  BY DEF Init, Installed, Outermost, ReadyWhenInit
<1>4. Worked
  BY DEF Init, Worked, Before, Ended
<1> QED BY <1>1, <1>2, <1>3, <1>4 DEF IInv

LEMMA NextIInv == IInv /\ [Next]_vars => IInv'
<1> SUFFICES ASSUME IInv, [Next]_vars PROVE IInv'
  OBVIOUS
<1>1. CASE Initializing
  BY <1>1, EnterInitializedStep, EnterStep, BeginStep, PassByStep, TestFailsStep, TestStep,
     FreeTestStep, OsInitStep, OsInitCrashesStep, RegisterStep, LeaveStep DEF Initializing
<1>2. CASE Running
  BY <1>2, InitializeStep, OpenStep, PrepareStep, StepStep, FinalizeStep, CloseStep,
     ShutdownStep DEF Running
<1>3. CASE UNCHANGED vars
  <2>1. TypeOK'
    BY <1>3 DEF IInv, TypeOK, vars, libVars, osVars, runVars
  <2>2. Stacked'
    BY <1>3 DEF IInv, Stacked, AtWork, vars, libVars, osVars, runVars
  <2>3. Installed' /\ ReadyWhenInit'
    BY <1>3 DEF IInv, Installed, Outermost, ReadyWhenInit, vars, libVars, osVars, runVars
  <2>4. Worked'
    BY <1>3 DEF IInv, Worked, vars, libVars, osVars, runVars
  <2> QED BY <2>1, <2>2, <2>3, <2>4 DEF IInv
<1> QED BY <1>1, <1>2, <1>3 DEF Next

\* The invariant holds always.
THEOREM Invariance == Spec => []IInv
BY InitIInv, NextIInv, PTL DEF Spec

\* The fields of the library, of main and of its statements keep their types.
THEOREM TypeCorrect == Spec => []TypeOK
<1>1. IInv => TypeOK
  BY DEF IInv
<1> QED BY <1>1, Invariance, PTL

\* What the stack says of the calls that work and of those past the mutex.
LEMMA StackMeaning ==
  ASSUME Stacked
  PROVE  /\ Len(calls) <= 2
         /\ AtWork <=> \E i \in DOMAIN calls : Working = {i}
         /\ Counted(calls) = Cardinality({i \in DOMAIN calls : calls[i] # "enter"})
<1> DEFINE Past == {i \in DOMAIN calls : calls[i] # "enter"}
<1>0. Cardinality({}) = 0 /\ Cardinality({1}) = 1 /\ Cardinality({1, 2}) = 2
  <2>1. Cardinality({}) = 0
    BY FS_EmptySet
  <2>2. IsFiniteSet({1}) /\ Cardinality({1}) = 1
    BY FS_Singleton
  <2>3. Cardinality({1} \union {2}) = 2
    BY <2>2, FS_AddElement
  <2>4. {1} \union {2} = {1, 2}
    OBVIOUS
  <2> QED BY <2>1, <2>2, <2>3, <2>4
<1>1. CASE calls = <<>>
  <2>1. DOMAIN calls = {} /\ Past = {}
    BY <1>1
  <2> QED BY <1>0, <1>1, <2>1, CountedCorrect DEF AtWork, Working
<1>2. ASSUME NEW p \in Places, calls = <<p>>
      PROVE  /\ Len(calls) <= 2 /\ Counted(calls) = Cardinality(Past)
             /\ AtWork <=> \E i \in DOMAIN calls : Working = {i}
  <2>1. DOMAIN calls = {1} /\ Len(calls) = 1 /\ calls[1] = p
    BY <1>2
  <2>2. Past = IF p = "enter" THEN {} ELSE {1}
    BY <2>1
  <2>3. Counted(calls) = IF p = "enter" THEN 0 ELSE 1
    BY <1>2, CountedCorrect
  <2>4. Working = IF p \in Busy THEN {1} ELSE {}
    BY <2>1 DEF Working, Busy
  <2>5. AtWork <=> p \in Busy
    BY <1>2 DEF AtWork
  <2>6. AtWork <=> \E i \in DOMAIN calls : Working = {i}
    BY <2>1, <2>4, <2>5
  <2> QED BY <1>0, <2>1, <2>2, <2>3, <2>6
<1>3. ASSUME NEW q \in Outer, NEW p \in Inner, calls = <<q, p>>
      PROVE  /\ Len(calls) <= 2 /\ Counted(calls) = Cardinality(Past)
             /\ AtWork <=> \E i \in DOMAIN calls : Working = {i}
  <2>1. DOMAIN calls = {1, 2} /\ Len(calls) = 2 /\ calls[1] = q /\ calls[2] = p
    BY <1>3
  <2>2. Past = IF p = "enter" THEN {1} ELSE {1, 2}
    BY <2>1 DEF Outer
  <2>3. Counted(calls) = IF p = "enter" THEN 1 ELSE 2
    BY <1>3, CountedCorrect
  <2>4. Working = {1} /\ AtWork
    BY <1>3, <2>1 DEF Working, Outer, Inner, AtWork, Busy
  <2> QED BY <1>0, <2>1, <2>2, <2>3, <2>4
<1> QED BY <1>1, <1>2, <1>3 DEF Stacked, Stacks, Alone, Nested

\* sqlite3_initialize does the work in one call only, and never twice at a time.
THEOREM NestingCorrect == Spec => []InitializeNests
<1>1. ASSUME IInv PROVE InitializeNests
  <2>1. Stacked /\ Installed
    BY <1>1 DEF IInv
  <2>2. At("os_init") => fileList # "live"
    <3> SUFFICES ASSUME At("os_init") PROVE fileList # "live"
      OBVIOUS
    <3>1. calls = <<"os_init">> /\ ~isInit
      BY <1>1, WorkIsOutermost DEF Busy
    <3> QED BY <2>1, <3>1 DEF Installed, Outermost
  <2>3. main = "crashed" => ~AtWork
    BY <2>1 DEF Stacked, AtWork
  <2> QED BY <2>1, <2>2, <2>3, StackMeaning DEF Stacked, InitializeNests
<1> QED BY <1>1, Invariance, PTL

\* No block is held when the allocator is exchanged.
THEOREM BlocksGoBack == Spec => []BlockKnowsItsAllocator
<1>1. IInv => BlockKnowsItsAllocator
  BY DEF IInv, Installed, BlockKnowsItsAllocator
<1> QED BY <1>1, Invariance, PTL

\* An initialised library has its allocator, its file system and its list of files.
THEOREM InitializedIsReady == Spec => []ReadyWhenInit
<1>1. IInv => ReadyWhenInit
  BY DEF IInv
<1> QED BY <1>1, Invariance, PTL

\* What the program prints is what its statements did.
THEOREM VerdictCorrect == Spec => []VerdictIsRight
<1>1. ASSUME IInv PROVE VerdictIsRight
  <2>1. Worked /\ StatementCount \in Nat
    BY <1>1, ShellAssumption DEF IInv
  <2>2. verdict = "passed" => finished = Statements
    BY <2>1 DEF Worked, Statements
  <2> QED BY <2>1, <2>2 DEF Worked, VerdictIsRight
<1> QED BY <1>1, Invariance, PTL

\* Only a failed step leaves a statement and, with it, the connection.
THEOREM LeftOpenCorrect == Spec => []LeftOpenByAFailedStep
<1>1. IInv => LeftOpenByAFailedStep
  BY DEF IInv, Worked, Ended, LeftOpenByAFailedStep
<1> QED BY <1>1, Invariance, PTL

=============================================================================
