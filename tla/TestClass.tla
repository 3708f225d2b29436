----------------------------- MODULE TestClass -----------------------------
(***************************************************************************)
(* One run of a test class: BaseTestClass.run of mobly/base_test.py with   *)
(* the expects recorder (mobly/expects.py) and the controller registry     *)
(* (mobly/controller_manager.py) it drives.                                *)
(*                                                                         *)
(* pc names the piece of foreign code that is running: a user callback, a  *)
(* controller module's get_info or destroy.  One action is one return from *)
(* that code, with everything the framework does until it calls out again. *)
(* What a callback does is an input: the exception it raises (`out`), and  *)
(* whether an expectation failed in it (`x`).                              *)
(***************************************************************************)
EXTENDS TestRecords, FiniteSets

CONSTANTS
  Plans,        \* what a class may be asked to run, see PlansAssumption
  Controllers,  \* controller modules that can be registered
  UserOutcomes, \* how a user callback may end
  UserExpects   \* {FALSE}, or BOOLEAN where expectations may fail

Abort == {"abort_class", "abort_all"}

Outcomes == {"ok", "fail", "error", "skip", "pass"} \cup Abort

(* An absent repeat count, error threshold or retry count (Python's None). *)
None == -1

Methods ==
  [name : TestNames, sel : TestNames, repeat : Int, consec : Int, retry : Int]

(* requested: the selectors; methods: the tests they resolve to, each with  *)
(* the selector that picked it; resolves: FALSE if a selector matches none. *)
ASSUME PlansAssumption ==
  Plans \subseteq [requested : Seq(TestNames), methods : Seq(Methods),
                   resolves : BOOLEAN]

(* _get_test_methods: selectors that do not resolve give no test, one that is *)
(* a test's name gives that test alone, and any other one is a regex.        *)
ASSUME ResolutionAssumption ==
  \A p \in Plans :
    /\ p.resolves \/ p.methods = <<>>
    /\ \A i \in DOMAIN p.methods : p.methods[i].sel \in Ids(p.requested)
    /\ \A i, j \in DOMAIN p.methods :
         p.methods[i].sel = p.methods[j].name
           => p.methods[i].name = p.methods[i].sel

ASSUME InputsAssumption ==
  /\ UserOutcomes \subseteq Outcomes
  /\ UserExpects \subseteq BOOLEAN
  /\ IsFiniteSet(Controllers)

VARIABLES
  pc,       \* the code being run
  plan,     \* what this run was asked to do
  n,        \* index of the current test in plan.methods
  it,       \* index of the current iteration of that test
  streak,   \* consecutive_error_count of the repeat loop
  ledger,   \* records, results and summary file
  info,     \* the record of the stage: that of self.current_test_info
  recorder, \* expects.recorder: the record it holds and its error count
  exc,      \* the exception in flight, "ok" for none
  raised,   \* history: the abort signals foreign code raised in this run
  objects,  \* ControllerManager._controller_objects: the registry, in order
  live,     \* controllers created whose destroy was not called yet
  pos       \* position of the loop over the requested tests in
            \* _skip_remaining_tests, over the registry in _clean_up

control == <<plan, n, it, streak>>
registry == <<objects, live, pos>>
vars == <<pc, plan, n, it, streak, ledger, info, recorder, exc, raised,
          objects, live, pos>>

ClassOnFail == {"on_fail_raised", "on_fail_expects"}
TestStages == {"setup_test", "test", "teardown_test", "procedure"}
UserStages == {"pre_run", "setup_class", "teardown_class"}
                \cup ClassOnFail \cup TestStages
Stages == UserStages \cup {"skip", "get_info", "destroy", "done"}

-----------------------------------------------------------------------------
(* expects.recorder.add_error, once if an expectation failed. *)
Expected(x) ==
  IF x THEN SetRecord(ledger, recorder.rec,
                      AddError(ledger.records[recorder.rec]))
       ELSE ledger

Count(x) == recorder.count + (IF x THEN 1 ELSE 0)

(* Mutant: a single failed expectation is no error. *)
HasErrorTwice(x) == Count(x) > 1

HasError(x) == Count(x) > 0

(* An exception of a procedure function becomes an extra error. *)
ProcedureError(l, out) ==
  IF out = "ok" THEN l ELSE SetRecord(l, info, AddError(l.records[info]))

Recorded(x) == recorder' = [recorder EXCEPT !.count = Count(x)]

Raises(out) == raised' = raised \cup ({out} \cap Abort)

(* Mutant: the recorder is reset to the record of the stage before. *)
EnterStageResetEarly(l, stage, name, parent, link) ==
  /\ pc' = stage
  /\ ledger' = Create(l, name, parent, link)
  /\ info' = Len(l.records) + 1
  /\ recorder' = [rec |-> info, count |-> 0]

(* A stage begins: its record, current_test_info and the recorder's reset. *)
EnterStage(l, stage, name, parent, link) ==
  /\ pc' = stage
  /\ ledger' = Create(l, name, parent, link)
  /\ info' = Len(l.records) + 1
  /\ recorder' = [rec |-> Len(l.records) + 1, count |-> 0]

(* Every way out of run's try block ends in its finally: _teardown_class. *)
LeaveRun(l, e) ==
  /\ EnterStage(l, "teardown_class", StageName("teardown_class"), 0, "none")
  /\ exc' = e

(* Mutant: run is left without marking the requested tests. *)
LeaveUnmarked(l, e) ==
  /\ pc' = "skip" /\ pos' = Len(plan.requested) + 1
  /\ ledger' = l
  /\ exc' = e
  /\ UNCHANGED info

(* Mutant: an abort leaves run at once, there is no finally. *)
LeaveNoFinally(l, e) ==
  /\ pc' = (IF e = "ok" THEN "skip" ELSE "done") /\ pos' = 1
  /\ ledger' = l
  /\ exc' = e
  /\ UNCHANGED info

(* _skip_remaining_tests, then out of the try block with e. *)
SkipAndLeave(l, e) ==
  /\ pc' = "skip" /\ pos' = 1
  /\ ledger' = l
  /\ exc' = e
  /\ UNCHANGED info

Current == plan.methods[n]

(* The checks of run's loop on the resolved repeat and retry parameters. *)
Invalid(m) ==
  \/ m.repeat # None /\ m.repeat <= 1
  \/ m.consec # None /\ (m.repeat = None \/ m.consec > m.repeat)
  \/ m.retry # None /\ m.retry <= 1

Name(m, i) ==
  CASE m.retry # None /\ i > 0 -> IterationName(m.name, "retry", i)
    [] m.retry = None /\ m.repeat # None -> IterationName(m.name, "repeat", i)
    [] OTHER -> BareName(m.name)

Link(m, i) ==
  CASE i = 0 -> "none"
    [] i > 0 /\ m.retry # None -> "RETRY"
    [] OTHER -> "REPEAT"

(* Mutant: an iteration reuses the record of the one before. *)
BeginIterationReuse(l, m, i, prev) ==
  /\ pc' = "setup_test"
  /\ IF prev = 0
     THEN EnterStage(l, "setup_test", Name(m, i), prev, Link(m, i))
     ELSE ledger' = l /\ info' = prev /\ recorder' = [rec |-> prev, count |-> 0]
  /\ it' = i
  /\ exc' = "ok"
  /\ UNCHANGED plan

BeginIteration(l, m, i, prev) ==
  /\ EnterStage(l, "setup_test", Name(m, i), prev, Link(m, i))
  /\ it' = i
  /\ exc' = "ok"
  /\ UNCHANGED plan

(* The for loop of run at its k-th test. *)
Advance(l, k) ==
  /\ n' = k
  /\ streak' = 0
  /\ \/ /\ k > Len(plan.methods)
        /\ LeaveRun(l, "ok")
        /\ UNCHANGED <<plan, it>>
     \/ /\ k <= Len(plan.methods)
        /\ Invalid(plan.methods[k])
        /\ LeaveRun(l, "crash")
        /\ UNCHANGED <<plan, it>>
     \/ /\ k <= Len(plan.methods)
        /\ ~Invalid(plan.methods[k])
        /\ BeginIteration(l, plan.methods[k], 0, 0)

Streak(r) == IF Failed(r) THEN streak + 1 ELSE 0

(* A threshold that is not set, or 0, is the repeat count. *)
Threshold(m) == IF m.consec \in {None, 0} THEN m.repeat ELSE m.consec

(* Mutant: one iteration more than max_count, the threshold passed over. *)
AgainOffByOne(m, r) ==
  \/ m.retry # None /\ Failed(r) /\ it < m.retry
  \/ /\ m.retry = None /\ m.repeat # None
     /\ it + 1 < m.repeat /\ streak # Threshold(m)

Again(m, r) ==
  \/ m.retry # None /\ Failed(r) /\ it + 1 < m.retry
  \/ /\ m.retry = None /\ m.repeat # None
     /\ it + 1 < m.repeat /\ Streak(r) # Threshold(m)

-----------------------------------------------------------------------------
(* Record 1 is expects.DEFAULT_TEST_RESULT_RECORD: _pre_run does not reset  *)
(* the recorder, which still holds it.                                      *)
Init ==
  /\ pc = "pre_run" /\ plan \in Plans
  /\ n = 0 /\ it = 0 /\ streak = 0 /\ pos = 1
  /\ exc = "ok" /\ raised = {}
  /\ objects = <<>> /\ live = {}
  /\ ledger = [records |-> <<NewRecord(StageName("mobly"), 0, "none"),
                             NewRecord(StageName("pre_run"), 0, "none")>>,
               results |-> EmptyResult,
               file |-> <<>>]
  /\ info = 2
  /\ recorder = [rec |-> 1, count |-> 0]

(* User code registers a controller.  Only a successful registration is a   *)
(* step: one that raises or returns None leaves the registry as it was, and  *)
(* with too few objects has destroyed them before it raises.                *)
Register(c) ==
  /\ pc \in UserStages
  /\ c \notin Ids(objects)
  /\ objects' = Append(objects, c)
  /\ live' = live \cup {c}
  /\ UNCHANGED <<pc, control, ledger, info, recorder, exc, raised, pos>>

PreRunFails(out, x) ==
  /\ pc = "pre_run" /\ out # "ok"
  /\ LET l == Expected(x)
         e == SetRecord(l, info, TestEnd(l.records[info], "ERROR", TRUE))
     IN ledger' = Dump(AddClassError(e, info), info)
  /\ pc' = "done"
  /\ Recorded(x) /\ Raises(out)
  /\ UNCHANGED <<control, info, exc, registry>>

PreRunReturns(x) ==
  /\ pc = "pre_run"
  /\ LET l == DumpOther(Expected(x), "TEST_NAME_LIST") IN
     \/ /\ plan.resolves
        /\ EnterStage(l, "setup_class", StageName("setup_class"), 0, "none")
        /\ UNCHANGED exc
     \/ /\ ~plan.resolves
        /\ ledger' = l /\ pc' = "done" /\ exc' = "crash"
        /\ Recorded(x)
        /\ UNCHANGED info
  /\ UNCHANGED <<control, raised, registry>>

-----------------------------------------------------------------------------
(* _setup_class *)

SetupClassPasses ==
  /\ pc = "setup_class"
  /\ Advance(ledger, 1)
  /\ UNCHANGED <<raised, registry>>

SetupClassAborts(out, x) ==
  /\ pc = "setup_class" /\ out \in Abort
  /\ SkipAndLeave(Expected(x), out)
  /\ Recorded(x) /\ Raises(out)
  /\ UNCHANGED <<control, objects, live>>

SetupClassRaises(out, x) ==
  /\ pc = "setup_class" /\ out \notin Abort \cup {"ok"}
  /\ LET l == Expected(x)
         e == SetRecord(l, info, TestEnd(l.records[info], "ERROR", TRUE))
     IN ledger' = AddClassError(e, info)
  /\ pc' = "on_fail_raised"
  /\ Recorded(x)
  /\ UNCHANGED <<control, info, exc, raised, registry>>

SetupClassExpects ==
  /\ pc = "setup_class"
  /\ TRUE \in UserExpects
  /\ ledger' = Expected(TRUE)
  /\ pc' = "on_fail_expects"
  /\ Recorded(TRUE)
  /\ UNCHANGED <<control, info, exc, raised, registry>>

ClassOnFailAborts(out, x) ==
  /\ pc \in ClassOnFail /\ out \in Abort
  /\ SkipAndLeave(Expected(x), out)
  /\ Recorded(x) /\ Raises(out)
  /\ UNCHANGED <<control, objects, live>>

ClassOnFailReturns(out, x) ==
  /\ pc \in ClassOnFail /\ out \notin Abort
  /\ LET l == ProcedureError(Expected(x), out)
         r == UpdateRecord(l.records[info])
         e == UpdateRecord(TestEnd(l.records[info], "ERROR", FALSE))
         filed == IF pc = "on_fail_raised"
                  THEN Dump(SetRecord(l, info, r), info)
                  ELSE AddClassError(Dump(SetRecord(l, info, e), info), info)
     IN SkipAndLeave(filed, "ok")
  /\ Recorded(x)
  /\ UNCHANGED <<control, raised, objects, live>>

-----------------------------------------------------------------------------
(* exec_one_test *)

(* A TestFailure of setup_test is turned into a TestError; the AssertionError  *)
(* of a plain assert, which counts as "fail" too, is not.                    *)
SetupTest(out, x) ==
  /\ pc = "setup_test"
  /\ exc' \in {out} \cup (IF out = "fail" THEN {"error"} ELSE {})
  /\ pc' = IF out = "ok" THEN "test" ELSE "teardown_test"
  /\ ledger' = Expected(x)
  /\ Recorded(x) /\ Raises(out)
  /\ UNCHANGED <<control, info, registry>>

TestMethod(out, x) ==
  /\ pc = "test"
  /\ exc' = out
  /\ pc' = "teardown_test"
  /\ ledger' = Expected(x)
  /\ Recorded(x) /\ Raises(out)
  /\ UNCHANGED <<control, info, registry>>

(* How the except clauses of exec_one_test end the record r when e is in    *)
(* flight after teardown_test; broken: did teardown_test throw or expect.   *)
EndTest(r, e, broken, hasError) ==
  CASE e = "fail" -> TestEnd(r, "FAIL", TRUE)
    [] e = "skip" -> TestEnd(r, "SKIP", TRUE)
    [] e \in Abort -> TestEnd(r, "FAIL", TRUE)
    [] e = "pass" -> TestEnd(r, "PASS", TRUE)
    [] e = "error" -> TestEnd(r, "ERROR", TRUE)
    [] OTHER -> IF broken THEN r
                ELSE TestEnd(r, IF hasError THEN "FAIL" ELSE "PASS", FALSE)

(* Mutant: the abort signal of the test is not raised again. *)
InFlightForgets(out) == IF out \in Abort THEN out ELSE "ok"

(* What is in flight after a callback that ended with out: its abort signal   *)
(* replaces the exception that was.                                          *)
InFlight(out) == IF out \in Abort THEN out ELSE exc

(* An abort signal of teardown_test replaces the exception in flight; any    *)
(* other one is recorded and leaves it in flight.                           *)
TeardownTest(out, x) ==
  /\ pc = "teardown_test"
  /\ LET l == Expected(x)
         e == InFlight(out)
         broken == out \notin Abort /\ (out # "ok" \/ x)
         r0 == l.records[info]
         r1 == IF broken THEN TestEnd(r0, "ERROR", FALSE) ELSE r0
         r2 == IF out \in Abort \cup {"ok"} THEN r1 ELSE AddError(r1)
         r3 == UpdateRecord(EndTest(r2, e, broken, HasError(x)))
     IN /\ ledger' = SetRecord(l, info, r3)
        /\ exc' = IF e \in Abort THEN e ELSE "ok"
  /\ pc' = "procedure"
  /\ Recorded(x) /\ Raises(out)
  /\ UNCHANGED <<control, info, registry>>

(* on_fail, on_pass or on_skip, whichever the result calls for.  The record  *)
(* is filed whatever the procedure raises.  An abort leaves the loop, and    *)
(* one raised here replaces the one in flight.                              *)
Procedure(out, x) ==
  /\ pc = "procedure"
  /\ LET l == ProcedureError(Expected(x), IF out \in Abort THEN "ok" ELSE out)
         filed == Dump(AddRecord(l, info), info)
         r == filed.records[info]
         e == InFlight(out)
     IN \/ /\ e \in Abort
           /\ SkipAndLeave(filed, e)
           /\ Recorded(x)
           /\ UNCHANGED control
        \/ /\ e \notin Abort /\ Again(Current, r)
           /\ BeginIteration(filed, Current, it + 1, info)
           /\ streak' = Streak(r)
           /\ UNCHANGED <<n, pos>>
        \/ /\ e \notin Abort /\ ~Again(Current, r)
           /\ Advance(filed, n + 1)
           /\ UNCHANGED pos
  /\ Raises(out)
  /\ UNCHANGED <<objects, live>>

-----------------------------------------------------------------------------
(* The rest of the class: skipped tests, _teardown_class and _clean_up *)

SkipNext ==
  /\ pc = "skip" /\ pos <= Len(plan.requested)
  /\ ledger' = SkipUnlessExecuted(ledger, plan.requested[pos])
  /\ pos' = pos + 1
  /\ UNCHANGED <<pc, control, info, recorder, exc, raised, objects, live>>

SkipDone ==
  /\ pc = "skip" /\ pos > Len(plan.requested)
  /\ LeaveRun(ledger, exc)
  /\ UNCHANGED <<control, raised, registry>>

(* Only abort_all leaves teardown_class; it replaces what was in flight.     *)
TeardownClass(out, x) ==
  /\ pc = "teardown_class"
  /\ LET l == Expected(x)
         ended == TestEnd(l.records[info], "ERROR", out # "ok")
         filed == IF out = "abort_all" \/ (out = "ok" /\ ~x) THEN l
                  ELSE Dump(AddClassError(SetRecord(l, info, ended), info),
                            info)
     IN EnterStage(filed, "get_info", StageName("clean_up"), 0, "none")
  /\ exc' = IF out = "abort_all" THEN out ELSE exc
  /\ pos' = 1
  /\ Raises(out)
  /\ UNCHANGED <<control, objects, live>>

(* get_info and destroy run under expect_no_raises: whatever they raise is   *)
(* an error of the clean_up record and goes no further.                     *)
GetInfo(out) ==
  /\ pc = "get_info" /\ pos <= Len(objects)
  /\ ledger' = IF out = "ok" THEN DumpOther(ledger, "CONTROLLER_INFO")
               ELSE Expected(TRUE)
  /\ Recorded(out # "ok") /\ Raises(out)
  /\ pos' = pos + 1
  /\ UNCHANGED <<pc, control, info, exc, objects, live>>

(* Mutant: waits for a last controller where there may be none. *)
InfoRecordedNever ==
  /\ pc = "get_info" /\ Len(objects) > 0 /\ pos > Len(objects)
  /\ pc' = "destroy"
  /\ pos' = 1
  /\ UNCHANGED <<control, ledger, info, recorder, exc, raised, objects, live>>

InfoRecorded ==
  /\ pc = "get_info" /\ pos > Len(objects)
  /\ pc' = "destroy"
  /\ pos' = 1
  /\ UNCHANGED <<control, ledger, info, recorder, exc, raised, objects, live>>

(* Mutant: an exception of destroy is not caught. *)
DestroyUncaught(out) ==
  /\ pc = "destroy" /\ pos <= Len(objects)
  /\ live' = live \ {objects[pos]}
  /\ pc' = IF out = "ok" THEN pc ELSE "done"
  /\ Raises(out)
  /\ pos' = pos + 1
  /\ UNCHANGED <<control, ledger, info, recorder, exc, objects>>

Destroy(out) ==
  /\ pc = "destroy" /\ pos <= Len(objects)
  /\ live' = live \ {objects[pos]}
  /\ ledger' = Expected(out # "ok")
  /\ Recorded(out # "ok") /\ Raises(out)
  /\ pos' = pos + 1
  /\ UNCHANGED <<pc, control, info, exc, objects>>

(* The registry is cleared and the errors of the stage are filed. *)
FinishCleanUp ==
  /\ pc = "destroy" /\ pos > Len(objects)
  /\ objects' = <<>>
  /\ LET ended == TestEnd(ledger.records[info], "ERROR", FALSE)
     IN ledger' = IF HasError(FALSE)
                  THEN Dump(AddClassError(SetRecord(ledger, info, ended),
                                          info), info)
                  ELSE ledger
  /\ pc' = "done"
  /\ UNCHANGED <<control, info, recorder, exc, raised, live, pos>>

-----------------------------------------------------------------------------
ClassStep ==
  \/ \E c \in Controllers : Register(c)
  \/ \E x \in UserExpects : PreRunReturns(x)
  \/ SetupClassPasses
  \/ SetupClassExpects
  \/ \E out \in UserOutcomes, x \in UserExpects :
       \/ PreRunFails(out, x)
       \/ SetupClassAborts(out, x)
       \/ SetupClassRaises(out, x)
       \/ ClassOnFailAborts(out, x)
       \/ ClassOnFailReturns(out, x)
       \/ SetupTest(out, x)
       \/ TestMethod(out, x)
       \/ TeardownTest(out, x)
       \/ Procedure(out, x)
       \/ TeardownClass(out, x)
  \/ \E out \in UserOutcomes : GetInfo(out) \/ Destroy(out)
  \/ SkipNext
  \/ SkipDone
  \/ InfoRecorded
  \/ FinishCleanUp

(* run has returned or raised. *)
Finished == pc = "done" /\ UNCHANGED vars

Next == ClassStep \/ Finished

Spec == Init /\ [][Next]_vars

(* Every callback returns or raises at some time: a class run always goes on. *)
FairSpec == Spec /\ WF_vars(ClassStep)

-----------------------------------------------------------------------------
(* Properties *)

Executed == Ids(ledger.results.executed)
FailedIds == Ids(ledger.results.failed)
Passed == Ids(ledger.results.passed)
Skipped == Ids(ledger.results.skipped)
Errors == Ids(ledger.results.error)

(* Every variable has a value its Python counterpart can have. *)
TypeOK ==
  /\ pc \in Stages
  /\ plan \in Plans
  /\ n \in Nat /\ it \in Nat /\ streak \in Nat /\ pos \in Nat \ {0}
  /\ ledger \in LedgerType
  /\ info \in 1..Len(ledger.records)
  /\ recorder \in [rec : 1..Len(ledger.records), count : Nat]
  /\ exc \in Outcomes \cup {"crash"}
  /\ raised \subseteq Abort
  /\ objects \in Seq(Controllers)
  /\ live \subseteq Controllers

(* TestResult.add_record, add_class_error: whatever becomes of a record       *)
(* later, the lists of results agree with the results of their records.       *)
FiledByResult == WellFiled(ledger)

(* expect_*, _exec_procedure_func: an error recorded at any point of a test, *)
(* from setup_test to on_pass, keeps its record from being filed as passed   *)
(* or skipped, whatever the code after it decided about the result.          *)
NoErrorFiledAsPass ==
  \A id \in Passed \cup Skipped : ledger.records[id].extras = 0

(* TestResultRecord and TestSummaryWriter.dump: the file shows every filed    *)
(* record once, with the result it ends up with, and nothing unfiled.  The   *)
(* exception is setup_class: filed before on_fail runs, and shown after it,   *)
(* unless on_fail aborts.                                                    *)
FileShowsResults ==
  LET shows(i) == ledger.file[i].type = "RECORD"
      entries == {i \in DOMAIN ledger.file : shows(i)}
  IN /\ \A i \in entries :
          /\ ledger.file[i].rec \in Filed(ledger.results)
          /\ ledger.file[i].result = ledger.records[ledger.file[i].rec].result
     /\ \A i, j \in entries :
          ledger.file[i].rec = ledger.file[j].rec => i = j
     /\ \A id \in Filed(ledger.results) :
          \/ \E i \in entries : ledger.file[i].rec = id
          \/ /\ ledger.records[id].name = StageName("setup_class")
             /\ pc = "on_fail_raised" \/ raised # {}

(* expects.recorder, add_class_error: no error is lost.  A record that bears   *)
(* one is reported when run ends, but for three places: what expectations of *)
(* pre_run add to the record the recorder still holds, and those of a        *)
(* setup_class or teardown_class that then aborts.                           *)
ErrorsReported ==
  pc = "done" =>
    \A id \in DOMAIN ledger.records :
      Failed(ledger.records[id]) =>
        \/ id \in Filed(ledger.results)
        \/ ledger.records[id].name = StageName("mobly")
        \/ /\ raised # {}
           /\ ledger.records[id].name \in
                {StageName("setup_class"), StageName("teardown_class")}

(* run went past _pre_run. *)
Began == \E i \in DOMAIN ledger.file : ledger.file[i].type = "TEST_NAME_LIST"

(* _skip_remaining_tests: a run that returns or aborts, at whatever stage,   *)
(* has reported every requested test: it has an executed or skipped record,  *)
(* or the selector that asked for it is reported as skipped.  (A repeat or   *)
(* retry parameter that is not valid makes run raise and report no more.)    *)
EveryRequestReported ==
  /\ pc = "done" /\ Began
  /\ \A i \in DOMAIN plan.methods : ~Invalid(plan.methods[i])
  =>
    \A i \in DOMAIN plan.methods :
      \/ \E id \in Executed \cup Skipped :
           ledger.records[id].name.test = plan.methods[i].name
      \/ \E id \in Skipped :
           ledger.records[id].name = BareName(plan.methods[i].sel)

(* abort_class, abort_all: once a callback raised an abort signal no test    *)
(* begins in this class, whatever later callbacks raise in its place.        *)
NoTestAfterAbort == pc \in {"setup_test", "test"} => raised = {}

(* A later iteration of the same retried test is one of `passed`: the         *)
(* iterations of a test are records that follow one another.                 *)
Forgiven(id, passed) ==
  \E p \in {q \in passed : q > id} :
    \A j \in id + 1..p :
      /\ ledger.records[j].link = "RETRY"
      /\ ledger.records[j].name.test = ledger.records[id].name.test

(* TestResult.is_all_pass: the difference of counts it computes is zero just  *)
(* when every failed or erroneous record is forgiven by a passing retry.      *)
VerdictSound ==
  IsAllPass(ledger.records, ledger.results) <=>
    \A id \in FailedIds \cup Errors : Forgiven(id, Passed)

(* Record id is an iteration that m may have: it follows the one before, which *)
(* failed if m is retried; their number stays below the count; and of the     *)
(* repeats before it, as many as the threshold, one did not fail.             *)
Permitted(id, m) ==
  LET name(j) == ledger.records[j].name
      bad(j) == Failed(ledger.records[j])
      i == name(id).i
  IN /\ name(id) = Name(m, i)
     /\ i > 0 => id > 1 /\ name(id - 1) = Name(m, i - 1)
     /\ m.retry # None => i < m.retry /\ (i > 0 => bad(id - 1))
     /\ m.retry = None =>
          /\ i < m.repeat
          /\ Threshold(m) \in 1..i =>
               \E j \in id - Threshold(m)..id - 1 : ~bad(j)

(* _exec_one_test_with_retry, _exec_one_test_with_repeat: a retry follows a   *)
(* failed iteration, no test runs more often than its count, and no repeat    *)
(* follows a run of failures as long as its threshold.  Where no test is asked *)
(* for twice, no iteration runs twice.                                       *)
IterationPolicy ==
  LET runs == {id \in Executed \cup Skipped :
                 ledger.records[id].name.kind \in {"retry", "repeat"}}
      methods == plan.methods
  IN /\ \A id \in runs : \E k \in DOMAIN methods : Permitted(id, methods[k])
     /\ (\A j, k \in DOMAIN methods : methods[j].name = methods[k].name => j = k)
          => \A id, j \in runs :
               ledger.records[id].name = ledger.records[j].name => id = j

(* unregister_controllers: whatever is alive is still in the registry, and a  *)
(* run that got as far as _setup_class leaves nothing alive behind.           *)
ControllersReleased ==
  /\ live \subseteq Ids(objects)
  /\ pc = "done" /\ Began /\ plan.resolves => live = {} /\ objects = <<>>

(* add_record "finalizes the content of a record": no later stage, and no     *)
(* expectation failing in one, changes a record already added; the lists      *)
(* and the file only grow.                                                   *)
RecordsFinal ==
  [][/\ \A id \in Executed \cup Skipped :
          ledger'.records[id] = ledger.records[id]
     /\ \A l \in Lists :
          SubSeq(ledger'.results[l], 1, Len(ledger.results[l]))
            = ledger.results[l]
     /\ SubSeq(ledger'.file, 1, Len(ledger.file)) = ledger.file]_vars

(* The stages of run's finally. *)
Finally == <<"teardown_class", "get_info", "destroy", "done">>

(* run's finally: once setup_class was called the run ends with its controllers *)
(* released, whatever the callbacks raise, and tears down only once: no stage  *)
(* of the finally is begun again, or followed by an earlier one or by a test. *)
CleansUp ==
  /\ pc = "setup_class" ~> pc = "done" /\ live = {}
  /\ [][\A i \in DOMAIN Finally :
          pc = Finally[i] =>
            \E j \in i..4 : pc' = Finally[j] /\ (j > i \/ info' = info)]_vars

-----------------------------------------------------------------------------
(* Claims of the documentation that the code does not keep.                  *)

(* unregister_controllers "will be called after each test class". *)
ControllersAlwaysReleased == pc = "done" => live = {}
=============================================================================
