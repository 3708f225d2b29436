------------------------------ MODULE TestRun ------------------------------
(***************************************************************************)
(* The two entry points of mobly/suite_runner.py: run_suite (test_runner.  *)
(* main is it with one class), and run_suite_class with a BaseSuite, which *)
(* has one test bed.  For every test bed a TestRunner runs its test        *)
(* classes one after the other, adds up their results and ends the bed's   *)
(* summary file.  The class runs are those of TestClass, with the expects  *)
(* recorder shared by all of them.  A SIGTERM is the abort_all its handler *)
(* raises in whatever callback is running.                                 *)
(***************************************************************************)
EXTENDS TestClass

CONSTANT NumClasses  \* for each test bed the number of classes it runs

NumBeds == Len(NumClasses)

ASSUME SizesAssumption == NumClasses \in Seq(Nat \ {0}) /\ NumClasses # <<>>

VARIABLES
  mode,    \* "run_suite" or "suite_class"
  added,   \* how many classes the bed runs
  phase,   \* "setup": setup_suite runs; "class": a class runs; "summary": run's
           \* finally; "bed": the runner's outcome is known; "teardown": the
           \* suite's teardown_suite runs; "exit": the program ended
  bed,     \* index of the test bed
  cls,     \* index of the class
  total,   \* TestRunner.results
  outcome, \* how TestRunner.run ends: "ok", "abort_all" or "crash"
  ok,      \* run_suite's ok
  clean    \* history: for each bed that ended, does its summary file show no
           \* failure that a retry does not forgive

runner == <<mode, added, phase, bed, cls, total, outcome, ok, clean>>
runVars == <<vars, runner>>

RunInit ==
  /\ Init
  /\ \/ mode = "run_suite" /\ phase = "class" /\ ok = TRUE
     \/ mode = "suite_class" /\ phase = "setup" /\ ok = FALSE
  /\ added = NumClasses[1]
  /\ bed = 1 /\ cls = 1
  /\ total = EmptyResult /\ outcome = "ok"
  /\ clean = <<>>

(* setup_suite adds the classes of the suite that the selector of the command *)
(* line names.  It may raise, and so does the runner that has no class.      *)
SetupSuite(raises) ==
  /\ phase = "setup"
  /\ \E k \in 0..NumClasses[1] :
       /\ added' = k
       /\ IF raises \/ k = 0 THEN phase' = "teardown" /\ outcome' = "crash"
          ELSE phase' = "class" /\ UNCHANGED outcome
  /\ UNCHANGED <<vars, mode, bed, cls, total, ok, clean>>

InClass == phase = "class" /\ ClassStep /\ UNCHANGED runner

(* A new instance of a test class starts its run: its own results, the       *)
(* records and the file as they are, the recorder not reset.                *)
StartClass(records, file, held) ==
  /\ pc' = "pre_run" /\ plan' \in Plans
  /\ n' = 0 /\ it' = 0 /\ streak' = 0 /\ pos' = 1
  /\ exc' = "ok" /\ raised' = {}
  /\ objects' = <<>> /\ live' = {}
  /\ ledger' = [records |-> Append(records,
                                   NewRecord(StageName("pre_run"), 0, "none")),
                results |-> EmptyResult,
                file |-> file]
  /\ info' = Len(records) + 1
  /\ recorder' = [recorder EXCEPT !.rec = held]

(* Mutant: results are not carried on TestAbortAll. *)
CountedUnlessRaised(e) == e \notin {"crash", "abort_all"}

(* Do the results of a class that ended with e reach the total? *)
Counted(e) == e # "crash"

MoreClasses == cls < added

(* _run_test_class: a class that returned (TestAbortClass included) or       *)
(* carries its results on TestAbortAll is added to the total; the results of *)
(* one that raised anything else are lost.                                  *)
EndClass ==
  /\ phase = "class" /\ pc = "done"
  /\ total' = IF Counted(exc) THEN MergeResults(total, ledger.results) ELSE total
  /\ \/ /\ exc \notin {"crash", "abort_all"} /\ MoreClasses
        /\ cls' = cls + 1
        /\ StartClass(ledger.records, ledger.file, recorder.rec)
        /\ UNCHANGED <<phase, outcome>>
     \/ /\ exc \notin {"crash", "abort_all"} /\ ~MoreClasses
        /\ phase' = "summary"
        /\ UNCHANGED <<vars, cls, outcome>>
     \/ /\ exc \in {"crash", "abort_all"}
        /\ phase' = "summary" /\ outcome' = exc
        /\ UNCHANGED <<vars, cls>>
  /\ UNCHANGED <<mode, added, bed, ok, clean>>

(* The finally of TestRunner.run. *)
WriteSummary ==
  /\ phase = "summary"
  /\ phase' = "bed"
  /\ ledger' = DumpOther(ledger, "SUMMARY")
  /\ UNCHANGED <<pc, control, info, recorder, exc, raised, registry, mode,
                 added, bed, cls, total, outcome, ok, clean>>

(* Every failure the summary file shows was retried until it passed. *)
FileClean ==
  LET shown(results) ==
        {ledger.file[i].rec : i \in {j \in DOMAIN ledger.file :
                                       ledger.file[j].result \in results}}
  IN \A id \in shown({"FAIL", "ERROR"}) : Forgiven(id, shown({"PASS"}))

(* Mutant: only the last bed counts. *)
NextOkLast == outcome # "crash" /\ IsAllPass(ledger.records, total)

NextOk ==
  /\ ok \/ mode = "suite_class"
  /\ outcome # "crash" /\ IsAllPass(ledger.records, total)

(* run_suite goes on with the next bed whatever ended this one.  Of the      *)
(* records only the one the recorder holds is still reachable.  In           *)
(* run_suite_class the suite is torn down.                                   *)
EndBed ==
  /\ phase = "bed"
  /\ ok' = NextOk
  /\ clean' = Append(clean, FileClean)
  /\ UNCHANGED mode
  /\ \/ /\ mode = "suite_class" /\ phase' = "teardown"
        /\ UNCHANGED <<vars, added, bed, cls, total, outcome>>
     \/ /\ mode = "run_suite" /\ bed < NumBeds
        /\ bed' = bed + 1 /\ cls' = 1 /\ phase' = "class"
        /\ added' = NumClasses[bed']
        /\ total' = EmptyResult /\ outcome' = "ok"
        /\ StartClass(<<ledger.records[recorder.rec]>>, <<>>, 1)
     \/ /\ mode = "run_suite" /\ bed = NumBeds
        /\ phase' = "exit"
        /\ UNCHANGED <<vars, added, bed, cls, total, outcome>>

(* Mutant: what teardown_suite raises is dropped. *)
StillOkAlways(raises) == ok

(* The exception ends the program. *)
StillOk(raises) == ok /\ ~raises

(* The finally of run_suite_class: SUITE_INFO is written unless               *)
(* teardown_suite raises.                                                    *)
TeardownSuite(raises) ==
  /\ phase = "teardown"
  /\ ledger' = IF raises THEN ledger ELSE DumpOther(ledger, "SUITE_INFO")
  /\ ok' = StillOk(raises)
  /\ phase' = "exit"
  /\ UNCHANGED <<pc, control, info, recorder, exc, raised, registry, mode, added, bed,
                 cls, total, outcome, clean>>

Exited == phase = "exit" /\ UNCHANGED runVars

RunStep ==
  \/ \E raises \in BOOLEAN : SetupSuite(raises) \/ TeardownSuite(raises)
  \/ InClass
  \/ EndClass
  \/ WriteSummary
  \/ EndBed

RunNext == RunStep \/ Exited

RunSpec == RunInit /\ [][RunNext]_runVars /\ WF_runVars(RunStep)

-----------------------------------------------------------------------------
(* Properties *)

(* TestRunner.run: a bed's file ends with its only SUMMARY, however the run   *)
(* ends.  What the SUMMARY counts is in the file with the same result, and    *)
(* what the file shows is counted unless a class raised: TestAbortAll carries *)
(* the results of the class it leaves.                                       *)
SummaryClosesFile ==
  phase = "bed" =>
    LET file == ledger.file
        entries == {i \in DOMAIN file : file[i].type = "RECORD"}
    IN /\ {i \in DOMAIN file : file[i].type = "SUMMARY"} = {Len(file)}
       /\ \A id \in Filed(total) :
            \/ \E i \in entries : /\ file[i].rec = id
                                  /\ file[i].result = ledger.records[id].result
            \/ ledger.records[id].name = StageName("setup_class")
       /\ outcome # "crash" =>
            \A i \in entries : file[i].rec \in Filed(total)

(* run_suite_class: SUITE_INFO closes the file, once, also when the suite or  *)
(* its run raised; a run that succeeds has written it right after SUMMARY.    *)
SuiteInfoClosesFile ==
  phase = "exit" /\ mode = "suite_class" =>
    LET at(type) == {i \in DOMAIN ledger.file : ledger.file[i].type = type}
        end == Len(ledger.file)
    IN /\ at("SUITE_INFO") \subseteq {end}
       /\ ok => at("SUITE_INFO") = {end} /\ at("SUMMARY") = {end - 1}

(* The program exits with 0 only if no bed's summary file shows a             *)
(* failure, in whichever class, bed or stage, that no retry forgives.         *)
ExitSound == phase = "exit" /\ ok => \A b \in DOMAIN clean : clean[b]

(* The run ends, whatever the callbacks of its classes raise. *)
RunExits == <>(phase = "exit")

-----------------------------------------------------------------------------
(* A claim of the documentation that the code does not keep. *)

(* asserts.abort_all: "Abort all subsequent tests, including the ones not in  *)
(* this test class"; sigterm_handler raises it so that Mobly does not         *)
(* "continue executing remaining tests".                                     *)
NoClassAfterAbortAll ==
  [][cls' > cls => "abort_all" \notin raised]_runVars
=============================================================================
