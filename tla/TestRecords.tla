---------------------------- MODULE TestRecords ----------------------------
(***************************************************************************)
(* The result records of mobly/records.py as pure operators: what one      *)
(* TestResultRecord goes through, and the ledger a test class writes: the  *)
(* record objects alive, the lists of its TestResult (which hold           *)
(* references, here indices into `records`) and the summary file.          *)
(* Timestamps, signatures, details and stack traces are left out; of the   *)
(* extra errors only their number is kept, of the termination signal only  *)
(* whether there is one.                                                   *)
(***************************************************************************)
EXTENDS Integers, Sequences

CONSTANT TestNames  \* names of tests, and the selectors that ask for them

Lists == {"executed", "failed", "passed", "skipped", "error"}

Results == {"none", "PASS", "FAIL", "SKIP", "ERROR"}

(* The name of a record: a test's bare name, an iteration of it (`_retry_i` *)
(* or `_i` appended), or the name of a class-level stage.                   *)
BareName(t) == [test |-> t, kind |-> "bare", i |-> 0]
IterationName(t, kind, i) == [test |-> t, kind |-> kind, i |-> i]
StageName(s) == [test |-> s, kind |-> "stage", i |-> 0]

(* The class-level stages, and the name of DEFAULT_TEST_RESULT_RECORD. *)
StageLabels == {"pre_run", "setup_class", "teardown_class", "clean_up", "mobly"}

Names ==
  [test : TestNames \cup StageLabels,
   kind : {"bare", "retry", "repeat", "stage"}, i : Nat]

Links == {"none", "RETRY", "REPEAT"}

RecordType ==
  [name : Names, result : Results, signal : BOOLEAN, extras : Nat,
   parent : Nat, link : Links]

(* parent: the index of the previous iteration's record, 0 for none;       *)
(* link: the TestParentType of that parent.                                *)
NewRecord(name, parent, link) ==
  [name |-> name, result |-> "none", signal |-> FALSE, extras |-> 0,
   parent |-> parent, link |-> link]

(* e: is an exception passed along, so that it becomes the signal? *)
TestEnd(r, result, e) ==
  [r EXCEPT !.result = result, !.signal = r.signal \/ e]

AddError(r) ==
  [r EXCEPT !.result = IF r.result = "FAIL" THEN "FAIL" ELSE "ERROR",
            !.extras = r.extras + 1]

(* Mutant: the first extra error is taken without asking if there is one. *)
UpdateRecordUnguarded(r) ==
  [r EXCEPT !.signal = TRUE,
            !.extras = IF r.signal THEN r.extras ELSE r.extras - 1]

(* Mutant: a skipped test stays skipped. *)
UpdateRecordKeepsSkip(r) ==
  IF r.extras = 0 THEN r
  ELSE [r EXCEPT !.result = IF r.result \in {"FAIL", "SKIP"} THEN r.result
                            ELSE "ERROR",
                 !.signal = TRUE,
                 !.extras = IF r.signal THEN r.extras ELSE r.extras - 1]

(* Extra errors make any result but FAIL an ERROR, and the first of them is *)
(* taken out to be the termination signal when there is none.               *)
UpdateRecord(r) ==
  IF r.extras = 0 THEN r
  ELSE [r EXCEPT !.result = IF r.result = "FAIL" THEN "FAIL" ELSE "ERROR",
                 !.signal = TRUE,
                 !.extras = IF r.signal THEN r.extras ELSE r.extras - 1]

Failed(r) == r.result \in {"FAIL", "ERROR"}

-----------------------------------------------------------------------------
(* TestResult *)

EmptyResult == [l \in Lists |-> <<>>]

Ids(s) == {s[i] : i \in DOMAIN s}

Filed(res) == UNION {Ids(res[l]) : l \in Lists}

MergeResults(a, b) == [l \in Lists |-> a[l] \o b[l]]

(* The list of add_record that takes an executed record with this result. *)
Bucket(result) ==
  CASE result = "FAIL" -> "failed"
    [] result = "PASS" -> "passed"
    [] OTHER -> "error"

(* Mutant: no return after the skipped list. *)
FileUnderNoReturn(res, id, result) ==
  LET skipped == IF result = "SKIP"
                 THEN [res EXCEPT !.skipped = Append(@, id)] ELSE res
  IN [skipped EXCEPT !.executed = Append(@, id),
                     ![Bucket(result)] = Append(@, id)]

FileUnder(res, id, result) ==
  IF result = "SKIP"
  THEN [res EXCEPT !.skipped = Append(@, id)]
  ELSE [res EXCEPT !.executed = Append(@, id),
                   ![Bucket(result)] = Append(@, id)]

-----------------------------------------------------------------------------
(* The ledger: [records, results, file].                                    *)

EntryTypes == {"TEST_NAME_LIST", "RECORD", "CONTROLLER_INFO", "SUMMARY",
               "SUITE_INFO"}

(* An entry of the summary file: the record it shows and the result shown. *)
Entry(type, id, result) == [type |-> type, rec |-> id, result |-> result]

EntryType == [type : EntryTypes, rec : Nat, result : Results]

LedgerType ==
  [records : Seq(RecordType), results : [Lists -> Seq(Nat)],
   file : Seq(EntryType)]

Create(l, name, parent, link) ==
  [l EXCEPT !.records = Append(@, NewRecord(name, parent, link))]

SetRecord(l, id, r) == [l EXCEPT !.records[id] = r]

Dump(l, id) ==
  [l EXCEPT !.file = Append(@, Entry("RECORD", id, l.records[id].result))]

DumpOther(l, type) == [l EXCEPT !.file = Append(@, Entry(type, 0, "none"))]

AddRecord(l, id) ==
  LET r == UpdateRecord(l.records[id]) IN
  [l EXCEPT !.records[id] = r, !.results = FileUnder(@, id, r.result)]

AddClassError(l, id) ==
  [l EXCEPT !.records[id] = UpdateRecord(@),
            !.results.error = Append(@, id)]

(* A record is in the list of the result it has, an executed one in exactly  *)
(* one of failed, passed and error, and what is in error without being       *)
(* executed is a class stage.                                                *)
WellFiled(l) ==
  LET ids(list) == Ids(l.results[list])
      with(result) == {id \in DOMAIN l.records : l.records[id].result = result}
  IN /\ ids("failed") \subseteq with("FAIL")
     /\ ids("passed") \subseteq with("PASS")
     /\ ids("skipped") \subseteq with("SKIP")
     /\ ids("error") \subseteq with("ERROR")
     /\ ids("executed") =
          ids("failed") \cup ids("passed") \cup
            {id \in ids("error") : l.records[id].name.kind # "stage"}

IsTestExecuted(l, name) ==
  \E id \in Ids(l.results.executed) : l.records[id].name = name

(* One turn of _skip_remaining_tests: a requested name that no executed      *)
(* record bears gets a record, filed as skipped and dumped.                  *)
SkipUnlessExecuted(l, name) ==
  IF IsTestExecuted(l, BareName(name)) THEN l
  ELSE LET id == Len(l.records) + 1
           made == Create(l, BareName(name), 0, "none")
           skip == TestEnd(made.records[id], "SKIP", TRUE)
       IN Dump(AddRecord(SetRecord(made, id, skip), id), id)

(* Mutant: a parent of any type is followed. *)
RetryDepthAnyLink(records) ==
  LET depth[id \in 0..Len(records)] ==
        IF id = 0 \/ records[id].parent = 0 THEN 0
        ELSE 1 + depth[records[id].parent]
  IN depth

(* _count_eventually_passing_retries walks from every passed record along    *)
(* its RETRY links and counts the steps.                                     *)
RetryDepth(records) ==
  LET depth[id \in 0..Len(records)] ==
        IF id = 0 \/ records[id].link # "RETRY" THEN 0
        ELSE 1 + depth[records[id].parent]
  IN depth

EventuallyPassingRetries(records, passed) ==
  LET sum[i \in 0..Len(passed)] ==
        IF i = 0 THEN 0 ELSE sum[i - 1] + RetryDepth(records)[passed[i]]
  IN sum[Len(passed)]

IsAllPass(records, res) ==
  Len(res.failed) + Len(res.error)
    - EventuallyPassingRetries(records, res.passed) = 0
=============================================================================
