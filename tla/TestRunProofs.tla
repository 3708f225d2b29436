--------------------------- MODULE TestRunProofs ---------------------------
(***************************************************************************)
(* Theorems about class runs (TestClass) and the programs made of them     *)
(* (TestRun), for every set of plans and controllers, any number of test   *)
(* beds and classes.                                                       *)
(*                                                                         *)
(* Of a class run: its variables keep their types, and whatever callbacks  *)
(* do the lists of a TestResult agree with the results of the records they *)
(* hold, an error keeps a record from being filed as passed, and what was  *)
(* filed stays.  An abort signal keeps every later test from running, the  *)
(* controllers registered are destroyed, the summary file shows what is    *)
(* filed, no error is lost and every requested test is reported.           *)
(*                                                                         *)
(* FiledByResult is not inductive: what a stage writes to is known only    *)
(* through `info` and `recorder`, two references to record objects.  The   *)
(* invariant adds that neither refers to a filed record while code runs    *)
(* that could write through it (Unfiled), except in the on_fail after a    *)
(* setup_class that raised, where the record is already an ERROR           *)
(* (StageRecord).                                                          *)
(*                                                                         *)
(* The lemmas come first that say what the operators of TestRecords do:    *)
(* to the type of a record and of a ledger, to the agreement between lists *)
(* and results (SoundLedger), and which records they write, file and show  *)
(* (Writes, Files, Shows).                                                 *)
(*                                                                         *)
(* The reporting theorems, which come next, follow three things in a run.  *)
(* StageOf and Shown: which record a stage holds, and which entry of the   *)
(* file a filed record has.  Settled: records that will not change any     *)
(* more, so that an error in one of them is filed for good (Reported).     *)
(* Progress: which tests of the plan were reported when the loop of run,   *)
(* or that of _skip_remaining_tests, has come to its present position.     *)
(*                                                                         *)
(* is_all_pass computes a difference of counts, and is right because of    *)
(* how the records are linked (Chain): a retry has the record just made    *)
(* before its own as parent, that of the same test, filed as a failure.    *)
(* What RetryDepth counts from a passed record are then the records right  *)
(* before it (DepthCounts), the walks from two passed records have no      *)
(* record in common (WalksApart), and the sum counts each forgiven failure *)
(* once.  Both functions are recursive: that they have a value, and which, *)
(* is shown with the least argument at which it fails (Least).             *)
(*                                                                         *)
(* The loops over iterations (Iterating) are followed through what a step  *)
(* makes: no record, a plain one, the first iteration of a test or the     *)
(* next one (StepMakes).                                                   *)
(*                                                                         *)
(* Of a program: the file of a bed ends with its only SUMMARY and agrees   *)
(* with the results the runner added up, SUITE_INFO closes the file of a   *)
(* suite, and the exit code is 0 only after beds without a failure.        *)
(*                                                                         *)
(* The class runs keep the invariants of the first part, with one thing it *)
(* need not say: the recorder may still hold a record of an earlier class, *)
(* which pre_run's expectations write to although the runner has counted   *)
(* it.  Apart says that such a record is an ERROR, and so remains what it  *)
(* was counted and shown as.  The exit code needs more (Summed): the links *)
(* of the retries and the counts above over the sums of all classes.       *)
(***************************************************************************)
EXTENDS TestRun, SequenceTheorems, FiniteSetTheorems, WellFoundedInduction, TLAPS

-----------------------------------------------------------------------------
(* Records *)

(* What a record keeps from its creation on: its name and where it comes from. *)
Origin(r) == <<r.name, r.parent, r.link>>

(* A new TestResultRecord is a record. *)
LEMMA NewRecordType ==
  ASSUME NEW name \in Names, NEW parent \in Nat, NEW link \in Links
  PROVE  NewRecord(name, parent, link) \in RecordType
  BY DEF NewRecord, RecordType, Results

(* _test_end gives a record the result it is called with. *)
LEMMA TestEndType ==
  ASSUME NEW r \in RecordType, NEW result \in Results, NEW e \in BOOLEAN
  PROVE  /\ TestEnd(r, result, e) \in RecordType
         /\ TestEnd(r, result, e).result = result
         /\ TestEnd(r, result, e).name = r.name
         /\ Origin(TestEnd(r, result, e)) = Origin(r)
  BY DEF TestEnd, RecordType, Origin

(* add_error leaves FAIL alone and makes anything else an ERROR. *)
LEMMA AddErrorType ==
  ASSUME NEW r \in RecordType
  PROVE  /\ AddError(r) \in RecordType
         /\ AddError(r).result \in {"FAIL", "ERROR"}
         /\ r.result # "FAIL" => AddError(r).result = "ERROR"
         /\ AddError(r).name = r.name
         /\ Origin(AddError(r)) = Origin(r)
<1>1. r.extras + 1 \in Nat
  BY DEF RecordType
<1>2. (IF r.result = "FAIL" THEN "FAIL" ELSE "ERROR") \in Results
  BY DEF Results
<1>3. AddError(r) \in RecordType
  BY <1>1, <1>2 DEF AddError, RecordType
<1>4. /\ AddError(r).result = IF r.result = "FAIL" THEN "FAIL" ELSE "ERROR"
      /\ AddError(r).name = r.name
      /\ Origin(AddError(r)) = Origin(r)
  BY DEF AddError, RecordType, Origin
<1> QED
  BY <1>3, <1>4

(* update_record turns a result into itself or into an ERROR. *)
LEMMA UpdateRecordType ==
  ASSUME NEW r \in RecordType
  PROVE  /\ UpdateRecord(r) \in RecordType
         /\ UpdateRecord(r).result \in {r.result, "ERROR"}
         /\ UpdateRecord(r).name = r.name
         /\ Origin(UpdateRecord(r)) = Origin(r)
<1>1. CASE r.extras = 0
  BY <1>1 DEF UpdateRecord
<1>2. CASE r.extras # 0
  <2> DEFINE result == IF r.result = "FAIL" THEN "FAIL" ELSE "ERROR"
             extras == IF r.signal THEN r.extras ELSE r.extras - 1
  <2>1. result \in Results /\ result \in {r.result, "ERROR"}
    BY DEF Results
  <2>2. extras \in Nat
    BY <1>2 DEF RecordType
  <2>3. UpdateRecord(r) =
          [r EXCEPT !.result = result, !.signal = TRUE, !.extras = extras]
    BY <1>2 DEF UpdateRecord
  <2> HIDE DEF result, extras
  <2> QED
    BY <2>1, <2>2, <2>3 DEF RecordType, Origin
<1> QED
  BY <1>1, <1>2
-----------------------------------------------------------------------------
(* The ledger *)

(* A typed ledger whose lists hold existing records, each in its list. *)
SoundLedger(l) ==
  /\ l \in LedgerType
  /\ WellFiled(l)

(* What a list holds after an append. *)
LEMMA IdsAppend ==
  ASSUME NEW s \in Seq(Nat), NEW x \in Nat
  PROVE  Append(s, x) \in Seq(Nat) /\ Ids(Append(s, x)) = Ids(s) \cup {x}
<1> DEFINE t == Append(s, x)
<1>1. /\ t \in Seq(Nat)
      /\ DOMAIN s = 1..Len(s) /\ DOMAIN t = 1..Len(s) + 1
      /\ t[Len(s) + 1] = x
      /\ \A i \in 1..Len(s) : t[i] = s[i]
      /\ Len(s) \in Nat
  OBVIOUS
<1> HIDE DEF t
<1>2. Ids(t) \subseteq Ids(s) \cup {x}
  BY <1>1 DEF Ids
<1>3. Ids(s) \cup {x} \subseteq Ids(t)
  BY <1>1 DEF Ids
<1> QED
  BY <1>1, <1>2, <1>3 DEF t

(* The lists of results are those a record can be filed in. *)
LEMMA FiledUnion ==
  ASSUME NEW res \in [Lists -> Seq(Nat)], NEW id
  PROVE  id \in Filed(res) <=> \E list \in Lists : id \in Ids(res[list])
  BY DEF Filed

(* A sound ledger files records that exist. *)
LEMMA FiledExist ==
  ASSUME NEW l, SoundLedger(l)
  PROVE  Filed(l.results) \subseteq DOMAIN l.records
  BY DEF SoundLedger, WellFiled, LedgerType, Filed, Lists

(* test_begin: a new record at the end, nothing else touched. *)
LEMMA CreateSound ==
  ASSUME NEW l, SoundLedger(l),
         NEW name \in Names, NEW parent \in Nat, NEW link \in Links
  PROVE  LET made == Create(l, name, parent, link)
             id == Len(l.records) + 1
         IN /\ SoundLedger(made)
            /\ Len(made.records) = id
            /\ made.records[id] = NewRecord(name, parent, link)
            /\ \A k \in DOMAIN l.records : made.records[k] = l.records[k]
            /\ made.results = l.results
            /\ made.file = l.file
<1> DEFINE made == Create(l, name, parent, link)
           id == Len(l.records) + 1
           new == NewRecord(name, parent, link)
<1>1. new \in RecordType
  BY NewRecordType
<1>2. l \in LedgerType /\ l.records \in Seq(RecordType)
  BY DEF SoundLedger, LedgerType
<1>3. /\ made.records = Append(l.records, new)
      /\ made.results = l.results
      /\ made.file = l.file
  BY <1>2 DEF Create, LedgerType
<1> HIDE DEF new
<1>4. made \in LedgerType
  <2>1. Append(l.records, new) \in Seq(RecordType)
    BY <1>1, <1>2
  <2>2. made = [l EXCEPT !.records = Append(@, new)]
    BY DEF Create, new
  <2> QED
    BY <1>2, <2>1, <2>2 DEF LedgerType
<1>5. /\ Len(made.records) = id
      /\ made.records[id] = new
      /\ \A k \in DOMAIN l.records : made.records[k] = l.records[k]
      /\ DOMAIN l.records \subseteq DOMAIN made.records
  BY <1>1, <1>2, <1>3
<1>6. WellFiled(made)
  BY <1>2, <1>3, <1>5 DEF SoundLedger, WellFiled
<1> QED
  BY <1>3, <1>4, <1>5, <1>6 DEF SoundLedger, new

(* A record object is written to: harmless to the lists if it is in none of   *)
(* them, or keeps its result.                                                *)
LEMMA SetRecordSound ==
  ASSUME NEW l, SoundLedger(l),
         NEW id \in DOMAIN l.records, NEW r \in RecordType,
         r.name = l.records[id].name,
         id \notin Filed(l.results) \/ r.result = l.records[id].result
  PROVE  LET set == SetRecord(l, id, r)
         IN /\ SoundLedger(set)
            /\ Len(set.records) = Len(l.records)
            /\ DOMAIN set.records = DOMAIN l.records
            /\ set.records[id] = r
            /\ \A k \in DOMAIN l.records \ {id} : set.records[k] = l.records[k]
            /\ set.results = l.results
            /\ set.file = l.file
<1> DEFINE set == SetRecord(l, id, r)
<1>1. l \in LedgerType /\ l.records \in Seq(RecordType)
  BY DEF SoundLedger, LedgerType
<1>2. [l.records EXCEPT ![id] = r] \in Seq(RecordType)
  BY <1>1
<1>3. /\ set.records = [l.records EXCEPT ![id] = r]
      /\ set.results = l.results
      /\ set.file = l.file
  BY <1>1 DEF SetRecord, LedgerType
<1>4. set \in LedgerType
  BY <1>1, <1>2 DEF SetRecord, LedgerType
<1> HIDE DEF set
<1>5. /\ Len(set.records) = Len(l.records)
      /\ DOMAIN set.records = DOMAIN l.records
      /\ set.records[id] = r
      /\ \A k \in DOMAIN l.records \ {id} : set.records[k] = l.records[k]
  BY <1>1, <1>3
<1>6. \A list \in Lists : \A k \in Ids(l.results[list]) :
         /\ k \in DOMAIN l.records
         /\ set.records[k].result = l.records[k].result
         /\ set.records[k].name = l.records[k].name
  <2> SUFFICES ASSUME NEW list \in Lists, NEW k, k \in Ids(l.results[list])
               PROVE  /\ k \in DOMAIN l.records
                      /\ set.records[k].result = l.records[k].result
                      /\ set.records[k].name = l.records[k].name
    OBVIOUS
  <2>1. k \in Filed(l.results)
    BY <1>1, FiledUnion DEF LedgerType
  <2>2. k \in DOMAIN l.records
    BY <2>1, FiledExist
  <2> QED
    BY <1>5, <2>1, <2>2
<1>7. WellFiled(set)
  BY <1>3, <1>5, <1>6 DEF SoundLedger, WellFiled, Lists
<1> QED
  BY <1>3, <1>4, <1>5, <1>7 DEF SoundLedger, set

(* TestSummaryWriter.dump only makes the file grow. *)
LEMMA DumpSound ==
  ASSUME NEW l, SoundLedger(l), NEW id \in DOMAIN l.records
  PROVE  /\ SoundLedger(Dump(l, id))
         /\ Dump(l, id).records = l.records
         /\ Dump(l, id).results = l.results
         /\ Dump(l, id).file =
              Append(l.file, Entry("RECORD", id, l.records[id].result))
<1> DEFINE entry == Entry("RECORD", id, l.records[id].result)
<1>1. l \in LedgerType /\ l.file \in Seq(EntryType)
  BY DEF SoundLedger, LedgerType
<1>2. entry \in EntryType
  <2>1. l.records[id] \in RecordType /\ id \in Nat
    BY <1>1 DEF LedgerType
  <2>2. l.records[id].result \in Results
    BY <2>1 DEF RecordType
  <2> QED
    BY <2>1, <2>2 DEF Entry, EntryType, EntryTypes
<1> HIDE DEF entry
<1>3. Append(l.file, entry) \in Seq(EntryType)
  BY <1>1, <1>2
<1>4. Dump(l, id) = [l EXCEPT !.file = Append(@, entry)]
  BY DEF Dump, entry
<1>5. /\ Dump(l, id) \in LedgerType
      /\ Dump(l, id).records = l.records
      /\ Dump(l, id).results = l.results
      /\ Dump(l, id).file = Append(l.file, entry)
  BY <1>1, <1>3, <1>4 DEF LedgerType
<1>6. WellFiled(Dump(l, id))
  BY <1>5 DEF SoundLedger, WellFiled
<1> QED
  BY <1>5, <1>6 DEF SoundLedger, entry

(* So do the entries that show no record. *)
LEMMA DumpOtherSound ==
  ASSUME NEW l, SoundLedger(l), NEW type \in EntryTypes
  PROVE  /\ SoundLedger(DumpOther(l, type))
         /\ DumpOther(l, type).records = l.records
         /\ DumpOther(l, type).results = l.results
         /\ DumpOther(l, type).file = Append(l.file, Entry(type, 0, "none"))
<1> DEFINE entry == Entry(type, 0, "none")
<1>1. l \in LedgerType /\ l.file \in Seq(EntryType)
  BY DEF SoundLedger, LedgerType
<1>2. entry \in EntryType
  BY DEF Entry, EntryType, Results
<1> HIDE DEF entry
<1>3. Append(l.file, entry) \in Seq(EntryType)
  BY <1>1, <1>2
<1>4. DumpOther(l, type) = [l EXCEPT !.file = Append(@, entry)]
  BY DEF DumpOther, entry
<1>5. /\ DumpOther(l, type) \in LedgerType
      /\ DumpOther(l, type).records = l.records
      /\ DumpOther(l, type).results = l.results
      /\ DumpOther(l, type).file = Append(l.file, entry)
  BY <1>1, <1>3, <1>4 DEF LedgerType
<1>6. WellFiled(DumpOther(l, type))
  BY <1>5 DEF SoundLedger, WellFiled
<1> QED
  BY <1>5, <1>6 DEF SoundLedger, entry

(* The lists add_record puts a record with this result into. *)
Targets(result) ==
  IF result = "SKIP" THEN {"skipped"} ELSE {"executed", Bucket(result)}

(* The lists of add_record get the record, the others stay as they are. *)
LEMMA FileUnderTargets ==
  ASSUME NEW res \in [Lists -> Seq(Nat)], NEW id \in Nat,
         NEW result \in {"PASS", "FAIL", "SKIP", "ERROR"}
  PROVE  /\ FileUnder(res, id, result) \in [Lists -> Seq(Nat)]
         /\ \A list \in Targets(result) :
              Ids(FileUnder(res, id, result)[list]) = Ids(res[list]) \cup {id}
         /\ \A list \in Lists \ Targets(result) :
              FileUnder(res, id, result)[list] = res[list]
         /\ Targets(result) \subseteq Lists
<1> DEFINE new == FileUnder(res, id, result)
           grown(list) == Append(res[list], id)
<1>1. \A list \in Lists : /\ grown(list) \in Seq(Nat)
                          /\ Ids(grown(list)) = Ids(res[list]) \cup {id}
  BY IdsAppend
<1>2. Targets(result) \subseteq Lists
  BY DEF Targets, Bucket, Lists
<1>3. new = [list \in Lists |-> IF list \in Targets(result) THEN grown(list)
                                                        ELSE res[list]]
  <2>1. CASE result = "SKIP"
    BY <2>1 DEF FileUnder, Targets
  <2>2. CASE result # "SKIP"
    BY <2>2 DEF FileUnder, Targets, Bucket
  <2> QED
    BY <2>1, <2>2
<1> HIDE DEF new, grown
<1>4. new \in [Lists -> Seq(Nat)]
  BY <1>1, <1>2, <1>3
<1> QED
  BY <1>1, <1>2, <1>3, <1>4 DEF new

(* add_record: a record that has a result and is in no list yet goes into the *)
(* lists of that result.                                                     *)
LEMMA AddRecordSound ==
  ASSUME NEW l, SoundLedger(l),
         NEW id \in DOMAIN l.records, id \notin Filed(l.results),
         l.records[id].result # "none",
         l.records[id].name.kind # "stage"
  PROVE  LET grown == AddRecord(l, id)
         IN /\ SoundLedger(grown)
            /\ Len(grown.records) = Len(l.records)
            /\ DOMAIN grown.records = DOMAIN l.records
            /\ grown.records[id] = UpdateRecord(l.records[id])
            /\ \A k \in DOMAIN l.records \ {id} :
                  grown.records[k] = l.records[k]
            /\ Filed(grown.results) = Filed(l.results) \cup {id}
            /\ grown.file = l.file
<1> DEFINE grown == AddRecord(l, id)
           r == UpdateRecord(l.records[id])
           set == SetRecord(l, id, r)
           res == FileUnder(l.results, id, r.result)
<1>1. l \in LedgerType /\ l.records[id] \in RecordType /\ id \in Nat
  BY DEF SoundLedger, LedgerType
<1>2. /\ r \in RecordType
      /\ r.name = l.records[id].name
      /\ Origin(r) = Origin(l.records[id])
      /\ r.result \in {"PASS", "FAIL", "SKIP", "ERROR"}
  BY <1>1, UpdateRecordType DEF RecordType, Results
<1> HIDE DEF r
<1>3. /\ SoundLedger(set)
      /\ Len(set.records) = Len(l.records)
      /\ DOMAIN set.records = DOMAIN l.records
      /\ set.records[id] = r
      /\ \A k \in DOMAIN l.records \ {id} : set.records[k] = l.records[k]
      /\ set.results = l.results
      /\ set.file = l.file
  BY <1>2, SetRecordSound
<1>4. grown = [set EXCEPT !.results = res]
  BY <1>1 DEF AddRecord, SetRecord, LedgerType, r
<1> HIDE DEF set, grown
<1>5. l.results \in [Lists -> Seq(Nat)]
  BY <1>1 DEF LedgerType
<1>6. /\ res \in [Lists -> Seq(Nat)]
      /\ \A list \in Targets(r.result) :
           Ids(res[list]) = Ids(l.results[list]) \cup {id}
      /\ \A list \in Lists \ Targets(r.result) : res[list] = l.results[list]
      /\ Targets(r.result) \subseteq Lists
  BY <1>1, <1>2, <1>5, FileUnderTargets, Zenon
<1> HIDE DEF res
<1>7. /\ grown.records = set.records
      /\ grown.results = res
      /\ grown.file = l.file
      /\ grown \in LedgerType
  BY <1>3, <1>4, <1>6 DEF SoundLedger, LedgerType
<1>8. Filed(res) = Filed(l.results) \cup {id}
  <2>1. Targets(r.result) \subseteq Lists /\ Targets(r.result) # {}
    BY <1>2 DEF Targets, Bucket, Lists
  <2>2. \A k : k \in Filed(res) <=> \E list \in Lists : k \in Ids(res[list])
    BY <1>6, FiledUnion, Zenon
  <2>3. \A k : k \in Filed(l.results) <=>
                 \E list \in Lists : k \in Ids(l.results[list])
    BY <1>5, FiledUnion, Zenon
  <2>4. \A k \in Filed(res) : k \in Filed(l.results) \cup {id}
    <3>1. \A list \in Lists : Ids(res[list]) \subseteq Ids(l.results[list]) \cup {id}
      BY <1>6
    <3> QED
      BY <2>2, <2>3, <3>1
  <2>5. \A k \in Filed(l.results) : k \in Filed(res)
    BY <1>6, <2>2, <2>3
  <2>6. id \in Filed(res)
    BY <1>6, <2>1, <2>2
  <2> QED
    BY <2>4, <2>5, <2>6
<1>9. WellFiled(grown)
  <2>1. WellFiled(set)
    BY <1>3 DEF SoundLedger
  <2>2. set.records[id].name.kind # "stage" /\ id \in DOMAIN set.records
    BY <1>2, <1>3
  <2>3. CASE r.result = "SKIP"
    <3>1. /\ Ids(res["executed"]) = Ids(l.results["executed"])
          /\ Ids(res["failed"]) = Ids(l.results["failed"])
          /\ Ids(res["passed"]) = Ids(l.results["passed"])
          /\ Ids(res["skipped"]) = Ids(l.results["skipped"]) \cup {id}
          /\ Ids(res["error"]) = Ids(l.results["error"])
      BY <1>6, <2>3 DEF Targets, Bucket, Lists
    <3> QED
      BY <1>3, <1>7, <2>1, <2>2, <2>3, <3>1 DEF WellFiled
  <2>4. CASE r.result = "PASS"
    <3>1. /\ Ids(res["executed"]) = Ids(l.results["executed"]) \cup {id}
          /\ Ids(res["failed"]) = Ids(l.results["failed"])
          /\ Ids(res["passed"]) = Ids(l.results["passed"]) \cup {id}
          /\ Ids(res["skipped"]) = Ids(l.results["skipped"])
          /\ Ids(res["error"]) = Ids(l.results["error"])
      BY <1>6, <2>4 DEF Targets, Bucket, Lists
    <3> QED
      BY <1>3, <1>7, <2>1, <2>2, <2>4, <3>1 DEF WellFiled
  <2>5. CASE r.result = "FAIL"
    <3>1. /\ Ids(res["executed"]) = Ids(l.results["executed"]) \cup {id}
          /\ Ids(res["failed"]) = Ids(l.results["failed"]) \cup {id}
          /\ Ids(res["passed"]) = Ids(l.results["passed"])
          /\ Ids(res["skipped"]) = Ids(l.results["skipped"])
          /\ Ids(res["error"]) = Ids(l.results["error"])
      BY <1>6, <2>5 DEF Targets, Bucket, Lists
    <3> QED
      BY <1>3, <1>7, <2>1, <2>2, <2>5, <3>1 DEF WellFiled
  <2>6. CASE r.result = "ERROR"
    <3>1. /\ Ids(res["executed"]) = Ids(l.results["executed"]) \cup {id}
          /\ Ids(res["failed"]) = Ids(l.results["failed"])
          /\ Ids(res["passed"]) = Ids(l.results["passed"])
          /\ Ids(res["skipped"]) = Ids(l.results["skipped"])
          /\ Ids(res["error"]) = Ids(l.results["error"]) \cup {id}
      BY <1>6, <2>6 DEF Targets, Bucket, Lists
    <3> QED
      BY <1>3, <1>7, <2>1, <2>2, <2>6, <3>1 DEF WellFiled
  <2> QED
    BY <1>2, <2>3, <2>4, <2>5, <2>6
<1> QED
  BY <1>3, <1>7, <1>8, <1>9 DEF SoundLedger, r, grown

(* add_class_error: the record of a class stage, an ERROR, goes into error    *)
(* and nowhere else.                                                         *)
LEMMA AddClassErrorSound ==
  ASSUME NEW l, SoundLedger(l),
         NEW id \in DOMAIN l.records, id \notin Filed(l.results),
         l.records[id].result = "ERROR",
         l.records[id].name.kind = "stage"
  PROVE  LET grown == AddClassError(l, id)
         IN /\ SoundLedger(grown)
            /\ Len(grown.records) = Len(l.records)
            /\ DOMAIN grown.records = DOMAIN l.records
            /\ grown.records[id] = UpdateRecord(l.records[id])
            /\ \A k \in DOMAIN l.records \ {id} :
                  grown.records[k] = l.records[k]
            /\ Filed(grown.results) = Filed(l.results) \cup {id}
            /\ grown.file = l.file
<1> DEFINE grown == AddClassError(l, id)
           r == UpdateRecord(l.records[id])
           set == SetRecord(l, id, r)
           res == [l.results EXCEPT !["error"] = Append(@, id)]
<1>1. l \in LedgerType /\ l.records[id] \in RecordType /\ id \in Nat
  BY DEF SoundLedger, LedgerType
<1>2. r \in RecordType /\ r.name = l.records[id].name
        /\ Origin(r) = Origin(l.records[id]) /\ r.result = "ERROR"
  BY <1>1, UpdateRecordType
<1> HIDE DEF r
<1>3. /\ SoundLedger(set)
      /\ Len(set.records) = Len(l.records)
      /\ DOMAIN set.records = DOMAIN l.records
      /\ set.records[id] = r
      /\ \A k \in DOMAIN l.records \ {id} : set.records[k] = l.records[k]
      /\ set.results = l.results
      /\ set.file = l.file
  BY <1>2, SetRecordSound
<1>4. grown = [set EXCEPT !.results = res]
  BY <1>1 DEF AddClassError, SetRecord, LedgerType, r
<1> HIDE DEF set, grown
<1>5. l.results \in [Lists -> Seq(Nat)]
  BY <1>1 DEF LedgerType
<1>6. /\ Append(l.results["error"], id) \in Seq(Nat)
      /\ Ids(Append(l.results["error"], id)) = Ids(l.results["error"]) \cup {id}
  BY <1>1, <1>5, IdsAppend DEF Lists
<1>7. /\ res \in [Lists -> Seq(Nat)]
      /\ Ids(res["error"]) = Ids(l.results["error"]) \cup {id}
      /\ \A list \in Lists \ {"error"} : res[list] = l.results[list]
  BY <1>5, <1>6 DEF Lists
<1> HIDE DEF res
<1>8. /\ grown.records = set.records
      /\ grown.results = res
      /\ grown.file = l.file
      /\ grown \in LedgerType
  BY <1>3, <1>4, <1>7 DEF SoundLedger, LedgerType
<1>9. Filed(res) = Filed(l.results) \cup {id}
  <2>1. \A k : k \in Filed(res) <=> \E list \in Lists : k \in Ids(res[list])
    BY <1>7, FiledUnion, Zenon
  <2>2. \A k : k \in Filed(l.results) <=>
                 \E list \in Lists : k \in Ids(l.results[list])
    BY <1>5, FiledUnion, Zenon
  <2> QED
    BY <1>7, <2>1, <2>2 DEF Lists
<1>10. WellFiled(grown)
  <2>1. WellFiled(set)
    BY <1>3 DEF SoundLedger
  <2>2. /\ id \in DOMAIN set.records
        /\ set.records[id].name.kind = "stage"
        /\ set.records[id].result = "ERROR"
    BY <1>2, <1>3
  <2>3. /\ Ids(res["executed"]) = Ids(l.results["executed"])
        /\ Ids(res["failed"]) = Ids(l.results["failed"])
        /\ Ids(res["passed"]) = Ids(l.results["passed"])
        /\ Ids(res["skipped"]) = Ids(l.results["skipped"])
        /\ Ids(res["error"]) = Ids(l.results["error"]) \cup {id}
    BY <1>7 DEF Lists
  <2> QED
    BY <1>3, <1>8, <2>1, <2>2, <2>3 DEF WellFiled
<1> QED
  BY <1>3, <1>8, <1>9, <1>10 DEF SoundLedger, r, grown

(* One turn of _skip_remaining_tests: nothing, or one more record, skipped.   *)
LEMMA SkipUnlessExecutedSound ==
  ASSUME NEW l, SoundLedger(l), NEW name \in TestNames
  PROVE  LET skip == SkipUnlessExecuted(l, name)
         IN /\ SoundLedger(skip)
            /\ Len(skip.records) >= Len(l.records)
            /\ \A k \in DOMAIN l.records : skip.records[k] = l.records[k]
<1>1. CASE IsTestExecuted(l, BareName(name))
  <2>1. SkipUnlessExecuted(l, name) = l
    BY <1>1 DEF SkipUnlessExecuted
  <2>2. Len(l.records) \in Nat
    BY DEF SoundLedger, LedgerType
  <2> QED
    BY <2>1, <2>2
<1>2. CASE ~IsTestExecuted(l, BareName(name))
  <2> DEFINE id == Len(l.records) + 1
             made == Create(l, BareName(name), 0, "none")
             skipped == TestEnd(made.records[id], "SKIP", TRUE)
             set == SetRecord(made, id, skipped)
             grown == AddRecord(set, id)
  <2>1. BareName(name) \in Names /\ BareName(name).kind = "bare"
    BY DEF BareName, Names
  <2>2. /\ SoundLedger(made)
        /\ Len(made.records) = id
        /\ made.records[id] = NewRecord(BareName(name), 0, "none")
        /\ \A k \in DOMAIN l.records : made.records[k] = l.records[k]
        /\ made.results = l.results
    BY <2>1, CreateSound DEF Links
  <2>3. /\ l.records \in Seq(RecordType) /\ made.records \in Seq(RecordType)
        /\ Filed(l.results) \subseteq DOMAIN l.records
    BY <2>2, FiledExist DEF SoundLedger, LedgerType
  <2> HIDE DEF made
  <2>4. /\ id \in Nat /\ id \in DOMAIN made.records
        /\ id \notin Filed(made.results)
        /\ id \notin DOMAIN l.records
        /\ DOMAIN l.records \subseteq DOMAIN made.records
    BY <2>2, <2>3
  <2> HIDE DEF id
  <2>5. /\ made.records[id] \in RecordType
        /\ made.records[id].name = BareName(name)
    BY <2>1, <2>2, <2>3, <2>4 DEF NewRecord
  <2>6. /\ skipped \in RecordType
        /\ skipped.result = "SKIP"
        /\ skipped.name = BareName(name)
    BY <2>5, TestEndType DEF Results
  <2> HIDE DEF skipped
  <2>7. /\ SoundLedger(set)
        /\ Len(set.records) = id
        /\ DOMAIN set.records = DOMAIN made.records
        /\ set.records[id] = skipped
        /\ \A k \in DOMAIN made.records \ {id} : set.records[k] = made.records[k]
        /\ set.results = made.results
    BY <2>2, <2>4, <2>5, <2>6, SetRecordSound
  <2> HIDE DEF set
  <2>8. /\ SoundLedger(grown)
        /\ Len(grown.records) = id
        /\ DOMAIN grown.records = DOMAIN made.records
        /\ \A k \in DOMAIN made.records \ {id} : grown.records[k] = set.records[k]
    BY <2>1, <2>4, <2>6, <2>7, AddRecordSound
  <2>9. SkipUnlessExecuted(l, name) = Dump(grown, id)
    BY <1>2 DEF SkipUnlessExecuted, id, made, skipped, set
  <2> HIDE DEF grown
  <2>10. /\ SoundLedger(Dump(grown, id))
         /\ Dump(grown, id).records = grown.records
    BY <2>4, <2>8, DumpSound
  <2>11. id >= Len(l.records)
    BY <2>3 DEF id
  <2> QED
    BY <2>2, <2>4, <2>7, <2>8, <2>9, <2>10, <2>11
<1> QED
  BY <1>1, <1>2

(* The record of a class stage is ended as an ERROR and filed. *)
LEMMA ClassErrorSound ==
  ASSUME NEW l, SoundLedger(l), NEW e \in BOOLEAN,
         NEW id \in DOMAIN l.records, id \notin Filed(l.results),
         l.records[id].name.kind = "stage"
  PROVE  LET ended == SetRecord(l, id, TestEnd(l.records[id], "ERROR", e))
             filed == AddClassError(ended, id)
         IN /\ SoundLedger(filed)
            /\ Len(filed.records) = Len(l.records)
            /\ DOMAIN filed.records = DOMAIN l.records
            /\ filed.records[id].result = "ERROR"
            /\ filed.records[id].name = l.records[id].name
            /\ Origin(filed.records[id]) = Origin(l.records[id])
            /\ \A k \in DOMAIN l.records \ {id} :
                  filed.records[k] = l.records[k]
            /\ Filed(filed.results) = Filed(l.results) \cup {id}
            /\ filed.file = l.file
<1> DEFINE r == TestEnd(l.records[id], "ERROR", e)
           ended == SetRecord(l, id, r)
           filed == AddClassError(ended, id)
<1>1. l.records[id] \in RecordType
  BY DEF SoundLedger, LedgerType
<1>2. r \in RecordType /\ r.result = "ERROR" /\ r.name = l.records[id].name
        /\ Origin(r) = Origin(l.records[id])
  BY <1>1, TestEndType DEF Results
<1> HIDE DEF r
<1>3. /\ SoundLedger(ended)
      /\ Len(ended.records) = Len(l.records)
      /\ DOMAIN ended.records = DOMAIN l.records
      /\ ended.records[id] = r
      /\ \A k \in DOMAIN l.records \ {id} : ended.records[k] = l.records[k]
      /\ ended.results = l.results
      /\ ended.file = l.file
  BY <1>2, SetRecordSound
<1> HIDE DEF ended
<1>4. /\ id \in DOMAIN ended.records
      /\ id \notin Filed(ended.results)
      /\ ended.records[id].result = "ERROR"
      /\ ended.records[id].name.kind = "stage"
  BY <1>2, <1>3
<1>5. /\ SoundLedger(filed)
      /\ Len(filed.records) = Len(ended.records)
      /\ DOMAIN filed.records = DOMAIN ended.records
      /\ filed.records[id] = UpdateRecord(ended.records[id])
      /\ \A k \in DOMAIN ended.records \ {id} :
           filed.records[k] = ended.records[k]
      /\ Filed(filed.results) = Filed(ended.results) \cup {id}
      /\ filed.file = ended.file
  BY <1>3, <1>4, AddClassErrorSound
<1> HIDE DEF filed
<1>6. UpdateRecord(r).result = "ERROR" /\ UpdateRecord(r).name = r.name
        /\ Origin(UpdateRecord(r)) = Origin(r)
  BY <1>2, UpdateRecordType
<1> QED
  BY <1>2, <1>3, <1>5, <1>6 DEF filed, ended, r

-----------------------------------------------------------------------------
(* From one ledger to a later one                                           *)

(* The records that are final: those of tests that were added. *)
Final(l) == Ids(l.results["executed"]) \cup Ids(l.results["skipped"])

(* From l to m only the records `touched` are written to, and no final one;   *)
(* what was filed keeps its result, and new records are no failures.         *)
Touches(l, m, touched) ==
  /\ DOMAIN l.records \subseteq DOMAIN m.records
  /\ \A k \in DOMAIN l.records :
       /\ m.records[k].name = l.records[k].name
       /\ Origin(m.records[k]) = Origin(l.records[k])
       /\ k \notin touched \/ k \in Final(l) => m.records[k] = l.records[k]
       /\ k \in Filed(l.results) => m.records[k].result = l.records[k].result
  /\ \A k \in DOMAIN m.records \ DOMAIN l.records :
       k \notin touched => ~Failed(m.records[k])

(* The records `new` are filed: appended to the lists, without an error left  *)
(* that would contradict a passed or skipped test.                           *)
Files(l, m, new) ==
  /\ \A list \in Lists :
       \/ m.results[list] = l.results[list]
       \/ \E id \in new : m.results[list] = Append(l.results[list], id)
  /\ Filed(m.results) = Filed(l.results) \cup new
  /\ new \subseteq DOMAIN m.records \ Filed(l.results)
  /\ \A id \in new : m.records[id].extras = 0 \/ Failed(m.records[id])

(* The entries of a class run other than records. *)
Notes == {"TEST_NAME_LIST", "CONTROLLER_INFO"}

(* The file stays, or gets one entry: that of the record in `shown`. *)
Shows(l, m, shown) ==
  \/ /\ shown = {}
     /\ \/ m.file = l.file
        \/ \E type \in Notes :
             m.file = Append(l.file, Entry(type, 0, "none"))
  \/ \E id \in DOMAIN m.records :
       /\ shown = {id}
       /\ m.file = Append(l.file, Entry("RECORD", id, m.records[id].result))

Writes(l, m, touched, new, shown) ==
  /\ Touches(l, m, touched)
  /\ Files(l, m, new)
  /\ Shows(l, m, shown)

(* A ledger that stays as it is. *)
LEMMA WritesNothing ==
  ASSUME NEW l, NEW touched
  PROVE  Writes(l, l, touched, {}, {})
  BY DEF Writes, Touches, Files, Shows

(* What is final was filed. *)
LEMMA FinalFiled ==
  ASSUME NEW l
  PROVE  Final(l) \subseteq Filed(l.results)
  BY DEF Final, Filed, Lists

(* A record object that is not final is written to. *)
LEMMA WritesSet ==
  ASSUME NEW l, NEW m, SoundLedger(l), SoundLedger(m), NEW touched,
         Writes(l, m, touched, {}, {}), m.file = l.file,
         NEW id \in touched, id \in DOMAIN l.records, NEW r \in RecordType,
         r.name = m.records[id].name,
         Origin(r) = Origin(m.records[id]),
         \/ id \notin Filed(l.results)
         \/ r.result = m.records[id].result /\ id \notin Final(l)
  PROVE  Writes(l, SetRecord(m, id, r), touched, {}, {})
<1> DEFINE set == SetRecord(m, id, r)
<1>1. /\ m.records \in Seq(RecordType)
      /\ m \in LedgerType
  BY DEF SoundLedger, LedgerType
<1>2. /\ set.records = [m.records EXCEPT ![id] = r]
      /\ set.results = m.results
      /\ set.file = m.file
  BY <1>1 DEF SetRecord, LedgerType
<1> HIDE DEF set
<1>3. id \in DOMAIN m.records
  BY DEF Writes, Touches
<1>4. /\ DOMAIN set.records = DOMAIN m.records
      /\ set.records[id] = r
      /\ \A k \in DOMAIN m.records \ {id} : set.records[k] = m.records[k]
  BY <1>1, <1>2, <1>3
<1>5. Touches(l, set, touched)
  BY <1>3, <1>4, FinalFiled DEF Writes, Touches
<1>6. Files(l, set, {})
  BY <1>2, <1>4 DEF Writes, Files
<1>7. Shows(l, set, {})
  BY <1>2 DEF Shows
<1> QED
  BY <1>5, <1>6, <1>7 DEF Writes, set

(* update_record leaves an extra error only in a record that failed. *)
LEMMA UpdateRecordExtras ==
  ASSUME NEW r \in RecordType
  PROVE  UpdateRecord(r).extras = 0 \/ Failed(UpdateRecord(r))
<1>1. CASE r.extras = 0
  BY <1>1 DEF UpdateRecord
<1>2. CASE r.extras # 0
  <2> DEFINE result == IF r.result = "FAIL" THEN "FAIL" ELSE "ERROR"
             extras == IF r.signal THEN r.extras ELSE r.extras - 1
  <2>1. UpdateRecord(r) =
          [r EXCEPT !.result = result, !.signal = TRUE, !.extras = extras]
    BY <1>2 DEF UpdateRecord
  <2>2. result \in {"FAIL", "ERROR"}
    OBVIOUS
  <2> HIDE DEF result, extras
  <2>3. UpdateRecord(r).result = result
    BY <2>1 DEF RecordType
  <2> QED
    BY <2>2, <2>3 DEF Failed
<1> QED
  BY <1>1, <1>2

(* add_record files a test's record. *)
LEMMA WritesAddRecord ==
  ASSUME NEW l, NEW m, SoundLedger(l), SoundLedger(m), NEW touched,
         Writes(l, m, touched, {}, {}), m.file = l.file,
         NEW id \in touched, id \in DOMAIN m.records,
         id \notin Filed(m.results),
         m.records[id].result # "none", m.records[id].name.kind # "stage"
  PROVE  Writes(l, AddRecord(m, id), touched, {id}, {})
<1> DEFINE grown == AddRecord(m, id)
           r == UpdateRecord(m.records[id])
           res == FileUnder(m.results, id, r.result)
<1>1. /\ DOMAIN grown.records = DOMAIN m.records
      /\ grown.records[id] = r
      /\ \A k \in DOMAIN m.records \ {id} : grown.records[k] = m.records[k]
      /\ Filed(grown.results) = Filed(m.results) \cup {id}
      /\ grown.file = m.file
  BY AddRecordSound
<1>2. /\ m.records[id] \in RecordType
      /\ m.results \in [Lists -> Seq(Nat)]
      /\ m \in LedgerType
  BY DEF SoundLedger, LedgerType
<1>3. /\ r.name = m.records[id].name /\ Origin(r) = Origin(m.records[id])
      /\ r.extras = 0 \/ Failed(r)
  BY <1>2, UpdateRecordType, UpdateRecordExtras
<1> HIDE DEF r
<1>4. grown.results = res
  BY <1>2 DEF AddRecord, LedgerType, r
<1>5. \A list \in Lists : res[list] \in {m.results[list],
                                        Append(m.results[list], id)}
  <2>1. CASE r.result = "SKIP"
    BY <1>2, <2>1 DEF FileUnder, Lists
  <2>2. CASE r.result # "SKIP"
    BY <1>2, <2>2 DEF FileUnder, Lists, Bucket
  <2> QED
    BY <2>1, <2>2
<1> HIDE DEF res, grown
<1>6. /\ \A list \in Lists : m.results[list] = l.results[list]
      /\ Filed(m.results) = Filed(l.results)
  BY DEF Writes, Files
<1>7. Touches(l, grown, touched)
  BY <1>1, <1>3, <1>6, FinalFiled DEF Writes, Touches
<1>8. Files(l, grown, {id})
  BY <1>1, <1>3, <1>4, <1>5, <1>6 DEF Files
<1>9. Shows(l, grown, {})
  BY <1>1 DEF Shows
<1> QED
  BY <1>7, <1>8, <1>9 DEF Writes, grown

(* add_class_error files the record of a stage that is an ERROR. *)
LEMMA WritesAddClassError ==
  ASSUME NEW l, NEW m, SoundLedger(l), SoundLedger(m), NEW touched, NEW shown,
         Touches(l, m, touched), Files(l, m, {}), Shows(l, m, shown),
         NEW id \in touched, id \in DOMAIN m.records,
         id \notin Filed(m.results),
         m.records[id].result = "ERROR", m.records[id].name.kind = "stage"
  PROVE  Writes(l, AddClassError(m, id), touched, {id}, shown)
<1> DEFINE grown == AddClassError(m, id)
           r == UpdateRecord(m.records[id])
           res == [m.results EXCEPT !["error"] = Append(@, id)]
<1>1. /\ DOMAIN grown.records = DOMAIN m.records
      /\ grown.records[id] = r
      /\ \A k \in DOMAIN m.records \ {id} : grown.records[k] = m.records[k]
      /\ Filed(grown.results) = Filed(m.results) \cup {id}
      /\ grown.file = m.file
  BY AddClassErrorSound
<1>2. /\ m.records[id] \in RecordType
      /\ m.results \in [Lists -> Seq(Nat)]
      /\ m \in LedgerType
  BY DEF SoundLedger, LedgerType
<1>3. /\ r.name = m.records[id].name /\ Origin(r) = Origin(m.records[id])
      /\ r.result = "ERROR"
  BY <1>2, UpdateRecordType
<1> HIDE DEF r
<1>4. grown.results = res
  BY <1>2 DEF AddClassError, LedgerType, r
<1>5. \A list \in Lists : res[list] \in {m.results[list],
                                        Append(m.results[list], id)}
  BY <1>2 DEF Lists
<1> HIDE DEF res, grown
<1>6. /\ \A list \in Lists : m.results[list] = l.results[list]
      /\ Filed(m.results) = Filed(l.results)
  BY DEF Files
<1>7. Touches(l, grown, touched)
  BY <1>1, <1>3, <1>6, FinalFiled DEF Touches
<1>8. Files(l, grown, {id})
  BY <1>1, <1>3, <1>4, <1>5, <1>6 DEF Files, Failed
<1>9. \A k \in DOMAIN m.records :
        /\ k \in DOMAIN grown.records
        /\ grown.records[k].result = m.records[k].result
  BY <1>1, <1>3
<1>10. Shows(l, grown, shown)
  BY <1>1, <1>9 DEF Shows
<1> QED
  BY <1>7, <1>8, <1>10 DEF Writes, grown

(* A stage's record is ended as an ERROR and filed. *)
LEMMA WritesClassError ==
  ASSUME NEW l, NEW m, SoundLedger(l), SoundLedger(m), NEW touched,
         Writes(l, m, touched, {}, {}), m.file = l.file,
         NEW id \in touched, id \in DOMAIN l.records, NEW e \in BOOLEAN,
         id \notin Filed(m.results), m.records[id].name.kind = "stage"
  PROVE  Writes(l, AddClassError(SetRecord(m, id,
                     TestEnd(m.records[id], "ERROR", e)), id),
                touched, {id}, {})
<1> DEFINE r == TestEnd(m.records[id], "ERROR", e)
           ended == SetRecord(m, id, r)
<1>1. m.records[id] \in RecordType /\ id \in DOMAIN m.records
  BY DEF SoundLedger, LedgerType, Writes, Touches
<1>2. r \in RecordType /\ r.result = "ERROR" /\ r.name = m.records[id].name
        /\ Origin(r) = Origin(m.records[id])
  BY <1>1, TestEndType DEF Results
<1> HIDE DEF r
<1>3. /\ SoundLedger(ended)
      /\ DOMAIN ended.records = DOMAIN m.records
      /\ ended.records[id] = r
      /\ ended.results = m.results
  BY <1>1, <1>2, SetRecordSound
<1>4. id \notin Filed(l.results)
  BY DEF Writes, Files
<1>5. Writes(l, ended, touched, {}, {})
  BY <1>2, <1>4, WritesSet
<1> HIDE DEF ended
<1>6. Writes(l, AddClassError(ended, id), touched, {id}, {})
  BY <1>1, <1>2, <1>3, <1>5, WritesAddClassError DEF Writes
<1> QED
  BY <1>6 DEF ended, r

(* A record is shown in the file as it is now. *)
LEMMA WritesDump ==
  ASSUME NEW l, NEW m, SoundLedger(l), SoundLedger(m), NEW touched, NEW new,
         Writes(l, m, touched, new, {}), m.file = l.file,
         NEW id \in DOMAIN m.records
  PROVE  Writes(l, Dump(m, id), touched, new, {id})
<1> DEFINE shown == Dump(m, id)
<1>1. /\ shown.records = m.records
      /\ shown.results = m.results
      /\ shown.file = Append(m.file, Entry("RECORD", id, m.records[id].result))
  BY DumpSound
<1> HIDE DEF shown
<1>2. Touches(l, shown, touched) /\ Files(l, shown, new)
  BY <1>1 DEF Writes, Touches, Files
<1>3. Shows(l, shown, {id})
  BY <1>1 DEF Shows
<1> QED
  BY <1>2, <1>3 DEF Writes, shown

(* An entry that shows no record. *)
LEMMA WritesOther ==
  ASSUME NEW l, NEW m, SoundLedger(l), SoundLedger(m), NEW touched, NEW new,
         Writes(l, m, touched, new, {}), m.file = l.file,
         NEW type \in Notes
  PROVE  Writes(l, DumpOther(m, type), touched, new, {})
<1> DEFINE noted == DumpOther(m, type)
<1>0. type \in EntryTypes
  BY DEF Notes, EntryTypes
<1>1. /\ noted.records = m.records
      /\ noted.results = m.results
      /\ noted.file = Append(m.file, Entry(type, 0, "none"))
  BY <1>0, DumpOtherSound
<1> HIDE DEF noted
<1>2. Touches(l, noted, touched) /\ Files(l, noted, new)
  BY <1>1 DEF Writes, Touches, Files
<1>3. Shows(l, noted, {})
  BY <1>1 DEF Shows
<1> QED
  BY <1>2, <1>3 DEF Writes, noted

(* A new record has no result yet. *)
LEMMA WritesCreate ==
  ASSUME NEW l, NEW m, SoundLedger(l), SoundLedger(m), NEW touched, NEW new,
         NEW shown, Writes(l, m, touched, new, shown),
         NEW name \in Names, NEW parent \in Nat, NEW link \in Links
  PROVE  Writes(l, Create(m, name, parent, link), touched, new, shown)
<1> DEFINE made == Create(m, name, parent, link)
           id == Len(m.records) + 1
<1>1. /\ SoundLedger(made)
      /\ Len(made.records) = id
      /\ made.records[id] = NewRecord(name, parent, link)
      /\ \A k \in DOMAIN m.records : made.records[k] = m.records[k]
      /\ made.results = m.results
      /\ made.file = m.file
  BY CreateSound
<1>2. made.records[id].result = "none"
  BY <1>1 DEF NewRecord
<1>3. /\ m.records \in Seq(RecordType) /\ made.records \in Seq(RecordType)
  BY <1>1 DEF SoundLedger, LedgerType
<1> HIDE DEF made
<1>4. DOMAIN made.records = DOMAIN m.records \cup {id}
  BY <1>1, <1>3
<1> HIDE DEF id
<1>5. Touches(l, made, touched)
  BY <1>1, <1>2, <1>4 DEF Writes, Touches, Failed
<1>6. Files(l, made, new)
  BY <1>1, <1>4 DEF Writes, Files
<1>7. Shows(l, made, shown)
  BY <1>1, <1>4 DEF Writes, Shows
<1> QED
  BY <1>5, <1>6, <1>7 DEF Writes, made

(* One turn of _skip_remaining_tests: nothing happens when the name was        *)
(* executed; else a record that did not fail is filed as skipped and shown.  *)
LEMMA WritesSkip ==
  ASSUME NEW l, SoundLedger(l), NEW name \in TestNames,
         ~IsTestExecuted(l, BareName(name)),
         NEW id, id = Len(l.records) + 1, NEW touched
  PROVE  LET m == SkipUnlessExecuted(l, name)
         IN /\ Writes(l, m, touched, {id}, {id})
            /\ id \in DOMAIN m.records
            /\ m.records[id].result = "SKIP"
            /\ m.records[id].name = BareName(name)
<1> DEFINE m == SkipUnlessExecuted(l, name)
           made == Create(l, BareName(name), 0, "none")
           skip == TestEnd(made.records[id], "SKIP", TRUE)
           set == SetRecord(made, id, skip)
           grown == AddRecord(set, id)
<1>1. BareName(name) \in Names /\ BareName(name).kind = "bare"
      /\ 0 \in Nat /\ "none" \in Links
  BY DEF BareName, Names, Links
<1>2. /\ SoundLedger(made)
      /\ Len(made.records) = id
      /\ made.records[id] = NewRecord(BareName(name), 0, "none")
      /\ made.results = l.results
      /\ made.file = l.file
  BY <1>1, CreateSound
<1>3. Writes(l, made, {id}, {}, {})
  BY <1>1, WritesCreate, WritesNothing
<1> HIDE DEF made
<1>4. /\ made.records \in Seq(RecordType) /\ l.records \in Seq(RecordType)
      /\ Filed(l.results) \subseteq DOMAIN l.records
  BY <1>2, FiledExist DEF SoundLedger, LedgerType
<1>5. /\ id \in DOMAIN made.records /\ id \notin Filed(made.results)
      /\ id \notin DOMAIN l.records
      /\ made.records[id] \in RecordType
      /\ made.records[id].name = BareName(name)
      /\ made.records[id].extras = 0
  BY <1>2, <1>4 DEF NewRecord
<1>6. /\ skip \in RecordType /\ skip.result = "SKIP"
      /\ skip.name = BareName(name) /\ skip.extras = 0
  <2>1. /\ skip \in RecordType /\ skip.result = "SKIP"
        /\ skip.name = BareName(name)
    BY <1>5, TestEndType DEF Results
  <2>2. skip.extras = 0
    BY <1>5 DEF TestEnd, RecordType
  <2> QED
    BY <2>1, <2>2
<1> HIDE DEF skip
<1>7. /\ SoundLedger(set)
      /\ DOMAIN set.records = DOMAIN made.records
      /\ set.records[id] = skip
      /\ \A k \in DOMAIN made.records \ {id} : set.records[k] = made.records[k]
      /\ set.results = made.results
      /\ set.file = made.file
  BY <1>2, <1>5, <1>6, SetRecordSound
<1> HIDE DEF set
<1>8. Writes(l, set, {id}, {}, {})
  <2>1. Touches(l, set, {id})
    BY <1>3, <1>5, <1>7 DEF Writes, Touches
  <2>2. Files(l, set, {}) /\ Shows(l, set, {})
    BY <1>3, <1>7 DEF Writes, Files, Shows
  <2> QED
    BY <2>1, <2>2 DEF Writes
<1>9. /\ id \in DOMAIN set.records /\ id \notin Filed(set.results)
      /\ set.records[id].result # "none"
      /\ set.records[id].name.kind # "stage"
      /\ set.file = l.file
  BY <1>1, <1>2, <1>5, <1>6, <1>7
<1>10. /\ SoundLedger(grown)
       /\ DOMAIN grown.records = DOMAIN set.records
       /\ grown.records[id] = UpdateRecord(skip)
       /\ grown.file = l.file
  BY <1>7, <1>9, AddRecordSound
<1>11. Writes(l, grown, {id}, {id}, {})
  BY <1>7, <1>8, <1>9, WritesAddRecord
<1>12. UpdateRecord(skip) = skip
  BY <1>6 DEF UpdateRecord
<1>13. m = Dump(grown, id)
  BY DEF SkipUnlessExecuted, made, skip, set
<1> HIDE DEF grown, m
<1>14. Dump(grown, id).records = grown.records
  BY <1>9, <1>10, DumpSound
<1>15. Writes(l, m, {id}, {id}, {id})
  BY <1>9, <1>10, <1>11, <1>13, WritesDump
<1>16. m.records[id].result = "SKIP" /\ id \in DOMAIN m.records
       /\ m.records[id].name = BareName(name)
  BY <1>6, <1>9, <1>10, <1>12, <1>13, <1>14
<1>17. Touches(l, m, touched)
  BY <1>5, <1>15, <1>16 DEF Writes, Touches, Failed
<1> QED
  BY <1>15, <1>16, <1>17 DEF Writes, m

-----------------------------------------------------------------------------
(* The summary file *)

Entries(l) == {i \in DOMAIN l.file : l.file[i].type = "RECORD"}

(* The entries show filed records with the results they have, each once. *)
EntriesTrue(l) ==
  /\ \A i \in Entries(l) :
       /\ l.file[i].rec \in Filed(l.results)
       /\ l.file[i].result = l.records[l.file[i].rec].result
  /\ \A i, j \in Entries(l) : l.file[i].rec = l.file[j].rec => i = j

(* The filed records that the file does not show. *)
Unshown(l) ==
  {id \in Filed(l.results) : \A i \in Entries(l) : l.file[i].rec # id}

(* What an append makes of a sequence. *)
LEMMA AppendAt ==
  ASSUME NEW S, NEW s \in Seq(S), NEW x \in S
  PROVE  /\ DOMAIN Append(s, x) = DOMAIN s \cup {Len(s) + 1}
         /\ Len(s) + 1 \notin DOMAIN s
         /\ Append(s, x)[Len(s) + 1] = x
         /\ \A i \in DOMAIN s : Append(s, x)[i] = s[i]
         /\ SubSeq(Append(s, x), 1, Len(s)) = s
<1> DEFINE t == Append(s, x)
<1>1. /\ t \in Seq(S) /\ Len(s) \in Nat /\ Len(t) = Len(s) + 1
      /\ DOMAIN s = 1..Len(s) /\ DOMAIN t = 1..Len(s) + 1
      /\ t[Len(s) + 1] = x
      /\ \A i \in DOMAIN s : t[i] = s[i]
  OBVIOUS
<1>2. SubSeq(t, 1, Len(s)) = s
  <2> DEFINE u == SubSeq(t, 1, Len(s))
  <2> HIDE DEF t
  <2>1. u \in Seq(S) /\ Len(u) = Len(s) /\ \A i \in 1..Len(s) : u[i] = t[i]
    BY <1>1
  <2> HIDE DEF u
  <2>2. \A i \in 1..Len(s) : u[i] = s[i]
    BY <1>1, <2>1
  <2>3. u = s
    BY <2>1, <2>2, SeqEqual
  <2> QED
    BY <2>3 DEF u
<1> QED
  BY <1>1, <1>2

(* Lists and file only grow. *)
LEMMA WritesGrow ==
  ASSUME NEW l, NEW m, SoundLedger(l), SoundLedger(m), NEW touched, NEW new,
         NEW shown, Writes(l, m, touched, new, shown)
  PROVE  /\ \A list \in Lists :
              /\ Ids(l.results[list]) \subseteq Ids(m.results[list])
              /\ Ids(m.results[list]) \subseteq Ids(l.results[list]) \cup new
              /\ SubSeq(m.results[list], 1, Len(l.results[list]))
                   = l.results[list]
         /\ SubSeq(m.file, 1, Len(l.file)) = l.file
<1>1. \A s \in Seq(Nat) : SubSeq(s, 1, Len(s)) = s
  OBVIOUS
<1>2. \A s \in Seq(EntryType) : SubSeq(s, 1, Len(s)) = s
  OBVIOUS
<1>3. /\ l.results \in [Lists -> Seq(Nat)] /\ l.file \in Seq(EntryType)
      /\ m.records \in Seq(RecordType)
  BY DEF SoundLedger, LedgerType
<1>4. ASSUME NEW list \in Lists
      PROVE  /\ Ids(l.results[list]) \subseteq Ids(m.results[list])
             /\ Ids(m.results[list]) \subseteq Ids(l.results[list]) \cup new
             /\ SubSeq(m.results[list], 1, Len(l.results[list]))
                  = l.results[list]
  <2>1. CASE m.results[list] = l.results[list]
    BY <1>1, <1>3, <2>1
  <2>2. ASSUME NEW id \in new,
               m.results[list] = Append(l.results[list], id)
        PROVE  /\ Ids(l.results[list]) \subseteq Ids(m.results[list])
               /\ Ids(m.results[list]) \subseteq Ids(l.results[list]) \cup new
               /\ SubSeq(m.results[list], 1, Len(l.results[list]))
                    = l.results[list]
    <3>1. id \in Nat
      BY <1>3 DEF Writes, Files
    <3>2. l.results[list] \in Seq(Nat)
      BY <1>3
    <3> QED
      BY <2>2, <3>1, <3>2, IdsAppend, AppendAt
  <2> QED
    BY <2>1, <2>2 DEF Writes, Files
<1>5. SubSeq(m.file, 1, Len(l.file)) = l.file
  <2>1. ASSUME NEW entry \in EntryType, m.file = Append(l.file, entry)
        PROVE  SubSeq(m.file, 1, Len(l.file)) = l.file
    BY <1>3, <2>1, AppendAt
  <2>2. ASSUME NEW type \in Notes PROVE Entry(type, 0, "none") \in EntryType
    BY DEF Entry, EntryType, EntryTypes, Notes, Results
  <2>3. ASSUME NEW id \in DOMAIN m.records
        PROVE  Entry("RECORD", id, m.records[id].result) \in EntryType
    <3>1. m.records[id] \in RecordType /\ id \in Nat
      BY <1>3
    <3>2. m.records[id].result \in Results
      BY <3>1 DEF RecordType
    <3> QED
      BY <3>1, <3>2 DEF Entry, EntryType, EntryTypes
  <2> QED
    BY <1>2, <1>3, <2>1, <2>2, <2>3 DEF Writes, Shows
<1> QED
  BY <1>4, <1>5

(* The file stays true when what is shown was filed, now or before, and was   *)
(* not shown yet.                                                            *)
LEMMA WritesShow ==
  ASSUME NEW l, NEW m, SoundLedger(l), SoundLedger(m), NEW touched, NEW new,
         NEW shown, Writes(l, m, touched, new, shown), EntriesTrue(l),
         shown \subseteq Unshown(l) \cup new
  PROVE  /\ EntriesTrue(m)
         /\ Unshown(m) = (Unshown(l) \cup new) \ shown
<1>1. /\ l.file \in Seq(EntryType) /\ m.records \in Seq(RecordType)
      /\ Filed(m.results) = Filed(l.results) \cup new
      /\ new \cap Filed(l.results) = {}
      /\ Filed(l.results) \subseteq DOMAIN l.records
      /\ \A k \in Filed(l.results) : m.records[k].result = l.records[k].result
  <2>1. Filed(l.results) \subseteq DOMAIN l.records
    BY FiledExist
  <2> QED
    BY <2>1 DEF SoundLedger, LedgerType, Writes, Touches, Files
<1>2. ASSUME shown = {}, Entries(m) = Entries(l),
             \A i \in Entries(l) : m.file[i] = l.file[i]
      PROVE  /\ EntriesTrue(m)
             /\ Unshown(m) = (Unshown(l) \cup new) \ shown
  <2>1. EntriesTrue(m)
    BY <1>1, <1>2 DEF EntriesTrue
  <2>2. \A i \in Entries(m) : m.file[i].rec \notin new
    BY <1>1, <1>2 DEF EntriesTrue
  <2>3. Unshown(m) = Unshown(l) \cup new
    BY <1>1, <1>2, <2>2 DEF Unshown
  <2> QED
    BY <1>2, <2>1, <2>3
<1>3. CASE m.file = l.file /\ shown = {}
  BY <1>2, <1>3 DEF Entries
<1>4. ASSUME NEW type \in Notes, shown = {},
             m.file = Append(l.file, Entry(type, 0, "none"))
      PROVE  /\ EntriesTrue(m)
             /\ Unshown(m) = (Unshown(l) \cup new) \ shown
  <2> DEFINE entry == Entry(type, 0, "none")
  <2>1. entry \in EntryType /\ entry.type # "RECORD"
    BY DEF Entry, EntryType, EntryTypes, Notes, Results
  <2> HIDE DEF entry
  <2>2. /\ DOMAIN m.file = DOMAIN l.file \cup {Len(l.file) + 1}
        /\ m.file[Len(l.file) + 1] = entry
        /\ \A i \in DOMAIN l.file : m.file[i] = l.file[i]
    BY <1>1, <1>4, <2>1, AppendAt DEF entry
  <2>3. Entries(m) = Entries(l)
    BY <2>1, <2>2 DEF Entries
  <2> QED
    BY <1>2, <1>4, <2>2, <2>3 DEF Entries
<1>5. ASSUME NEW id \in DOMAIN m.records, shown = {id},
             m.file = Append(l.file,
                             Entry("RECORD", id, m.records[id].result))
      PROVE  /\ EntriesTrue(m)
             /\ Unshown(m) = (Unshown(l) \cup new) \ shown
  <2> DEFINE entry == Entry("RECORD", id, m.records[id].result)
             last == Len(l.file) + 1
  <2>1. /\ entry \in EntryType /\ entry.type = "RECORD" /\ entry.rec = id
        /\ entry.result = m.records[id].result
    <3>1. m.records[id] \in RecordType /\ id \in Nat
      BY <1>1
    <3>2. m.records[id].result \in Results
      BY <3>1 DEF RecordType
    <3> QED
      BY <3>1, <3>2 DEF Entry, EntryType, EntryTypes
  <2>2. /\ DOMAIN m.file = DOMAIN l.file \cup {last}
        /\ last \notin DOMAIN l.file
        /\ m.file[last] = entry
        /\ \A i \in DOMAIN l.file : m.file[i] = l.file[i]
    <3> HIDE DEF entry
    <3> QED
      BY <1>1, <1>5, <2>1, AppendAt DEF entry
  <2> HIDE DEF entry, last
  <2>3. /\ Entries(m) = Entries(l) \cup {last}
        /\ last \notin Entries(l)
        /\ \A i \in Entries(l) : m.file[i] = l.file[i]
    BY <2>1, <2>2 DEF Entries
  <2>4. id \in Filed(m.results) /\ \A i \in Entries(l) : l.file[i].rec # id
    <3>1. CASE id \in Unshown(l)
      BY <1>1, <3>1 DEF Unshown
    <3>2. CASE id \in new
      BY <1>1, <3>2 DEF EntriesTrue
    <3> QED
      BY <1>5, <3>1, <3>2
  <2>5. EntriesTrue(m)
    BY <1>1, <2>1, <2>2, <2>3, <2>4 DEF EntriesTrue
  <2>6. \A i \in Entries(l) : l.file[i].rec \notin new
    BY <1>1 DEF EntriesTrue
  <2>7. \A k : k \in Unshown(m) <=> k \in (Unshown(l) \cup new) \ {id}
    BY <1>1, <2>1, <2>2, <2>3, <2>6 DEF Unshown
  <2> QED
    BY <1>5, <2>5, <2>7
<1> QED
  BY <1>3, <1>4, <1>5 DEF Writes, Shows

-----------------------------------------------------------------------------
(* The inductive invariant *)

(* No record the running code can write to was filed. *)
Unfiled ==
  pc \notin {"on_fail_raised", "skip", "done"} =>
    /\ info \notin Filed(ledger.results)
    /\ recorder.rec \notin Filed(ledger.results)

(* What the record of the stage is known to be. *)
StageRecord ==
  /\ pc \in TestStages => ledger.records[info].name.kind # "stage"
  /\ pc \notin TestStages \cup {"skip", "done"} =>
       ledger.records[info].name.kind = "stage"
  /\ pc = "procedure" => ledger.records[info].result # "none"
  /\ pc \in {"setup_class", "on_fail_raised"} => recorder.rec = info
  /\ pc = "on_fail_raised" => ledger.records[info].result = "ERROR"

CurrentTest == pc \in TestStages => n \in 1..Len(plan.methods)

Inv == TypeOK /\ FiledByResult /\ Unfiled /\ StageRecord /\ CurrentTest

-----------------------------------------------------------------------------
(* expects.recorder.add_error: of the records only the one the recorder       *)
(* holds changes, and it becomes an ERROR unless it is a FAIL.               *)
LEMMA ExpectedSound ==
  ASSUME Inv, pc \notin {"skip", "done"}, NEW x \in BOOLEAN
  PROVE  /\ SoundLedger(Expected(x))
         /\ Len(Expected(x).records) = Len(ledger.records)
         /\ DOMAIN Expected(x).records = DOMAIN ledger.records
         /\ \A k \in DOMAIN ledger.records :
              /\ Expected(x).records[k].name = ledger.records[k].name
              /\ Origin(Expected(x).records[k]) = Origin(ledger.records[k])
              /\ ledger.records[k].result # "none" =>
                   Expected(x).records[k].result # "none"
              /\ ledger.records[k].result = "ERROR" =>
                   Expected(x).records[k].result = "ERROR"
         /\ Expected(x).results = ledger.results
         /\ Expected(x).file = ledger.file
         /\ Count(x) \in Nat
<1> DEFINE rec == recorder.rec
           r == AddError(ledger.records[rec])
<1>1. /\ SoundLedger(ledger)
      /\ ledger.records \in Seq(RecordType)
      /\ rec \in DOMAIN ledger.records
      /\ recorder.count \in Nat
  BY DEF Inv, TypeOK, FiledByResult, SoundLedger, LedgerType
<1>2. ledger.records[rec] \in RecordType
  BY <1>1
<1>3. /\ r \in RecordType
      /\ r.name = ledger.records[rec].name
      /\ Origin(r) = Origin(ledger.records[rec])
      /\ r.result \in {"FAIL", "ERROR"}
      /\ ledger.records[rec].result # "FAIL" => r.result = "ERROR"
  BY <1>2, AddErrorType
<1>4. rec \notin Filed(ledger.results) \/ ledger.records[rec].result = "ERROR"
  BY DEF Inv, Unfiled, StageRecord
<1>5. Count(x) \in Nat
  BY <1>1 DEF Count
<1>6. CASE x
  <2>1. Expected(x) = SetRecord(ledger, rec, r)
    BY <1>6 DEF Expected
  <2> HIDE DEF r, rec
  <2>2. r.result = ledger.records[rec].result \/ rec \notin Filed(ledger.results)
    BY <1>3, <1>4
  <2>3. /\ SoundLedger(Expected(x))
        /\ Len(Expected(x).records) = Len(ledger.records)
        /\ DOMAIN Expected(x).records = DOMAIN ledger.records
        /\ Expected(x).records[rec] = r
        /\ \A k \in DOMAIN ledger.records \ {rec} :
             Expected(x).records[k] = ledger.records[k]
        /\ Expected(x).results = ledger.results
        /\ Expected(x).file = ledger.file
    BY <1>1, <1>3, <2>1, <2>2, SetRecordSound
  <2> QED
    BY <1>3, <1>5, <2>3
<1>7. CASE ~x
  BY <1>1, <1>5, <1>7 DEF Expected
<1> QED
  BY <1>6, <1>7

(* The exception of a procedure function is an error of the stage's record.   *)
LEMMA ProcedureErrorSound ==
  ASSUME NEW l, SoundLedger(l), info \in DOMAIN l.records, NEW out,
         \/ info \notin Filed(l.results)
         \/ l.records[info].result = "ERROR"
  PROVE  /\ SoundLedger(ProcedureError(l, out))
         /\ Len(ProcedureError(l, out).records) = Len(l.records)
         /\ DOMAIN ProcedureError(l, out).records = DOMAIN l.records
         /\ ProcedureError(l, out).records[info].name = l.records[info].name
         /\ Origin(ProcedureError(l, out).records[info]) = Origin(l.records[info])
         /\ l.records[info].result # "none" =>
              ProcedureError(l, out).records[info].result # "none"
         /\ l.records[info].result = "ERROR" =>
              ProcedureError(l, out).records[info].result = "ERROR"
         /\ ProcedureError(l, out).results = l.results
         /\ ProcedureError(l, out).file = l.file
<1> DEFINE r == AddError(l.records[info])
<1>1. l.records[info] \in RecordType
  BY DEF SoundLedger, LedgerType
<1>2. /\ r \in RecordType
      /\ r.name = l.records[info].name
      /\ Origin(r) = Origin(l.records[info])
      /\ r.result \in {"FAIL", "ERROR"}
      /\ l.records[info].result # "FAIL" => r.result = "ERROR"
  BY <1>1, AddErrorType
<1>3. CASE out = "ok"
  BY <1>3 DEF ProcedureError
<1>4. CASE out # "ok"
  <2>1. ProcedureError(l, out) = SetRecord(l, info, r)
    BY <1>4 DEF ProcedureError
  <2> HIDE DEF r
  <2> QED
    BY <1>2, <2>1, SetRecordSound
<1> QED
  BY <1>3, <1>4

(* The references of a stage refer to records. *)
LEMMA InvSound ==
  ASSUME Inv
  PROVE  /\ SoundLedger(ledger)
         /\ info \in DOMAIN ledger.records
         /\ recorder.rec \in DOMAIN ledger.records
  BY DEF Inv, TypeOK, FiledByResult, SoundLedger, LedgerType

(* What a class run writes to: the records its two references refer to.       *)
InHand == {info, recorder.rec}

(* The filed record of a stage is in the error list only. *)
LEMMA StageNotFinal ==
  ASSUME NEW l, SoundLedger(l), NEW id \in DOMAIN l.records,
         l.records[id].name.kind = "stage", l.records[id].result = "ERROR"
  PROVE  id \notin Final(l)
  BY DEF SoundLedger, WellFiled, Final

(* Whether it is filed or not, the record of a stage may get an error. *)
LEMMA StageOpen ==
  ASSUME Inv, pc \notin {"skip", "done"}
  PROVE  /\ \/ info \notin Filed(ledger.results)
            \/ /\ ledger.records[info].result = "ERROR"
               /\ info \notin Final(ledger)
         /\ \/ recorder.rec \notin Filed(ledger.results)
            \/ /\ ledger.records[recorder.rec].result = "ERROR"
               /\ recorder.rec \notin Final(ledger)
<1>1. CASE pc = "on_fail_raised"
  <2>1. "on_fail_raised" \notin TestStages
    BY DEF TestStages
  <2>2. /\ ledger.records[info].name.kind = "stage"
        /\ ledger.records[info].result = "ERROR"
        /\ recorder.rec = info
    BY <1>1, <2>1 DEF Inv, StageRecord
  <2> QED
    BY <2>2, InvSound, StageNotFinal
<1>2. CASE pc # "on_fail_raised"
  BY <1>2 DEF Inv, Unfiled
<1> QED
  BY <1>1, <1>2

(* expects.recorder.add_error writes to the record the recorder holds.        *)
LEMMA ExpectedWrites ==
  ASSUME Inv, pc \notin {"skip", "done"}, NEW x \in BOOLEAN,
         NEW touched, recorder.rec \in touched
  PROVE  Writes(ledger, Expected(x), touched, {}, {})
<1> DEFINE rec == recorder.rec
           r == AddError(ledger.records[rec])
<1>1. SoundLedger(ledger) /\ rec \in DOMAIN ledger.records
  BY InvSound
<1>2. ledger.records[rec] \in RecordType
  BY <1>1 DEF SoundLedger, LedgerType
<1>3. /\ r \in RecordType /\ r.name = ledger.records[rec].name
      /\ Origin(r) = Origin(ledger.records[rec])
      /\ ledger.records[rec].result # "FAIL" => r.result = "ERROR"
  BY <1>2, AddErrorType
<1>4. /\ Writes(ledger, ledger, touched, {}, {})
      /\ \/ rec \notin Filed(ledger.results)
         \/ ledger.records[rec].result = "ERROR" /\ rec \notin Final(ledger)
  BY StageOpen, WritesNothing
<1>5. CASE x
  <2>1. Expected(x) = SetRecord(ledger, rec, r)
    BY <1>5 DEF Expected
  <2> HIDE DEF r
  <2>2. \/ rec \notin Filed(ledger.results)
        \/ r.result = ledger.records[rec].result /\ rec \notin Final(ledger)
    BY <1>3, <1>4
  <2> QED
    BY <1>1, <1>3, <1>4, <2>1, <2>2, WritesSet
<1>6. CASE ~x
  BY <1>4, <1>6 DEF Expected
<1> QED
  BY <1>5, <1>6

(* A procedure function that raises writes to the record of the stage. *)
LEMMA ProcedureErrorWrites ==
  ASSUME Inv, NEW l, SoundLedger(l), NEW touched, info \in touched,
         Writes(ledger, l, touched, {}, {}), l.file = ledger.file, NEW out,
         \/ info \notin Filed(ledger.results)
         \/ l.records[info].result = "ERROR" /\ info \notin Final(ledger)
  PROVE  Writes(ledger, ProcedureError(l, out), touched, {}, {})
<1> DEFINE r == AddError(l.records[info])
<1>1. /\ SoundLedger(ledger) /\ info \in DOMAIN ledger.records
      /\ info \in DOMAIN l.records
  BY InvSound DEF Writes, Touches
<1>2. l.records[info] \in RecordType
  BY <1>1 DEF SoundLedger, LedgerType
<1>3. /\ r \in RecordType /\ r.name = l.records[info].name
      /\ Origin(r) = Origin(l.records[info])
      /\ l.records[info].result # "FAIL" => r.result = "ERROR"
  BY <1>2, AddErrorType
<1>4. CASE out = "ok"
  BY <1>4 DEF ProcedureError
<1>5. CASE out # "ok"
  <2>1. ProcedureError(l, out) = SetRecord(l, info, r)
    BY <1>5 DEF ProcedureError
  <2> HIDE DEF r
  <2>2. \/ info \notin Filed(ledger.results)
        \/ r.result = l.records[info].result /\ info \notin Final(ledger)
    BY <1>3
  <2> QED
    BY <1>1, <1>3, <2>1, <2>2, WritesSet
<1> QED
  BY <1>4, <1>5

(* A stage that begins adds a record to what was written before. *)
LEMMA EnterStageWrites ==
  ASSUME NEW l, SoundLedger(ledger), SoundLedger(l), NEW stage,
         NEW name \in Names, NEW parent \in Nat, NEW link \in Links,
         EnterStage(l, stage, name, parent, link),
         NEW touched, NEW new, NEW shown,
         Writes(ledger, l, touched, new, shown)
  PROVE  Writes(ledger, ledger', touched, new, shown)
  BY WritesCreate DEF EnterStage

(* A stage that begins writes to a record of its own, which no list holds:    *)
(* the invariant holds again, whatever the stage before it left behind.      *)
LEMMA EnterStageInv ==
  ASSUME NEW l, SoundLedger(l), NEW stage \in Stages \ {"procedure", "skip",
           "done", "on_fail_raised"},
         NEW name \in Names, NEW parent \in Nat, NEW link \in Links,
         EnterStage(l, stage, name, parent, link),
         plan' \in Plans, n' \in Nat, it' \in Nat, streak' \in Nat,
         pos' \in Nat \ {0}, exc' \in Outcomes \cup {"crash"},
         raised' \subseteq Abort, objects' \in Seq(Controllers),
         live' \subseteq Controllers,
         stage \in TestStages => n' \in 1..Len(plan'.methods),
         stage \in TestStages <=> name.kind # "stage"
  PROVE  Inv'
<1> DEFINE id == Len(l.records) + 1
<1>1. /\ pc' = stage
      /\ ledger' = Create(l, name, parent, link)
      /\ info' = id
      /\ recorder' = [rec |-> id, count |-> 0]
  BY DEF EnterStage
<1>2. /\ SoundLedger(ledger')
      /\ Len(ledger'.records) = id
      /\ ledger'.records[id] = NewRecord(name, parent, link)
      /\ ledger'.results = l.results
  BY <1>1, CreateSound
<1>3. /\ l.records \in Seq(RecordType)
      /\ Filed(l.results) \subseteq DOMAIN l.records
  BY FiledExist DEF SoundLedger, LedgerType
<1>4. id \in 1..id /\ id \notin DOMAIN l.records
  BY <1>3
<1>5. ledger'.records[id].name = name
  BY <1>2 DEF NewRecord
<1> HIDE DEF id
<1>6. TypeOK'
  BY <1>1, <1>2, <1>4 DEF TypeOK, SoundLedger
<1>7. FiledByResult'
  BY <1>2 DEF FiledByResult, SoundLedger
<1>8. Unfiled'
  BY <1>1, <1>2, <1>3, <1>4 DEF Unfiled
<1>9. StageRecord'
  BY <1>1, <1>5 DEF StageRecord
<1>10. CurrentTest'
  BY <1>1 DEF CurrentTest
<1> QED
  BY <1>6, <1>7, <1>8, <1>9, <1>10 DEF Inv

(* What the code knows of a plan: requested tests and methods with names.     *)
LEMMA PlanType ==
  ASSUME NEW p \in Plans
  PROVE  /\ p.requested \in Seq(TestNames)
         /\ p.methods \in Seq(Methods)
         /\ Len(p.methods) \in Nat
         /\ \A k \in 1..Len(p.methods) : p.methods[k] \in Methods
<1>1. p \in [requested : Seq(TestNames), methods : Seq(Methods),
             resolves : BOOLEAN]
  BY PlansAssumption
<1>2. p.requested \in Seq(TestNames) /\ p.methods \in Seq(Methods)
  BY <1>1
<1> QED
  BY <1>2

(* The names of iterations are not those of stages. *)
LEMMA IterationNames ==
  ASSUME NEW m \in Methods, NEW i \in Nat
  PROVE  /\ Name(m, i) \in Names
         /\ Name(m, i).kind # "stage"
         /\ Link(m, i) \in Links
  BY DEF Name, Link, Links, Names, Methods, BareName, IterationName

(* The names of stages are. *)
LEMMA StageNames ==
  ASSUME NEW s \in StageLabels
  PROVE  StageName(s) \in Names /\ StageName(s).kind = "stage"
  BY DEF StageName, Names

(* The loop of run goes on with a test, or leaves for teardown_class.         *)
LEMMA AdvanceInv ==
  ASSUME NEW l, SoundLedger(l), NEW k \in Nat \ {0}, Advance(l, k), TypeOK,
         pos' \in Nat \ {0}, raised' \subseteq Abort,
         objects' \in Seq(Controllers), live' \subseteq Controllers
  PROVE  Inv'
<1>1. n' = k /\ streak' = 0
  BY DEF Advance
<1>2. plan \in Plans /\ it \in Nat
  BY DEF TypeOK
<1>3. /\ StageName("teardown_class") \in Names
      /\ StageName("teardown_class").kind = "stage"
  BY StageNames DEF StageLabels
<1>4. "teardown_class" \in Stages \ (TestStages \cup {"skip", "done"}
                                        \cup ClassOnFail)
      /\ "setup_test" \in Stages \cap TestStages
  BY DEF Stages, UserStages, TestStages, ClassOnFail
<1>5. ASSUME NEW e \in {"ok", "crash"}, LeaveRun(l, e), UNCHANGED <<plan, it>>
      PROVE  Inv'
  <2>1. /\ EnterStage(l, "teardown_class", StageName("teardown_class"), 0, "none")
        /\ exc' \in Outcomes \cup {"crash"}
    BY <1>5 DEF LeaveRun, Outcomes
  <2> QED
    BY <1>1, <1>2, <1>3, <1>4, <1>5, <2>1, EnterStageInv
       DEF ClassOnFail, TestStages, Links
<1>6. ASSUME k <= Len(plan.methods),
             BeginIteration(l, plan.methods[k], 0, 0)
      PROVE  Inv'
  <2> DEFINE m == plan.methods[k]
  <2>1. k \in 1..Len(plan.methods) /\ m \in Methods
    BY <1>2, <1>6, PlanType
  <2> HIDE DEF m
  <2>2. Name(m, 0) \in Names /\ Name(m, 0).kind # "stage" /\ Link(m, 0) \in Links
    BY <2>1, IterationNames
  <2>3. /\ EnterStage(l, "setup_test", Name(m, 0), 0, Link(m, 0))
        /\ it' = 0 /\ exc' = "ok" /\ plan' = plan
    BY <1>6 DEF BeginIteration, m
  <2> QED
    BY <1>1, <1>2, <1>4, <2>1, <2>2, <2>3, EnterStageInv DEF Outcomes
<1> QED
  BY <1>5, <1>6 DEF Advance

(* So does the loop of run, wherever it goes. *)
LEMMA AdvanceWrites ==
  ASSUME NEW l, SoundLedger(ledger), SoundLedger(l), NEW k \in Nat \ {0},
         Advance(l, k), TypeOK, NEW touched, NEW new, NEW shown,
         Writes(ledger, l, touched, new, shown)
  PROVE  Writes(ledger, ledger', touched, new, shown)
<1>1. StageName("teardown_class") \in Names /\ 0 \in Nat /\ "none" \in Links
  BY StageNames DEF StageLabels, Links
<1>2. ASSUME NEW e, LeaveRun(l, e)
      PROVE  Writes(ledger, ledger', touched, new, shown)
  BY <1>1, <1>2, EnterStageWrites DEF LeaveRun
<1>3. ASSUME k <= Len(plan.methods),
             BeginIteration(l, plan.methods[k], 0, 0)
      PROVE  Writes(ledger, ledger', touched, new, shown)
  <2> DEFINE m == plan.methods[k]
  <2>1. m \in Methods
    BY <1>3, PlanType DEF TypeOK
  <2> HIDE DEF m
  <2>2. Name(m, 0) \in Names /\ Link(m, 0) \in Links
    BY <2>1, IterationNames
  <2>3. EnterStage(l, "setup_test", Name(m, 0), 0, Link(m, 0))
    BY <1>3 DEF BeginIteration, m
  <2> QED
    BY <2>2, <2>3, EnterStageWrites
<1> QED
  BY <1>2, <1>3 DEF Advance

-----------------------------------------------------------------------------
(* One lemma per action, or per group of actions of one shape: it keeps the   *)
(* invariant, and what it writes, files and shows.                           *)

(* The stages of a class that end and are not a test.                         *)
LEMMA StagesDiffer ==
  /\ TestStages \subseteq Stages
  /\ {"skip", "done", "on_fail_raised", "on_fail_expects", "pre_run",
      "setup_class", "teardown_class", "get_info", "destroy"}
       \subseteq Stages \ TestStages
  BY DEF Stages, UserStages, TestStages, ClassOnFail

(* Code leaves nothing to write to: in these stages only types and lists      *)
(* matter.                                                                   *)
LEMMA RestInv ==
  ASSUME SoundLedger(ledger'), TypeOK', pc' \in {"skip", "done"}
  PROVE  Inv'
  BY StagesDiffer
     DEF Inv, FiledByResult, SoundLedger, Unfiled, StageRecord, CurrentTest

(* register_controller touches no record. *)
LEMMA RegisterInv ==
  ASSUME Inv, NEW c \in Controllers, Register(c)
  PROVE  Inv' /\ Writes(ledger, ledger', {}, {}, {})
<1>1. TypeOK'
  BY DEF Register, Inv, TypeOK, control
<1>2. UNCHANGED <<pc, plan, n, ledger, info, recorder>>
  BY DEF Register, control
<1>3. Writes(ledger, ledger', {}, {}, {})
  BY <1>2, WritesNothing
<1> QED
  BY <1>1, <1>2, <1>3 DEF Inv, FiledByResult, Unfiled, StageRecord, CurrentTest

(* pre_run raises: its record is filed as an error, and that is all.          *)
LEMMA PreRunFailsInv ==
  ASSUME Inv, NEW out \in UserOutcomes, NEW x \in UserExpects,
         PreRunFails(out, x)
  PROVE  /\ Inv'
         /\ Writes(ledger, ledger', InHand, {info}, {info})
         /\ \A id \in DOMAIN ledger.records :
              ledger.records[id].result = "ERROR" \/ id = info
                => ledger'.records[id].result = "ERROR"
<1> DEFINE l == Expected(x)
           ended == SetRecord(l, info, TestEnd(l.records[info], "ERROR", TRUE))
           filed == AddClassError(ended, info)
<1>1. x \in BOOLEAN /\ pc = "pre_run" /\ TypeOK
  BY InputsAssumption DEF PreRunFails, Inv
<1>2. /\ SoundLedger(l)
      /\ Len(l.records) = Len(ledger.records)
      /\ info \in DOMAIN l.records
      /\ info \notin Filed(l.results)
      /\ l.records[info].name.kind = "stage"
      /\ Count(x) \in Nat
      /\ l.file = ledger.file
      /\ Writes(ledger, l, InHand, {}, {})
  BY <1>1, InvSound, ExpectedSound, ExpectedWrites, StagesDiffer
     DEF Inv, Unfiled, StageRecord, InHand
<1>12. /\ DOMAIN l.records = DOMAIN ledger.records
       /\ \A id \in DOMAIN ledger.records :
            ledger.records[id].result = "ERROR" => l.records[id].result = "ERROR"
  BY <1>1, ExpectedSound
<1>3. ledger' = Dump(filed, info)
  BY DEF PreRunFails
<1> HIDE DEF l
<1>4. /\ SoundLedger(filed)
      /\ Len(filed.records) = Len(ledger.records)
      /\ info \in DOMAIN filed.records
      /\ filed.file = ledger.file
  BY <1>2, ClassErrorSound
<1>11. /\ filed.records[info].result = "ERROR"
       /\ \A id \in DOMAIN l.records \ {info} :
            filed.records[id] = l.records[id]
  <2>1. SoundLedger(l) /\ info \in DOMAIN l.records /\ info \notin Filed(l.results)
        /\ l.records[info].name.kind = "stage"
    BY <1>2
  <2>2. PICK e \in BOOLEAN : e = TRUE
    OBVIOUS
  <2> DEFINE other == AddClassError(SetRecord(l, info,
                        TestEnd(l.records[info], "ERROR", e)), info)
  <2>3. /\ other.records[info].result = "ERROR"
        /\ \A id \in DOMAIN l.records \ {info} :
             other.records[id] = l.records[id]
    BY <2>1, ClassErrorSound
  <2>4. other = filed
    BY <2>2
  <2> HIDE DEF other, filed
  <2> QED
    BY <2>3, <2>4
<1>8. Writes(ledger, filed, InHand, {info}, {})
  BY <1>2, InvSound, WritesClassError DEF InHand
<1> HIDE DEF filed
<1>9. Writes(ledger, ledger', InHand, {info}, {info})
  BY <1>3, <1>4, <1>8, InvSound, WritesDump
<1>5. /\ SoundLedger(ledger') /\ Len(ledger'.records) = Len(ledger.records)
      /\ ledger'.records = filed.records
  BY <1>3, <1>4, DumpSound
<1>10. \A id \in DOMAIN ledger.records :
         ledger.records[id].result = "ERROR" \/ id = info
           => ledger'.records[id].result = "ERROR"
  BY <1>4, <1>5, <1>11, <1>12
<1>6. /\ pc' = "done" /\ "done" \in Stages
      /\ recorder' \in [rec : 1..Len(ledger.records), count : Nat]
      /\ raised' \subseteq Abort
      /\ UNCHANGED <<plan, n, it, streak, info, exc, objects, live, pos>>
  BY <1>1, <1>2, StagesDiffer
     DEF PreRunFails, Recorded, Raises, control, registry, TypeOK
<1>7. TypeOK'
  BY <1>1, <1>5, <1>6 DEF TypeOK, SoundLedger
<1> QED
  BY <1>5, <1>6, <1>7, <1>9, <1>10, RestInv

(* pre_run returns: setup_class begins, or the selectors match nothing.       *)
LEMMA PreRunReturnsInv ==
  ASSUME Inv, NEW x \in UserExpects, PreRunReturns(x)
  PROVE  /\ Inv'
         /\ Writes(ledger, ledger', {recorder.rec}, {}, {})
         /\ \A id \in DOMAIN ledger.records :
              ledger.records[id].result = "ERROR"
                => ledger'.records[id].result = "ERROR"
<1> DEFINE l == DumpOther(Expected(x), "TEST_NAME_LIST")
<1>1. x \in BOOLEAN /\ pc = "pre_run" /\ TypeOK
  BY InputsAssumption DEF PreRunReturns, Inv
<1>2. SoundLedger(Expected(x)) /\ Count(x) \in Nat
      /\ Len(Expected(x).records) = Len(ledger.records)
      /\ Expected(x).file = ledger.file
      /\ Writes(ledger, Expected(x), {recorder.rec}, {}, {})
      /\ DOMAIN Expected(x).records = DOMAIN ledger.records
      /\ \A id \in DOMAIN ledger.records :
           ledger.records[id].result = "ERROR"
             => Expected(x).records[id].result = "ERROR"
  BY <1>1, ExpectedSound, ExpectedWrites
<1>3. /\ SoundLedger(l) /\ Len(l.records) = Len(ledger.records)
      /\ Writes(ledger, l, {recorder.rec}, {}, {})
      /\ l.records = Expected(x).records
  BY <1>2, InvSound, DumpOtherSound, WritesOther DEF EntryTypes, Notes
<1> HIDE DEF l
<1>4. UNCHANGED <<plan, n, it, streak, raised, objects, live, pos>>
  BY DEF PreRunReturns, control, registry
<1>5. CASE /\ EnterStage(l, "setup_class", StageName("setup_class"), 0, "none")
           /\ UNCHANGED exc
  <2>1. StageName("setup_class") \in Names
        /\ StageName("setup_class").kind = "stage"
    BY StageNames DEF StageLabels
  <2>2. Writes(ledger, ledger', {recorder.rec}, {}, {})
    BY <1>3, <1>5, <2>1, InvSound, EnterStageWrites DEF Links
  <2>3. \A id \in DOMAIN l.records : ledger'.records[id] = l.records[id]
    BY <1>3, <1>5, <2>1, CreateSound DEF EnterStage, Links
  <2>4. Inv'
    BY <1>1, <1>3, <1>4, <1>5, <2>1, EnterStageInv, StagesDiffer
       DEF TypeOK, Links
  <2> QED
    BY <1>2, <1>3, <2>2, <2>3, <2>4
<1>6. CASE /\ ledger' = l /\ pc' = "done" /\ exc' = "crash"
           /\ Recorded(x) /\ UNCHANGED info
  <2>1. recorder' \in [rec : 1..Len(ledger.records), count : Nat]
    BY <1>1, <1>2, <1>6 DEF Recorded, TypeOK
  <2>2. TypeOK'
    BY <1>1, <1>3, <1>4, <1>6, <2>1, StagesDiffer DEF TypeOK, SoundLedger
  <2> QED
    BY <1>2, <1>3, <1>6, <2>2, RestInv
<1> QED
  BY <1>5, <1>6 DEF PreRunReturns, l

(* setup_class without an exception: the first test begins, or teardown.      *)
LEMMA SetupClassPassesInv ==
  ASSUME Inv, SetupClassPasses
  PROVE  Inv' /\ Writes(ledger, ledger', {}, {}, {})
<1>1. TypeOK /\ SoundLedger(ledger) /\ Advance(ledger, 1)
  BY DEF Inv, FiledByResult, SoundLedger, TypeOK, SetupClassPasses
<1>2. UNCHANGED <<raised, objects, live, pos>>
  BY DEF SetupClassPasses, registry
<1>3. Writes(ledger, ledger', {}, {}, {})
  BY <1>1, AdvanceWrites, WritesNothing
<1> QED
  BY <1>1, <1>2, <1>3, AdvanceInv DEF TypeOK

(* _skip_remaining_tests begins: no callback runs, nothing is written to.     *)
LEMMA SkipAndLeaveInv ==
  ASSUME Inv, NEW l, SoundLedger(l), Len(l.records) = Len(ledger.records),
         NEW e \in Outcomes, SkipAndLeave(l, e),
         recorder' \in [rec : 1..Len(ledger.records), count : Nat],
         raised' \subseteq Abort,
         UNCHANGED <<plan, n, it, streak, objects, live>>
  PROVE  Inv'
<1>1. pc' = "skip" /\ pos' = 1 /\ ledger' = l /\ exc' = e /\ info' = info
  BY DEF SkipAndLeave
<1>2. TypeOK'
  BY <1>1, StagesDiffer DEF Inv, TypeOK, SoundLedger
<1> QED
  BY <1>1, <1>2, RestInv

(* setup_class, or the on_fail after it, aborts. *)
LEMMA ClassAbortInv ==
  ASSUME Inv, NEW out \in UserOutcomes, NEW x \in UserExpects,
         SetupClassAborts(out, x) \/ ClassOnFailAborts(out, x)
  PROVE  Inv' /\ Writes(ledger, ledger', {recorder.rec}, {}, {})
<1>1. /\ x \in BOOLEAN /\ out \in Outcomes /\ TypeOK
      /\ pc \in ClassOnFail \cup {"setup_class"}
  BY InputsAssumption
     DEF SetupClassAborts, ClassOnFailAborts, Inv
<1>2. pc \notin {"skip", "done"}
  BY <1>1 DEF ClassOnFail
<1>3. /\ SoundLedger(Expected(x)) /\ Count(x) \in Nat
      /\ Len(Expected(x).records) = Len(ledger.records)
  BY <1>1, <1>2, ExpectedSound
<1>4. /\ SkipAndLeave(Expected(x), out)
      /\ Recorded(x) /\ Raises(out)
      /\ UNCHANGED <<plan, n, it, streak, objects, live>>
  BY DEF SetupClassAborts, ClassOnFailAborts, control
<1>5. /\ recorder' \in [rec : 1..Len(ledger.records), count : Nat]
      /\ raised' \subseteq Abort
  BY <1>1, <1>3, <1>4 DEF Recorded, Raises, TypeOK
<1>6. Writes(ledger, ledger', {recorder.rec}, {}, {})
  BY <1>1, <1>2, <1>4, ExpectedWrites DEF SkipAndLeave
<1> QED
  BY <1>1, <1>3, <1>4, <1>5, <1>6, SkipAndLeaveInv

(* setup_class raises: its record is filed, then on_fail runs. *)
LEMMA SetupClassRaisesInv ==
  ASSUME Inv, NEW out \in UserOutcomes, NEW x \in UserExpects,
         SetupClassRaises(out, x)
  PROVE  Inv' /\ Writes(ledger, ledger', InHand, {info}, {})
<1> DEFINE l == Expected(x)
           ended == SetRecord(l, info, TestEnd(l.records[info], "ERROR", TRUE))
           filed == AddClassError(ended, info)
<1>1. x \in BOOLEAN /\ pc = "setup_class" /\ TypeOK
  BY InputsAssumption DEF SetupClassRaises, Inv
<1>2. /\ SoundLedger(l)
      /\ Len(l.records) = Len(ledger.records)
      /\ info \in DOMAIN l.records
      /\ info \notin Filed(l.results)
      /\ l.records[info].name.kind = "stage"
      /\ Count(x) \in Nat
  BY <1>1, InvSound, ExpectedSound, StagesDiffer
     DEF Inv, Unfiled, StageRecord
<1>11. l.file = ledger.file /\ Writes(ledger, l, InHand, {}, {})
  BY <1>1, ExpectedSound, ExpectedWrites DEF InHand
<1>3. ledger' = filed
  BY DEF SetupClassRaises
<1> HIDE DEF l
<1>10. Writes(ledger, ledger', InHand, {info}, {})
  BY <1>2, <1>3, <1>11, InvSound, WritesClassError DEF InHand
<1>4. /\ SoundLedger(filed)
      /\ Len(filed.records) = Len(ledger.records)
      /\ filed.records[info].result = "ERROR"
      /\ filed.records[info].name = l.records[info].name
      /\ Origin(filed.records[info]) = Origin(l.records[info])
  BY <1>2, ClassErrorSound
<1> HIDE DEF filed
<1>5. /\ pc' = "on_fail_raised"
      /\ recorder' = [recorder EXCEPT !.count = Count(x)]
      /\ recorder' \in [rec : 1..Len(ledger.records), count : Nat]
      /\ UNCHANGED <<plan, n, it, streak, info, exc, raised, objects, live, pos>>
  BY <1>1, <1>2 DEF SetupClassRaises, Recorded, control, registry, TypeOK
<1>6. TypeOK'
  BY <1>1, <1>3, <1>4, <1>5, StagesDiffer DEF TypeOK, SoundLedger
<1>7. FiledByResult'
  BY <1>3, <1>4 DEF FiledByResult, SoundLedger
<1>8. recorder'.rec = info
  BY <1>1, <1>5 DEF Inv, StageRecord, TypeOK
<1>9. StageRecord' /\ Unfiled' /\ CurrentTest'
  BY <1>2, <1>3, <1>4, <1>5, <1>8, StagesDiffer
     DEF StageRecord, Unfiled, CurrentTest
<1> QED
  BY <1>6, <1>7, <1>9, <1>10 DEF Inv

(* An expectation failed in setup_class: on_fail runs before it is filed.     *)
LEMMA SetupClassExpectsInv ==
  ASSUME Inv, SetupClassExpects
  PROVE  Inv' /\ Writes(ledger, ledger', {recorder.rec}, {}, {})
<1>1. pc = "setup_class" /\ TypeOK
  BY DEF SetupClassExpects, Inv
<1>2. /\ SoundLedger(Expected(TRUE)) /\ Count(TRUE) \in Nat
      /\ Len(Expected(TRUE).records) = Len(ledger.records)
      /\ Expected(TRUE).results = ledger.results
      /\ Expected(TRUE).records[info].name = ledger.records[info].name
      /\ Origin(Expected(TRUE).records[info]) = Origin(ledger.records[info])
  <2>1. pc \notin {"skip", "done"} /\ TRUE \in BOOLEAN
    BY <1>1
  <2>2. info \in DOMAIN ledger.records
    BY <1>1 DEF TypeOK, LedgerType
  <2> QED
    BY <2>1, <2>2, ExpectedSound, Zenon
<1>3. /\ pc' = "on_fail_expects" /\ ledger' = Expected(TRUE)
      /\ recorder' = [recorder EXCEPT !.count = Count(TRUE)]
      /\ UNCHANGED <<plan, n, it, streak, info, exc, raised, objects, live, pos>>
  BY DEF SetupClassExpects, Recorded, control, registry
<1>4. TypeOK' /\ recorder'.rec = recorder.rec
  BY <1>1, <1>2, <1>3, StagesDiffer DEF TypeOK, SoundLedger
<1>5. FiledByResult' /\ Unfiled' /\ StageRecord' /\ CurrentTest'
  BY <1>1, <1>2, <1>3, <1>4, StagesDiffer
     DEF Inv, FiledByResult, SoundLedger, Unfiled, StageRecord, CurrentTest
<1>6. Writes(ledger, ledger', {recorder.rec}, {}, {})
  <2>1. TRUE \in BOOLEAN /\ pc \notin {"skip", "done"}
    BY <1>1
  <2> QED
    BY <1>3, <2>1, ExpectedWrites
<1> QED
  BY <1>4, <1>5, <1>6 DEF Inv

(* on_fail returns: the record filed before it runs stays an ERROR, the one   *)
(* of a failed expectation is filed as one now.                              *)
LEMMA ClassOnFailReturnsInv ==
  ASSUME Inv, NEW out \in UserOutcomes, NEW x \in UserExpects,
         ClassOnFailReturns(out, x)
  PROVE  /\ Inv'
         /\ pc = "on_fail_raised" => Writes(ledger, ledger', InHand, {}, {info})
         /\ pc = "on_fail_expects" =>
              Writes(ledger, ledger', InHand, {info}, {info})
<1> DEFINE l == ProcedureError(Expected(x), out)
           r == UpdateRecord(l.records[info])
           e == UpdateRecord(TestEnd(l.records[info], "ERROR", FALSE))
           raisedFiled == Dump(SetRecord(l, info, r), info)
           expectsFiled == AddClassError(Dump(SetRecord(l, info, e), info), info)
<1>1. x \in BOOLEAN /\ pc \in ClassOnFail /\ TypeOK
  BY InputsAssumption DEF ClassOnFailReturns, Inv
<1>2. /\ pc \notin {"skip", "done"}
      /\ pc \in {"on_fail_raised", "on_fail_expects"}
      /\ info \in DOMAIN ledger.records
      /\ ledger.records[info].name.kind = "stage"
      /\ pc = "on_fail_raised" => ledger.records[info].result = "ERROR"
      /\ pc = "on_fail_expects" => info \notin Filed(ledger.results)
  BY <1>1, StagesDiffer
     DEF ClassOnFail, Inv, StageRecord, Unfiled, TypeOK, LedgerType
<1>3. /\ SoundLedger(Expected(x)) /\ Count(x) \in Nat
      /\ Len(Expected(x).records) = Len(ledger.records)
      /\ info \in DOMAIN Expected(x).records
      /\ Expected(x).records[info].name = ledger.records[info].name
      /\ Origin(Expected(x).records[info]) = Origin(ledger.records[info])
      /\ pc = "on_fail_raised" => Expected(x).records[info].result = "ERROR"
      /\ Expected(x).results = ledger.results
  BY <1>1, <1>2, ExpectedSound
<1>4. /\ SoundLedger(l)
      /\ Len(l.records) = Len(ledger.records)
      /\ info \in DOMAIN l.records
      /\ l.records[info].name.kind = "stage"
      /\ pc = "on_fail_raised" => l.records[info].result = "ERROR"
      /\ pc = "on_fail_expects" => info \notin Filed(l.results)
  BY <1>2, <1>3, ProcedureErrorSound
<1>10. Writes(ledger, Expected(x), InHand, {}, {})
       /\ Expected(x).file = ledger.file
  BY <1>1, <1>2, ExpectedSound, ExpectedWrites DEF InHand
<1>11. /\ \/ info \notin Filed(ledger.results)
          \/ Expected(x).records[info].result = "ERROR" /\ info \notin Final(ledger)
       /\ \/ info \notin Filed(Expected(x).results)
          \/ Expected(x).records[info].result = "ERROR"
       /\ pc = "on_fail_raised" => info \notin Final(ledger)
  <2>1. pc = "on_fail_raised" => info \notin Final(ledger)
    BY <1>2, InvSound, StageNotFinal
  <2> QED
    BY <1>2, <1>3, <2>1
<1>12. /\ Writes(ledger, l, InHand, {}, {})
       /\ l.file = ledger.file
  BY <1>3, <1>10, <1>11, ProcedureErrorWrites, ProcedureErrorSound DEF InHand
<1> HIDE DEF l
<1>5. l.records[info] \in RecordType
  BY <1>4 DEF SoundLedger, LedgerType
<1>6. ASSUME pc = "on_fail_raised"
      PROVE  /\ SoundLedger(raisedFiled)
             /\ Len(raisedFiled.records) = Len(ledger.records)
             /\ Writes(ledger, raisedFiled, InHand, {}, {info})
  <2> DEFINE set == SetRecord(l, info, r)
  <2>1. /\ r \in RecordType
        /\ r.name = l.records[info].name
        /\ Origin(r) = Origin(l.records[info])
        /\ r.result = l.records[info].result
    BY <1>4, <1>5, <1>6, UpdateRecordType
  <2> HIDE DEF r
  <2>2. SoundLedger(set) /\ Len(set.records) = Len(l.records)
        /\ info \in DOMAIN set.records
        /\ set.file = l.file
    BY <1>4, <2>1, SetRecordSound
  <2>4. Writes(ledger, set, InHand, {}, {})
    BY <1>2, <1>4, <1>6, <1>11, <1>12, <2>1, InvSound, WritesSet DEF InHand
  <2> HIDE DEF set
  <2>5. Writes(ledger, Dump(set, info), InHand, {}, {info})
    BY <1>12, <2>2, <2>4, InvSound, WritesDump
  <2>3. SoundLedger(Dump(set, info)) /\ Dump(set, info).records = set.records
    BY <2>2, DumpSound
  <2> QED
    BY <1>4, <2>2, <2>3, <2>5 DEF set
<1>7. ASSUME pc = "on_fail_expects"
      PROVE  /\ SoundLedger(expectsFiled)
             /\ Len(expectsFiled.records) = Len(ledger.records)
             /\ Writes(ledger, expectsFiled, InHand, {info}, {info})
  <2> DEFINE set == SetRecord(l, info, e)
             shown == Dump(set, info)
  <2>1. e \in RecordType /\ e.name = l.records[info].name
          /\ Origin(e) = Origin(l.records[info]) /\ e.result = "ERROR"
    <3> DEFINE t == TestEnd(l.records[info], "ERROR", FALSE)
    <3>1. t \in RecordType /\ t.name = l.records[info].name
            /\ Origin(t) = Origin(l.records[info]) /\ t.result = "ERROR"
      BY <1>5, TestEndType DEF Results
    <3> HIDE DEF t
    <3>2. UpdateRecord(t) \in RecordType /\ UpdateRecord(t).name = t.name
            /\ Origin(UpdateRecord(t)) = Origin(t)
          /\ UpdateRecord(t).result = "ERROR"
      BY <3>1, UpdateRecordType
    <3> QED
      BY <3>1, <3>2 DEF t
  <2> HIDE DEF e
  <2>2. /\ SoundLedger(set)
        /\ Len(set.records) = Len(l.records)
        /\ info \in DOMAIN set.records
        /\ set.records[info] = e
        /\ set.results = l.results
        /\ set.file = l.file
    BY <1>4, <1>7, <2>1, SetRecordSound
  <2>6. Writes(ledger, set, InHand, {}, {})
    BY <1>2, <1>4, <1>7, <1>12, <2>1, InvSound, WritesSet DEF InHand
  <2> HIDE DEF set
  <2>7. Writes(ledger, shown, InHand, {}, {info})
    BY <1>12, <2>2, <2>6, InvSound, WritesDump
  <2>3. /\ SoundLedger(shown)
        /\ shown.records = set.records
        /\ shown.results = set.results
    BY <2>2, DumpSound
  <2> HIDE DEF shown
  <2>4. /\ info \in DOMAIN shown.records /\ info \notin Filed(shown.results)
        /\ shown.records[info].result = "ERROR"
        /\ shown.records[info].name.kind = "stage"
    BY <1>4, <1>7, <2>1, <2>2, <2>3
  <2>5. SoundLedger(AddClassError(shown, info))
        /\ Len(AddClassError(shown, info).records) = Len(shown.records)
    BY <2>3, <2>4, AddClassErrorSound
  <2>8. Writes(ledger, AddClassError(shown, info), InHand, {info}, {info})
    BY <2>3, <2>4, <2>7, InvSound, WritesAddClassError DEF Writes, InHand
  <2> QED
    BY <1>4, <2>2, <2>3, <2>5, <2>8 DEF shown, set
<1>8. /\ SkipAndLeave(IF pc = "on_fail_raised" THEN raisedFiled
                                              ELSE expectsFiled, "ok")
      /\ Recorded(x)
      /\ UNCHANGED <<plan, n, it, streak, raised, objects, live>>
  BY DEF ClassOnFailReturns, control, l
<1> HIDE DEF raisedFiled, expectsFiled
<1>9. /\ recorder' \in [rec : 1..Len(ledger.records), count : Nat]
      /\ raised' \subseteq Abort
      /\ "ok" \in Outcomes
  BY <1>1, <1>3, <1>8 DEF Recorded, TypeOK, Outcomes
<1>13. Inv'
  BY <1>2, <1>6, <1>7, <1>8, <1>9, SkipAndLeaveInv
<1>14. ledger' = IF pc = "on_fail_raised" THEN raisedFiled ELSE expectsFiled
  BY <1>8 DEF SkipAndLeave
<1> QED
  BY <1>6, <1>7, <1>13, <1>14

(* setup_test and the test method: an expectation at most is recorded.        *)
LEMMA TestStageInv ==
  ASSUME Inv, NEW out \in UserOutcomes, NEW x \in UserExpects,
         SetupTest(out, x) \/ TestMethod(out, x)
  PROVE  Inv' /\ Writes(ledger, ledger', {recorder.rec}, {}, {})
<1>1. /\ x \in BOOLEAN /\ out \in Outcomes /\ TypeOK
      /\ pc \in {"setup_test", "test"}
  BY InputsAssumption DEF SetupTest, TestMethod, Inv
<1>2. info \in DOMAIN ledger.records
  BY <1>1 DEF TypeOK, LedgerType
<1>3. /\ SoundLedger(Expected(x)) /\ Count(x) \in Nat
      /\ Len(Expected(x).records) = Len(ledger.records)
      /\ Expected(x).results = ledger.results
      /\ Expected(x).records[info].name = ledger.records[info].name
      /\ Origin(Expected(x).records[info]) = Origin(ledger.records[info])
  BY <1>1, <1>2, ExpectedSound
<1>4. /\ pc' \in {"test", "teardown_test"}
      /\ exc' \in Outcomes
      /\ ledger' = Expected(x)
      /\ recorder' = [recorder EXCEPT !.count = Count(x)]
      /\ raised' \subseteq Abort
      /\ UNCHANGED <<plan, n, it, streak, info, objects, live, pos>>
  BY <1>1 DEF SetupTest, TestMethod, Recorded, Raises, control, registry,
              TypeOK, Outcomes
<1>5. /\ recorder' \in [rec : 1..Len(ledger.records), count : Nat]
      /\ recorder'.rec = recorder.rec
  BY <1>1, <1>3, <1>4 DEF TypeOK
<1>6. pc' \in TestStages /\ pc \in TestStages /\ pc' \in Stages
  BY <1>1, <1>4 DEF TestStages, Stages, UserStages
<1>7. TypeOK'
  BY <1>1, <1>3, <1>4, <1>5, <1>6 DEF TypeOK, SoundLedger
<1>8. FiledByResult' /\ Unfiled'
  BY <1>1, <1>3, <1>4, <1>5 DEF Inv, FiledByResult, SoundLedger, Unfiled
<1>9. StageRecord' /\ CurrentTest'
  BY <1>3, <1>4, <1>6 DEF Inv, StageRecord, CurrentTest
<1>10. Writes(ledger, ledger', {recorder.rec}, {}, {})
  BY <1>1, <1>4, ExpectedWrites
<1> QED
  BY <1>7, <1>8, <1>9, <1>10 DEF Inv

(* Whatever is in flight after teardown_test, the record gets a result.       *)
LEMMA EndTestType ==
  ASSUME NEW r \in RecordType, NEW e, NEW broken \in BOOLEAN,
         NEW hasError \in BOOLEAN, broken => r.result # "none"
  PROVE  /\ EndTest(r, e, broken, hasError) \in RecordType
         /\ EndTest(r, e, broken, hasError).name = r.name
         /\ Origin(EndTest(r, e, broken, hasError)) = Origin(r)
         /\ EndTest(r, e, broken, hasError).result # "none"
<1> DEFINE Ended(q) == /\ q \in RecordType /\ q.name = r.name
                       /\ Origin(q) = Origin(r) /\ q.result # "none"
<1>1. \A result \in Results \ {"none"}, b \in BOOLEAN :
        Ended(TestEnd(r, result, b))
  BY TestEndType
<1> SUFFICES Ended(EndTest(r, e, broken, hasError))
  OBVIOUS
<1>0. broken => Ended(r)
  OBVIOUS
<1> HIDE DEF Ended
<1>2. {"PASS", "FAIL", "SKIP", "ERROR"} \subseteq Results \ {"none"}
  BY DEF Results
<1> DEFINE t == EndTest(r, e, broken, hasError)
<1>3. CASE e = "fail" \/ e \in Abort
  <2>1. t = TestEnd(r, "FAIL", TRUE)
    BY <1>3 DEF EndTest, Abort
  <2> QED
    BY <1>1, <1>2, <2>1
<1>4. CASE e = "skip"
  <2>1. t = TestEnd(r, "SKIP", TRUE)
    BY <1>4 DEF EndTest, Abort
  <2> QED
    BY <1>1, <1>2, <2>1
<1>5. CASE e = "pass"
  <2>1. t = TestEnd(r, "PASS", TRUE)
    BY <1>5 DEF EndTest, Abort
  <2> QED
    BY <1>1, <1>2, <2>1
<1>6. CASE e = "error"
  <2>1. t = TestEnd(r, "ERROR", TRUE)
    BY <1>6 DEF EndTest, Abort
  <2> QED
    BY <1>1, <1>2, <2>1
<1>7. CASE e \notin {"fail", "skip", "pass", "error"} \cup Abort
  <2>1. t = IF broken THEN r
            ELSE TestEnd(r, IF hasError THEN "FAIL" ELSE "PASS", FALSE)
    BY <1>7 DEF EndTest, Abort
  <2>2. CASE broken
    BY <1>0, <2>1, <2>2
  <2>3. CASE ~broken /\ hasError
    <3>1. t = TestEnd(r, "FAIL", FALSE)
      BY <2>1, <2>3
    <3> QED
      BY <1>1, <1>2, <3>1
  <2>4. CASE ~broken /\ ~hasError
    <3>1. t = TestEnd(r, "PASS", FALSE)
      BY <2>1, <2>4
    <3> QED
      BY <1>1, <1>2, <3>1
  <2> QED
    BY <2>2, <2>3, <2>4
<1> QED
  BY <1>3, <1>4, <1>5, <1>6, <1>7

(* teardown_test ends: the record has its result, but for what the procedure  *)
(* that follows will add.                                                    *)
LEMMA TeardownTestInv ==
  ASSUME Inv, NEW out \in UserOutcomes, NEW x \in UserExpects,
         TeardownTest(out, x)
  PROVE  Inv' /\ Writes(ledger, ledger', InHand, {}, {})
<1> DEFINE l == Expected(x)
           e == InFlight(out)
           broken == out \notin Abort /\ (out # "ok" \/ x)
           r0 == l.records[info]
           r1 == IF broken THEN TestEnd(r0, "ERROR", FALSE) ELSE r0
           r2 == IF out \in Abort \cup {"ok"} THEN r1 ELSE AddError(r1)
           r3 == UpdateRecord(EndTest(r2, e, broken, HasError(x)))
<1>1. /\ x \in BOOLEAN /\ out \in Outcomes /\ TypeOK
      /\ pc = "teardown_test"
  BY InputsAssumption DEF TeardownTest, Inv
<1>2. info \in DOMAIN ledger.records /\ info \notin Filed(ledger.results)
      /\ ledger.records[info].name.kind # "stage"
  BY <1>1 DEF TypeOK, LedgerType, Inv, Unfiled, StageRecord, TestStages
<1>3. /\ SoundLedger(l) /\ Count(x) \in Nat
      /\ Len(l.records) = Len(ledger.records)
      /\ info \in DOMAIN l.records
      /\ l.results = ledger.results
      /\ r0.name = ledger.records[info].name
      /\ Origin(r0) = Origin(ledger.records[info])
  BY <1>1, <1>2, ExpectedSound
<1>16. /\ Writes(ledger, l, InHand, {}, {})
       /\ l.file = ledger.file
  BY <1>1, ExpectedSound, ExpectedWrites DEF InHand
<1>4. /\ ledger' = SetRecord(l, info, r3)
      /\ exc' = IF e \in Abort THEN e ELSE "ok"
      /\ pc' = "procedure"
      /\ recorder' = [recorder EXCEPT !.count = Count(x)]
      /\ raised' = raised \cup ({out} \cap Abort)
      /\ UNCHANGED <<plan, n, it, streak, info, objects, live, pos>>
  BY DEF TeardownTest, Recorded, Raises, control, registry
<1> HIDE DEF l
<1>5. r0 \in RecordType
  BY <1>3 DEF SoundLedger, LedgerType
<1> HIDE DEF r0
<1>6. /\ r1 \in RecordType /\ r1.name = r0.name /\ Origin(r1) = Origin(r0)
      /\ broken => r1.result = "ERROR"
  BY <1>5, TestEndType DEF Results
<1> HIDE DEF r1
<1>7. /\ r2 \in RecordType /\ r2.name = r0.name /\ Origin(r2) = Origin(r0)
      /\ broken => r2.result # "none"
  BY <1>6, AddErrorType
<1> HIDE DEF r2
<1>8. HasError(x) \in BOOLEAN /\ broken \in BOOLEAN
  BY DEF HasError
<1> HIDE DEF broken
<1>9. /\ r3 \in RecordType /\ r3.name = r0.name
      /\ Origin(r3) = Origin(r0) /\ r3.result # "none"
  <2> DEFINE t == EndTest(r2, e, broken, HasError(x))
  <2>1. t \in RecordType /\ t.name = r0.name
          /\ Origin(t) = Origin(r0) /\ t.result # "none"
    BY <1>7, <1>8, EndTestType
  <2> HIDE DEF t
  <2>2. /\ UpdateRecord(t) \in RecordType
        /\ UpdateRecord(t).name = t.name
        /\ Origin(UpdateRecord(t)) = Origin(t)
        /\ UpdateRecord(t).result \in {t.result, "ERROR"}
    BY <2>1, UpdateRecordType
  <2> QED
    BY <2>1, <2>2 DEF t
<1> HIDE DEF r3
<1>10. /\ SoundLedger(ledger')
       /\ Len(ledger'.records) = Len(ledger.records)
       /\ ledger'.records[info] = r3
       /\ ledger'.results = ledger.results
  BY <1>2, <1>3, <1>4, <1>9, SetRecordSound DEF r0
<1>17. Writes(ledger, ledger', InHand, {}, {})
  BY <1>2, <1>3, <1>4, <1>9, <1>16, InvSound, WritesSet DEF r0, InHand
<1>11. /\ recorder' \in [rec : 1..Len(ledger.records), count : Nat]
       /\ recorder'.rec = recorder.rec
       /\ raised' \subseteq Abort
       /\ exc' \in Outcomes
  BY <1>1, <1>3, <1>4 DEF TypeOK, Outcomes
<1>12. "procedure" \in TestStages \cap Stages /\ "teardown_test" \in TestStages
  BY DEF TestStages, Stages, UserStages
<1>13. TypeOK'
  BY <1>1, <1>4, <1>10, <1>11, <1>12 DEF TypeOK, SoundLedger
<1>14. FiledByResult' /\ Unfiled'
  BY <1>1, <1>4, <1>10, <1>11 DEF Inv, FiledByResult, SoundLedger, Unfiled
<1>15. StageRecord' /\ CurrentTest'
  BY <1>1, <1>2, <1>3, <1>4, <1>9, <1>10, <1>12
     DEF Inv, StageRecord, CurrentTest, r0
<1> QED
  BY <1>13, <1>14, <1>15, <1>17 DEF Inv

(* The procedure ends and the record is filed: then the class is left, or the *)
(* next iteration or the next test begins.                                   *)
LEMMA ProcedureInv ==
  ASSUME Inv, NEW out \in UserOutcomes, NEW x \in UserExpects,
         Procedure(out, x)
  PROVE  Inv' /\ Writes(ledger, ledger', InHand, {info}, {info})
<1> DEFINE caught == IF out \in Abort THEN "ok" ELSE out
           l == ProcedureError(Expected(x), caught)
           grown == AddRecord(l, info)
           filed == Dump(grown, info)
           e == InFlight(out)
<1>1. /\ x \in BOOLEAN /\ out \in Outcomes /\ TypeOK
      /\ pc = "procedure" /\ "procedure" \in TestStages
  BY InputsAssumption DEF Procedure, Inv, TestStages
<1>2. /\ info \in DOMAIN ledger.records
      /\ info \notin Filed(ledger.results)
      /\ ledger.records[info].name.kind # "stage"
      /\ ledger.records[info].result # "none"
      /\ n \in 1..Len(plan.methods)
  BY <1>1 DEF TypeOK, LedgerType, Inv, Unfiled, StageRecord, CurrentTest
<1>3. /\ SoundLedger(Expected(x)) /\ Count(x) \in Nat
      /\ Len(Expected(x).records) = Len(ledger.records)
      /\ info \in DOMAIN Expected(x).records
      /\ Expected(x).results = ledger.results
      /\ Expected(x).records[info].name = ledger.records[info].name
      /\ Origin(Expected(x).records[info]) = Origin(ledger.records[info])
      /\ Expected(x).records[info].result # "none"
  BY <1>1, <1>2, ExpectedSound
<1>4. /\ SoundLedger(l)
      /\ Len(l.records) = Len(ledger.records)
      /\ info \in DOMAIN l.records
      /\ info \notin Filed(l.results)
      /\ l.records[info].name.kind # "stage"
      /\ l.records[info].result # "none"
  BY <1>2, <1>3, ProcedureErrorSound
<1>12. /\ Writes(ledger, Expected(x), InHand, {}, {})
       /\ Expected(x).file = ledger.file
  BY <1>1, ExpectedSound, ExpectedWrites DEF InHand
<1>13. /\ Writes(ledger, l, InHand, {}, {})
       /\ l.file = ledger.file
  BY <1>2, <1>3, <1>12, ProcedureErrorSound, ProcedureErrorWrites DEF InHand
<1>5. /\ \/ /\ e \in Abort
            /\ SkipAndLeave(filed, e)
            /\ Recorded(x)
            /\ UNCHANGED control
         \/ /\ BeginIteration(filed, Current, it + 1, info)
            /\ streak' = Streak(filed.records[info])
            /\ UNCHANGED <<n, pos>>
         \/ /\ Advance(filed, n + 1)
            /\ UNCHANGED pos
      /\ Raises(out)
      /\ UNCHANGED <<objects, live>>
  BY DEF Procedure
<1> HIDE DEF l, e
<1>6. /\ SoundLedger(grown)
      /\ Len(grown.records) = Len(ledger.records)
      /\ info \in DOMAIN grown.records
      /\ grown.file = ledger.file
  BY <1>4, <1>13, AddRecordSound
<1>14. Writes(ledger, grown, InHand, {info}, {})
  BY <1>4, <1>13, InvSound, WritesAddRecord DEF InHand
<1> HIDE DEF grown
<1>7. SoundLedger(filed) /\ Len(filed.records) = Len(ledger.records)
  BY <1>6, DumpSound
<1>15. Writes(ledger, filed, InHand, {info}, {info})
  BY <1>6, <1>14, InvSound, WritesDump
<1> HIDE DEF filed
<1>8. /\ raised' \subseteq Abort
      /\ objects' \in Seq(Controllers) /\ live' \subseteq Controllers
  BY <1>1, <1>5 DEF Raises, TypeOK
<1>9. CASE /\ e \in Abort
           /\ SkipAndLeave(filed, e)
           /\ Recorded(x)
           /\ UNCHANGED control
  <2>1. recorder' \in [rec : 1..Len(ledger.records), count : Nat]
    BY <1>1, <1>3, <1>9 DEF Recorded, TypeOK
  <2>2. e \in Outcomes /\ UNCHANGED <<plan, n, it, streak>>
    BY <1>9 DEF Outcomes, control
  <2>3. ledger' = filed
    BY <1>9 DEF SkipAndLeave
  <2> QED
    BY <1>5, <1>7, <1>8, <1>9, <1>15, <2>1, <2>2, <2>3, SkipAndLeaveInv
<1>10. CASE /\ BeginIteration(filed, Current, it + 1, info)
            /\ streak' = Streak(filed.records[info])
            /\ UNCHANGED <<n, pos>>
  <2>1. Current \in Methods /\ it + 1 \in Nat /\ info \in Nat
    BY <1>1, <1>2, PlanType DEF Current, TypeOK
  <2>2. /\ Name(Current, it + 1) \in Names
        /\ Name(Current, it + 1).kind # "stage"
        /\ Link(Current, it + 1) \in Links
    BY <2>1, IterationNames
  <2>3. /\ EnterStage(filed, "setup_test", Name(Current, it + 1), info,
                      Link(Current, it + 1))
        /\ it' = it + 1 /\ exc' = "ok" /\ plan' = plan
        /\ n' = n /\ pos' = pos
        /\ streak' \in Nat
    BY <1>1, <1>10 DEF BeginIteration, Streak, TypeOK
  <2>4. "setup_test" \in Stages /\ "setup_test" \in TestStages
    BY DEF Stages, UserStages, TestStages
  <2>5. Writes(ledger, ledger', InHand, {info}, {info})
    BY <1>7, <1>15, <2>1, <2>2, <2>3, InvSound, EnterStageWrites
  <2> QED
    BY <1>1, <1>2, <1>7, <1>8, <2>1, <2>2, <2>3, <2>4, <2>5, EnterStageInv
       DEF TypeOK, Outcomes
<1>11. CASE Advance(filed, n + 1) /\ UNCHANGED pos
  <2>1. n + 1 \in Nat \ {0} /\ pos' \in Nat \ {0}
    BY <1>1, <1>11 DEF TypeOK
  <2>2. Writes(ledger, ledger', InHand, {info}, {info})
    BY <1>1, <1>7, <1>11, <1>15, <2>1, InvSound, AdvanceWrites
  <2> QED
    BY <1>1, <1>7, <1>8, <1>11, <2>1, <2>2, AdvanceInv
<1> QED
  BY <1>5, <1>9, <1>10, <1>11

(* A requested test is marked as skipped, or was executed. *)
LEMMA SkipNextInv ==
  ASSUME Inv, SkipNext, NEW id, id = Len(ledger.records) + 1,
         NEW name, name = plan.requested[pos]
  PROVE  /\ Inv'
         /\ IsTestExecuted(ledger, BareName(name)) => ledger' = ledger
         /\ ~IsTestExecuted(ledger, BareName(name)) =>
              /\ Writes(ledger, ledger', {}, {id}, {id})
              /\ id \in DOMAIN ledger'.records
              /\ ledger'.records[id].result = "SKIP"
              /\ ledger'.records[id].name = BareName(name)
<1>1. TypeOK /\ SoundLedger(ledger) /\ pc = "skip"
  BY DEF Inv, FiledByResult, SoundLedger, TypeOK, SkipNext
<1>2. plan.requested[pos] \in TestNames /\ pos + 1 \in Nat \ {0}
  <2>1. pos \in 1..Len(plan.requested) /\ plan.requested \in Seq(TestNames)
    BY <1>1, PlanType DEF SkipNext, TypeOK
  <2> QED
    BY <2>1
<1>3. ledger' = SkipUnlessExecuted(ledger, plan.requested[pos])
      /\ pos' = pos + 1
      /\ UNCHANGED <<pc, plan, n, it, streak, info, recorder, exc, raised,
                     objects, live>>
  BY DEF SkipNext, control
<1>4. SoundLedger(ledger') /\ Len(ledger'.records) >= Len(ledger.records)
  BY <1>1, <1>2, <1>3, SkipUnlessExecutedSound
<1>5. Len(ledger.records) \in Nat /\ Len(ledger'.records) \in Nat
  BY <1>1, <1>4 DEF SoundLedger, LedgerType
<1>6. TypeOK'
  BY <1>1, <1>2, <1>3, <1>4, <1>5 DEF TypeOK, SoundLedger
<1>7. IsTestExecuted(ledger, BareName(name)) => ledger' = ledger
  BY <1>3 DEF SkipUnlessExecuted
<1>8. ASSUME ~IsTestExecuted(ledger, BareName(name))
      PROVE  /\ Writes(ledger, ledger', {}, {id}, {id})
             /\ id \in DOMAIN ledger'.records
             /\ ledger'.records[id].result = "SKIP"
             /\ ledger'.records[id].name = BareName(name)
  <2> DEFINE m == SkipUnlessExecuted(ledger, name)
  <2>1. name \in TestNames /\ ledger' = m
    BY <1>2, <1>3
  <2>2. /\ Writes(ledger, m, {}, {id}, {id})
        /\ id \in DOMAIN m.records
        /\ m.records[id].result = "SKIP"
        /\ m.records[id].name = BareName(name)
    BY <1>1, <1>8, <2>1, WritesSkip
  <2> HIDE DEF m
  <2> QED
    BY <2>1, <2>2
<1> QED
  BY <1>1, <1>3, <1>4, <1>6, <1>7, <1>8, RestInv

(* All requested tests are reported: teardown_class begins. *)
LEMMA SkipDoneInv ==
  ASSUME Inv, SkipDone
  PROVE  Inv' /\ Writes(ledger, ledger', {}, {}, {})
<1>1. /\ TypeOK /\ SoundLedger(ledger)
      /\ EnterStage(ledger, "teardown_class", StageName("teardown_class"),
                    0, "none")
      /\ exc' = exc
      /\ UNCHANGED <<plan, n, it, streak, raised, objects, live, pos>>
  BY DEF Inv, FiledByResult, SoundLedger, TypeOK, SkipDone, LeaveRun, control,
         registry
<1>2. StageName("teardown_class") \in Names
      /\ StageName("teardown_class").kind = "stage"
  BY StageNames DEF StageLabels
<1>3. Writes(ledger, ledger', {}, {}, {})
  BY <1>1, <1>2, WritesNothing, EnterStageWrites DEF Links
<1> QED
  BY <1>1, <1>2, <1>3, EnterStageInv, StagesDiffer DEF TypeOK, Links

(* teardown_class ends, filed if it went wrong, and the clean-up begins.      *)
LEMMA TeardownClassInv ==
  ASSUME Inv, NEW out \in UserOutcomes, NEW x \in UserExpects,
         TeardownClass(out, x)
  PROVE  /\ Inv'
         /\ out = "ok" /\ ~x => Writes(ledger, ledger', {}, {}, {})
         /\ out = "abort_all" => Writes(ledger, ledger', InHand, {}, {})
         /\ ~(out = "abort_all" \/ (out = "ok" /\ ~x)) =>
              Writes(ledger, ledger', InHand, {info}, {info})
         /\ pc' = "get_info" /\ UNCHANGED <<plan, n>>
         /\ recorder'.rec = info' /\ recorder'.count = 0
         /\ ledger'.records[info'].result = "none"
         /\ raised \subseteq raised'
<1> DEFINE l == Expected(x)
           ended == SetRecord(l, info,
                      TestEnd(l.records[info], "ERROR", out # "ok"))
           filed == AddClassError(ended, info)
           next == IF out = "abort_all" \/ (out = "ok" /\ ~x) THEN l
                   ELSE Dump(filed, info)
<1>1. x \in BOOLEAN /\ pc = "teardown_class" /\ TypeOK /\ out \in Outcomes
  BY InputsAssumption DEF TeardownClass, Inv
<1>2. /\ SoundLedger(l)
      /\ info \in DOMAIN l.records
      /\ info \notin Filed(l.results)
      /\ l.records[info].name.kind = "stage"
  BY <1>1, ExpectedSound, StagesDiffer
     DEF TypeOK, LedgerType, Inv, Unfiled, StageRecord
<1>3. /\ EnterStage(next, "get_info", StageName("clean_up"), 0, "none")
      /\ exc' = IF out = "abort_all" THEN out ELSE exc
      /\ pos' = 1
      /\ raised' = raised \cup ({out} \cap Abort)
      /\ UNCHANGED <<plan, n, it, streak, objects, live>>
  BY DEF TeardownClass, Raises, control
<1>9. /\ Writes(ledger, l, InHand, {}, {})
      /\ l.file = ledger.file
      /\ ~x => l = ledger
  BY <1>1, ExpectedSound, ExpectedWrites DEF InHand, Expected
<1> HIDE DEF l
<1>4. SoundLedger(filed) /\ info \in DOMAIN filed.records
      /\ filed.file = l.file
  BY <1>2, ClassErrorSound
<1>10. Writes(ledger, filed, InHand, {info}, {})
  <2>1. (out # "ok") \in BOOLEAN
    OBVIOUS
  <2> QED
    BY <1>2, <1>9, <2>1, InvSound, WritesClassError DEF InHand
<1> HIDE DEF filed
<1>5. SoundLedger(Dump(filed, info))
  BY <1>4, DumpSound
<1>11. Writes(ledger, Dump(filed, info), InHand, {info}, {info})
  BY <1>4, <1>9, <1>10, InvSound, WritesDump
<1>6. SoundLedger(next)
  BY <1>2, <1>5
<1>12. /\ out = "ok" /\ ~x => next = ledger
       /\ out = "abort_all" => next = l
       /\ ~(out = "abort_all" \/ (out = "ok" /\ ~x)) =>
            next = Dump(filed, info)
  BY <1>9
<1> HIDE DEF next
<1>7. StageName("clean_up") \in Names /\ StageName("clean_up").kind = "stage"
  BY StageNames DEF StageLabels
<1>8. exc' \in Outcomes \cup {"crash"} /\ raised' \subseteq Abort
  BY <1>1, <1>3 DEF TypeOK
<1>13. ASSUME NEW touched, NEW new, NEW shown,
              Writes(ledger, next, touched, new, shown)
       PROVE  Writes(ledger, ledger', touched, new, shown)
  BY <1>3, <1>6, <1>7, <1>13, InvSound, EnterStageWrites DEF Links
<1>14. Inv'
  BY <1>1, <1>3, <1>6, <1>7, <1>8, EnterStageInv, StagesDiffer
     DEF TypeOK, Links
<1>15. /\ pc' = "get_info"
       /\ recorder'.rec = info' /\ recorder'.count = 0
       /\ ledger'.records[info'].result = "none"
  <2> DEFINE new == NewRecord(StageName("clean_up"), 0, "none")
  <2>1. /\ pc' = "get_info"
        /\ ledger' = Create(next, StageName("clean_up"), 0, "none")
        /\ info' = Len(next.records) + 1
        /\ recorder' = [rec |-> Len(next.records) + 1, count |-> 0]
    BY <1>3 DEF EnterStage
  <2>2. ledger'.records[info'] = new
    BY <1>6, <1>7, <2>1, CreateSound DEF Links
  <2>3. new.result = "none"
    BY DEF NewRecord
  <2> QED
    BY <2>1, <2>2, <2>3
<1> QED
  BY <1>3, <1>9, <1>11, <1>12, <1>13, <1>14, <1>15, WritesNothing

(* get_info and destroy: an exception is an error of the clean_up record.     *)
LEMMA CleanUpStepInv ==
  ASSUME Inv, NEW out \in UserOutcomes, GetInfo(out) \/ Destroy(out)
  PROVE  Inv' /\ Writes(ledger, ledger', {recorder.rec}, {}, {})
<1> DEFINE x == out # "ok"
           l == Expected(x)
           noted == DumpOther(ledger, "CONTROLLER_INFO")
<1>1. /\ x \in BOOLEAN /\ pc \in {"get_info", "destroy"} /\ TypeOK
      /\ pc \notin {"skip", "done"} /\ pc \notin TestStages
      /\ SoundLedger(ledger)
  BY StagesDiffer
     DEF GetInfo, Destroy, Inv, TypeOK, FiledByResult, SoundLedger
<1>2. /\ ledger' \in {l, noted}
      /\ recorder' = [recorder EXCEPT !.count = Count(x)]
      /\ raised' = raised \cup ({out} \cap Abort)
      /\ pos' = pos + 1
      /\ live' \subseteq live
      /\ UNCHANGED <<pc, plan, n, it, streak, info, exc, objects>>
  <2>1. CASE GetInfo(out)
    BY <2>1 DEF GetInfo, Recorded, Raises, control
  <2>2. CASE Destroy(out)
    BY <2>2 DEF Destroy, Recorded, Raises, control
  <2> QED
    BY <2>1, <2>2
<1> HIDE DEF x
<1>3. info \in DOMAIN ledger.records
  BY <1>1 DEF TypeOK, LedgerType
<1>4. /\ SoundLedger(l) /\ Count(x) \in Nat
      /\ Len(l.records) = Len(ledger.records)
      /\ l.results = ledger.results
      /\ l.records[info].name = ledger.records[info].name
      /\ Origin(l.records[info]) = Origin(ledger.records[info])
  BY <1>1, <1>3, ExpectedSound
<1>5. /\ SoundLedger(noted)
      /\ noted.records = ledger.records
      /\ noted.results = ledger.results
  BY <1>1, DumpOtherSound DEF EntryTypes
<1>11. Writes(ledger, l, {recorder.rec}, {}, {})
  BY <1>1, ExpectedWrites
<1>12. Writes(ledger, noted, {recorder.rec}, {}, {})
  BY <1>1, WritesNothing, WritesOther DEF EntryTypes, Notes
<1> HIDE DEF l, noted
<1>6. /\ SoundLedger(ledger')
      /\ Len(ledger'.records) = Len(ledger.records)
      /\ ledger'.results = ledger.results
      /\ ledger'.records[info].name = ledger.records[info].name
      /\ Origin(ledger'.records[info]) = Origin(ledger.records[info])
  BY <1>2, <1>4, <1>5
<1>7. /\ recorder' \in [rec : 1..Len(ledger.records), count : Nat]
      /\ recorder'.rec = recorder.rec
      /\ raised' \subseteq Abort
      /\ pos' \in Nat \ {0} /\ live' \subseteq Controllers
  BY <1>1, <1>2, <1>4 DEF TypeOK
<1>8. TypeOK'
  BY <1>1, <1>2, <1>6, <1>7 DEF TypeOK, SoundLedger
<1>9. FiledByResult' /\ Unfiled'
  BY <1>1, <1>2, <1>6, <1>7 DEF Inv, FiledByResult, SoundLedger, Unfiled
<1>10. StageRecord' /\ CurrentTest'
  BY <1>1, <1>2, <1>6, <1>7 DEF Inv, StageRecord, CurrentTest
<1>13. Writes(ledger, ledger', {recorder.rec}, {}, {})
  BY <1>2, <1>11, <1>12
<1> QED
  BY <1>8, <1>9, <1>10, <1>13 DEF Inv

(* All controllers gave their info; their destroy functions come next.        *)
LEMMA InfoRecordedInv ==
  ASSUME Inv, InfoRecorded
  PROVE  Inv' /\ Writes(ledger, ledger', {}, {}, {})
<1>1. /\ pc = "get_info" /\ pc' = "destroy" /\ pos' = 1
      /\ UNCHANGED <<plan, n, it, streak, ledger, info, recorder, exc, raised,
                     objects, live>>
  BY DEF InfoRecorded, control
<1>2. TypeOK'
  BY <1>1, StagesDiffer DEF Inv, TypeOK
<1>3. FiledByResult' /\ Unfiled' /\ StageRecord' /\ CurrentTest'
  BY <1>1, StagesDiffer
     DEF Inv, FiledByResult, Unfiled, StageRecord, CurrentTest
<1>4. Writes(ledger, ledger', {}, {}, {})
  BY <1>1, WritesNothing
<1> QED
  BY <1>2, <1>3, <1>4 DEF Inv

(* The errors of the clean-up are filed at its end. *)
LEMMA FinishCleanUpInv ==
  ASSUME Inv, FinishCleanUp
  PROVE  /\ Inv'
         /\ ~HasError(FALSE) => ledger' = ledger
         /\ HasError(FALSE) =>
              /\ Writes(ledger, ledger', InHand, {info}, {info})
              /\ ledger'.records[info].result = "ERROR"
<1> DEFINE ended == SetRecord(ledger, info,
                      TestEnd(ledger.records[info], "ERROR", FALSE))
           filed == AddClassError(ended, info)
<1>1. /\ pc = "destroy" /\ TypeOK /\ SoundLedger(ledger)
      /\ info \in DOMAIN ledger.records
      /\ info \notin Filed(ledger.results)
      /\ ledger.records[info].name.kind = "stage"
  BY StagesDiffer
     DEF FinishCleanUp, Inv, TypeOK, LedgerType, FiledByResult, SoundLedger,
         Unfiled, StageRecord
<1>2. /\ pc' = "done" /\ objects' = <<>>
      /\ ledger' \in {ledger, Dump(filed, info)}
      /\ UNCHANGED <<plan, n, it, streak, info, recorder, exc, raised, live, pos>>
  BY DEF FinishCleanUp, control
<1>7. ledger' = IF HasError(FALSE) THEN Dump(filed, info) ELSE ledger
  BY DEF FinishCleanUp
<1>3. /\ SoundLedger(filed) /\ info \in DOMAIN filed.records
      /\ Len(filed.records) = Len(ledger.records)
      /\ filed.file = ledger.file
      /\ filed.records[info].result = "ERROR"
  BY <1>1, ClassErrorSound
<1>8. Writes(ledger, filed, InHand, {info}, {})
  BY <1>1, WritesNothing, WritesClassError DEF InHand
<1> HIDE DEF filed
<1>9. Writes(ledger, Dump(filed, info), InHand, {info}, {info})
  BY <1>1, <1>3, <1>8, WritesDump
<1>4. SoundLedger(Dump(filed, info)) /\ Dump(filed, info).records = filed.records
  BY <1>3, DumpSound
<1>5. SoundLedger(ledger') /\ Len(ledger'.records) = Len(ledger.records)
  BY <1>1, <1>2, <1>3, <1>4
<1>6. TypeOK'
  BY <1>1, <1>2, <1>5, StagesDiffer DEF TypeOK, SoundLedger
<1>10. HasError(FALSE) \in BOOLEAN
  BY DEF HasError
<1> QED
  BY <1>2, <1>3, <1>4, <1>5, <1>6, <1>7, <1>9, <1>10, RestInv

-----------------------------------------------------------------------------
(* The theorems *)

(* A class run begins with the record of pre_run and empty results.           *)
LEMMA InitInv ==
  ASSUME Init
  PROVE  Inv
<1> DEFINE default == NewRecord(StageName("mobly"), 0, "none")
           pre_run == NewRecord(StageName("pre_run"), 0, "none")
<1>1. /\ pc = "pre_run" /\ plan \in Plans
      /\ n = 0 /\ it = 0 /\ streak = 0 /\ pos = 1
      /\ exc = "ok" /\ raised = {} /\ objects = <<>> /\ live = {}
      /\ info = 2 /\ recorder = [rec |-> 1, count |-> 0]
      /\ ledger = [records |-> <<default, pre_run>>,
                   results |-> EmptyResult, file |-> <<>>]
  BY DEF Init
<1>2. default \in RecordType /\ pre_run \in RecordType
  BY StageNames, NewRecordType DEF StageLabels, Links
<1>3. pre_run.name.kind = "stage"
  BY StageNames DEF StageLabels, NewRecord
<1> HIDE DEF default, pre_run
<1>4. /\ <<default, pre_run>> \in Seq(RecordType)
      /\ Len(<<default, pre_run>>) = 2
      /\ <<default, pre_run>>[2] = pre_run
  BY <1>2
<1>5. EmptyResult \in [Lists -> Seq(Nat)]
      /\ \A list \in Lists : Ids(EmptyResult[list]) = {}
  BY DEF EmptyResult, Ids
<1>6. ledger \in LedgerType
  BY <1>1, <1>4, <1>5 DEF LedgerType
<1>7. WellFiled(ledger) /\ Filed(ledger.results) = {}
  BY <1>1, <1>5 DEF WellFiled, Filed, Lists
<1>8. TypeOK
  BY <1>1, <1>4, <1>6, StagesDiffer DEF TypeOK, Outcomes
<1>9. FiledByResult /\ Unfiled /\ StageRecord /\ CurrentTest
  BY <1>1, <1>3, <1>4, <1>7, StagesDiffer
     DEF FiledByResult, Unfiled, StageRecord, CurrentTest
<1> QED
  BY <1>8, <1>9 DEF Inv

(* Every step keeps the invariant. *)
LEMMA NextInv ==
  ASSUME Inv, [Next]_vars
  PROVE  Inv'
<1>1. ASSUME NEW c \in Controllers, Register(c) PROVE Inv'
  BY <1>1, RegisterInv
<1>2. ASSUME NEW x \in UserExpects, PreRunReturns(x) PROVE Inv'
  BY <1>2, PreRunReturnsInv
<1>3. CASE SetupClassPasses
  BY <1>3, SetupClassPassesInv
<1>4. CASE SetupClassExpects
  BY <1>4, SetupClassExpectsInv
<1>5. ASSUME NEW out \in UserOutcomes, NEW x \in UserExpects,
             \/ PreRunFails(out, x)
             \/ SetupClassAborts(out, x)
             \/ SetupClassRaises(out, x)
             \/ ClassOnFailAborts(out, x)
             \/ ClassOnFailReturns(out, x)
             \/ SetupTest(out, x)
             \/ TestMethod(out, x)
             \/ TeardownTest(out, x)
             \/ Procedure(out, x)
             \/ TeardownClass(out, x)
      PROVE  Inv'
  <2>1. CASE PreRunFails(out, x)
    BY <2>1, PreRunFailsInv
  <2>2. CASE SetupClassAborts(out, x) \/ ClassOnFailAborts(out, x)
    BY <2>2, ClassAbortInv
  <2>3. CASE SetupClassRaises(out, x)
    BY <2>3, SetupClassRaisesInv
  <2>4. CASE ClassOnFailReturns(out, x)
    BY <2>4, ClassOnFailReturnsInv
  <2>5. CASE SetupTest(out, x) \/ TestMethod(out, x)
    BY <2>5, TestStageInv
  <2>6. CASE TeardownTest(out, x)
    BY <2>6, TeardownTestInv
  <2>7. CASE Procedure(out, x)
    BY <2>7, ProcedureInv
  <2>8. CASE TeardownClass(out, x)
    BY <2>8, TeardownClassInv
  <2> QED
    BY <1>5, <2>1, <2>2, <2>3, <2>4, <2>5, <2>6, <2>7, <2>8
<1>6. ASSUME NEW out \in UserOutcomes, GetInfo(out) \/ Destroy(out)
      PROVE  Inv'
  BY <1>6, CleanUpStepInv
<1>7. CASE SkipNext
  BY <1>7, SkipNextInv
<1>8. CASE SkipDone
  BY <1>8, SkipDoneInv
<1>9. CASE InfoRecorded
  BY <1>9, InfoRecordedInv
<1>10. CASE FinishCleanUp
  BY <1>10, FinishCleanUpInv
<1>11. CASE UNCHANGED vars
  BY <1>11 DEF Inv, vars, TypeOK, FiledByResult, Unfiled, StageRecord,
               CurrentTest
<1> QED
  BY <1>1, <1>2, <1>3, <1>4, <1>5, <1>6, <1>7, <1>8, <1>9, <1>10, <1>11
     DEF Next, ClassStep, Finished

(* The invariant holds of every class run. *)
THEOREM Invariance == Spec => []Inv
<1>1. Init => Inv
  BY InitInv
<1>2. Inv /\ [Next]_vars => Inv'
  BY NextInv
<1> QED
  BY <1>1, <1>2, PTL DEF Spec

(* The variables of a class run keep their types, whatever it is asked to run *)
(* and whatever its callbacks raise: no index of a record dangles.           *)
THEOREM TypeCorrect == Spec => []TypeOK
<1>1. Inv => TypeOK
  BY DEF Inv
<1> QED
  BY <1>1, Invariance, PTL

(* add_record, add_class_error: the lists of results agree with the results   *)
(* of their records in every state of every class run.                       *)
THEOREM FilingCorrect == Spec => []FiledByResult
<1>1. Inv => FiledByResult
  BY DEF Inv
<1> QED
  BY <1>1, Invariance, PTL

-----------------------------------------------------------------------------
(* What is written once *)

(* Every step writes to the ledger in the ways Writes names. *)
LEMMA StepWrites ==
  ASSUME Inv, [Next]_vars
  PROVE  \E touched, new, shown : Writes(ledger, ledger', touched, new, shown)
<1>1. ASSUME NEW c \in Controllers, Register(c)
      PROVE  Writes(ledger, ledger', {}, {}, {})
  BY <1>1, RegisterInv
<1>2. ASSUME NEW x \in UserExpects, PreRunReturns(x)
      PROVE  Writes(ledger, ledger', {recorder.rec}, {}, {})
  BY <1>2, PreRunReturnsInv
<1>3. ASSUME SetupClassPasses PROVE Writes(ledger, ledger', {}, {}, {})
  BY <1>3, SetupClassPassesInv
<1>4. ASSUME SetupClassExpects
      PROVE  Writes(ledger, ledger', {recorder.rec}, {}, {})
  BY <1>4, SetupClassExpectsInv
<1>5. ASSUME NEW out \in UserOutcomes, NEW x \in UserExpects,
             \/ PreRunFails(out, x)
             \/ SetupClassAborts(out, x)
             \/ SetupClassRaises(out, x)
             \/ ClassOnFailAborts(out, x)
             \/ ClassOnFailReturns(out, x)
             \/ SetupTest(out, x)
             \/ TestMethod(out, x)
             \/ TeardownTest(out, x)
             \/ Procedure(out, x)
             \/ TeardownClass(out, x)
      PROVE  \E touched, new, shown :
               Writes(ledger, ledger', touched, new, shown)
  <2>1. CASE PreRunFails(out, x)
    BY <2>1, PreRunFailsInv
  <2>2. CASE SetupClassAborts(out, x) \/ ClassOnFailAborts(out, x)
    BY <2>2, ClassAbortInv
  <2>3. CASE SetupClassRaises(out, x)
    BY <2>3, SetupClassRaisesInv
  <2>4. CASE ClassOnFailReturns(out, x)
    BY <2>4, ClassOnFailReturnsInv DEF ClassOnFailReturns, ClassOnFail
  <2>5. CASE SetupTest(out, x) \/ TestMethod(out, x)
    BY <2>5, TestStageInv
  <2>6. CASE TeardownTest(out, x)
    BY <2>6, TeardownTestInv
  <2>7. CASE Procedure(out, x)
    BY <2>7, ProcedureInv
  <2>8. CASE TeardownClass(out, x)
    BY <2>8, TeardownClassInv
  <2> QED
    BY <1>5, <2>1, <2>2, <2>3, <2>4, <2>5, <2>6, <2>7, <2>8
<1>6. ASSUME NEW out \in UserOutcomes, GetInfo(out) \/ Destroy(out)
      PROVE  Writes(ledger, ledger', {recorder.rec}, {}, {})
  BY <1>6, CleanUpStepInv
<1>7. ASSUME SkipNext
      PROVE  \E touched, new, shown :
               Writes(ledger, ledger', touched, new, shown)
  BY <1>7, SkipNextInv, WritesNothing
<1>8. ASSUME SkipDone PROVE Writes(ledger, ledger', {}, {}, {})
  BY <1>8, SkipDoneInv
<1>9. ASSUME InfoRecorded PROVE Writes(ledger, ledger', {}, {}, {})
  BY <1>9, InfoRecordedInv
<1>10. ASSUME FinishCleanUp
       PROVE  \E touched, new, shown :
                Writes(ledger, ledger', touched, new, shown)
  <2>1. HasError(FALSE) \in BOOLEAN
    BY DEF HasError
  <2> QED
    BY <1>10, <2>1, FinishCleanUpInv, WritesNothing
<1>11. CASE UNCHANGED vars
  BY <1>11, WritesNothing DEF vars
<1> QED
  BY <1>1, <1>2, <1>3, <1>4, <1>5, <1>6, <1>7, <1>8, <1>9, <1>10, <1>11
     DEF Next, ClassStep, Finished

(* A passed test was executed. *)
LEMMA PassedFinal ==
  ASSUME NEW l, SoundLedger(l)
  PROVE  /\ Ids(l.results["passed"]) \subseteq Final(l)
         /\ Ids(l.results["skipped"]) \subseteq Final(l)
  BY DEF SoundLedger, WellFiled, Final

(* add_record finalizes a record: no later step of a class run writes to it,  *)
(* and nothing leaves the lists of results or the summary file.              *)
THEOREM FinalStays == Spec => RecordsFinal
<1>1. ASSUME Inv, [Next]_vars
      PROVE  /\ \A id \in Executed \cup Skipped :
                  ledger'.records[id] = ledger.records[id]
             /\ \A l \in Lists :
                  SubSeq(ledger'.results[l], 1, Len(ledger.results[l]))
                    = ledger.results[l]
             /\ SubSeq(ledger'.file, 1, Len(ledger.file)) = ledger.file
  <2>1. SoundLedger(ledger) /\ SoundLedger(ledger)'
    <3>1. Inv'
      BY <1>1, NextInv
    <3> QED
      BY <1>1, <3>1, InvSound DEF Inv, TypeOK, FiledByResult, SoundLedger
  <2>2. PICK touched, new, shown :
          Writes(ledger, ledger', touched, new, shown)
    BY <1>1, StepWrites
  <2>3. Executed \cup Skipped = Final(ledger)
    BY DEF Executed, Skipped, Final
  <2>4. Final(ledger) \subseteq DOMAIN ledger.records
    BY <2>1, FiledExist, FinalFiled
  <2>5. \A id \in Final(ledger) : ledger'.records[id] = ledger.records[id]
    BY <2>2, <2>4 DEF Writes, Touches
  <2> QED
    BY <2>1, <2>2, <2>3, <2>5, WritesGrow
<1> QED
  BY <1>1, Invariance, PTL DEF Spec, RecordsFinal

(* expect_*, _exec_procedure_func: no test with an error recorded in any of   *)
(* its stages is among the passed or the skipped ones.                       *)
THEOREM ErrorsNotPassed == Spec => []NoErrorFiledAsPass
<1>1. Init => NoErrorFiledAsPass
  BY DEF Init, NoErrorFiledAsPass, Passed, Skipped, EmptyResult, Ids, Lists
<1>2. ASSUME Inv, NoErrorFiledAsPass, [Next]_vars
      PROVE  NoErrorFiledAsPass'
  <2>1. SoundLedger(ledger) /\ SoundLedger(ledger)'
    <3>1. Inv'
      BY <1>2, NextInv
    <3> QED
      BY <1>2, <3>1, InvSound DEF Inv, TypeOK, FiledByResult, SoundLedger
  <2>2. PICK touched, new, shown :
          Writes(ledger, ledger', touched, new, shown)
    BY <1>2, StepWrites
  <2> SUFFICES ASSUME NEW id, id \in Passed' \/ id \in Skipped'
               PROVE  ledger'.records[id].extras = 0
    BY DEF NoErrorFiledAsPass
  <2>3. CASE id \in Passed \/ id \in Skipped
    <3>1. id \in Final(ledger) /\ id \in DOMAIN ledger.records
      BY <2>1, <2>3, PassedFinal, FiledExist, FinalFiled DEF Passed, Skipped
    <3>2. ledger'.records[id] = ledger.records[id]
      BY <2>2, <3>1 DEF Writes, Touches
    <3> QED
      BY <1>2, <2>3, <3>2 DEF NoErrorFiledAsPass
  <2>4. CASE id \notin Passed /\ id \notin Skipped
    <3>1. id \in new
      BY <2>1, <2>2, <2>4, WritesGrow DEF Passed, Skipped, Lists
    <3>2. ~Failed(ledger'.records[id])
      BY <2>1 DEF SoundLedger, WellFiled, Passed, Skipped, Failed
    <3> QED
      BY <2>2, <3>1, <3>2 DEF Writes, Files
  <2> QED
    BY <2>3, <2>4
<1> QED
  BY <1>1, <1>2, Invariance, PTL DEF Spec

-----------------------------------------------------------------------------
(* Where a class run goes, and what it reports *)

(* An abort signal is remembered as the exception in flight from the callback *)
(* that raised it until _skip_remaining_tests: TestAbortClass and             *)
(* TestAbortAll may replace one another, and no other exception does.         *)
AbortInFlight ==
  /\ pc \in {"pre_run", "setup_class", "setup_test", "test"} \cup ClassOnFail =>
       raised = {}
  /\ pc \in {"teardown_test", "procedure"} => raised = {} \/ exc \in Abort

(* A callback that raises no abort signal adds none to the history.           *)
LEMMA NoNewAbort ==
  ASSUME NEW out, Raises(out), out \notin Abort
  PROVE  raised' = raised
  BY DEF Raises

(* Where run's loop goes: teardown_class or the next test. *)
LEMMA AdvanceStage ==
  ASSUME NEW l, NEW k, Advance(l, k)
  PROVE  pc' \in {"teardown_class", "setup_test"}
  BY DEF Advance, LeaveRun, BeginIteration, EnterStage

(* Every step keeps an abort signal in flight. *)
LEMMA AbortInFlightStep ==
  ASSUME AbortInFlight, [Next]_vars
  PROVE  AbortInFlight'
<1> USE DEF AbortInFlight, ClassOnFail
<1>1. ASSUME NEW c \in Controllers, Register(c) PROVE AbortInFlight'
  BY <1>1 DEF Register
<1>2. ASSUME NEW x \in UserExpects, PreRunReturns(x) PROVE AbortInFlight'
  BY <1>2 DEF PreRunReturns, EnterStage
<1>3. CASE SetupClassPasses
  BY <1>3, AdvanceStage DEF SetupClassPasses
<1>4. CASE SetupClassExpects
  BY <1>4 DEF SetupClassExpects
<1>5. ASSUME NEW out \in UserOutcomes, NEW x \in UserExpects, PreRunFails(out, x)
      PROVE  AbortInFlight'
  BY <1>5 DEF PreRunFails
<1>6. ASSUME NEW out \in UserOutcomes, NEW x \in UserExpects,
             \/ SetupClassAborts(out, x)
             \/ ClassOnFailAborts(out, x)
             \/ ClassOnFailReturns(out, x)
      PROVE  AbortInFlight'
  <2>1. pc' = "skip"
    BY <1>6 DEF SetupClassAborts, ClassOnFailAborts, ClassOnFailReturns,
                SkipAndLeave
  <2> QED
    BY <2>1
<1>7. ASSUME NEW out \in UserOutcomes, NEW x \in UserExpects,
             SetupClassRaises(out, x)
      PROVE  AbortInFlight'
  BY <1>7 DEF SetupClassRaises
<1>8. ASSUME NEW out \in UserOutcomes, NEW x \in UserExpects, SetupTest(out, x)
      PROVE  AbortInFlight'
  <2>1. /\ raised = {} /\ Raises(out)
        /\ exc' \in {out} \cup (IF out = "fail" THEN {"error"} ELSE {})
        /\ pc' = IF out = "ok" THEN "test" ELSE "teardown_test"
    BY <1>8 DEF SetupTest
  <2>2. CASE out \in Abort
    BY <2>1, <2>2 DEF Abort
  <2>3. CASE out \notin Abort
    BY <2>1, <2>3, NoNewAbort
  <2> QED
    BY <2>2, <2>3
<1>9. ASSUME NEW out \in UserOutcomes, NEW x \in UserExpects, TestMethod(out, x)
      PROVE  AbortInFlight'
  <2>1. raised = {} /\ Raises(out) /\ exc' = out /\ pc' = "teardown_test"
    BY <1>9 DEF TestMethod
  <2>2. CASE out \in Abort
    BY <2>1, <2>2
  <2>3. CASE out \notin Abort
    BY <2>1, <2>3, NoNewAbort
  <2> QED
    BY <2>2, <2>3
<1>10. ASSUME NEW out \in UserOutcomes, NEW x \in UserExpects,
              TeardownTest(out, x)
       PROVE  AbortInFlight'
  <2>1. /\ raised = {} \/ exc \in Abort
        /\ Raises(out) /\ pc' = "procedure"
        /\ exc' = IF InFlight(out) \in Abort THEN InFlight(out) ELSE "ok"
    BY <1>10 DEF TeardownTest
  <2>2. CASE out \in Abort
    BY <2>1, <2>2 DEF InFlight
  <2>3. CASE out \notin Abort
    BY <2>1, <2>3, NoNewAbort DEF InFlight
  <2> QED
    BY <2>2, <2>3
<1>11. ASSUME NEW out \in UserOutcomes, NEW x \in UserExpects, Procedure(out, x)
       PROVE  AbortInFlight'
  <2>1. (raised = {} \/ exc \in Abort) /\ Raises(out)
    BY <1>11 DEF Procedure
  <2>2. CASE InFlight(out) \in Abort
    <3>1. pc' = "skip"
      BY <1>11, <2>2 DEF Procedure, SkipAndLeave
    <3> QED
      BY <3>1
  <2>3. CASE InFlight(out) \notin Abort
    <3>1. raised' = {}
      BY <2>1, <2>3, NoNewAbort DEF InFlight
    <3>2. pc' \in {"setup_test", "teardown_class"}
      BY <1>11, <2>3, AdvanceStage DEF Procedure, BeginIteration, EnterStage
    <3> QED
      BY <3>1, <3>2
  <2> QED
    BY <2>2, <2>3
<1>12. ASSUME NEW out \in UserOutcomes, NEW x \in UserExpects,
              TeardownClass(out, x)
       PROVE  AbortInFlight'
  BY <1>12 DEF TeardownClass, EnterStage
<1>13. ASSUME NEW out \in UserOutcomes, GetInfo(out) \/ Destroy(out)
       PROVE  AbortInFlight'
  BY <1>13 DEF GetInfo, Destroy
<1>14. CASE SkipNext \/ SkipDone
  BY <1>14 DEF SkipNext, SkipDone, LeaveRun, EnterStage
<1>15. CASE InfoRecorded \/ FinishCleanUp
  BY <1>15 DEF InfoRecorded, FinishCleanUp
<1>16. CASE UNCHANGED vars
  BY <1>16 DEF vars
<1> QED
  BY <1>1, <1>2, <1>3, <1>4, <1>5, <1>6, <1>7, <1>8, <1>9, <1>10, <1>11,
     <1>12, <1>13, <1>14, <1>15, <1>16 DEF Next, ClassStep, Finished

(* abort_class, abort_all: once a callback raised an abort signal no test     *)
(* begins, in every class run.                                               *)
THEOREM AbortsRemaining == Spec => []NoTestAfterAbort
<1>1. Init => AbortInFlight
  BY DEF Init, AbortInFlight
<1>2. AbortInFlight /\ [Next]_vars => AbortInFlight'
  BY AbortInFlightStep
<1>3. AbortInFlight => NoTestAfterAbort
  BY DEF AbortInFlight, NoTestAfterAbort
<1> QED
  BY <1>1, <1>2, <1>3, PTL DEF Spec

-----------------------------------------------------------------------------
(* Whatever is alive is in the registry, and while the registry is worked off *)
(* in the part of it that is still to come.                                  *)
Held ==
  /\ live \subseteq Ids(objects)
  /\ pc = "pre_run" => ledger.file = <<>>
  /\ pc = "destroy" => live \subseteq {objects[i] : i \in pos..Len(objects)}
  /\ pc = "done" /\ Began /\ plan.resolves => live = {} /\ objects = <<>>

(* register_controller puts what it created into the registry. *)
LEMMA RegisterHeld ==
  ASSUME Inv, Held, NEW c \in Controllers, Register(c)
  PROVE  Held'
<1>1. /\ objects \in Seq(Controllers)
      /\ objects' = Append(objects, c)
      /\ live' = live \cup {c}
      /\ pc' = pc /\ ledger' = ledger
      /\ pc \in UserStages
  BY DEF Register, Inv, TypeOK
<1>2. pc \notin {"destroy", "done"}
  BY <1>1 DEF UserStages, ClassOnFail, TestStages
<1>3. /\ DOMAIN objects = 1..Len(objects) /\ DOMAIN objects' = 1..Len(objects) + 1
      /\ Len(objects) \in Nat
      /\ objects'[Len(objects) + 1] = c
      /\ \A i \in 1..Len(objects) : objects'[i] = objects[i]
  BY <1>1
<1>4. Ids(objects) \cup {c} \subseteq Ids(objects')
  BY <1>3 DEF Ids
<1> QED
  BY <1>1, <1>2, <1>4 DEF Held

(* A pre_run that raises leaves a file with one record and no list of names.  *)
LEMMA PreRunFailsHeld ==
  ASSUME Inv, Held, NEW out \in UserOutcomes, NEW x \in UserExpects,
         PreRunFails(out, x)
  PROVE  Held' /\ ~Began'
<1> DEFINE l == Expected(x)
           ended == SetRecord(l, info, TestEnd(l.records[info], "ERROR", TRUE))
           filed == AddClassError(ended, info)
<1>1. x \in BOOLEAN /\ pc = "pre_run" /\ TypeOK
  BY InputsAssumption DEF PreRunFails, Inv
<1>2. /\ SoundLedger(l)
      /\ info \in DOMAIN l.records
      /\ info \notin Filed(l.results)
      /\ l.records[info].name.kind = "stage"
      /\ l.file = <<>>
  BY <1>1, ExpectedSound, StagesDiffer
     DEF TypeOK, LedgerType, Inv, Unfiled, StageRecord, Held
<1>3. /\ ledger' = Dump(filed, info) /\ pc' = "done"
      /\ UNCHANGED <<objects, live>>
  BY DEF PreRunFails, registry
<1> HIDE DEF l
<1>4. SoundLedger(filed) /\ info \in DOMAIN filed.records /\ filed.file = <<>>
  BY <1>2, ClassErrorSound
<1> HIDE DEF filed
<1> DEFINE entry == Entry("RECORD", info, filed.records[info].result)
<1>5. ledger'.file = Append(<<>>, entry)
  BY <1>3, <1>4, DumpSound
<1>6. entry.type = "RECORD"
  BY DEF Entry
<1> HIDE DEF entry
<1>7. DOMAIN ledger'.file = {1} /\ ledger'.file[1] = entry
  BY <1>5
<1>8. ~Began'
  BY <1>6, <1>7 DEF Began
<1> QED
  BY <1>3, <1>8 DEF Held

(* A step that leaves the registry alone and ends in none of the stages Held  *)
(* watches keeps Held.                                                       *)
LEMMA BusyHeld ==
  ASSUME Held, pc' \notin {"pre_run", "destroy", "done"},
         UNCHANGED <<objects, live>>
  PROVE  Held'
  BY DEF Held

(* unregister_controllers calls destroy of one controller after the other,    *)
(* whatever it raises.                                                       *)
LEMMA DestroyHeld ==
  ASSUME Inv, Held, NEW out \in UserOutcomes, Destroy(out)
  PROVE  Held'
<1>1. /\ pc = "destroy" /\ pc' = "destroy"
      /\ pos \in Nat \ {0} /\ pos <= Len(objects) /\ pos' = pos + 1
      /\ objects' = objects /\ objects \in Seq(Controllers)
      /\ live' = live \ {objects[pos]}
  BY DEF Destroy, Inv, TypeOK
<1>2. \A i \in pos..Len(objects) : i = pos \/ i \in pos + 1..Len(objects)
  BY <1>1
<1>3. live' \subseteq {objects[i] : i \in pos + 1..Len(objects)}
  BY <1>1, <1>2 DEF Held
<1> QED
  BY <1>1, <1>3 DEF Held

(* Every step keeps track of what is alive. *)
LEMMA HeldStep ==
  ASSUME Inv, Held, [Next]_vars
  PROVE  Held'
<1>1. ASSUME NEW c \in Controllers, Register(c) PROVE Held'
  BY <1>1, RegisterHeld
<1>2. ASSUME NEW x \in UserExpects, PreRunReturns(x) PROVE Held'
  <2>1. UNCHANGED <<plan, objects, live>>
    BY <1>2 DEF PreRunReturns, control, registry
  <2>2. pc' = "setup_class" \/ (pc' = "done" /\ ~plan.resolves)
    BY <1>2 DEF PreRunReturns, EnterStage
  <2> QED
    BY <2>1, <2>2 DEF Held
<1>3. CASE SetupClassPasses
  <2>1. pc' \in {"teardown_class", "setup_test"} /\ UNCHANGED <<objects, live>>
    BY <1>3, AdvanceStage DEF SetupClassPasses, registry
  <2> QED
    BY <2>1, BusyHeld
<1>4. CASE SetupClassExpects
  BY <1>4, BusyHeld DEF SetupClassExpects, registry
<1>5. ASSUME NEW out \in UserOutcomes, NEW x \in UserExpects,
             PreRunFails(out, x)
      PROVE  Held'
  BY <1>5, PreRunFailsHeld
<1>6. ASSUME NEW out \in UserOutcomes, NEW x \in UserExpects,
             \/ SetupClassAborts(out, x)
             \/ ClassOnFailAborts(out, x)
             \/ ClassOnFailReturns(out, x)
      PROVE  Held'
  BY <1>6, BusyHeld DEF SetupClassAborts, ClassOnFailAborts,
                        ClassOnFailReturns, SkipAndLeave
<1>7. ASSUME NEW out \in UserOutcomes, NEW x \in UserExpects,
             \/ SetupClassRaises(out, x)
             \/ SetupTest(out, x)
             \/ TestMethod(out, x)
             \/ TeardownTest(out, x)
      PROVE  Held'
  BY <1>7, BusyHeld DEF SetupClassRaises, SetupTest, TestMethod, TeardownTest,
                        registry
<1>8. ASSUME NEW out \in UserOutcomes, NEW x \in UserExpects, Procedure(out, x)
      PROVE  Held'
  <2>1. pc' \in {"skip", "setup_test", "teardown_class"}
    BY <1>8, AdvanceStage
       DEF Procedure, SkipAndLeave, BeginIteration, EnterStage
  <2> QED
    BY <1>8, <2>1, BusyHeld DEF Procedure
<1>9. ASSUME NEW out \in UserOutcomes, NEW x \in UserExpects,
             TeardownClass(out, x)
      PROVE  Held'
  BY <1>9, BusyHeld DEF TeardownClass, EnterStage
<1>10. ASSUME NEW out \in UserOutcomes, GetInfo(out) PROVE Held'
  BY <1>10, BusyHeld DEF GetInfo
<1>11. ASSUME NEW out \in UserOutcomes, Destroy(out) PROVE Held'
  BY <1>11, DestroyHeld
<1>12. CASE SkipNext \/ SkipDone
  BY <1>12, BusyHeld DEF SkipNext, SkipDone, LeaveRun, EnterStage, registry
<1>13. CASE InfoRecorded
  <2>1. objects \in Seq(Controllers) /\ DOMAIN objects = 1..Len(objects)
    BY DEF Inv, TypeOK
  <2>2. pc' = "destroy" /\ pos' = 1 /\ UNCHANGED <<objects, live>>
    BY <1>13 DEF InfoRecorded
  <2> QED
    BY <2>1, <2>2 DEF Held, Ids
<1>14. CASE FinishCleanUp
  <2>1. /\ pos \in Nat /\ Len(objects) \in Nat /\ pos > Len(objects)
        /\ live \subseteq {objects[i] : i \in pos..Len(objects)}
        /\ pc' = "done" /\ objects' = <<>> /\ live' = live
    BY <1>14 DEF FinishCleanUp, Inv, TypeOK, Held
  <2>2. live = {}
    BY <2>1
  <2> QED
    BY <2>1, <2>2 DEF Held
<1>15. CASE UNCHANGED vars
  BY <1>15 DEF vars, Held, Began
<1> QED
  BY <1>1, <1>2, <1>3, <1>4, <1>5, <1>6, <1>7, <1>8, <1>9, <1>10, <1>11,
     <1>12, <1>13, <1>14, <1>15 DEF Next, ClassStep, Finished

(* unregister_controllers: a class run that got as far as _setup_class ends   *)
(* with every controller it registered destroyed, however many there are and *)
(* whatever get_info, destroy and the callbacks raise.                       *)
THEOREM ReleasesControllers == Spec => []ControllersReleased
<1>1. Init => Held
  BY DEF Init, Held
<1>2. Inv /\ Held /\ [Next]_vars => Held'
  BY HeldStep
<1>3. Held => ControllersReleased
  BY DEF Held, ControllersReleased
<1> QED
  BY <1>1, <1>2, <1>3, Invariance, PTL DEF Spec

-----------------------------------------------------------------------------
(* What the references of a stage refer to: after pre_run the recorder always *)
(* holds the record of the stage, and these are the stages' names.           *)
StageOf ==
  /\ pc \notin {"pre_run", "done"} => recorder.rec = info
  /\ pc \in {"setup_class"} \cup ClassOnFail =>
       ledger.records[info].name = StageName("setup_class")
  /\ pc = "on_fail_raised" => info \in Filed(ledger.results)
  /\ pc = "teardown_class" =>
       ledger.records[info].name = StageName("teardown_class")
  /\ pc \in TestStages =>
       ledger.records[info].name.test = plan.methods[n].name

(* Both invariants hold of both ledgers of a step, and names stay. *)
LEMMA StepSound ==
  ASSUME Inv, [Next]_vars
  PROVE  /\ Inv' /\ SoundLedger(ledger) /\ SoundLedger(ledger)'
         /\ DOMAIN ledger.records \subseteq DOMAIN ledger'.records
         /\ \A k \in DOMAIN ledger.records :
              /\ ledger'.records[k].name = ledger.records[k].name
              /\ Origin(ledger'.records[k]) = Origin(ledger.records[k])
         /\ Filed(ledger.results) \subseteq Filed(ledger'.results)
<1>1. Inv'
  BY NextInv
<1>2. SoundLedger(ledger) /\ SoundLedger(ledger)'
  BY <1>1, InvSound DEF Inv, TypeOK, FiledByResult, SoundLedger
<1>3. PICK touched, new, shown : Writes(ledger, ledger', touched, new, shown)
  BY StepWrites
<1> QED
  BY <1>1, <1>2, <1>3 DEF Writes, Touches, Files

(* A stage that begins has a record of its own, with no result yet.           *)
LEMMA EnterStageRecord ==
  ASSUME NEW l, SoundLedger(l), NEW stage,
         NEW name \in Names, NEW parent \in Nat, NEW link \in Links,
         EnterStage(l, stage, name, parent, link)
  PROVE  /\ pc' = stage
         /\ recorder'.rec = info' /\ recorder'.count = 0
         /\ ledger'.records[info'].name = name
         /\ ledger'.records[info'].result = "none"
<1>1. /\ pc' = stage
      /\ ledger' = Create(l, name, parent, link)
      /\ info' = Len(l.records) + 1
      /\ recorder' = [rec |-> Len(l.records) + 1, count |-> 0]
  BY DEF EnterStage
<1>2. ledger'.records[info'] = NewRecord(name, parent, link)
  BY <1>1, CreateSound
<1> QED
  BY <1>1, <1>2 DEF NewRecord

(* The loop of run enters teardown_class, or the test it says it enters.      *)
LEMMA AdvanceRecord ==
  ASSUME NEW l, SoundLedger(l), NEW k \in Nat \ {0}, Advance(l, k), TypeOK
  PROVE  /\ pc' \in {"teardown_class", "setup_test"}
         /\ recorder'.rec = info' /\ recorder'.count = 0
         /\ ledger'.records[info'].result = "none"
         /\ pc' = "teardown_class" =>
              ledger'.records[info'].name = StageName("teardown_class")
         /\ pc' = "setup_test" =>
              /\ n' = k /\ k \in 1..Len(plan.methods)
              /\ ledger'.records[info'].name.test = plan.methods[k].name
         /\ n' = k /\ plan' = plan
<1>1. /\ StageName("teardown_class") \in Names /\ 0 \in Nat /\ "none" \in Links
  BY StageNames DEF StageLabels, Links
<1>2. n' = k /\ plan' = plan
  BY DEF Advance, BeginIteration
<1>3. ASSUME NEW e, LeaveRun(l, e)
      PROVE  /\ pc' = "teardown_class"
             /\ recorder'.rec = info' /\ recorder'.count = 0
             /\ ledger'.records[info'].result = "none"
             /\ ledger'.records[info'].name = StageName("teardown_class")
  BY <1>1, <1>3, EnterStageRecord DEF LeaveRun
<1>4. ASSUME k <= Len(plan.methods), BeginIteration(l, plan.methods[k], 0, 0)
      PROVE  /\ pc' = "setup_test"
             /\ recorder'.rec = info' /\ recorder'.count = 0
             /\ ledger'.records[info'].result = "none"
             /\ k \in 1..Len(plan.methods)
             /\ ledger'.records[info'].name.test = plan.methods[k].name
  <2> DEFINE m == plan.methods[k]
  <2>1. m \in Methods /\ k \in 1..Len(plan.methods)
    BY <1>4, PlanType DEF TypeOK
  <2> HIDE DEF m
  <2>2. /\ Name(m, 0) \in Names /\ Link(m, 0) \in Links
    BY <2>1, IterationNames
  <2>3. EnterStage(l, "setup_test", Name(m, 0), 0, Link(m, 0))
    BY <1>4 DEF BeginIteration, m
  <2>4. Name(m, 0).test = m.name
    BY DEF Name, BareName, IterationName
  <2> QED
    BY <2>1, <2>2, <2>3, <2>4, EnterStageRecord DEF m
<1> QED
  BY <1>2, <1>3, <1>4 DEF Advance

(* The record of the next iteration bears the name of its test. *)
LEMMA IterationRecord ==
  ASSUME NEW l, SoundLedger(l), TypeOK, n \in 1..Len(plan.methods),
         BeginIteration(l, Current, it + 1, info)
  PROVE  /\ pc' = "setup_test"
         /\ recorder'.rec = info' /\ recorder'.count = 0
         /\ ledger'.records[info'].result = "none"
         /\ ledger'.records[info'].name.test = plan.methods[n].name
         /\ plan' = plan
<1>1. Current \in Methods /\ it + 1 \in Nat /\ info \in Nat
  BY PlanType DEF Current, TypeOK
<1>2. /\ Name(Current, it + 1) \in Names /\ Link(Current, it + 1) \in Links
  BY <1>1, IterationNames
<1>3. EnterStage(l, "setup_test", Name(Current, it + 1), info,
                 Link(Current, it + 1)) /\ plan' = plan
  BY DEF BeginIteration
<1>4. Name(Current, it + 1).test = plan.methods[n].name
  BY DEF Name, BareName, IterationName, Current
<1> QED
  BY <1>1, <1>2, <1>3, <1>4, EnterStageRecord

(* The ledger a procedure leaves has the test's record, filed. *)
LEMMA ProcedureFiled ==
  ASSUME Inv, NEW out \in UserOutcomes, NEW x \in UserExpects, Procedure(out, x)
  PROVE  /\ \E filed :
              /\ SoundLedger(filed)
              /\ \/ SkipAndLeave(filed, InFlight(out)) /\ UNCHANGED control
                 \/ /\ BeginIteration(filed, Current, it + 1, info)
                    /\ UNCHANGED <<n, pos>>
                 \/ Advance(filed, n + 1)
         /\ recorder'.rec = recorder.rec \/ pc' # "skip"
         /\ pc' \in {"skip", "setup_test", "teardown_class"}
<1> DEFINE caught == IF out \in Abort THEN "ok" ELSE out
           l == ProcedureError(Expected(x), caught)
           grown == AddRecord(l, info)
           filed == Dump(grown, info)
<1>1. /\ x \in BOOLEAN /\ pc = "procedure" /\ "procedure" \in TestStages
  BY InputsAssumption DEF Procedure, Inv, TestStages
<1>2. /\ info \in DOMAIN ledger.records
      /\ info \notin Filed(ledger.results)
      /\ ledger.records[info].name.kind # "stage"
      /\ ledger.records[info].result # "none"
      /\ SoundLedger(ledger)
  BY <1>1, InvSound DEF Inv, Unfiled, StageRecord
<1>3. /\ SoundLedger(Expected(x))
      /\ info \in DOMAIN Expected(x).records
      /\ Expected(x).results = ledger.results
      /\ Expected(x).records[info].name = ledger.records[info].name
      /\ Expected(x).records[info].result # "none"
  BY <1>1, <1>2, ExpectedSound
<1>4. /\ SoundLedger(l)
      /\ info \in DOMAIN l.records
      /\ info \notin Filed(l.results)
      /\ l.records[info].name.kind # "stage"
      /\ l.records[info].result # "none"
  BY <1>2, <1>3, ProcedureErrorSound
<1>5. /\ \/ SkipAndLeave(filed, InFlight(out)) /\ Recorded(x) /\ UNCHANGED control
         \/ /\ BeginIteration(filed, Current, it + 1, info)
            /\ UNCHANGED <<n, pos>>
         \/ Advance(filed, n + 1)
  BY DEF Procedure
<1> HIDE DEF l
<1>6. SoundLedger(grown) /\ info \in DOMAIN grown.records
  BY <1>4, AddRecordSound
<1> HIDE DEF grown
<1>7. SoundLedger(filed)
  BY <1>6, DumpSound
<1> HIDE DEF filed
<1>8. Recorded(x) => recorder'.rec = recorder.rec
  BY DEF Recorded, Inv, TypeOK
<1>9. /\ recorder'.rec = recorder.rec \/ pc' # "skip"
      /\ pc' \in {"skip", "setup_test", "teardown_class"}
  BY <1>5, <1>8, AdvanceStage DEF SkipAndLeave, BeginIteration, EnterStage
<1> QED
  BY <1>5, <1>7, <1>9

(* A step within a stage, or out of one that leaves its record behind.        *)
LEMMA SameStage ==
  ASSUME Inv, StageOf, [Next]_vars, UNCHANGED <<plan, n, info>>,
         recorder'.rec = recorder.rec,
         pc' \notin {"pre_run", "done"} => pc \notin {"pre_run", "done"},
         pc' \in {"setup_class"} \cup ClassOnFail =>
           pc \in {"setup_class"} \cup ClassOnFail,
         pc' = "on_fail_raised" => info \in Filed(ledger'.results),
         pc' = "teardown_class" => pc = "teardown_class",
         pc' \in TestStages => pc \in TestStages
  PROVE  StageOf'
<1>1. ledger'.records[info].name = ledger.records[info].name
  BY StepSound, InvSound
<1> QED
  BY <1>1 DEF StageOf

(* A stage that begins is set up as StageOf says. *)
LEMMA NewStage ==
  ASSUME pc' \in {"setup_class", "setup_test", "teardown_class", "get_info"},
         recorder'.rec = info',
         pc' = "setup_class" =>
           ledger'.records[info'].name = StageName("setup_class"),
         pc' = "teardown_class" =>
           ledger'.records[info'].name = StageName("teardown_class"),
         pc' = "setup_test" =>
           ledger'.records[info'].name.test = plan'.methods[n'].name
  PROVE  StageOf'
  BY DEF StageOf, ClassOnFail, TestStages

(* Every step keeps the references where they belong. *)
LEMMA StageOfStep ==
  ASSUME Inv, StageOf, [Next]_vars
  PROVE  StageOf'
<1> USE DEF control
<1>a. TypeOK /\ SoundLedger(ledger)
  BY InvSound DEF Inv
<1>b. \A x : Recorded(x) => recorder'.rec = recorder.rec
  BY <1>a DEF Recorded, TypeOK
<1>c. /\ ClassOnFail = {"on_fail_raised", "on_fail_expects"}
      /\ TestStages = {"setup_test", "test", "teardown_test", "procedure"}
  BY DEF ClassOnFail, TestStages
<1>1. ASSUME NEW c \in Controllers, Register(c) PROVE StageOf'
  <2>1. UNCHANGED <<pc, plan, n, ledger, info, recorder>>
    BY <1>1 DEF Register
  <2> QED
    BY <2>1 DEF StageOf
<1>2. ASSUME NEW x \in UserExpects, PreRunReturns(x) PROVE StageOf'
  <2> DEFINE l == DumpOther(Expected(x), "TEST_NAME_LIST")
  <2>1. x \in BOOLEAN /\ pc = "pre_run"
    BY <1>2, InputsAssumption DEF PreRunReturns
  <2>2. SoundLedger(l)
    BY <2>1, ExpectedSound, DumpOtherSound DEF EntryTypes
  <2>3. CASE EnterStage(l, "setup_class", StageName("setup_class"), 0, "none")
    <3>1. StageName("setup_class") \in Names /\ 0 \in Nat /\ "none" \in Links
      BY StageNames DEF StageLabels, Links
    <3> HIDE DEF l
    <3> QED
      BY <2>2, <2>3, <3>1, EnterStageRecord, NewStage
  <2>4. CASE pc' = "done"
    BY <1>c, <2>4 DEF StageOf
  <2> QED
    BY <1>2, <2>3, <2>4 DEF PreRunReturns
<1>3. CASE SetupClassPasses
  <2>1. Advance(ledger, 1) /\ 1 \in Nat \ {0}
    BY <1>3 DEF SetupClassPasses
  <2> QED
    BY <1>a, <2>1, AdvanceRecord, NewStage
<1>4. CASE SetupClassExpects
  <2>1. /\ pc = "setup_class" /\ pc' = "on_fail_expects"
        /\ UNCHANGED <<plan, n, info>> /\ recorder'.rec = recorder.rec
    BY <1>4, <1>b DEF SetupClassExpects
  <2> QED
    BY <1>c, <2>1, SameStage
<1>5. ASSUME NEW out \in UserOutcomes, NEW x \in UserExpects, PreRunFails(out, x)
      PROVE  StageOf'
  BY <1>5, <1>c DEF PreRunFails, StageOf
<1>6. ASSUME NEW out \in UserOutcomes, NEW x \in UserExpects,
             \/ SetupClassAborts(out, x)
             \/ ClassOnFailAborts(out, x)
             \/ ClassOnFailReturns(out, x)
      PROVE  StageOf'
  <2>1. /\ pc' = "skip" /\ pc \in {"setup_class"} \cup ClassOnFail
        /\ UNCHANGED <<plan, n, info>> /\ recorder'.rec = recorder.rec
    BY <1>6, <1>b DEF SetupClassAborts, ClassOnFailAborts, ClassOnFailReturns,
                      SkipAndLeave
  <2> QED
    BY <1>c, <2>1, SameStage
<1>7. ASSUME NEW out \in UserOutcomes, NEW x \in UserExpects,
             SetupClassRaises(out, x)
      PROVE  StageOf'
  <2>1. /\ pc = "setup_class" /\ pc' = "on_fail_raised"
        /\ UNCHANGED <<plan, n, info>> /\ recorder'.rec = recorder.rec
    BY <1>7, <1>b DEF SetupClassRaises
  <2>2. info \in Filed(ledger'.results)
    BY <1>7, SetupClassRaisesInv DEF Writes, Files
  <2> QED
    BY <1>c, <2>1, <2>2, SameStage
<1>8. ASSUME NEW out \in UserOutcomes, NEW x \in UserExpects,
             \/ SetupTest(out, x)
             \/ TestMethod(out, x)
             \/ TeardownTest(out, x)
      PROVE  StageOf'
  <2>1. /\ pc \in TestStages /\ pc' \in TestStages
        /\ UNCHANGED <<plan, n, info>> /\ recorder'.rec = recorder.rec
    BY <1>8, <1>b, <1>c DEF SetupTest, TestMethod, TeardownTest
  <2> QED
    BY <1>c, <2>1, SameStage
<1>9. ASSUME NEW out \in UserOutcomes, NEW x \in UserExpects, Procedure(out, x)
      PROVE  StageOf'
  <2>1. pc = "procedure" /\ n \in 1..Len(plan.methods) /\ n + 1 \in Nat \ {0}
    BY <1>9, <1>a, <1>c DEF Procedure, Inv, CurrentTest, TypeOK
  <2>2. PICK filed :
          /\ SoundLedger(filed)
          /\ \/ SkipAndLeave(filed, InFlight(out)) /\ UNCHANGED control
             \/ /\ BeginIteration(filed, Current, it + 1, info)
                /\ UNCHANGED <<n, pos>>
             \/ Advance(filed, n + 1)
    BY <1>9, ProcedureFiled
  <2>3. CASE SkipAndLeave(filed, InFlight(out)) /\ UNCHANGED control
    <3>1. pc' = "skip" /\ UNCHANGED <<plan, n, info>>
      BY <2>3 DEF SkipAndLeave
    <3>2. recorder'.rec = recorder.rec
      BY <1>9, <3>1, ProcedureFiled
    <3> QED
      BY <1>c, <2>1, <3>1, <3>2, SameStage
  <2>4. CASE BeginIteration(filed, Current, it + 1, info) /\ UNCHANGED <<n, pos>>
    BY <1>a, <2>1, <2>2, <2>4, IterationRecord, NewStage
  <2>5. CASE Advance(filed, n + 1)
    BY <1>a, <2>1, <2>2, <2>5, AdvanceRecord, NewStage
  <2> QED
    BY <2>2, <2>3, <2>4, <2>5
<1>10. ASSUME NEW out \in UserOutcomes, NEW x \in UserExpects,
              TeardownClass(out, x)
       PROVE  StageOf'
  BY <1>10, TeardownClassInv, NewStage
<1>11. ASSUME NEW out \in UserOutcomes, GetInfo(out) \/ Destroy(out)
       PROVE  StageOf'
  <2>1. /\ pc \in {"get_info", "destroy"} /\ pc' = pc
        /\ UNCHANGED <<plan, n, info>> /\ recorder'.rec = recorder.rec
    BY <1>11, <1>b DEF GetInfo, Destroy
  <2> QED
    BY <1>c, <2>1, SameStage
<1>12. CASE SkipNext
  BY <1>12, <1>c, SameStage DEF SkipNext
<1>13. CASE SkipDone
  <2>1. StageName("teardown_class") \in Names /\ 0 \in Nat /\ "none" \in Links
    BY StageNames DEF StageLabels, Links
  <2> QED
    BY <1>13, <1>a, <2>1, EnterStageRecord, NewStage DEF SkipDone, LeaveRun
<1>14. CASE InfoRecorded
  BY <1>14, <1>c, SameStage DEF InfoRecorded
<1>15. CASE FinishCleanUp
  BY <1>15, <1>c DEF FinishCleanUp, StageOf
<1>16. CASE UNCHANGED vars
  BY <1>16 DEF vars, StageOf
<1> QED
  BY <1>1, <1>2, <1>3, <1>4, <1>5, <1>6, <1>7, <1>8, <1>9, <1>10, <1>11,
     <1>12, <1>13, <1>14, <1>15, <1>16 DEF Next, ClassStep, Finished

(* Abort signals are remembered. *)
LEMMA RaisedGrows ==
  ASSUME [Next]_vars
  PROVE  raised \subseteq raised'
<1>1. ASSUME NEW out, Raises(out) PROVE raised \subseteq raised'
  BY <1>1 DEF Raises
<1>2. ASSUME NEW c \in Controllers, Register(c) PROVE raised \subseteq raised'
  BY <1>2 DEF Register
<1>3. ASSUME NEW x \in UserExpects, PreRunReturns(x)
      PROVE  raised \subseteq raised'
  BY <1>3 DEF PreRunReturns
<1>4. ASSUME NEW out \in UserOutcomes, NEW x \in UserExpects,
             \/ PreRunFails(out, x) \/ SetupClassAborts(out, x)
             \/ SetupClassRaises(out, x) \/ ClassOnFailAborts(out, x)
             \/ ClassOnFailReturns(out, x)
      PROVE  raised \subseteq raised'
  BY <1>1, <1>4 DEF PreRunFails, SetupClassAborts, SetupClassRaises,
                    ClassOnFailAborts, ClassOnFailReturns
<1>5. ASSUME NEW out \in UserOutcomes, NEW x \in UserExpects,
             \/ SetupTest(out, x) \/ TestMethod(out, x)
             \/ TeardownTest(out, x) \/ Procedure(out, x)
             \/ TeardownClass(out, x)
      PROVE  raised \subseteq raised'
  BY <1>1, <1>5 DEF SetupTest, TestMethod, TeardownTest, Procedure,
                    TeardownClass
<1>6. ASSUME NEW out \in UserOutcomes, GetInfo(out) \/ Destroy(out)
      PROVE  raised \subseteq raised'
  BY <1>1, <1>6 DEF GetInfo, Destroy
<1>7. CASE \/ SetupClassPasses \/ SetupClassExpects \/ SkipNext \/ SkipDone
           \/ InfoRecorded \/ FinishCleanUp \/ UNCHANGED vars
  BY <1>7 DEF SetupClassPasses, SetupClassExpects, SkipNext, SkipDone,
              InfoRecorded, FinishCleanUp, vars
<1> QED
  BY <1>2, <1>3, <1>4, <1>5, <1>6, <1>7 DEF Next, ClassStep, Finished

-----------------------------------------------------------------------------
(* What the summary file shows: filed records with the results they have, and *)
(* all of them but one of setup_class, from AddClassError until its on_fail   *)
(* has returned, or for good when that aborts.                               *)
Shown ==
  /\ EntriesTrue(ledger)
  /\ \A id \in Unshown(ledger) :
       ledger.records[id].name = StageName("setup_class")
  /\ pc = "on_fail_raised" => Unshown(ledger) = {info}
  /\ pc \in {"pre_run", "setup_class"} => Unshown(ledger) = {}
  /\ pc # "on_fail_raised" /\ raised = {} => Unshown(ledger) = {}

(* What a step that writes as Writes says leaves unshown. *)
LEMMA ShownWrites ==
  ASSUME Inv, Shown, [Next]_vars, NEW touched, NEW new, NEW shown,
         Writes(ledger, ledger', touched, new, shown),
         shown \subseteq Unshown(ledger) \cup new
  PROVE  /\ EntriesTrue(ledger)'
         /\ Unshown(ledger)' = (Unshown(ledger) \cup new) \ shown
         /\ \A id \in Unshown(ledger) :
              ledger'.records[id].name = StageName("setup_class")
<1>1. /\ SoundLedger(ledger) /\ SoundLedger(ledger')
      /\ \A k \in DOMAIN ledger.records :
           ledger'.records[k].name = ledger.records[k].name
  BY StepSound
<1>2. EntriesTrue(ledger) /\ Unshown(ledger) \subseteq DOMAIN ledger.records
  BY <1>1, FiledExist DEF Shown, Unshown
<1>3. /\ EntriesTrue(ledger')
      /\ Unshown(ledger') = (Unshown(ledger) \cup new) \ shown
  BY <1>1, <1>2, WritesShow
<1> QED
  BY <1>1, <1>2, <1>3 DEF Shown

(* A step that shows at once what it files. *)
LEMMA ShownAtOnce ==
  ASSUME Inv, Shown, [Next]_vars, NEW touched, NEW new,
         Writes(ledger, ledger', touched, new, new),
         pc # "on_fail_raised", pc' \notin {"on_fail_raised", "pre_run"},
         pc' = "setup_class" => pc = "pre_run"
  PROVE  Shown'
<1>1. /\ EntriesTrue(ledger)'
      /\ Unshown(ledger)' = Unshown(ledger) \ new
      /\ \A id \in Unshown(ledger) :
           ledger'.records[id].name = StageName("setup_class")
  BY ShownWrites
<1>2. raised' = {} => raised = {}
  BY RaisedGrows
<1> QED
  BY <1>1, <1>2 DEF Shown

(* Nothing is filed or shown, whatever else happens to the record at hand.    *)
LEMMA ShownSame ==
  ASSUME Inv, Shown, [Next]_vars, NEW touched,
         Writes(ledger, ledger', touched, {}, {}),
         \/ pc' = "skip" /\ raised' # {}
         \/ pc # "on_fail_raised" /\ pc' # "on_fail_raised"
            /\ (pc' \in {"pre_run", "setup_class"}
                  => pc \in {"pre_run", "setup_class"})
         \/ pc' = pc /\ info' = info
  PROVE  Shown'
<1>1. /\ EntriesTrue(ledger)'
      /\ Unshown(ledger)' = Unshown(ledger)
      /\ \A id \in Unshown(ledger) :
           ledger'.records[id].name = StageName("setup_class")
  BY ShownWrites
<1>2. raised' = {} => raised = {}
  BY RaisedGrows
<1> QED
  BY <1>1, <1>2 DEF Shown

(* Every step keeps the file true. *)
LEMMA ShownStep ==
  ASSUME Inv, StageOf, Shown, [Next]_vars
  PROVE  Shown'
<1>a. /\ ClassOnFail = {"on_fail_raised", "on_fail_expects"}
      /\ TestStages = {"setup_test", "test", "teardown_test", "procedure"}
  BY DEF ClassOnFail, TestStages
<1>1. ASSUME NEW c \in Controllers, Register(c) PROVE Shown'
  BY <1>1, RegisterInv, ShownSame DEF Register
<1>2. ASSUME NEW x \in UserExpects, PreRunReturns(x) PROVE Shown'
  <2>1. pc = "pre_run" /\ pc' \in {"setup_class", "done"}
    BY <1>2 DEF PreRunReturns, EnterStage
  <2> QED
    BY <1>2, <2>1, PreRunReturnsInv, ShownSame
<1>3. CASE SetupClassPasses
  <2>1. pc = "setup_class" /\ pc' \in {"teardown_class", "setup_test"}
    BY <1>3, AdvanceStage DEF SetupClassPasses
  <2> QED
    BY <1>3, <2>1, SetupClassPassesInv, ShownSame
<1>4. CASE SetupClassExpects
  <2>1. pc = "setup_class" /\ pc' = "on_fail_expects"
    BY <1>4 DEF SetupClassExpects
  <2> QED
    BY <1>4, <2>1, SetupClassExpectsInv, ShownSame
<1>5. ASSUME NEW out \in UserOutcomes, NEW x \in UserExpects,
             PreRunFails(out, x)
      PROVE  Shown'
  <2>1. pc = "pre_run" /\ pc' = "done"
    BY <1>5 DEF PreRunFails
  <2> QED
    BY <1>5, <2>1, PreRunFailsInv, ShownAtOnce
<1>6. ASSUME NEW out \in UserOutcomes, NEW x \in UserExpects,
             SetupClassAborts(out, x) \/ ClassOnFailAborts(out, x)
      PROVE  Shown'
  <2>1. out \in Abort /\ pc' = "skip" /\ raised' = raised \cup ({out} \cap Abort)
    BY <1>6 DEF SetupClassAborts, ClassOnFailAborts, SkipAndLeave, Raises
  <2> QED
    BY <1>6, <2>1, ClassAbortInv, ShownSame
<1>7. ASSUME NEW out \in UserOutcomes, NEW x \in UserExpects,
             SetupClassRaises(out, x)
      PROVE  Shown'
  <2>1. /\ pc = "setup_class" /\ pc' = "on_fail_raised" /\ info' = info
        /\ Unshown(ledger) = {}
    BY <1>7 DEF SetupClassRaises, Shown
  <2>2. EntriesTrue(ledger)' /\ Unshown(ledger)' = {info}
    BY <1>7, <2>1, SetupClassRaisesInv, ShownWrites
  <2>3. ledger'.records[info].name = StageName("setup_class")
    BY <2>1, StepSound, InvSound DEF StageOf
  <2> QED
    BY <2>1, <2>2, <2>3 DEF Shown
<1>8. ASSUME NEW out \in UserOutcomes, NEW x \in UserExpects,
             ClassOnFailReturns(out, x)
      PROVE  Shown'
  <2>1. pc \in ClassOnFail /\ pc' = "skip"
    BY <1>8 DEF ClassOnFailReturns, SkipAndLeave
  <2>2. CASE pc = "on_fail_raised"
    <3>1. Unshown(ledger) = {info} /\ Writes(ledger, ledger', InHand, {}, {info})
      BY <1>8, <2>2, ClassOnFailReturnsInv DEF Shown
    <3>2. EntriesTrue(ledger)' /\ Unshown(ledger)' = {}
      BY <3>1, ShownWrites
    <3> QED
      BY <2>1, <3>2 DEF Shown
  <2>3. CASE pc = "on_fail_expects"
    BY <1>8, <2>1, <2>3, ClassOnFailReturnsInv, ShownAtOnce
  <2> QED
    BY <1>a, <2>1, <2>2, <2>3
<1>9. ASSUME NEW out \in UserOutcomes, NEW x \in UserExpects,
             SetupTest(out, x) \/ TestMethod(out, x)
      PROVE  Shown'
  <2>1. pc \in TestStages /\ pc' \in TestStages
    BY <1>9, <1>a DEF SetupTest, TestMethod
  <2> QED
    BY <1>9, <1>a, <2>1, TestStageInv, ShownSame
<1>10. ASSUME NEW out \in UserOutcomes, NEW x \in UserExpects,
              TeardownTest(out, x)
       PROVE  Shown'
  <2>1. pc = "teardown_test" /\ pc' = "procedure"
    BY <1>10 DEF TeardownTest
  <2> QED
    BY <1>10, <2>1, TeardownTestInv, ShownSame
<1>11. ASSUME NEW out \in UserOutcomes, NEW x \in UserExpects,
              Procedure(out, x)
       PROVE  Shown'
  <2>1. pc = "procedure" /\ pc' \in {"skip", "setup_test", "teardown_class"}
    BY <1>11, ProcedureFiled DEF Procedure
  <2> QED
    BY <1>11, <2>1, ProcedureInv, ShownAtOnce
<1>12. ASSUME NEW out \in UserOutcomes, NEW x \in UserExpects,
              TeardownClass(out, x)
       PROVE  Shown'
  <2>1. pc = "teardown_class" /\ pc' = "get_info"
    BY <1>12, TeardownClassInv DEF TeardownClass
  <2>2. CASE (out = "ok" /\ ~x) \/ out = "abort_all"
    BY <1>12, <2>1, <2>2, TeardownClassInv, ShownSame
  <2>3. CASE ~(out = "abort_all" \/ (out = "ok" /\ ~x))
    BY <1>12, <2>1, <2>3, TeardownClassInv, ShownAtOnce
  <2> QED
    BY <2>2, <2>3
<1>13. ASSUME NEW out \in UserOutcomes, GetInfo(out) \/ Destroy(out)
       PROVE  Shown'
  <2>1. pc' = pc /\ info' = info
    BY <1>13 DEF GetInfo, Destroy
  <2> QED
    BY <1>13, <2>1, CleanUpStepInv, ShownSame
<1>14. CASE SkipNext
  <2>1. pc = "skip" /\ pc' = "skip"
    BY <1>14 DEF SkipNext
  <2> DEFINE id == Len(ledger.records) + 1
             name == plan.requested[pos]
  <2>2. \/ ledger' = ledger
        \/ Writes(ledger, ledger', {}, {id}, {id})
    BY <1>14, SkipNextInv
  <2> HIDE DEF id
  <2> QED
    BY <2>1, <2>2, InvSound, WritesNothing, ShownSame, ShownAtOnce
<1>15. CASE SkipDone
  <2>1. pc = "skip" /\ pc' = "teardown_class"
    BY <1>15 DEF SkipDone, LeaveRun, EnterStage
  <2> QED
    BY <1>15, <2>1, SkipDoneInv, ShownSame
<1>16. CASE InfoRecorded
  <2>1. pc = "get_info" /\ pc' = "destroy"
    BY <1>16 DEF InfoRecorded
  <2> QED
    BY <1>16, <2>1, InfoRecordedInv, ShownSame
<1>17. CASE FinishCleanUp
  <2>1. pc = "destroy" /\ pc' = "done"
    BY <1>17 DEF FinishCleanUp
  <2> QED
    BY <1>17, <2>1, FinishCleanUpInv, InvSound, WritesNothing, ShownSame,
       ShownAtOnce
<1>18. CASE UNCHANGED vars
  BY <1>18 DEF vars, Shown
<1> QED
  BY <1>1, <1>2, <1>3, <1>4, <1>5, <1>6, <1>7, <1>8, <1>9, <1>10, <1>11,
     <1>12, <1>13, <1>14, <1>15, <1>16, <1>17, <1>18
     DEF Next, ClassStep, Finished

(* Every class run starts with its references where they belong.              *)
LEMMA InitStageOf ==
  ASSUME Init
  PROVE  StageOf
  BY DEF Init, StageOf, ClassOnFail, TestStages

(* TestSummaryWriter.dump: in every class run the file shows every filed       *)
(* record once, with the result it ends up with; only a setup_class that     *)
(* raised is filed before it is shown.                                       *)
THEOREM FileTrue == Spec => []FileShowsResults
<1>1. Init => StageOf /\ Shown
  <2> SUFFICES ASSUME Init PROVE StageOf /\ Shown
    OBVIOUS
  <2>1. /\ ledger.file = <<>> /\ pc = "pre_run"
        /\ ledger.results = EmptyResult
    BY DEF Init
  <2>2. Filed(ledger.results) = {}
    BY <2>1 DEF Filed, Ids, EmptyResult, Lists
  <2> QED
    BY <2>1, <2>2, InitStageOf DEF Shown, EntriesTrue, Entries, Unshown
<1>2. Inv /\ StageOf /\ Shown /\ [Next]_vars => StageOf' /\ Shown'
  BY StageOfStep, ShownStep
<1>3. Shown => FileShowsResults
  BY DEF Shown, EntriesTrue, Entries, Unshown, FileShowsResults
<1> QED
  BY <1>1, <1>2, <1>3, Invariance, PTL DEF Spec

-----------------------------------------------------------------------------
(* Where the record of the stage may bear an error that is yet to be filed. *)
Open == {"get_info", "destroy"} \cup ClassOnFail \cup TestStages

(* The error of a record is reported, or lost where it may be, or is still    *)
(* to come.                                                                  *)
Settled(id) ==
  \/ id \in Filed(ledger.results)
  \/ ledger.records[id].name = StageName("mobly")
  \/ /\ raised # {}
     /\ ledger.records[id].name \in
          {StageName("setup_class"), StageName("teardown_class")}
  \/ id = info /\ pc \in Open

AllSettled ==
  \A id \in DOMAIN ledger.records :
    Failed(ledger.records[id]) => Settled(id)

Reported ==
  /\ AllSettled
  /\ pc \in {"get_info", "destroy"} /\ Failed(ledger.records[info])
       => recorder.count > 0

(* The error of a record is settled after a step. *)
Settles(id) ==
  \/ id \in Filed(ledger'.results)
  \/ ledger'.records[id].name = StageName("mobly")
  \/ /\ raised' # {}
     /\ ledger'.records[id].name \in
          {StageName("setup_class"), StageName("teardown_class")}
  \/ id = info' /\ pc' \in Open

(* A step settles the errors of the records it touches. *)
LEMMA ReportedWrites ==
  ASSUME Inv, Reported, [Next]_vars, NEW touched, NEW new, NEW shown,
         Writes(ledger, ledger', touched, new, shown),
         touched \subseteq DOMAIN ledger.records,
         \A id \in touched : Failed(ledger'.records[id]) => Settles(id),
         pc \in Open => info \in touched \/ (info' = info /\ pc' \in Open)
  PROVE  AllSettled'
<1> SUFFICES ASSUME NEW id \in DOMAIN ledger'.records,
                    Failed(ledger'.records[id]), id \notin touched
             PROVE  Settles(id)
  BY DEF AllSettled, Settled, Settles
<1>1. /\ id \in DOMAIN ledger.records
      /\ ledger'.records[id] = ledger.records[id]
      /\ Filed(ledger.results) \subseteq Filed(ledger'.results)
  BY DEF Writes, Touches, Files
<1>2. raised \subseteq raised'
  BY RaisedGrows
<1>3. Settled(id)
  BY <1>1 DEF Reported, AllSettled
<1> QED
  BY <1>1, <1>2, <1>3 DEF Settled, Settles

(* In the first class run of a program the recorder holds the default record  *)
(* until setup_class.                                                        *)
HoldsDefault ==
  pc = "pre_run" => ledger.records[recorder.rec].name = StageName("mobly")

(* No step enters pre_run. *)
LEMMA PreRunFirst ==
  ASSUME Inv, [Next]_vars, pc' = "pre_run"
  PROVE  pc = "pre_run" /\ UNCHANGED <<ledger, info, recorder>>
<1>1. \A c \in Controllers : Register(c) =>
        UNCHANGED <<pc, ledger, info, recorder>>
  BY DEF Register
<1>2. \A x \in UserExpects : ~PreRunReturns(x)
  BY DEF PreRunReturns, EnterStage
<1>3. ~SetupClassPasses /\ ~SetupClassExpects
  BY AdvanceStage DEF SetupClassPasses, SetupClassExpects
<1>4. \A out \in UserOutcomes, x \in UserExpects :
        /\ ~PreRunFails(out, x) /\ ~SetupClassAborts(out, x)
        /\ ~SetupClassRaises(out, x) /\ ~ClassOnFailAborts(out, x)
        /\ ~ClassOnFailReturns(out, x) /\ ~SetupTest(out, x)
        /\ ~TestMethod(out, x) /\ ~TeardownTest(out, x)
  BY DEF PreRunFails, SetupClassAborts, SetupClassRaises, ClassOnFailAborts,
         ClassOnFailReturns, SetupTest, TestMethod, TeardownTest, SkipAndLeave
<1>5. \A out \in UserOutcomes, x \in UserExpects :
        ~Procedure(out, x) /\ ~TeardownClass(out, x)
  BY ProcedureFiled, TeardownClassInv
<1>6. \A out \in UserOutcomes : ~GetInfo(out) /\ ~Destroy(out)
  BY DEF GetInfo, Destroy
<1>7. ~SkipNext /\ ~SkipDone /\ ~InfoRecorded /\ ~FinishCleanUp
  BY DEF SkipNext, SkipDone, LeaveRun, EnterStage, InfoRecorded, FinishCleanUp
<1>8. ~Finished
  BY DEF Finished, vars
<1> QED
  BY <1>1, <1>2, <1>3, <1>4, <1>5, <1>6, <1>7, <1>8 DEF Next, ClassStep, vars

(* The recorder holds the default record for as long as pre_run runs. *)
LEMMA HoldsDefaultStep ==
  ASSUME Inv, HoldsDefault, [Next]_vars
  PROVE  HoldsDefault'
  BY PreRunFirst DEF HoldsDefault

(* Every step keeps errors reported. *)
LEMMA ReportedStep ==
  ASSUME Inv, StageOf, HoldsDefault, Reported, [Next]_vars
  PROVE  Reported'
<1> DEFINE Cleaning == {"get_info", "destroy"}
<1>a. /\ ClassOnFail = {"on_fail_raised", "on_fail_expects"}
      /\ TestStages = {"setup_test", "test", "teardown_test", "procedure"}
      /\ Open = {"get_info", "destroy"} \cup ClassOnFail \cup TestStages
  BY DEF ClassOnFail, TestStages, Open
<1>b. /\ info \in DOMAIN ledger.records /\ recorder.rec \in DOMAIN ledger.records
      /\ InHand \subseteq DOMAIN ledger.records
  BY InvSound DEF InHand
<1>c. \A id \in DOMAIN ledger.records :
        ledger'.records[id].name = ledger.records[id].name
  BY StepSound
<1>d. AllSettled' /\ pc' \notin Cleaning => Reported'
  BY DEF Reported
<1>e. pc \notin {"pre_run", "done"} => InHand = {info} /\ recorder.rec = info
  BY DEF StageOf, InHand
<1>f. \A touched, new, shown :
        Writes(ledger, ledger', touched, new, shown) =>
          \A id \in new : Settles(id)
  BY DEF Writes, Files, Settles
<1>1. ASSUME NEW c \in Controllers, Register(c) PROVE Reported'
  <2>1. UNCHANGED <<pc, ledger, info, recorder, raised>>
    BY <1>1 DEF Register
  <2> QED
    BY <2>1 DEF Reported, AllSettled, Settled
<1>2. ASSUME NEW x \in UserExpects, PreRunReturns(x) PROVE Reported'
  <2>1. pc = "pre_run" /\ pc' \in {"setup_class", "done"}
    BY <1>2 DEF PreRunReturns, EnterStage
  <2>2. Settles(recorder.rec)
    BY <1>b, <1>c, <2>1 DEF HoldsDefault, Settles
  <2>3. AllSettled'
    BY <1>2, <1>a, <1>b, <2>1, <2>2, PreRunReturnsInv, ReportedWrites
  <2> QED
    BY <1>d, <2>1, <2>3
<1>3. CASE SetupClassPasses
  <2>1. pc = "setup_class" /\ pc' \in {"teardown_class", "setup_test"}
    BY <1>3, AdvanceStage DEF SetupClassPasses
  <2>2. AllSettled'
    BY <1>3, <1>a, <2>1, SetupClassPassesInv, ReportedWrites
  <2> QED
    BY <1>d, <2>1, <2>2
<1>4. CASE SetupClassExpects
  <2>1. pc = "setup_class" /\ pc' = "on_fail_expects" /\ info' = info
    BY <1>4 DEF SetupClassExpects
  <2>2. recorder.rec = info /\ Settles(info)
    BY <1>a, <1>e, <2>1 DEF Settles
  <2>3. AllSettled'
    BY <1>4, <1>a, <1>b, <2>1, <2>2, SetupClassExpectsInv, ReportedWrites
  <2> QED
    BY <1>d, <2>1, <2>3
<1>5. ASSUME NEW out \in UserOutcomes, NEW x \in UserExpects,
             PreRunFails(out, x)
      PROVE  Reported'
  <2>1. pc = "pre_run" /\ pc' = "done"
    BY <1>5 DEF PreRunFails
  <2>2. Settles(recorder.rec) /\ Settles(info)
    BY <1>5, <1>b, <1>c, <1>f, <2>1, PreRunFailsInv DEF HoldsDefault, Settles
  <2>3. AllSettled'
    BY <1>5, <1>a, <1>b, <2>1, <2>2, PreRunFailsInv, ReportedWrites DEF InHand
  <2> QED
    BY <1>d, <2>1, <2>3
<1>6. ASSUME NEW out \in UserOutcomes, NEW x \in UserExpects,
             SetupClassAborts(out, x) \/ ClassOnFailAborts(out, x)
      PROVE  Reported'
  <2>1. /\ out \in Abort /\ pc' = "skip"
        /\ raised' = raised \cup ({out} \cap Abort)
        /\ pc \in {"setup_class"} \cup ClassOnFail
    BY <1>6 DEF SetupClassAborts, ClassOnFailAborts, SkipAndLeave, Raises
  <2>2. recorder.rec = info /\ Settles(info)
    BY <1>a, <1>b, <1>c, <1>e, <2>1 DEF StageOf, Settles
  <2>3. AllSettled'
    BY <1>6, <1>b, <2>2, ClassAbortInv, ReportedWrites
  <2> QED
    BY <1>d, <2>1, <2>3
<1>7. ASSUME NEW out \in UserOutcomes, NEW x \in UserExpects,
             SetupClassRaises(out, x)
      PROVE  Reported'
  <2>1. pc = "setup_class" /\ pc' = "on_fail_raised"
    BY <1>7 DEF SetupClassRaises
  <2>2. Settles(info)
    BY <1>7, <1>f, SetupClassRaisesInv
  <2>3. AllSettled'
    BY <1>7, <1>b, <1>e, <2>1, <2>2, SetupClassRaisesInv, ReportedWrites
  <2> QED
    BY <1>d, <2>1, <2>3
<1>8. ASSUME NEW out \in UserOutcomes, NEW x \in UserExpects,
             ClassOnFailReturns(out, x)
      PROVE  Reported'
  <2>1. pc \in ClassOnFail /\ pc' = "skip"
    BY <1>8 DEF ClassOnFailReturns, SkipAndLeave
  <2>2. PICK new, shown : Writes(ledger, ledger', InHand, new, shown)
    BY <1>8, <1>a, <2>1, ClassOnFailReturnsInv
  <2>3. Settles(info)
    <3>1. CASE pc = "on_fail_raised"
      BY <3>1, StepSound DEF StageOf, Settles
    <3>2. CASE pc = "on_fail_expects"
      BY <1>8, <1>f, <3>2, ClassOnFailReturnsInv
    <3> QED
      BY <1>a, <2>1, <3>1, <3>2
  <2>4. AllSettled'
    BY <1>a, <1>b, <1>e, <2>1, <2>2, <2>3, ReportedWrites
  <2> QED
    BY <1>d, <2>1, <2>4
<1>9. ASSUME NEW out \in UserOutcomes, NEW x \in UserExpects,
             \/ SetupTest(out, x)
             \/ TestMethod(out, x)
             \/ TeardownTest(out, x)
      PROVE  Reported'
  <2>1. pc \in TestStages /\ pc' \in TestStages /\ info' = info
    BY <1>9, <1>a DEF SetupTest, TestMethod, TeardownTest
  <2>2. Writes(ledger, ledger', {info}, {}, {})
    BY <1>9, <1>a, <1>e, <2>1, TestStageInv, TeardownTestInv
  <2>3. Settles(info)
    BY <1>a, <2>1 DEF Settles
  <2>4. AllSettled'
    BY <1>b, <2>2, <2>3, ReportedWrites
  <2> QED
    BY <1>a, <1>d, <2>1, <2>4
<1>11. ASSUME NEW out \in UserOutcomes, NEW x \in UserExpects,
              Procedure(out, x)
       PROVE  Reported'
  <2>1. pc = "procedure" /\ pc' \in {"skip", "setup_test", "teardown_class"}
    BY <1>11, ProcedureFiled DEF Procedure
  <2>2. Settles(info)
    BY <1>11, <1>f, ProcedureInv
  <2>3. AllSettled'
    BY <1>11, <1>b, <1>e, <2>1, <2>2, ProcedureInv, ReportedWrites
  <2> QED
    BY <1>d, <2>1, <2>3
<1>12. ASSUME NEW out \in UserOutcomes, NEW x \in UserExpects,
              TeardownClass(out, x)
       PROVE  Reported'
  <2>1. pc = "teardown_class" /\ Raises(out)
    BY <1>12 DEF TeardownClass
  <2>2. pc' = "get_info" /\ ledger'.records[info'].result = "none"
    BY <1>12, TeardownClassInv
  <2>3. CASE out = "ok" /\ ~x
    <3>1. AllSettled'
      BY <1>12, <1>a, <2>1, <2>3, TeardownClassInv, ReportedWrites
    <3> QED
      BY <2>2, <3>1 DEF Reported, Failed
  <2>4. CASE out = "abort_all"
    <3>1. Settles(info)
      BY <1>b, <1>c, <2>1, <2>4 DEF StageOf, Settles, Raises, Abort
    <3>2. AllSettled'
      BY <1>12, <1>b, <1>e, <2>1, <2>4, <3>1, TeardownClassInv, ReportedWrites
    <3> QED
      BY <2>2, <3>2 DEF Reported, Failed
  <2>5. CASE ~(out = "abort_all" \/ (out = "ok" /\ ~x))
    <3>1. Settles(info)
      BY <1>12, <1>f, <2>5, TeardownClassInv
    <3>2. AllSettled'
      BY <1>12, <1>b, <1>e, <2>1, <2>5, <3>1, TeardownClassInv, ReportedWrites
    <3> QED
      BY <2>2, <3>2 DEF Reported, Failed
  <2> QED
    BY <2>3, <2>4, <2>5
<1>13. ASSUME NEW out \in UserOutcomes, GetInfo(out) \/ Destroy(out)
       PROVE  Reported'
  <2>1. /\ pc \in Cleaning /\ pc' = pc /\ info' = info
        /\ Recorded(out # "ok")
    BY <1>13 DEF GetInfo, Destroy
  <2>2. Settles(info)
    BY <1>a, <2>1 DEF Settles
  <2>3. AllSettled'
    BY <1>13, <1>b, <1>e, <2>1, <2>2, CleanUpStepInv, ReportedWrites
  <2>4. recorder.count \in Nat /\ recorder'.count = Count(out # "ok")
    BY <2>1 DEF Recorded, Inv, TypeOK
  <2>5. CASE out = "ok"
    <3>1. ledger'.records = ledger.records
      <4>1. ledger' \in {ledger, DumpOther(ledger, "CONTROLLER_INFO")}
        BY <1>13, <2>5 DEF GetInfo, Destroy, Expected
      <4>2. DumpOther(ledger, "CONTROLLER_INFO").records = ledger.records
        BY InvSound, DumpOtherSound DEF EntryTypes
      <4> QED
        BY <4>1, <4>2
    <3>2. recorder'.count = recorder.count
      BY <2>4, <2>5 DEF Count
    <3> QED
      BY <2>1, <2>3, <3>1, <3>2 DEF Reported
  <2>6. CASE out # "ok"
    <3>1. recorder'.count > 0
      BY <2>4, <2>6 DEF Count
    <3> QED
      BY <2>3, <3>1 DEF Reported
  <2> QED
    BY <2>5, <2>6
<1>14. CASE SkipNext
  <2>1. pc = "skip" /\ pc' = "skip"
    BY <1>14 DEF SkipNext
  <2> DEFINE id == Len(ledger.records) + 1
             name == plan.requested[pos]
  <2>2. \/ ledger' = ledger
        \/ Writes(ledger, ledger', {}, {id}, {id})
    BY <1>14, SkipNextInv
  <2> HIDE DEF id
  <2>3. AllSettled'
    BY <1>a, <2>1, <2>2, WritesNothing, ReportedWrites
  <2> QED
    BY <1>d, <2>1, <2>3
<1>15. CASE SkipDone
  <2>1. pc = "skip" /\ pc' = "teardown_class"
    BY <1>15 DEF SkipDone, LeaveRun, EnterStage
  <2>2. AllSettled'
    BY <1>15, <1>a, <2>1, SkipDoneInv, ReportedWrites
  <2> QED
    BY <1>d, <2>1, <2>2
<1>16. CASE InfoRecorded
  <2>1. /\ pc = "get_info" /\ pc' = "destroy"
        /\ UNCHANGED <<ledger, info, recorder, raised>>
    BY <1>16 DEF InfoRecorded
  <2> QED
    BY <1>a, <2>1 DEF Reported, AllSettled, Settled
<1>17. CASE FinishCleanUp
  <2>1. pc = "destroy" /\ pc' = "done"
    BY <1>17 DEF FinishCleanUp
  <2>2. CASE HasError(FALSE)
    <3>1. Settles(info)
      BY <1>17, <1>f, <2>2, FinishCleanUpInv
    <3>2. AllSettled'
      BY <1>17, <1>b, <1>e, <2>1, <2>2, <3>1, FinishCleanUpInv, ReportedWrites
    <3> QED
      BY <1>d, <2>1, <3>2
  <2>3. CASE ~HasError(FALSE)
    <3>1. ledger' = ledger
      BY <1>17, <2>3, FinishCleanUpInv
    <3>2. ~Failed(ledger.records[info])
      <4>1. recorder.count \in Nat /\ ~(recorder.count > 0)
        BY <2>3 DEF HasError, Count, Inv, TypeOK
      <4> QED
        BY <2>1, <4>1 DEF Reported
    <3>3. Writes(ledger, ledger', {info}, {}, {})
      BY <3>1, WritesNothing
    <3>4. AllSettled'
      BY <1>b, <3>1, <3>2, <3>3, ReportedWrites
    <3> QED
      BY <1>d, <2>1, <3>4
  <2> QED
    BY <2>2, <2>3
<1>18. CASE UNCHANGED vars
  BY <1>18 DEF vars, Reported, AllSettled, Settled
<1> QED
  BY <1>1, <1>2, <1>3, <1>4, <1>5, <1>6, <1>7, <1>8, <1>9, <1>11,
     <1>12, <1>13, <1>14, <1>15, <1>16, <1>17, <1>18
     DEF Next, ClassStep, Finished

(* expects.recorder, add_class_error: in every class run that ended each       *)
(* error recorded is reported, but for those of pre_run's expectations and   *)
(* those of a setup_class or teardown_class that aborts.                     *)
THEOREM NoErrorLost == Spec => []ErrorsReported
<1>1. Init => StageOf /\ HoldsDefault /\ Reported
  <2> SUFFICES ASSUME Init PROVE StageOf /\ HoldsDefault /\ Reported
    OBVIOUS
  <2>1. /\ pc = "pre_run" /\ recorder.rec = 1
        /\ ledger.records = <<NewRecord(StageName("mobly"), 0, "none"),
                              NewRecord(StageName("pre_run"), 0, "none")>>
    BY DEF Init
  <2>2. \A id \in DOMAIN ledger.records : ~Failed(ledger.records[id])
    BY <2>1 DEF Failed, NewRecord
  <2>3. HoldsDefault
    BY <2>1 DEF HoldsDefault, NewRecord
  <2> QED
    BY <2>1, <2>2, <2>3, InitStageOf DEF Reported, AllSettled
<1>2. /\ Inv /\ StageOf /\ HoldsDefault /\ Reported /\ [Next]_vars
      => StageOf' /\ HoldsDefault' /\ Reported'
  BY StageOfStep, HoldsDefaultStep, ReportedStep
<1>3. Reported => ErrorsReported
  BY DEF Reported, AllSettled, Settled, Open, ClassOnFail, TestStages, ErrorsReported
<1> QED
  BY <1>1, <1>2, <1>3, Invariance, PTL DEF Spec

-----------------------------------------------------------------------------
(* What becomes of the tests that were asked for.                            *)
Valid == \A i \in DOMAIN plan.methods : ~Invalid(plan.methods[i])

Tested(k) ==
  \E id \in Executed \cup Skipped :
    ledger.records[id].name.test = plan.methods[k].name

Marked(s) ==
  \E id \in Executed \cup Skipped : ledger.records[id].name = BareName(s)

(* Executed records of tests bear the names of tests that were to run.        *)
Named ==
  \A id \in Executed :
    ledger.records[id].name.kind # "stage" =>
      \E k \in DOMAIN plan.methods :
        ledger.records[id].name.test = plan.methods[k].name

Covered ==
  \A k \in DOMAIN plan.methods :
    \/ Tested(k)
    \/ \E id \in Skipped :
         ledger.records[id].name = BareName(plan.methods[k].sel)

(* The loop of run has tested what is before it, that of                      *)
(* _skip_remaining_tests has marked it, and after either one is through       *)
(* nothing is left.                                                          *)
Progress ==
  /\ Named
  /\ pc \in TestStages => \A k \in 1..n - 1 : Tested(k)
  /\ pc = "skip" => \A j \in 1..pos - 1 : Marked(plan.requested[j])
  /\ Valid /\ pc \in {"teardown_class", "get_info", "destroy"} => Covered
  /\ Valid /\ pc = "done" /\ Began => Covered

(* No step changes what a run was asked to do. *)
LEMMA PlanStays ==
  ASSUME [Next]_vars
  PROVE  plan' = plan
<1>1. ASSUME NEW l, NEW k, Advance(l, k) PROVE plan' = plan
  BY <1>1 DEF Advance, BeginIteration
<1>2. ASSUME NEW l, NEW m, NEW i, NEW p, BeginIteration(l, m, i, p)
      PROVE  plan' = plan
  BY <1>2 DEF BeginIteration
<1> USE DEF control
<1>3. ASSUME NEW c \in Controllers, Register(c) PROVE plan' = plan
  BY <1>3 DEF Register
<1>4. ASSUME NEW x \in UserExpects, PreRunReturns(x) PROVE plan' = plan
  BY <1>4 DEF PreRunReturns
<1>5. ASSUME NEW out \in UserOutcomes, NEW x \in UserExpects,
             \/ PreRunFails(out, x) \/ SetupClassAborts(out, x)
             \/ SetupClassRaises(out, x) \/ ClassOnFailAborts(out, x)
             \/ ClassOnFailReturns(out, x)
      PROVE  plan' = plan
  BY <1>5 DEF PreRunFails, SetupClassAborts, SetupClassRaises,
              ClassOnFailAborts, ClassOnFailReturns
<1>6. ASSUME NEW out \in UserOutcomes, NEW x \in UserExpects,
             \/ SetupTest(out, x) \/ TestMethod(out, x)
             \/ TeardownTest(out, x) \/ TeardownClass(out, x)
      PROVE  plan' = plan
  BY <1>6 DEF SetupTest, TestMethod, TeardownTest, TeardownClass
<1>7. ASSUME NEW out \in UserOutcomes, NEW x \in UserExpects,
             Procedure(out, x)
      PROVE  plan' = plan
  BY <1>1, <1>2, <1>7 DEF Procedure
<1>8. ASSUME NEW out \in UserOutcomes, GetInfo(out) \/ Destroy(out)
      PROVE  plan' = plan
  BY <1>8 DEF GetInfo, Destroy
<1>9. CASE SetupClassPasses
  BY <1>1, <1>9 DEF SetupClassPasses
<1>10. CASE \/ SetupClassExpects \/ SkipNext \/ SkipDone
            \/ InfoRecorded \/ FinishCleanUp \/ UNCHANGED vars
  BY <1>10 DEF SetupClassExpects, SkipNext, SkipDone, InfoRecorded,
               FinishCleanUp, vars
<1> QED
  BY <1>3, <1>4, <1>5, <1>6, <1>7, <1>8, <1>9, <1>10
     DEF Next, ClassStep, Finished

(* What a step files is the record of a stage, a skipped test or the test     *)
(* whose procedure function has run.  It writes to no other record than those *)
(* in hand, shows only what is filed, and what it files it shows, but for     *)
(* setup_class.  What it files is the record at hand or one it made.         *)
LEMMA FiledByStep ==
  ASSUME Inv, StageOf, [Next]_vars
  PROVE  \E touched, new, shown :
           /\ Writes(ledger, ledger', touched, new, shown)
           /\ touched \subseteq InHand
           /\ shown \subseteq Filed(ledger.results) \cup new
           /\ \A id \in new :
                \/ id \in shown
                \/ ledger'.records[id].name = StageName("setup_class")
           /\ \A id \in new :
                \/ ledger'.records[id].name.kind = "stage"
                \/ ledger'.records[id].result = "SKIP"
                \/ pc = "procedure" /\ id = info
           /\ \A id \in new : id = info \/ id \notin DOMAIN ledger.records
<1> DEFINE Found(touched, new, shown) ==
             /\ Writes(ledger, ledger', touched, new, shown)
             /\ touched \subseteq InHand
             /\ shown \subseteq Filed(ledger.results) \cup new
             /\ \A id \in new :
                  \/ id \in shown
                  \/ ledger'.records[id].name = StageName("setup_class")
             /\ \A id \in new :
                  \/ ledger'.records[id].name.kind = "stage"
                  \/ ledger'.records[id].result = "SKIP"
                  \/ pc = "procedure" /\ id = info
             /\ \A id \in new : id = info \/ id \notin DOMAIN ledger.records
<1> SUFFICES \E t, new, s : Found(t, new, s)
  OBVIOUS
<1>a. ASSUME NEW touched \in {{}, {info}, {recorder.rec}, InHand},
             Writes(ledger, ledger', touched, {}, {})
      PROVE  \E t, new, shown : Found(t, new, shown)
  <2>1. touched \subseteq InHand
    BY <1>a DEF InHand
  <2>2. Found(touched, {}, {})
    BY <1>a, <2>1
  <2> HIDE DEF Found
  <2> QED
    BY <2>2
<1>b. ASSUME NEW shown, Writes(ledger, ledger', InHand, {info}, shown),
             pc \notin TestStages \cup {"skip", "done"},
             shown = {info} \/ (shown = {} /\ pc = "setup_class")
      PROVE  \E t, new, s : Found(t, new, s)
  <2>1. /\ ledger'.records[info].name.kind = "stage"
        /\ pc = "setup_class" =>
             ledger'.records[info].name = StageName("setup_class")
    BY <1>b, StepSound, InvSound DEF Inv, StageRecord, StageOf
  <2>2. Found(InHand, {info}, shown)
    BY <1>b, <2>1
  <2> HIDE DEF Found
  <2> QED
    BY <2>2
<1> HIDE DEF Found
<1>1. ASSUME NEW c \in Controllers, Register(c)
      PROVE  \E t, new, s : Found(t, new, s)
  BY <1>1, <1>a, RegisterInv
<1>2. ASSUME NEW x \in UserExpects, PreRunReturns(x)
      PROVE  \E t, new, s : Found(t, new, s)
  BY <1>2, <1>a, PreRunReturnsInv
<1>3. CASE SetupClassPasses
  BY <1>3, <1>a, SetupClassPassesInv
<1>4. CASE SetupClassExpects
  BY <1>4, <1>a, SetupClassExpectsInv
<1>5. ASSUME NEW out \in UserOutcomes, NEW x \in UserExpects,
             PreRunFails(out, x)
      PROVE  \E t, new, s : Found(t, new, s)
  <2>1. pc \notin TestStages \cup {"skip", "done"}
    BY <1>5 DEF PreRunFails, TestStages
  <2> QED
    BY <1>5, <1>b, <2>1, PreRunFailsInv
<1>6. ASSUME NEW out \in UserOutcomes, NEW x \in UserExpects,
             SetupClassAborts(out, x) \/ ClassOnFailAborts(out, x)
      PROVE  \E t, new, s : Found(t, new, s)
  BY <1>6, <1>a, ClassAbortInv
<1>7. ASSUME NEW out \in UserOutcomes, NEW x \in UserExpects,
             SetupClassRaises(out, x)
      PROVE  \E t, new, s : Found(t, new, s)
  <2>1. pc = "setup_class" /\ pc \notin TestStages \cup {"skip", "done"}
    BY <1>7 DEF SetupClassRaises, TestStages
  <2> QED
    BY <1>7, <1>b, <2>1, SetupClassRaisesInv
<1>8. ASSUME NEW out \in UserOutcomes, NEW x \in UserExpects,
             ClassOnFailReturns(out, x)
      PROVE  \E t, new, s : Found(t, new, s)
  <2>1. pc \in {"on_fail_raised", "on_fail_expects"}
    BY <1>8 DEF ClassOnFailReturns, ClassOnFail
  <2>2. CASE pc = "on_fail_raised"
    <3>1. Writes(ledger, ledger', InHand, {}, {info})
      BY <1>8, <2>2, ClassOnFailReturnsInv
    <3>2. Found(InHand, {}, {info})
      BY <2>2, <3>1 DEF Found, StageOf
    <3> QED
      BY <3>2
  <2>3. CASE pc = "on_fail_expects"
    <3>1. Writes(ledger, ledger', InHand, {info}, {info})
      BY <1>8, <2>3, ClassOnFailReturnsInv
    <3> QED
      BY <1>b, <2>3, <3>1 DEF TestStages
  <2> QED
    BY <2>1, <2>2, <2>3
<1>9. ASSUME NEW out \in UserOutcomes, NEW x \in UserExpects,
             \/ SetupTest(out, x)
             \/ TestMethod(out, x)
             \/ TeardownTest(out, x)
      PROVE  \E t, new, s : Found(t, new, s)
  BY <1>9, <1>a, TestStageInv, TeardownTestInv
<1>10. ASSUME NEW out \in UserOutcomes, NEW x \in UserExpects,
              Procedure(out, x)
       PROVE  \E t, new, s : Found(t, new, s)
  <2>1. /\ pc = "procedure"
        /\ Writes(ledger, ledger', InHand, {info}, {info})
    BY <1>10, ProcedureInv DEF Procedure
  <2>2. Found(InHand, {info}, {info})
    BY <2>1 DEF Found
  <2> QED
    BY <2>2
<1>11. ASSUME NEW out \in UserOutcomes, NEW x \in UserExpects,
              TeardownClass(out, x)
       PROVE  \E t, new, s : Found(t, new, s)
  <2>1. pc \notin TestStages \cup {"skip", "done"}
    BY <1>11 DEF TeardownClass, TestStages
  <2> QED
    BY <1>11, <1>a, <1>b, <2>1, TeardownClassInv
<1>12. ASSUME NEW out \in UserOutcomes, GetInfo(out) \/ Destroy(out)
       PROVE  \E t, new, s : Found(t, new, s)
  BY <1>12, <1>a, CleanUpStepInv
<1>13. CASE SkipNext
  <2>4. PICK id : id = Len(ledger.records) + 1
    OBVIOUS
  <2>1. \/ ledger' = ledger
        \/ /\ Writes(ledger, ledger', {}, {id}, {id})
           /\ ledger'.records[id].result = "SKIP"
    BY <1>13, <2>4, SkipNextInv
  <2>2. CASE ledger' = ledger
    BY <1>a, <2>2, WritesNothing
  <2>3. CASE /\ Writes(ledger, ledger', {}, {id}, {id})
             /\ ledger'.records[id].result = "SKIP"
    <3>0. id \notin DOMAIN ledger.records
      BY <2>4 DEF Inv, TypeOK, LedgerType
    <3>1. Found({}, {id}, {id})
      BY <2>3, <3>0 DEF Found
    <3> QED
      BY <3>1
  <2> QED
    BY <2>1, <2>2, <2>3
<1>14. CASE SkipDone
  BY <1>14, <1>a, SkipDoneInv
<1>15. CASE InfoRecorded
  BY <1>15, <1>a, InfoRecordedInv
<1>16. CASE FinishCleanUp
  <2>1. pc \notin TestStages \cup {"skip", "done"}
    BY <1>16 DEF FinishCleanUp, TestStages
  <2>2. CASE HasError(FALSE)
    BY <1>16, <1>b, <2>1, <2>2, FinishCleanUpInv
  <2>3. CASE ~HasError(FALSE)
    <3>1. Writes(ledger, ledger', {}, {}, {})
      BY <1>16, <2>3, FinishCleanUpInv, WritesNothing
    <3> QED
      BY <1>a, <3>1
  <2> QED
    BY <2>2, <2>3
<1>17. CASE UNCHANGED vars
  <2>1. Writes(ledger, ledger', {}, {}, {})
    BY <1>17, WritesNothing DEF vars
  <2> QED
    BY <1>a, <2>1
<1> QED
  BY <1>1, <1>2, <1>3, <1>4, <1>5, <1>6, <1>7, <1>8, <1>9, <1>10, <1>11,
     <1>12, <1>13, <1>14, <1>15, <1>16, <1>17 DEF Next, ClassStep, Finished

(* A record of a test that is filed is executed or skipped. *)
LEMMA TestFiled ==
  ASSUME NEW l, SoundLedger(l), NEW id \in Filed(l.results),
         l.records[id].name.kind # "stage"
  PROVE  id \in Ids(l.results.executed) \cup Ids(l.results.skipped)
  BY DEF SoundLedger, WellFiled, Filed, Lists

(* What was tested, marked or covered remains so. *)
LEMMA ProgressGrows ==
  ASSUME Inv, [Next]_vars
  PROVE  /\ Executed \cup Skipped \subseteq (Executed \cup Skipped)'
         /\ \A k : Tested(k) => Tested(k)'
         /\ \A s : Marked(s) => Marked(s)'
         /\ Covered => Covered'
<1>1. PICK touched, new, shown :
        Writes(ledger, ledger', touched, new, shown)
  BY StepWrites
<1>2. /\ SoundLedger(ledger) /\ SoundLedger(ledger')
      /\ Filed(ledger.results) \subseteq DOMAIN ledger.records
      /\ \A k \in DOMAIN ledger.records :
           ledger'.records[k].name = ledger.records[k].name
  BY StepSound, FiledExist
<1>3. /\ Executed \subseteq Executed' /\ Skipped \subseteq Skipped'
  BY <1>1, <1>2, WritesGrow DEF Executed, Skipped, Lists
<1>4. Executed \cup Skipped \subseteq DOMAIN ledger.records
  BY <1>2 DEF Executed, Skipped, Filed, Lists
<1>5. plan' = plan
  BY PlanStays
<1>6. \A k : Tested(k) => Tested(k)'
  BY <1>2, <1>3, <1>4, <1>5 DEF Tested
<1>7. \A s : Marked(s) => Marked(s)'
  BY <1>2, <1>3, <1>4 DEF Marked
<1>8. Covered => Covered'
  BY <1>2, <1>3, <1>4, <1>5, <1>6 DEF Covered
<1> QED
  BY <1>3, <1>6, <1>7, <1>8

(* Executed records keep bearing names of tests to run. *)
LEMMA NamedStep ==
  ASSUME Inv, StageOf, Named, [Next]_vars
  PROVE  Named'
<1> SUFFICES ASSUME NEW id \in Executed', ledger'.records[id].name.kind # "stage"
             PROVE  \E k \in DOMAIN plan.methods :
                      ledger'.records[id].name.test = plan.methods[k].name
  BY PlanStays DEF Named
<1>1. PICK touched, new, shown :
        /\ Writes(ledger, ledger', touched, new, shown)
        /\ \A i \in new :
             \/ ledger'.records[i].name.kind = "stage"
             \/ ledger'.records[i].result = "SKIP"
             \/ pc = "procedure" /\ i = info
  BY FiledByStep
<1>2. /\ SoundLedger(ledger) /\ SoundLedger(ledger')
      /\ Filed(ledger.results) \subseteq DOMAIN ledger.records
      /\ info \in DOMAIN ledger.records
      /\ \A k \in DOMAIN ledger.records :
           ledger'.records[k].name = ledger.records[k].name
  BY StepSound, FiledExist, InvSound
<1>3. Executed' \subseteq Executed \cup new
  BY <1>1, <1>2, WritesGrow DEF Executed, Lists
<1>4. ledger'.records[id].result # "SKIP"
  BY <1>2 DEF SoundLedger, WellFiled, Executed
<1>5. CASE id \in Executed
  <2>1. id \in DOMAIN ledger.records
    BY <1>2, <1>5 DEF Executed, Filed, Lists
  <2> QED
    BY <1>2, <1>5, <2>1 DEF Named
<1>6. CASE pc = "procedure" /\ id = info
  <2>1. n \in 1..Len(plan.methods)
    BY <1>6 DEF Inv, CurrentTest, TestStages
  <2>2. plan.methods \in Seq(Methods)
    BY PlanType DEF Inv, TypeOK
  <2>3. ledger.records[info].name.test = plan.methods[n].name
    BY <1>6 DEF StageOf, TestStages
  <2> QED
    BY <1>2, <1>6, <2>1, <2>2, <2>3
<1> QED
  BY <1>1, <1>3, <1>4, <1>5, <1>6

(* The loop of run goes on when what is before has been tested. *)
LEMMA AdvanceProgress ==
  ASSUME Named', NEW l, NEW k \in Nat \ {0}, Advance(l, k), plan' = plan,
         plan \in Plans,
         \A j \in 1..k - 1 : Tested(j)'
  PROVE  Progress'
<1>1. Len(plan.methods) \in Nat /\ DOMAIN plan.methods = 1..Len(plan.methods)
  BY PlanType
<1>2. n' = k /\ pc' \in {"teardown_class", "setup_test"}
  BY AdvanceStage DEF Advance
<1>3. CASE pc' = "setup_test"
  BY <1>2, <1>3 DEF Progress
<1>4. CASE pc' = "teardown_class"
  <2>1. \/ k > Len(plan.methods)
        \/ k <= Len(plan.methods) /\ Invalid(plan.methods[k])
    BY <1>4 DEF Advance, BeginIteration, EnterStage
  <2>2. CASE k > Len(plan.methods)
    <3>1. Covered'
      BY <1>1, <2>2 DEF Covered
    <3> QED
      BY <1>4, <3>1 DEF Progress, TestStages
  <2>3. CASE k <= Len(plan.methods) /\ Invalid(plan.methods[k])
    <3>1. ~Valid'
      BY <1>1, <2>3 DEF Valid, Invalid
    <3> QED
      BY <1>4, <3>1 DEF Progress, TestStages
  <2> QED
    BY <2>1, <2>2, <2>3
<1> QED
  BY <1>2, <1>3, <1>4

(* When every selector is marked, everything it picked is covered: a selector *)
(* that an executed record bears is the name of a test, and picked just that. *)
LEMMA MarkedCovers ==
  ASSUME plan \in Plans, Named, \A j \in 1..Len(plan.requested) :
                                  Marked(plan.requested[j])
  PROVE  Covered
<1> SUFFICES ASSUME NEW k \in DOMAIN plan.methods
             PROVE  \/ Tested(k)
                    \/ \E id \in Skipped :
                         ledger.records[id].name = BareName(plan.methods[k].sel)
  BY DEF Covered
<1> DEFINE sel == plan.methods[k].sel
<1>1. /\ sel \in Ids(plan.requested)
      /\ \A j \in DOMAIN plan.methods :
           sel = plan.methods[j].name => plan.methods[k].name = sel
  BY ResolutionAssumption
<1>2. PICK j \in 1..Len(plan.requested) : plan.requested[j] = sel
  BY <1>1, PlanType DEF Ids
<1> HIDE DEF sel
<1>3. PICK id \in Executed \cup Skipped : ledger.records[id].name = BareName(sel)
  BY <1>2 DEF Marked
<1>4. CASE id \in Skipped
  BY <1>3, <1>4 DEF sel
<1>5. CASE id \in Executed
  <2>1. /\ ledger.records[id].name.kind # "stage"
        /\ ledger.records[id].name.test = sel
    BY <1>3 DEF BareName
  <2>2. PICK i \in DOMAIN plan.methods :
          ledger.records[id].name.test = plan.methods[i].name
    BY <1>5, <2>1 DEF Named
  <2>3. plan.methods[k].name = sel
    BY <1>1, <2>1, <2>2
  <2> QED
    BY <1>3, <2>1, <2>3 DEF Tested
<1> QED
  BY <1>3, <1>4, <1>5

(* Every step keeps track of what was tested and marked. *)
LEMMA ProgressStep ==
  ASSUME Inv, StageOf, Held, Progress, [Next]_vars
  PROVE  Progress'
<1> DEFINE Cleaning == {"teardown_class", "get_info", "destroy"}
<1>a. /\ ClassOnFail = {"on_fail_raised", "on_fail_expects"}
      /\ TestStages = {"setup_test", "test", "teardown_test", "procedure"}
  BY DEF ClassOnFail, TestStages
<1>b. /\ plan' = plan /\ plan \in Plans
      /\ (Valid' <=> Valid) /\ Named'
  BY PlanStays, NamedStep DEF Valid, Progress, Inv, TypeOK
<1>c. /\ \A k : Tested(k) => Tested(k)'
      /\ \A s : Marked(s) => Marked(s)'
      /\ Covered => Covered'
  BY ProgressGrows
<1>d. ASSUME pc' \notin TestStages \cup Cleaning \cup {"skip", "done"}
      PROVE  Progress'
  BY <1>b, <1>d DEF Progress
<1>e. ASSUME pc' = "skip", pos' = 1 PROVE Progress'
  BY <1>a, <1>b, <1>e DEF Progress
<1>f. ASSUME pc \in TestStages, pc' \in TestStages, n' = n PROVE Progress'
  BY <1>a, <1>b, <1>c, <1>f DEF Progress
<1>g. ASSUME pc \in Cleaning, pc' \in Cleaning \cup {"done"} PROVE Progress'
  BY <1>a, <1>b, <1>c, <1>g DEF Progress
<1>1. ASSUME NEW c \in Controllers, Register(c) PROVE Progress'
  <2>1. UNCHANGED <<pc, n, pos>> /\ pc \in UserStages
    BY <1>1 DEF Register, control
  <2> QED
    BY <2>1, <1>a, <1>b, <1>d, <1>f, <1>g DEF UserStages
<1>2. ASSUME NEW x \in UserExpects, PreRunReturns(x) PROVE Progress'
  <2>1. pc' = "setup_class" \/ (pc' = "done" /\ ~plan.resolves)
    BY <1>2 DEF PreRunReturns, EnterStage
  <2>2. CASE pc' = "done" /\ ~plan.resolves
    <3>1. plan.methods = <<>>
      BY <1>b, <2>2, ResolutionAssumption
    <3>2. Covered'
      BY <1>b, <3>1 DEF Covered
    <3> QED
      BY <1>a, <1>b, <2>2, <3>2 DEF Progress
  <2> QED
    BY <1>a, <1>d, <2>1, <2>2
<1>3. CASE SetupClassPasses
  <2>1. Advance(ledger, 1) /\ 1 \in Nat \ {0} /\ 1..1 - 1 = {}
    BY <1>3 DEF SetupClassPasses
  <2> QED
    BY <1>b, <2>1, AdvanceProgress
<1>4. CASE SetupClassExpects
  BY <1>4, <1>a, <1>d DEF SetupClassExpects
<1>5. ASSUME NEW out \in UserOutcomes, NEW x \in UserExpects,
             PreRunFails(out, x)
      PROVE  Progress'
  <2>1. pc' = "done" /\ ~Began'
    BY <1>5, PreRunFailsHeld DEF PreRunFails
  <2> QED
    BY <1>a, <1>b, <2>1 DEF Progress
<1>6. ASSUME NEW out \in UserOutcomes, NEW x \in UserExpects,
             \/ SetupClassAborts(out, x)
             \/ ClassOnFailAborts(out, x)
             \/ ClassOnFailReturns(out, x)
      PROVE  Progress'
  <2>1. pc' = "skip" /\ pos' = 1
    BY <1>6 DEF SetupClassAborts, ClassOnFailAborts, ClassOnFailReturns,
                SkipAndLeave
  <2> QED
    BY <1>e, <2>1
<1>7. ASSUME NEW out \in UserOutcomes, NEW x \in UserExpects,
             SetupClassRaises(out, x)
      PROVE  Progress'
  BY <1>7, <1>a, <1>d DEF SetupClassRaises
<1>8. ASSUME NEW out \in UserOutcomes, NEW x \in UserExpects,
             \/ SetupTest(out, x)
             \/ TestMethod(out, x)
             \/ TeardownTest(out, x)
      PROVE  Progress'
  <2>1. pc \in TestStages /\ pc' \in TestStages /\ n' = n
    BY <1>8, <1>a DEF SetupTest, TestMethod, TeardownTest, control
  <2> QED
    BY <1>f, <2>1
<1>9. ASSUME NEW out \in UserOutcomes, NEW x \in UserExpects, Procedure(out, x)
      PROVE  Progress'
  <2>1. pc = "procedure" /\ n \in 1..Len(plan.methods) /\ n \in Nat
    BY <1>9, <1>a DEF Procedure, Inv, CurrentTest, TypeOK
  <2>2. PICK filed :
          \/ SkipAndLeave(filed, InFlight(out)) /\ UNCHANGED control
          \/ /\ BeginIteration(filed, Current, it + 1, info)
             /\ UNCHANGED <<n, pos>>
          \/ Advance(filed, n + 1)
    BY <1>9, ProcedureFiled
  <2>3. CASE SkipAndLeave(filed, InFlight(out))
    BY <1>e, <2>3 DEF SkipAndLeave
  <2>4. CASE BeginIteration(filed, Current, it + 1, info) /\ UNCHANGED <<n, pos>>
    BY <1>a, <1>f, <2>1, <2>4 DEF BeginIteration, EnterStage
  <2>5. CASE Advance(filed, n + 1)
    <3>4. PICK k : k = n
      OBVIOUS
    <3>1. Tested(k)'
      <4>1. /\ info \in Filed(ledger'.results)
            /\ info \in DOMAIN ledger.records
            /\ ledger'.records[info].name = ledger.records[info].name
            /\ SoundLedger(ledger')
        BY <1>9, ProcedureInv, StepSound, InvSound DEF Writes, Files
      <4>2. /\ ledger.records[info].name.kind # "stage"
            /\ ledger.records[info].name.test = plan.methods[n].name
        BY <1>a, <2>1 DEF Inv, StageRecord, StageOf
      <4>3. info \in (Executed \cup Skipped)'
        BY <4>1, <4>2, TestFiled DEF Executed, Skipped
      <4>4. \E id \in (Executed \cup Skipped)' :
              ledger'.records[id].name.test = plan.methods[n].name
        BY <4>1, <4>2, <4>3
      <4>5. \A j : plan'.methods[j] = plan.methods[j]
        BY <1>b
      <4> QED
        BY <3>4, <4>4, <4>5 DEF Tested
    <3>2. \A j \in 1..(n + 1) - 1 : Tested(j)'
      <4>1. \A j \in 1..n - 1 : Tested(j)'
        BY <1>a, <1>c, <2>1 DEF Progress
      <4>2. \A j \in 1..(n + 1) - 1 : j \in 1..n - 1 \/ j = k
        BY <2>1, <3>4
      <4> QED
        BY <3>1, <4>1, <4>2
    <3>3. n + 1 \in Nat \ {0}
      BY <2>1
    <3> QED
      BY <1>b, <2>5, <3>2, <3>3, AdvanceProgress
  <2> QED
    BY <2>2, <2>3, <2>4, <2>5
<1>10. ASSUME NEW out \in UserOutcomes, NEW x \in UserExpects,
              TeardownClass(out, x)
       PROVE  Progress'
  BY <1>10, <1>g DEF TeardownClass, EnterStage
<1>11. ASSUME NEW out \in UserOutcomes, GetInfo(out) \/ Destroy(out)
       PROVE  Progress'
  BY <1>11, <1>g DEF GetInfo, Destroy
<1>12. CASE SkipNext
  <2>1. /\ pc = "skip" /\ pc' = "skip" /\ pos' = pos + 1
        /\ pos \in Nat \ {0} /\ pos <= Len(plan.requested)
    BY <1>12 DEF SkipNext, Inv, TypeOK
  <2>2. PICK name, id : name = plan.requested[pos] /\ id = Len(ledger.records) + 1
    OBVIOUS
  <2>3. Marked(name)'
    <3>1. CASE IsTestExecuted(ledger, BareName(name))
      <4>1. Marked(name)
        BY <3>1 DEF Marked, IsTestExecuted, Executed
      <4> QED
        BY <1>c, <4>1
    <3>2. CASE ~IsTestExecuted(ledger, BareName(name))
      <4>1. /\ id \in Filed(ledger'.results)
            /\ ledger'.records[id].name = BareName(name)
        BY <1>12, <2>2, <3>2, SkipNextInv DEF Writes, Files
      <4>2. ledger'.records[id].name.kind # "stage"
        BY <4>1 DEF BareName
      <4>3. id \in (Executed \cup Skipped)'
        BY <4>1, <4>2, StepSound, TestFiled DEF Executed, Skipped
      <4> QED
        BY <4>1, <4>3 DEF Marked
    <3> QED
      BY <3>1, <3>2
  <2>4. \A j \in 1..pos' - 1 : Marked(plan.requested[j])'
    <3> SUFFICES ASSUME NEW j \in 1..pos PROVE Marked(plan.requested[j])'
      BY <2>1
    <3>1. PICK s : s = plan.requested[j]
      OBVIOUS
    <3>2. Marked(s)'
      <4>1. CASE j = pos
        BY <2>2, <2>3, <3>1, <4>1 DEF Marked
      <4>2. CASE j # pos
        <5>1. j \in 1..pos - 1
          BY <2>1, <4>2
        <5>2. Marked(plan.requested[j])
          BY <2>1, <5>1 DEF Progress
        <5>3. Marked(s)
          BY <3>1, <5>2 DEF Marked
        <5> QED
          BY <1>c, <5>3
      <4> QED
        BY <4>1, <4>2
    <3> QED
      BY <1>b, <3>1, <3>2 DEF Marked
  <2> QED
    BY <1>a, <1>b, <2>1, <2>4 DEF Progress
<1>13. CASE SkipDone
  <2>1. /\ pc = "skip" /\ pc' = "teardown_class"
        /\ pos > Len(plan.requested) /\ pos \in Nat
    BY <1>13 DEF SkipDone, LeaveRun, EnterStage, Inv, TypeOK
  <2>2. Len(plan.requested) \in Nat
    BY <1>b, PlanType
  <2>3. \A j \in 1..Len(plan.requested) : Marked(plan.requested[j])
    <3>1. 1..Len(plan.requested) \subseteq 1..pos - 1
      BY <2>1, <2>2
    <3> QED
      BY <2>1, <3>1 DEF Progress
  <2>4. Covered'
    BY <1>b, <1>c, <2>3, MarkedCovers DEF Progress
  <2> QED
    BY <1>a, <1>b, <2>1, <2>4 DEF Progress
<1>14. CASE InfoRecorded
  BY <1>14, <1>g DEF InfoRecorded
<1>15. CASE FinishCleanUp
  BY <1>15, <1>g DEF FinishCleanUp
<1>16. CASE UNCHANGED vars
  BY <1>16, <1>b, <1>c DEF vars, Progress, Began
<1> QED
  BY <1>1, <1>2, <1>3, <1>4, <1>5, <1>6, <1>7, <1>8, <1>9, <1>10, <1>11,
     <1>12, <1>13, <1>14, <1>15, <1>16 DEF Next, ClassStep, Finished

(* _skip_remaining_tests: in every class run that got past pre_run and whose   *)
(* repeat and retry parameters are valid, every test asked for is reported,  *)
(* by its own record or by that of the selector that picked it.              *)
THEOREM AllReported == Spec => []EveryRequestReported
<1>1. Init => StageOf /\ Held /\ Progress
  <2> SUFFICES ASSUME Init PROVE StageOf /\ Held /\ Progress
    OBVIOUS
  <2>1. /\ pc = "pre_run" /\ ledger.results = EmptyResult /\ ledger.file = <<>>
        /\ live = {}
    BY DEF Init
  <2>2. Executed = {}
    BY <2>1 DEF Executed, Ids, EmptyResult, Lists
  <2> QED
    BY <2>1, <2>2, InitStageOf DEF Held, Progress, Named, TestStages
<1>2. /\ Inv /\ StageOf /\ Held /\ Progress /\ [Next]_vars
      => StageOf' /\ Held' /\ Progress'
  BY StageOfStep, HeldStep, ProgressStep
<1>3. Progress => EveryRequestReported
  BY DEF Progress, Covered, Tested, Valid, EveryRequestReported
<1> QED
  BY <1>1, <1>2, <1>3, Invariance, PTL DEF Spec

-----------------------------------------------------------------------------
(* Induction: a set of natural numbers has a least element, so what fails     *)
(* somewhere fails first somewhere.                                          *)
LEMMA Least ==
  ASSUME NEW T, T \subseteq Nat, T # {}
  PROVE  \E x \in T : \A y \in T : x <= y
<1>1. PICK x \in T : \A y \in T : <<y, x>> \notin OpToRel(<, Nat)
  BY NatLessThanWellFounded, WFMin
<1>2. ASSUME NEW y \in T PROVE x <= y
  <2>1. <<y, x>> \notin {ss \in Nat \X Nat : ss[1] < ss[2]}
    BY <1>1 DEF OpToRel
  <2> QED
    BY <2>1
<1> QED
  BY <1>2

-----------------------------------------------------------------------------
(* The walk along the RETRY links                                            *)

BadIn(res) == Ids(res["failed"]) \cup Ids(res["error"])

(* A retry is a record that follows that of a failed iteration of its test.   *)
Chained(records, bad) ==
  \A id \in DOMAIN records :
    records[id].link = "RETRY" =>
      /\ id > 1 /\ records[id].parent = id - 1
      /\ records[id].name.kind = "retry"
      /\ records[id].name.test = records[id - 1].name.test
      /\ id - 1 \in bad

(* The d records up to id are retries, the one before them is not.           *)
Retries(records, id, d) ==
  /\ d \in 0..id
  /\ d = id \/ records[id - d].link # "RETRY"
  /\ \A j \in id - d + 1..id : records[j].link = "RETRY"

(* Every record ends exactly one run of retries, maybe an empty one.         *)
LEMMA RetriesExist ==
  ASSUME NEW records, NEW id \in Nat
  PROVE  \E d \in 0..id : Retries(records, id, d)
<1> DEFINE T == {d \in 0..id : d = id \/ records[id - d].link # "RETRY"}
<1>1. T \subseteq Nat /\ id \in T
  OBVIOUS
<1>2. PICK d \in T : \A e \in T : d <= e
  BY <1>1, Least
<1>3. ASSUME NEW j \in id - d + 1..id PROVE records[j].link = "RETRY"
  <2>1. /\ id - j \in 0..id /\ id - (id - j) = j
        /\ id - j < d /\ id - j # id
    BY <1>2, <1>3
  <2>2. id - j \notin T
    BY <1>1, <1>2, <2>1
  <2> QED
    BY <2>1, <2>2
<1> QED
  BY <1>2, <1>3 DEF Retries

(* It ends only one.                                                         *)
LEMMA RetriesUnique ==
  ASSUME NEW records, NEW id \in Nat, NEW d, NEW e,
         Retries(records, id, d), Retries(records, id, e)
  PROVE  d = e
<1>1. ASSUME NEW a \in 0..id, NEW b \in 0..id, a < b,
             Retries(records, id, a), Retries(records, id, b)
      PROVE  FALSE
  <2>1. a # id /\ id - a \in id - b + 1..id
    BY <1>1
  <2> QED
    BY <1>1, <2>1 DEF Retries
<1>2. d \in 0..id /\ e \in 0..id
  BY DEF Retries
<1>3. ~(d < e) /\ ~(e < d)
  BY <1>1, <1>2
<1> QED
  BY <1>2, <1>3

(* A retry lengthens the run of its parent by one.                           *)
LEMMA RetriesStep ==
  ASSUME NEW records, NEW id \in Nat \ {0}, NEW d \in Nat
  PROVE  /\ records[id].link # "RETRY" => Retries(records, id, 0)
         /\ records[id].link = "RETRY" /\ Retries(records, id - 1, d)
              => Retries(records, id, 1 + d)
<1>1. ASSUME records[id].link # "RETRY" PROVE Retries(records, id, 0)
  BY <1>1 DEF Retries
<1>2. ASSUME records[id].link = "RETRY", Retries(records, id - 1, d)
      PROVE  Retries(records, id, 1 + d)
  <2>1. /\ d \in 0..id - 1
        /\ d = id - 1 \/ records[(id - 1) - d].link # "RETRY"
        /\ \A j \in (id - 1) - d + 1..id - 1 : records[j].link = "RETRY"
    BY <1>2 DEF Retries
  <2>2. (id - 1) - d = id - (1 + d)
    BY <2>1
  <2>3. 1 + d \in 0..id /\ (1 + d = id \/ records[id - (1 + d)].link # "RETRY")
    BY <2>1, <2>2
  <2>4. ASSUME NEW j \in id - (1 + d) + 1..id PROVE records[j].link = "RETRY"
    <3>1. j = id \/ j \in (id - 1) - d + 1..id - 1
      BY <2>1, <2>4
    <3> QED
      BY <1>2, <2>1, <3>1
  <2> QED
    BY <2>3, <2>4 DEF Retries
<1> QED
  BY <1>1, <1>2

(* The recursion of RetryDepth has a solution, so RetryDepth is one.         *)
LEMMA DepthEquation ==
  ASSUME NEW records, NEW f,
         f = [id \in 0..Len(records) |->
               IF id = 0 \/ records[id].link # "RETRY" THEN 0
               ELSE 1 + f[records[id].parent]]
  PROVE  RetryDepth(records) =
           [id \in 0..Len(records) |->
             IF id = 0 \/ records[id].link # "RETRY" THEN 0
             ELSE 1 + RetryDepth(records)[records[id].parent]]
<1> DEFINE depth[id \in 0..Len(records)] ==
             IF id = 0 \/ records[id].link # "RETRY" THEN 0
             ELSE 1 + depth[records[id].parent]
<1>1. RetryDepth(records) = depth
  BY DEF RetryDepth
<1>2. depth = CHOOSE g : g = [id \in 0..Len(records) |->
                IF id = 0 \/ records[id].link # "RETRY" THEN 0
                ELSE 1 + g[records[id].parent]]
  BY DEF depth
<1> QED
  BY <1>1, <1>2

(* The walk counts the retries that end with the record it starts from.      *)
LEMMA DepthCounts ==
  ASSUME NEW records \in Seq(RecordType), NEW bad, Chained(records, bad),
         NEW id \in 0..Len(records)
  PROVE  Retries(records, id, RetryDepth(records)[id])
<1> DEFINE f == [k \in 0..Len(records) |-> CHOOSE d : Retries(records, k, d)]
           g == RetryDepth(records)
<1>1. Len(records) \in Nat /\ DOMAIN records = 1..Len(records)
  OBVIOUS
<1>2. ASSUME NEW k \in 0..Len(records)
      PROVE  f[k] \in 0..k /\ Retries(records, k, f[k])
  <2>0. k \in Nat
    BY <1>1
  <2>1. \E d \in 0..k : Retries(records, k, d)
    BY <2>0, RetriesExist
  <2>2. Retries(records, k, f[k])
    BY <2>1
  <2> QED
    BY <2>2 DEF Retries
<1>3. ASSUME NEW k \in 0..Len(records), NEW d, Retries(records, k, d)
      PROVE  f[k] = d
  BY <1>1, <1>2, <1>3, RetriesUnique
<1>4. f[0] = 0
  BY <1>1, <1>2
<1>5. ASSUME NEW k \in 1..Len(records), records[k].link # "RETRY"
      PROVE  f[k] = 0
  <2>1. Retries(records, k, 0)
    BY <1>1, <1>5, RetriesStep
  <2> QED
    BY <1>1, <1>3, <2>1
<1>6. ASSUME NEW k \in 1..Len(records), records[k].link = "RETRY"
      PROVE  k - 1 \in 0..Len(records) /\ f[k] = 1 + f[records[k].parent]
  <2>1. records[k].parent = k - 1
    BY <1>1, <1>6 DEF Chained
  <2>2. k - 1 \in 0..Len(records) /\ f[k - 1] \in Nat
    BY <1>1, <1>2
  <2>3. Retries(records, k, 1 + f[k - 1])
    BY <1>1, <1>2, <1>6, <2>2, RetriesStep
  <2>4. f[k] = 1 + f[k - 1]
    BY <1>1, <1>3, <2>3
  <2> QED
    BY <2>1, <2>2, <2>4
<1>7. f = [k \in 0..Len(records) |->
            IF k = 0 \/ records[k].link # "RETRY" THEN 0
            ELSE 1 + f[records[k].parent]]
  <2>1. ASSUME NEW k \in 0..Len(records)
        PROVE  f[k] = IF k = 0 \/ records[k].link # "RETRY" THEN 0
                      ELSE 1 + f[records[k].parent]
    BY <1>1, <1>4, <1>5, <1>6
  <2>2. f = [k \in 0..Len(records) |-> f[k]]
    OBVIOUS
  <2> HIDE DEF f
  <2> QED
    BY <2>1, <2>2
<1> HIDE DEF f
<1>8. g = [k \in 0..Len(records) |->
            IF k = 0 \/ records[k].link # "RETRY" THEN 0
            ELSE 1 + g[records[k].parent]]
  BY <1>7, DepthEquation
<1> HIDE DEF g
<1> DEFINE T == {k \in 0..Len(records) : ~Retries(records, k, g[k])}
<1>9. ASSUME T # {} PROVE FALSE
  <2>1. T \subseteq Nat
    BY <1>1
  <2>2. PICK k \in T : \A j \in T : k <= j
    BY <1>9, <2>1, Least
  <2>3. k # 0
    BY <1>1, <1>4, <1>8, <1>2, <2>2
  <2>4. k \in 1..Len(records)
    BY <1>1, <2>2, <2>3
  <2>5. CASE records[k].link # "RETRY"
    <3>1. g[k] = 0
      BY <1>8, <2>4, <2>5
    <3>2. Retries(records, k, 0)
      BY <1>1, <2>4, <2>5, RetriesStep
    <3> QED
      BY <2>2, <3>1, <3>2
  <2>6. CASE records[k].link = "RETRY"
    <3>1. records[k].parent = k - 1
      BY <1>1, <2>4, <2>6 DEF Chained
    <3>2. g[k] = 1 + g[k - 1] /\ k - 1 \in 0..Len(records)
      BY <1>1, <1>8, <2>4, <2>6, <3>1
    <3>3. Retries(records, k - 1, g[k - 1])
      BY <1>1, <2>2, <2>4, <3>2
    <3>4. g[k - 1] \in Nat
      BY <1>1, <3>2, <3>3 DEF Retries
    <3>5. Retries(records, k, 1 + g[k - 1])
      BY <1>1, <2>4, <2>6, <3>3, <3>4, RetriesStep
    <3> QED
      BY <2>2, <3>2, <3>5
  <2> QED
    BY <2>5, <2>6
<1> QED
  BY <1>9 DEF g

(* The records a passed one is a retry of.                                   *)
Before(records, p) == p - RetryDepth(records)[p]..p - 1

(* A record right before a retry of the run is one, or its first.            *)
LEMMA BeforeRetry ==
  ASSUME NEW records \in Seq(RecordType), NEW bad, Chained(records, bad),
         NEW p \in 1..Len(records)
  PROVE  /\ RetryDepth(records)[p] \in 0..p
         /\ \A j \in Nat : j \in Before(records, p) <=>
              j < p /\ \A k \in j + 1..p : records[k].link = "RETRY"
         /\ Before(records, p) \subseteq bad \cap (0..Len(records))
<1> DEFINE d == RetryDepth(records)[p]
<1>1. Len(records) \in Nat /\ DOMAIN records = 1..Len(records)
  OBVIOUS
<1>2. Retries(records, p, d)
  BY <1>1, DepthCounts
<1>3. Before(records, p) = p - d..p - 1
  BY DEF Before
<1> HIDE DEF d
<1>4. /\ d \in 0..p
      /\ d = p \/ records[p - d].link # "RETRY"
      /\ \A j \in p - d + 1..p : records[j].link = "RETRY"
  BY <1>2 DEF Retries
<1>5. ASSUME NEW j \in Nat
      PROVE  j \in p - d..p - 1 <=>
               j < p /\ \A k \in j + 1..p : records[k].link = "RETRY"
  <2>1. ASSUME j \in p - d..p - 1
        PROVE  j < p /\ \A k \in j + 1..p : records[k].link = "RETRY"
    BY <1>4, <2>1
  <2>2. ASSUME j < p, \A k \in j + 1..p : records[k].link = "RETRY",
               j \notin p - d..p - 1
        PROVE  FALSE
    <3>1. d # p /\ p - d \in j + 1..p
      BY <1>4, <2>2
    <3> QED
      BY <1>4, <2>2, <3>1
  <2> QED
    BY <2>1, <2>2
<1>6. ASSUME NEW j \in p - d..p - 1 PROVE j \in bad \cap (0..Len(records))
  <2>1. j + 1 \in p - d + 1..p /\ j + 1 \in 1..Len(records) /\ j = (j + 1) - 1
        /\ j \in 0..Len(records)
    BY <1>1, <1>4
  <2>2. j \in bad
    BY <1>1, <1>4, <2>1 DEF Chained
  <2> QED
    BY <2>1, <2>2
<1> QED
  BY <1>3, <1>4, <1>5, <1>6 DEF d

(* The walks from two passed records have no record in common.               *)
LEMMA WalksApart ==
  ASSUME NEW records \in Seq(RecordType), NEW bad, Chained(records, bad),
         NEW p \in 1..Len(records), NEW q \in 1..Len(records), p # q,
         p \notin bad, q \notin bad
  PROVE  Before(records, p) \cap Before(records, q) = {}
<1>1. ASSUME NEW a \in 1..Len(records), NEW b \in 1..Len(records), a < b,
             a \notin bad, NEW j \in Before(records, a), j \in Before(records, b)
      PROVE  FALSE
  <2>1. RetryDepth(records)[a] \in 0..a /\ RetryDepth(records)[b] \in 0..b
    BY BeforeRetry
  <2>2. a \in Before(records, b)
    BY <1>1, <2>1 DEF Before
  <2> QED
    BY <1>1, <2>2, BeforeRetry
<1>2. p < q \/ q < p
  OBVIOUS
<1> QED
  BY <1>1, <1>2

(* The recursion of the sum has a solution, so the sum is one.                *)
LEMMA SumEquation ==
  ASSUME NEW records, NEW passed, NEW f,
         f = [i \in 0..Len(passed) |->
               IF i = 0 THEN 0 ELSE f[i - 1] + RetryDepth(records)[passed[i]]]
  PROVE  \E g : /\ g = [i \in 0..Len(passed) |->
                        IF i = 0 THEN 0
                        ELSE g[i - 1] + RetryDepth(records)[passed[i]]]
               /\ EventuallyPassingRetries(records, passed) = g[Len(passed)]
<1> DEFINE sum[i \in 0..Len(passed)] ==
             IF i = 0 THEN 0 ELSE sum[i - 1] + RetryDepth(records)[passed[i]]
<1>1. EventuallyPassingRetries(records, passed) = sum[Len(passed)]
  BY DEF EventuallyPassingRetries
<1>2. sum = CHOOSE g : g = [i \in 0..Len(passed) |->
                IF i = 0 THEN 0
                ELSE g[i - 1] + RetryDepth(records)[passed[i]]]
  BY DEF sum
<1>3. sum = [i \in 0..Len(passed) |->
               IF i = 0 THEN 0
               ELSE sum[i - 1] + RetryDepth(records)[passed[i]]]
  BY <1>2
<1> QED
  BY <1>1, <1>3

(* The records that are retried until one of the first i passed records.     *)
Walked(records, passed, i) ==
  UNION {Before(records, passed[k]) : k \in 1..i}

(* _count_eventually_passing_retries counts them, each once.                  *)
LEMMA RetriesCounted ==
  ASSUME NEW records \in Seq(RecordType), NEW bad, Chained(records, bad),
         NEW passed \in Seq(1..Len(records)), IsInjective(passed),
         Ids(passed) \cap bad = {}
  PROVE  /\ IsFiniteSet(Walked(records, passed, Len(passed)))
         /\ Walked(records, passed, Len(passed)) \subseteq bad
         /\ EventuallyPassingRetries(records, passed)
              = Cardinality(Walked(records, passed, Len(passed)))
<1> DEFINE N == Len(passed)
           W(i) == Walked(records, passed, i)
           B(i) == Before(records, passed[i])
           D(i) == RetryDepth(records)[passed[i]]
           f == [i \in 0..N |-> Cardinality(W(i))]
<1>1. /\ N \in Nat /\ DOMAIN passed = 1..N /\ Len(records) \in Nat
      /\ \A i \in 1..N : passed[i] \in 1..Len(records) /\ passed[i] \in Ids(passed)
  BY DEF Ids
<1>2. ASSUME NEW i \in 1..N
      PROVE  /\ B(i) \subseteq bad \cap (0..Len(records))
             /\ D(i) \in Nat
             /\ IsFiniteSet(B(i)) /\ Cardinality(B(i)) = D(i)
  <2>1. /\ D(i) \in 0..passed[i] /\ passed[i] \in Nat
        /\ B(i) \subseteq bad \cap (0..Len(records))
    BY <1>1, BeforeRetry
  <2>2. B(i) = passed[i] - D(i)..passed[i] - 1
    BY DEF Before
  <2> HIDE DEF B, D
  <2>3. passed[i] - D(i) \in Int /\ passed[i] - 1 \in Int
    BY <2>1
  <2>4. /\ IsFiniteSet(B(i))
        /\ Cardinality(B(i)) =
             IF passed[i] - D(i) > passed[i] - 1 THEN 0
             ELSE (passed[i] - 1) - (passed[i] - D(i)) + 1
    BY <2>2, <2>3, FS_Interval
  <2>5. Cardinality(B(i)) = D(i)
    BY <2>1, <2>4
  <2> QED
    BY <2>1, <2>4, <2>5
<1>3. ASSUME NEW i \in 0..N
      PROVE  IsFiniteSet(W(i)) /\ W(i) \subseteq bad
  <2>1. W(i) \subseteq bad \cap (0..Len(records))
    BY <1>1, <1>2 DEF Walked
  <2>2. IsFiniteSet(0..Len(records))
    BY <1>1, FS_Interval
  <2> QED
    BY <2>1, <2>2, FS_Subset
<1>4. W(0) = {}
  BY DEF Walked
<1>5. ASSUME NEW i \in 1..N
      PROVE  /\ i - 1 \in 0..N
             /\ Cardinality(W(i)) = Cardinality(W(i - 1)) + D(i)
  <2>1. i - 1 \in 0..N /\ i \in 0..N /\ 1..i = (1..i - 1) \cup {i}
    BY <1>1
  <2>2. W(i) = W(i - 1) \cup B(i)
    BY <2>1 DEF Walked
  <2>3. ASSUME NEW k \in 1..i - 1 PROVE B(k) \cap B(i) = {}
    <3>1. k \in 1..N /\ k # i
      BY <1>1
    <3>2. passed[k] # passed[i]
      BY <1>1, <3>1 DEF IsInjective
    <3> QED
      BY <1>1, <3>1, <3>2, WalksApart
  <2>4. W(i - 1) \cap B(i) = {}
    BY <2>3 DEF Walked
  <2> HIDE DEF W, B, D
  <2>a. IsFiniteSet(W(i - 1)) /\ IsFiniteSet(B(i))
    BY <1>2, <1>3, <2>1
  <2>b. Cardinality(W(i - 1) \cup B(i)) = Cardinality(W(i - 1))
          + Cardinality(B(i)) - Cardinality(W(i - 1) \cap B(i))
    BY <2>a, FS_Union
  <2>5. Cardinality(W(i)) =
          Cardinality(W(i - 1)) + Cardinality(B(i)) - Cardinality({})
    BY <2>2, <2>4, <2>b
  <2>6. Cardinality(W(i - 1)) \in Nat
    BY <1>3, <2>1, FS_CardinalityType
  <2> QED
    BY <1>2, <2>1, <2>5, <2>6, FS_EmptySet
<1>6. f = [i \in 0..N |-> IF i = 0 THEN 0 ELSE f[i - 1] + D(i)]
  <2>1. ASSUME NEW i \in 0..N
        PROVE  f[i] = IF i = 0 THEN 0 ELSE f[i - 1] + D(i)
    <3>1. CASE i = 0
      BY <1>1, <1>4, <3>1, FS_EmptySet
    <3>2. CASE i # 0
      <4>1. i \in 1..N /\ i - 1 \in 0..N
        BY <1>1, <3>2
      <4> HIDE DEF W, D
      <4> QED
        BY <1>5, <3>2, <4>1
    <3> QED
      BY <3>1, <3>2
  <2>2. f = [i \in 0..N |-> f[i]]
    OBVIOUS
  <2> HIDE DEF f
  <2> QED
    BY <2>1, <2>2
<1>7. PICK g : /\ g = [i \in 0..N |-> IF i = 0 THEN 0 ELSE g[i - 1] + D(i)]
               /\ EventuallyPassingRetries(records, passed) = g[N]
  <2> HIDE DEF f
  <2> QED
    BY <1>6, SumEquation
<1> HIDE DEF D, W
<1> DEFINE T == {i \in 0..N : g[i] # f[i]}
<1>8. ASSUME T # {} PROVE FALSE
  <2>1. T \subseteq Nat
    BY <1>1
  <2>2. PICK i \in T : \A j \in T : i <= j
    BY <1>8, <2>1, Least
  <2>3. g[i] = IF i = 0 THEN 0 ELSE g[i - 1] + D(i)
    BY <1>7, <2>2
  <2>4. f[i] = IF i = 0 THEN 0 ELSE f[i - 1] + D(i)
    <3> HIDE DEF f
    <3> QED
      BY <1>6, <2>2
  <2>5. i # 0
    BY <2>2, <2>3, <2>4
  <2>6. i - 1 \in 0..N /\ i - 1 \notin T
    BY <1>1, <2>2, <2>5
  <2> QED
    BY <2>2, <2>3, <2>4, <2>5, <2>6
<1>9. g[N] = f[N] /\ f[N] = Cardinality(W(N))
  BY <1>1, <1>8
<1> QED
  BY <1>1, <1>3, <1>7, <1>9 DEF W

(* A list without repetitions is as long as the set it holds is large.        *)
LEMMA CountIds ==
  ASSUME NEW s \in Seq(Nat), IsInjective(s)
  PROVE  IsFiniteSet(Ids(s)) /\ Cardinality(Ids(s)) = Len(s)
<1>1. /\ Len(s) \in Nat /\ DOMAIN s = 1..Len(s)
      /\ s \in [1..Len(s) -> Ids(s)]
  BY DEF Ids
<1>2. s \in Bijection(1..Len(s), Ids(s))
  BY <1>1 DEF Bijection, Injection, Surjection, IsInjective, Ids
<1>3. ExistsBijection(1..Len(s), Ids(s))
  BY <1>2 DEF ExistsBijection
<1>4. IsFiniteSet(Ids(s))
  BY <1>1, <1>3, FS_NatBijection
<1> QED
  BY <1>1, <1>3, <1>4, FS_CountingElements

(* The iterations of a retried test are records of that test.                *)
LEMMA SameTest ==
  ASSUME NEW records \in Seq(RecordType), NEW bad, Chained(records, bad),
         NEW id \in DOMAIN records, NEW p \in DOMAIN records,
         \A j \in id + 1..p : records[j].link = "RETRY"
  PROVE  \A j \in id + 1..p : records[j].name.test = records[id].name.test
<1> DEFINE T == {j \in id + 1..p : records[j].name.test # records[id].name.test}
<1>1. /\ Len(records) \in Nat /\ DOMAIN records = 1..Len(records)
      /\ id \in Nat /\ p \in Nat
  OBVIOUS
<1>2. ASSUME T # {} PROVE FALSE
  <2>1. T \subseteq Nat
    BY <1>1
  <2>2. PICK j \in T : \A k \in T : j <= k
    BY <1>2, <2>1, Least
  <2>3. j \in DOMAIN records /\ j - 1 \notin T
    BY <1>1, <2>2
  <2>4. records[j].name.test = records[j - 1].name.test
    BY <2>2, <2>3 DEF Chained
  <2>5. j - 1 = id \/ j - 1 \in id + 1..p
    BY <1>1, <2>2
  <2> QED
    BY <2>2, <2>3, <2>4, <2>5
<1> QED
  BY <1>2

(* A TestResult of these records: each is in one list once, the retries       *)
(* follow records that failed, and what passed did not fail.                 *)
Verdictable(records, res) ==
  /\ res \in [Lists -> Seq(DOMAIN records)]
  /\ Chained(records, BadIn(res))
  /\ \A list \in {"failed", "error", "passed"} : IsInjective(res[list])
  /\ Ids(res["failed"]) \cap Ids(res["error"]) = {}
  /\ Ids(res["passed"]) \cap BadIn(res) = {}

(* is_all_pass says what it should of such a result.                         *)
LEMMA VerdictOf ==
  ASSUME ledger.records \in Seq(RecordType), NEW res,
         Verdictable(ledger.records, res)
  PROVE  IsAllPass(ledger.records, res) <=>
           \A id \in BadIn(res) : Forgiven(id, Ids(res["passed"]))
<1> DEFINE records == ledger.records
           bad == BadIn(res)
           failed == res["failed"]
           error == res["error"]
           passed == res["passed"]
           walked == Walked(records, passed, Len(passed))
           retried == EventuallyPassingRetries(records, passed)
<1>1. /\ Len(records) \in Nat /\ DOMAIN records = 1..Len(records)
      /\ DOMAIN records \subseteq Nat
  OBVIOUS
<1>2. /\ failed \in Seq(Nat) /\ error \in Seq(Nat)
      /\ passed \in Seq(1..Len(records))
      /\ Chained(records, bad)
      /\ bad \subseteq DOMAIN records
  <2>1. \A list \in Lists : res[list] \in Seq(DOMAIN records)
    BY DEF Verdictable
  <2>2. \A s \in Seq(DOMAIN records) : s \in Seq(Nat) /\ Ids(s) \subseteq DOMAIN records
    BY <1>1 DEF Ids
  <2> QED
    BY <1>1, <2>1, <2>2 DEF Lists, Verdictable, BadIn
<1>3. /\ IsFiniteSet(bad)
      /\ Cardinality(bad) = Len(failed) + Len(error)
  <2>1. IsInjective(failed) /\ IsInjective(error) /\ Ids(failed) \cap Ids(error) = {}
    BY DEF Verdictable
  <2>2. bad = Ids(failed) \cup Ids(error)
    BY DEF BadIn
  <2> HIDE DEF failed, error, bad
  <2>3. /\ IsFiniteSet(Ids(failed)) /\ Cardinality(Ids(failed)) = Len(failed)
        /\ IsFiniteSet(Ids(error)) /\ Cardinality(Ids(error)) = Len(error)
    BY <1>2, <2>1, CountIds
  <2>4. /\ IsFiniteSet(bad)
        /\ Cardinality(bad) =
             Cardinality(Ids(failed)) + Cardinality(Ids(error)) - Cardinality({})
    BY <2>1, <2>2, <2>3, FS_Union
  <2>5. Cardinality({}) = 0
    BY FS_EmptySet
  <2>6. Len(failed) \in Nat /\ Len(error) \in Nat
    BY <1>2
  <2> QED
    BY <2>3, <2>4, <2>5, <2>6
<1>4. /\ IsFiniteSet(walked) /\ walked \subseteq bad
      /\ retried = Cardinality(walked)
  BY <1>1, <1>2, RetriesCounted DEF Verdictable
<1>5. IsAllPass(records, res) <=> Cardinality(bad) - Cardinality(walked) = 0
  <2>1. IsAllPass(records, res) <=> Len(failed) + Len(error) - retried = 0
    BY DEF IsAllPass
  <2>2. Len(failed) + Len(error) - retried = Cardinality(bad) - Cardinality(walked)
    <3>1. /\ Len(failed) \in Nat /\ Len(error) \in Nat
          /\ Cardinality(walked) \in Nat
      BY <1>2, <1>4, FS_CardinalityType
    <3>2. Cardinality(bad) = Len(failed) + Len(error)
      BY <1>3
    <3>3. retried = Cardinality(walked)
      BY <1>4
    <3> HIDE DEF bad, walked, retried, failed, error
    <3> QED
      BY <3>1, <3>2, <3>3
  <2> HIDE DEF bad, walked, retried, failed, error
  <2> QED
    BY <2>1, <2>2, Zenon
<1>6. Cardinality(bad) - Cardinality(walked) = 0 <=> walked = bad
  <2>1. Cardinality(bad) \in Nat /\ Cardinality(walked) \in Nat
    BY <1>3, <1>4, FS_CardinalityType
  <2>2. Cardinality(bad) = Cardinality(walked) => bad = walked
    BY <1>3, <1>4, FS_Subset
  <2> HIDE DEF bad, walked
  <2> QED
    BY <2>1, <2>2
<1>7. ASSUME NEW id \in bad
      PROVE  id \in walked <=> Forgiven(id, Ids(passed))
  <2>1. id \in Nat /\ id \in DOMAIN records
    BY <1>1, <1>2
  <2>2. id \in walked <=> \E p \in Ids(passed) : id \in Before(records, p)
    <3>1. DOMAIN passed = 1..Len(passed)
      BY <1>2
    <3>2. Ids(passed) = {passed[k] : k \in 1..Len(passed)}
      BY <3>1 DEF Ids
    <3> HIDE DEF passed
    <3> QED
      BY <3>2 DEF Walked
  <2>3. ASSUME NEW p \in Ids(passed)
        PROVE  id \in Before(records, p) <=>
                 /\ p > id
                 /\ \A j \in id + 1..p :
                      /\ records[j].link = "RETRY"
                      /\ records[j].name.test = records[id].name.test
    <3>1. p \in 1..Len(records)
      BY <1>2 DEF Ids
    <3>2. id \in Before(records, p) <=>
            id < p /\ \A k \in id + 1..p : records[k].link = "RETRY"
      BY <1>2, <2>1, <3>1, BeforeRetry
    <3>3. p > id <=> id < p
      BY <2>1, <3>1
    <3> QED
      BY <1>1, <1>2, <2>1, <3>1, <3>2, <3>3, SameTest
  <2> QED
    BY <2>2, <2>3 DEF Forgiven
<1> HIDE DEF walked, bad
<1>8. walked = bad <=> \A id \in bad : id \in walked
  BY <1>4
<1> QED
  BY <1>5, <1>6, <1>7, <1>8 DEF bad

-----------------------------------------------------------------------------
(* Which records a step makes                                                *)

(* A ledger as the operators of TestRecords make it, and one with the same    *)
(* record objects.                                                           *)
Shape(l) ==
  /\ DOMAIN l = {"records", "results", "file"}
  /\ \E S : l.records \in Seq(S)

SameObjects(l, m) == Shape(m) /\ Len(m.records) = Len(l.records)

(* Writing to records, filing and dumping them makes no record.              *)
LEMMA NoneMade ==
  ASSUME NEW k, NEW l, SameObjects(k, l), NEW id, NEW r, NEW type
  PROVE  /\ SameObjects(k, SetRecord(l, id, r))
         /\ SameObjects(k, Dump(l, id))
         /\ SameObjects(k, DumpOther(l, type))
         /\ SameObjects(k, AddRecord(l, id))
         /\ SameObjects(k, AddClassError(l, id))
<1>1. PICK S : l.records \in Seq(S)
  BY DEF SameObjects, Shape
<1>2. ASSUME NEW u
      PROVE  /\ [l.records EXCEPT ![id] = u] \in Seq(S \cup {u})
             /\ Len([l.records EXCEPT ![id] = u]) = Len(l.records)
  <2> DEFINE T == S \cup {u}
  <2>1. l.records \in Seq(T) /\ u \in T
    BY <1>1
  <2> HIDE DEF T
  <2>2. /\ [l.records EXCEPT ![id] = u] \in Seq(T)
        /\ Len([l.records EXCEPT ![id] = u]) = Len(l.records)
    <3>1. CASE id \in 1..Len(l.records)
      BY <2>1, <3>1, ExceptSeq
    <3>2. CASE id \notin 1..Len(l.records)
      <4>1. [l.records EXCEPT ![id] = u] = l.records
        BY <2>1, <3>2
      <4> QED
        BY <2>1, <4>1
    <3> QED
      BY <3>1, <3>2
  <2> QED
    BY <2>2 DEF T
<1>3. DOMAIN l = {"records", "results", "file"} /\ Len(l.records) = Len(k.records)
  BY DEF SameObjects, Shape
<1>4. ASSUME NEW m, NEW u, DOMAIN m = {"records", "results", "file"},
             m.records = [l.records EXCEPT ![id] = u]
      PROVE  SameObjects(k, m)
  <2> DEFINE T == S \cup {u}
  <2>1. m.records \in Seq(T) /\ Len(m.records) = Len(k.records)
    BY <1>2, <1>3, <1>4
  <2> HIDE DEF T
  <2> QED
    BY <1>4, <2>1 DEF SameObjects, Shape
<1>5. SameObjects(k, SetRecord(l, id, r))
  BY <1>3, <1>4 DEF SetRecord
<1>6. SameObjects(k, Dump(l, id)) /\ SameObjects(k, DumpOther(l, type))
  BY <1>1, <1>3 DEF Dump, DumpOther, SameObjects, Shape
<1>7. SameObjects(k, AddRecord(l, id))
  <2> DEFINE u == UpdateRecord(l.records[id])
             m == AddRecord(l, id)
  <2>1. DOMAIN m = {"records", "results", "file"}
        /\ m.records = [l.records EXCEPT ![id] = u]
    BY <1>3 DEF AddRecord
  <2> HIDE DEF m, u
  <2> QED
    BY <1>4, <2>1 DEF m
<1>8. SameObjects(k, AddClassError(l, id))
  <2> DEFINE u == UpdateRecord(l.records[id])
             m == AddClassError(l, id)
  <2>1. DOMAIN m = {"records", "results", "file"}
        /\ m.records = [l.records EXCEPT ![id] = u]
    BY <1>3 DEF AddClassError
  <2> HIDE DEF m, u
  <2> QED
    BY <1>4, <2>1 DEF m
<1> QED
  BY <1>5, <1>6, <1>7, <1>8

(* Nor does a failed expectation, or what changes only lists and file.        *)
LEMMA ErrorsMakeNone ==
  ASSUME Inv
  PROVE  /\ SameObjects(ledger, ledger)
         /\ \A x : SameObjects(ledger, Expected(x))
         /\ \A l, out : SameObjects(ledger, l)
                         => SameObjects(ledger, ProcedureError(l, out))
<1>1. SameObjects(ledger, ledger)
  BY DEF Inv, TypeOK, LedgerType, SameObjects, Shape
<1>2. ASSUME NEW l, SameObjects(ledger, l), NEW id, NEW r
      PROVE  SameObjects(ledger, SetRecord(l, id, r))
  BY <1>2, NoneMade
<1> QED
  BY <1>1, <1>2 DEF Expected, ProcedureError

(* A stage that begins makes one.                                            *)
LEMMA StageMade ==
  ASSUME Inv, NEW l, SameObjects(ledger, l), NEW stage, NEW name, NEW parent,
         NEW link, EnterStage(l, stage, name, parent, link)
  PROVE  /\ pc' = stage
         /\ info' = Len(ledger.records) + 1
         /\ Len(ledger'.records) = info'
         /\ DOMAIN ledger'.records = DOMAIN ledger.records \cup {info'}
         /\ ledger'.records[info'] = NewRecord(name, parent, link)
         /\ recorder'.rec = info'
         /\ info' \notin DOMAIN ledger.records
<1> DEFINE r == NewRecord(name, parent, link)
<1>1. PICK S : l.records \in Seq(S)
  BY DEF SameObjects, Shape
<1>2. /\ ledger'.records = Append(l.records, r)
      /\ pc' = stage /\ info' = Len(ledger.records) + 1
      /\ recorder'.rec = info'
      /\ Len(l.records) = Len(ledger.records)
  BY DEF EnterStage, Create, SameObjects, Shape
<1>3. /\ Len(ledger.records) \in Nat
      /\ DOMAIN ledger.records = 1..Len(ledger.records)
  BY DEF Inv, TypeOK, LedgerType
<1> HIDE DEF r
<1>4. l.records \in Seq(S \cup {r}) /\ r \in S \cup {r}
  BY <1>1
<1>5. /\ Len(ledger'.records) = Len(l.records) + 1
      /\ DOMAIN ledger'.records = 1..Len(l.records) + 1
      /\ ledger'.records[Len(l.records) + 1] = r
  BY <1>2, <1>4
<1> QED
  BY <1>2, <1>3, <1>5 DEF r

(* No step but these makes records.                                          *)
LEMMA OthersMakeNone ==
  ASSUME Inv, [Next]_vars
  PROVE  \/ Len(ledger'.records) = Len(ledger.records)
            /\ (pc' \in TestStages =>
                  /\ pc \in TestStages
                  /\ UNCHANGED <<plan, n, it, streak, info>>)
         \/ \E x \in UserExpects : PreRunReturns(x)
         \/ SetupClassPasses \/ SkipNext \/ SkipDone
         \/ \E out \in UserOutcomes, x \in UserExpects :
              Procedure(out, x) \/ TeardownClass(out, x)
<1> DEFINE Same == /\ Len(ledger'.records) = Len(ledger.records)
                   /\ pc' \in TestStages =>
                        /\ pc \in TestStages
                        /\ UNCHANGED <<plan, n, it, streak, info>>
<1>0. SameObjects(ledger, ledger)
  BY ErrorsMakeNone
<1>1. ASSUME NEW c \in Controllers, Register(c) PROVE Same
  BY <1>1 DEF Register, control
<1>2. ASSUME NEW out \in UserOutcomes, NEW x \in UserExpects,
             \/ PreRunFails(out, x)
             \/ SetupClassAborts(out, x)
             \/ SetupClassRaises(out, x)
             \/ ClassOnFailAborts(out, x)
             \/ ClassOnFailReturns(out, x)
      PROVE  Same
  <2>0. SameObjects(ledger, Expected(x))
    BY <1>0, ErrorsMakeNone
  <2>1. /\ SameObjects(ledger, ledger')
        /\ pc' \in {"done", "on_fail_raised", "skip"}
    <3>1. CASE PreRunFails(out, x)
      BY <2>0, <3>1, NoneMade DEF PreRunFails
    <3>2. CASE SetupClassAborts(out, x) \/ ClassOnFailAborts(out, x)
      BY <2>0, <3>2 DEF SetupClassAborts, ClassOnFailAborts, SkipAndLeave
    <3>3. CASE SetupClassRaises(out, x)
      BY <2>0, <3>3, NoneMade DEF SetupClassRaises
    <3>4. CASE ClassOnFailReturns(out, x)
      <4>1. SameObjects(ledger, ProcedureError(Expected(x), out))
        BY <2>0, ErrorsMakeNone
      <4> QED
        BY <3>4, <4>1, NoneMade DEF ClassOnFailReturns, SkipAndLeave
    <3> QED
      BY <1>2, <3>1, <3>2, <3>3, <3>4
  <2> QED
    BY <2>1 DEF SameObjects, TestStages
<1>3. ASSUME NEW out \in UserOutcomes, NEW x \in UserExpects,
             SetupTest(out, x) \/ TestMethod(out, x) \/ TeardownTest(out, x)
      PROVE  Same
  <2>1. SameObjects(ledger, Expected(x))
    BY <1>0, ErrorsMakeNone
  <2>2. SameObjects(ledger, ledger')
    BY <1>3, <2>1, NoneMade DEF SetupTest, TestMethod, TeardownTest
  <2>3. pc \in TestStages /\ UNCHANGED <<plan, n, it, streak, info>>
    BY <1>3 DEF SetupTest, TestMethod, TeardownTest, TestStages, control
  <2> QED
    BY <2>2, <2>3 DEF SameObjects
<1>4. ASSUME SetupClassExpects PROVE Same
  <2>1. SameObjects(ledger, ledger') /\ pc' = "on_fail_expects"
    BY <1>0, <1>4, ErrorsMakeNone DEF SetupClassExpects
  <2> QED
    BY <2>1 DEF SameObjects, TestStages
<1>5. ASSUME NEW out \in UserOutcomes, GetInfo(out) \/ Destroy(out) PROVE Same
  <2>1. /\ SameObjects(ledger, Expected(TRUE))
        /\ SameObjects(ledger, Expected(out # "ok"))
    BY <1>0, ErrorsMakeNone
  <2>2. SameObjects(ledger, ledger') /\ pc' \in {"get_info", "destroy"}
    BY <1>0, <1>5, <2>1, NoneMade DEF GetInfo, Destroy
  <2> QED
    BY <2>2 DEF SameObjects, TestStages
<1>6. ASSUME InfoRecorded PROVE Same
  BY <1>6 DEF InfoRecorded, TestStages
<1>7. ASSUME FinishCleanUp PROVE Same
  <2>1. SameObjects(ledger, ledger') /\ pc' = "done"
    BY <1>0, <1>7, NoneMade DEF FinishCleanUp
  <2> QED
    BY <2>1 DEF SameObjects, TestStages
<1>8. ASSUME UNCHANGED vars PROVE Same
  BY <1>8 DEF vars
<1> HIDE DEF Same
<1> QED
  BY <1>1, <1>2, <1>3, <1>4, <1>5, <1>6, <1>7, <1>8
     DEF Next, ClassStep, Finished, Same

-----------------------------------------------------------------------------
(* What each step makes                                                      *)

(* r is the record this step makes.                                          *)
Created(r) ==
  /\ Len(ledger'.records) = Len(ledger.records) + 1
  /\ DOMAIN ledger'.records =
       DOMAIN ledger.records \cup {Len(ledger.records) + 1}
  /\ ledger'.records[Len(ledger.records) + 1] = r

(* A step makes no record, ...                                               *)
MakesNone ==
  /\ Len(ledger'.records) = Len(ledger.records)
  /\ pc' \in TestStages =>
       pc \in TestStages /\ UNCHANGED <<plan, n, it, streak, info>>

(* ... that of a class-level stage or of a skipped test, ...                 *)
MakesPlain ==
  /\ pc' \notin TestStages
  /\ \E r : /\ Created(r)
            /\ r.link = "none" /\ r.name.kind \in {"bare", "stage"}

(* ... that of the first iteration of a test ...                             *)
Comes(k) == pc = "setup_class" \/ (pc = "procedure" /\ k = n + 1)

MakesFirst ==
  /\ pc' = "setup_test" /\ it' = 0 /\ streak' = 0
  /\ info' = Len(ledger.records) + 1
  /\ n' \in DOMAIN plan.methods /\ ~Invalid(plan.methods[n'])
  /\ Comes(n')
  /\ Created(NewRecord(Name(plan.methods[n'], 0), 0, "none"))

(* ... or that of the next one, after an iteration that Again allows it to    *)
(* follow.                                                                   *)
MakesNext ==
  /\ pc = "procedure" /\ pc' = "setup_test"
  /\ n' = n /\ it' = it + 1
  /\ streak' = Streak(ledger'.records[info])
  /\ info' = Len(ledger.records) + 1
  /\ Again(Current, ledger'.records[info])
  /\ Created(NewRecord(Name(Current, it + 1), info, Link(Current, it + 1)))
  /\ info \in Filed(ledger'.results)

(* The loop of run makes the record of the test or of the stage it enters.    *)
LEMMA AdvanceMakes ==
  ASSUME Inv, NEW l, SameObjects(ledger, l), NEW k \in Nat \ {0}, Advance(l, k),
         Comes(k)
  PROVE  MakesPlain \/ MakesFirst
<1>1. ASSUME NEW e, LeaveRun(l, e) PROVE MakesPlain
  <2>1. EnterStage(l, "teardown_class", StageName("teardown_class"), 0, "none")
    BY <1>1 DEF LeaveRun
  <2>2. Created(NewRecord(StageName("teardown_class"), 0, "none"))
        /\ pc' = "teardown_class"
    BY <2>1, StageMade DEF Created
  <2> QED
    BY <2>2 DEF MakesPlain, NewRecord, StageName, TestStages
<1>2. ASSUME k <= Len(plan.methods), ~Invalid(plan.methods[k]),
             BeginIteration(l, plan.methods[k], 0, 0)
      PROVE  MakesFirst
  <2> DEFINE m == plan.methods[k]
  <2>1. n' = k /\ streak' = 0 /\ it' = 0 /\ k \in DOMAIN plan.methods
    <3>1. plan.methods \in Seq(Methods)
      BY PlanType DEF Inv, TypeOK
    <3> QED
      BY <1>2, <3>1 DEF Advance, BeginIteration
  <2>2. EnterStage(l, "setup_test", Name(m, 0), 0, "none")
    BY <1>2 DEF BeginIteration, Link
  <2>3. /\ Created(NewRecord(Name(m, 0), 0, "none"))
        /\ pc' = "setup_test" /\ info' = Len(ledger.records) + 1
    BY <2>2, StageMade DEF Created
  <2> QED
    BY <1>2, <2>1, <2>3 DEF MakesFirst
<1> QED
  BY <1>1, <1>2 DEF Advance

(* The loop of _skip_remaining_tests makes those of skipped tests.            *)
LEMMA SkipMakes ==
  ASSUME Inv, SkipNext
  PROVE  MakesNone \/ MakesPlain
<1> DEFINE name == plan.requested[pos]
           id == Len(ledger.records) + 1
           made == Create(ledger, BareName(name), 0, "none")
           new == NewRecord(BareName(name), 0, "none")
           skip == TestEnd(made.records[id], "SKIP", TRUE)
           set == SetRecord(made, id, skip)
           grown == AddRecord(set, id)
<1>1. CASE IsTestExecuted(ledger, BareName(name))
  BY <1>1 DEF SkipNext, SkipUnlessExecuted, MakesNone, control
<1>2. CASE ~IsTestExecuted(ledger, BareName(name))
  <2>0. /\ SoundLedger(ledger) /\ Len(ledger.records) \in Nat
        /\ DOMAIN ledger.records = 1..Len(ledger.records)
        /\ name \in TestNames
    <3>1. pos \in 1..Len(plan.requested) /\ plan.requested \in Seq(TestNames)
      BY PlanType DEF SkipNext, Inv, TypeOK
    <3>2. name \in TestNames
      BY <3>1
    <3> QED
      BY <3>2, InvSound DEF SoundLedger, LedgerType
  <2>1. /\ BareName(name) \in Names /\ 0 \in Nat /\ "none" \in Links
        /\ BareName(name).kind = "bare"
    BY <2>0 DEF BareName, Names, Links
  <2>2. /\ SoundLedger(made) /\ Len(made.records) = id
        /\ made.records[id] = new /\ new \in RecordType
    BY <2>0, <2>1, CreateSound, NewRecordType
  <2>3. SameObjects(made, made)
    BY <2>2 DEF SoundLedger, LedgerType, SameObjects, Shape
  <2> HIDE DEF made
  <2>4. skip \in RecordType /\ Origin(skip) = Origin(new)
    <3>1. "SKIP" \in Results /\ TRUE \in BOOLEAN
      BY DEF Results
    <3> HIDE DEF new
    <3> QED
      BY <2>2, <3>1, TestEndType
  <2> HIDE DEF skip
  <2>5. SameObjects(made, grown)
    BY <2>3, NoneMade
  <2>6. grown.records[id] = UpdateRecord(skip)
    <3>1. made.records \in Seq(RecordType) /\ DOMAIN made = {"records", "results", "file"}
      BY <2>2 DEF SoundLedger, LedgerType
    <3>2. id \in DOMAIN made.records
      BY <2>0, <2>2, <3>1
    <3>3. set.records = [made.records EXCEPT ![id] = skip]
          /\ DOMAIN set = {"records", "results", "file"}
      BY <3>1 DEF SetRecord
    <3> HIDE DEF set, id
    <3>4. set.records[id] = skip /\ id \in DOMAIN set.records
      BY <3>1, <3>2, <3>3
    <3>5. grown.records = [set.records EXCEPT ![id] = UpdateRecord(set.records[id])]
      BY <3>3 DEF AddRecord
    <3> QED
      BY <3>4, <3>5
  <2>7. ledger' = Dump(grown, id)
    BY <1>2 DEF SkipNext, SkipUnlessExecuted, made, skip
  <2> HIDE DEF grown
  <2>8. SameObjects(made, ledger') /\ ledger'.records = grown.records
    <3>1. SameObjects(made, Dump(grown, id))
      BY <2>5, NoneMade
    <3>2. DOMAIN grown = {"records", "results", "file"}
      BY <2>5 DEF SameObjects, Shape
    <3> QED
      BY <2>7, <3>1, <3>2 DEF Dump
  <2>9. /\ Len(ledger'.records) = id
        /\ DOMAIN ledger'.records = 1..id
    BY <2>2, <2>8 DEF SameObjects, Shape
  <2>10. Origin(UpdateRecord(skip)) = Origin(new)
    BY <2>4, UpdateRecordType
  <2>11. UpdateRecord(skip).link = "none" /\ UpdateRecord(skip).name.kind = "bare"
    BY <2>1, <2>10 DEF Origin, NewRecord
  <2>12. Created(UpdateRecord(skip))
    BY <2>0, <2>6, <2>8, <2>9 DEF Created
  <2>13. pc' = "skip"
    BY DEF SkipNext
  <2> QED
    BY <2>11, <2>12, <2>13 DEF MakesPlain, TestStages
<1> QED
  BY <1>1, <1>2

(* No step makes more than these.                                            *)
LEMMA StepMakes ==
  ASSUME Inv, [Next]_vars
  PROVE  MakesNone \/ MakesPlain \/ MakesFirst \/ MakesNext
<1>0. SameObjects(ledger, ledger)
  BY ErrorsMakeNone
<1>1. ASSUME NEW x \in UserExpects, PreRunReturns(x)
      PROVE  MakesNone \/ MakesPlain
  <2> DEFINE l == DumpOther(Expected(x), "TEST_NAME_LIST")
  <2>1. SameObjects(ledger, l)
    BY ErrorsMakeNone, NoneMade
  <2>2. \/ EnterStage(l, "setup_class", StageName("setup_class"), 0, "none")
        \/ ledger' = l /\ pc' = "done"
    BY <1>1 DEF PreRunReturns
  <2> HIDE DEF l
  <2>3. CASE EnterStage(l, "setup_class", StageName("setup_class"), 0, "none")
    <3>1. Created(NewRecord(StageName("setup_class"), 0, "none"))
          /\ pc' = "setup_class"
      BY <2>1, <2>3, StageMade DEF Created
    <3> QED
      BY <3>1 DEF MakesPlain, NewRecord, StageName, TestStages
  <2>4. CASE ledger' = l /\ pc' = "done"
    BY <2>1, <2>4 DEF MakesNone, SameObjects, TestStages
  <2> QED
    BY <2>2, <2>3, <2>4
<1>2. ASSUME SetupClassPasses PROVE MakesPlain \/ MakesFirst
  BY <1>0, <1>2, AdvanceMakes DEF SetupClassPasses, Comes
<1>3. ASSUME SkipDone PROVE MakesPlain
  <2>1. EnterStage(ledger, "teardown_class", StageName("teardown_class"), 0, "none")
    BY <1>3 DEF SkipDone, LeaveRun
  <2>2. Created(NewRecord(StageName("teardown_class"), 0, "none"))
        /\ pc' = "teardown_class"
    BY <1>0, <2>1, StageMade DEF Created
  <2> QED
    BY <2>2 DEF MakesPlain, NewRecord, StageName, TestStages
<1>4. ASSUME NEW out \in UserOutcomes, NEW x \in UserExpects, TeardownClass(out, x)
      PROVE  MakesPlain
  <2>1. SameObjects(ledger, Expected(x))
    BY ErrorsMakeNone
  <2>2. PICK l : /\ SameObjects(ledger, l)
                 /\ EnterStage(l, "get_info", StageName("clean_up"), 0, "none")
    BY <1>4, <2>1, NoneMade DEF TeardownClass
  <2>3. Created(NewRecord(StageName("clean_up"), 0, "none")) /\ pc' = "get_info"
    BY <2>2, StageMade DEF Created
  <2> QED
    BY <2>3 DEF MakesPlain, NewRecord, StageName, TestStages
<1>5. ASSUME NEW out \in UserOutcomes, NEW x \in UserExpects, Procedure(out, x)
      PROVE  MakesNone \/ MakesPlain \/ MakesFirst \/ MakesNext
  <2> DEFINE l == ProcedureError(Expected(x), IF out \in Abort THEN "ok" ELSE out)
             filed == Dump(AddRecord(l, info), info)
             r == filed.records[info]
  <2>1. SameObjects(ledger, filed)
    BY ErrorsMakeNone, NoneMade
  <2>2. \/ SkipAndLeave(filed, InFlight(out))
        \/ /\ Again(Current, r)
           /\ BeginIteration(filed, Current, it + 1, info)
           /\ streak' = Streak(r) /\ n' = n
        \/ Advance(filed, n + 1)
    BY <1>5 DEF Procedure
  <2>3. info \in Filed(ledger'.results)
    BY <1>5, ProcedureInv DEF Writes, Files
  <2>4. info \in 1..Len(ledger.records) /\ n + 1 \in Nat \ {0} /\ pc = "procedure"
    BY <1>5 DEF Inv, TypeOK, Procedure
  <2> HIDE DEF filed
  <2>5. CASE SkipAndLeave(filed, InFlight(out))
    BY <2>1, <2>5 DEF SkipAndLeave, MakesNone, SameObjects, TestStages
  <2>6. CASE /\ Again(Current, r)
             /\ BeginIteration(filed, Current, it + 1, info)
             /\ streak' = Streak(r) /\ n' = n
    <3>1. /\ EnterStage(filed, "setup_test", Name(Current, it + 1), info,
                        Link(Current, it + 1))
          /\ it' = it + 1
      BY <2>6 DEF BeginIteration
    <3>2. /\ Created(NewRecord(Name(Current, it + 1), info, Link(Current, it + 1)))
          /\ pc' = "setup_test" /\ info' = Len(ledger.records) + 1
      BY <2>1, <3>1, StageMade DEF Created
    <3>3. ledger'.records[info] = r
      <4>1. PICK S : filed.records \in Seq(S)
        BY <2>1 DEF SameObjects, Shape
      <4>2. /\ ledger'.records =
                 Append(filed.records, NewRecord(Name(Current, it + 1), info,
                                                 Link(Current, it + 1)))
            /\ info \in 1..Len(filed.records)
        BY <2>1, <2>4, <3>1 DEF EnterStage, Create, SameObjects, Shape
      <4> QED
        BY <4>1, <4>2
    <3> QED
      BY <2>3, <2>4, <2>6, <3>1, <3>2, <3>3 DEF MakesNext
  <2>7. CASE Advance(filed, n + 1)
    BY <2>1, <2>4, <2>7, AdvanceMakes DEF Comes
  <2> QED
    BY <2>2, <2>5, <2>6, <2>7
<1>6. ASSUME Len(ledger'.records) = Len(ledger.records),
             pc' \in TestStages =>
               pc \in TestStages /\ UNCHANGED <<plan, n, it, streak, info>>
      PROVE  MakesNone
  BY <1>6 DEF MakesNone
<1> QED
  BY <1>1, <1>2, <1>3, <1>4, <1>5, <1>6, SkipMakes, OthersMakeNone

-----------------------------------------------------------------------------
(* The lists of a class run as is_all_pass counts them *)

(* No list holds a record twice.                                             *)
Once(res) == \A list \in Lists : IsInjective(res[list])

(* The record of a test stage is the last one made.                          *)
Latest == pc \in TestStages => info = Len(ledger.records)

(* The links of the retries, as the records and the list of failures bear     *)
(* them out; `more` are failures filed elsewhere.                            *)
Chain(more) ==
  Chained(ledger.records, more \cup BadIn(ledger.results))

(* A record that failed is filed as such.                                    *)
LEMMA FiledBad ==
  ASSUME NEW l, SoundLedger(l), NEW id \in Filed(l.results),
         Failed(l.records[id])
  PROVE  id \in BadIn(l.results)
<1>1. PICK list \in Lists : id \in Ids(l.results[list])
  BY FiledUnion DEF SoundLedger, LedgerType
<1> QED
  BY <1>1 DEF SoundLedger, WellFiled, Lists, BadIn, Failed

(* Filing files no record twice, and the failures stay.                      *)
LEMMA FilesOnce ==
  ASSUME NEW l, NEW m, SoundLedger(l), SoundLedger(m), NEW new, Files(l, m, new)
  PROVE  /\ BadIn(l.results) \subseteq BadIn(m.results)
         /\ Once(l.results) => Once(m.results)
<1>1. ASSUME NEW list \in Lists
      PROVE  /\ Ids(l.results[list]) \subseteq Ids(m.results[list])
             /\ IsInjective(l.results[list]) => IsInjective(m.results[list])
  <2> DEFINE s == l.results[list]
             t == m.results[list]
  <2>1. s \in Seq(Nat)
    BY DEF SoundLedger, LedgerType
  <2>2. CASE t = s
    BY <2>2
  <2>3. ASSUME NEW id \in new, t = Append(s, id)
        PROVE  Ids(s) \subseteq Ids(t) /\ (IsInjective(s) => IsInjective(t))
    <3>1. id \in DOMAIN m.records /\ id \notin Filed(l.results)
      BY DEF Files
    <3>2. id \in Nat
      BY <3>1 DEF SoundLedger, LedgerType
    <3>3. id \notin Ids(s)
      BY <3>1 DEF Filed
    <3> HIDE DEF s, t
    <3>4. Ids(t) = Ids(s) \cup {id}
      BY <2>1, <2>3, <3>2, IdsAppend
    <3>5. /\ DOMAIN t = DOMAIN s \cup {Len(s) + 1}
          /\ t[Len(s) + 1] = id
          /\ \A i \in DOMAIN s : t[i] = s[i]
      BY <2>1, <2>3, <3>2, AppendAt
    <3>6. \A i \in DOMAIN s : s[i] # id
      BY <3>3 DEF Ids
    <3> QED
      BY <3>4, <3>5, <3>6 DEF IsInjective
  <2> QED
    BY <2>2, <2>3 DEF Files
<1> QED
  BY <1>1 DEF BadIn, Once, Lists

(* The links of the retries stay as they are made.  The failures `more` are    *)
(* those of earlier classes.                                                 *)
LEMMA ChainStep ==
  ASSUME Inv, StageOf, Latest, [Next]_vars, NEW more, Chain(more)
  PROVE  Latest' /\ Chained(ledger'.records, more \cup BadIn(ledger'.results))
<1>1. MakesNone \/ MakesPlain \/ MakesFirst \/ MakesNext
  BY StepMakes
<1>2. Latest'
  BY <1>1, Zenon DEF Latest, MakesNone, MakesPlain, MakesFirst, MakesNext, Created
<1>3. /\ SoundLedger(ledger) /\ SoundLedger(ledger)'
      /\ \A k \in DOMAIN ledger.records :
           Origin(ledger'.records[k]) = Origin(ledger.records[k])
  BY StepSound
<1>4. BadIn(ledger.results) \subseteq BadIn(ledger'.results)
  BY <1>3, StepWrites, FilesOnce DEF Writes
<1>5. /\ Len(ledger.records) \in Nat
      /\ DOMAIN ledger.records = 1..Len(ledger.records)
      /\ info \in 1..Len(ledger.records)
  BY DEF Inv, TypeOK, LedgerType
<1>6. ASSUME NEW id \in DOMAIN ledger.records, ledger'.records[id].link = "RETRY"
      PROVE  /\ id > 1 /\ ledger'.records[id].parent = id - 1
             /\ ledger'.records[id].name.kind = "retry"
             /\ ledger'.records[id].name.test = ledger'.records[id - 1].name.test
             /\ id - 1 \in more \cup BadIn(ledger'.results)
  <2>1. /\ ledger.records[id].link = "RETRY"
        /\ ledger'.records[id].name = ledger.records[id].name
        /\ ledger'.records[id].parent = ledger.records[id].parent
    BY <1>3, <1>6 DEF Origin
  <2>2. /\ id > 1 /\ ledger.records[id].parent = id - 1
        /\ ledger.records[id].name.kind = "retry"
        /\ ledger.records[id].name.test = ledger.records[id - 1].name.test
        /\ id - 1 \in more \cup BadIn(ledger.results)
    BY <2>1 DEF Chain, Chained
  <2>3. id - 1 \in DOMAIN ledger.records
    BY <1>5, <2>2
  <2>4. ledger'.records[id - 1].name = ledger.records[id - 1].name
    BY <1>3, <2>3 DEF Origin
  <2> QED
    BY <1>4, <2>1, <2>2, <2>4
<1>7. ASSUME NEW id \in DOMAIN ledger'.records \ DOMAIN ledger.records,
             ledger'.records[id].link = "RETRY"
      PROVE  /\ id > 1 /\ ledger'.records[id].parent = id - 1
             /\ ledger'.records[id].name.kind = "retry"
             /\ ledger'.records[id].name.test = ledger'.records[id - 1].name.test
             /\ id - 1 \in more \cup BadIn(ledger'.results)
  <2>1. CASE MakesNone
    <3>1. DOMAIN ledger'.records = 1..Len(ledger'.records)
      BY <1>3 DEF SoundLedger, LedgerType
    <3> QED
      BY <1>5, <2>1, <3>1 DEF MakesNone
  <2>2. CASE MakesPlain
    BY <1>7, <2>2 DEF MakesPlain, Created
  <2>3. CASE MakesFirst
    BY <1>7, <2>3 DEF MakesFirst, Created, NewRecord
  <2>4. CASE MakesNext
    <3> DEFINE i == it + 1
    <3>1. /\ id = Len(ledger.records) + 1
          /\ ledger'.records[id] = NewRecord(Name(Current, i), info, Link(Current, i))
          /\ Again(Current, ledger'.records[info])
          /\ info \in Filed(ledger'.results)
          /\ pc = "procedure"
      BY <1>7, <2>4 DEF MakesNext, Created
    <3>2. /\ ledger'.records[id].name = Name(Current, i)
          /\ ledger'.records[id].parent = info
          /\ Link(Current, i) = "RETRY"
      BY <1>7, <3>1 DEF NewRecord
    <3>3. i > 0
      BY DEF Inv, TypeOK
    <3>4. Current.retry # None
      BY <3>2, <3>3 DEF Link
    <3>5. Name(Current, i) = IterationName(Current.name, "retry", i)
      BY <3>3, <3>4 DEF Name
    <3>6. info \in BadIn(ledger'.results)
      <4>1. Failed(ledger'.records[info])
        BY <3>1, <3>4 DEF Again
      <4> QED
        BY <1>3, <3>1, <4>1, FiledBad
    <3>7. info = id - 1 /\ id > 1
      BY <1>5, <3>1 DEF Latest, TestStages
    <3>8. ledger'.records[info].name.test = Current.name
      BY <1>3, <1>5, <3>1 DEF Origin, StageOf, TestStages, Current
    <3> QED
      BY <3>2, <3>5, <3>6, <3>7, <3>8 DEF IterationName
  <2> QED
    BY <1>1, <2>1, <2>2, <2>3, <2>4
<1> QED
  BY <1>2, <1>6, <1>7 DEF Chained

(* A list of a sound ledger holds records that exist.                        *)
LEMMA ResultLists ==
  ASSUME NEW l, SoundLedger(l)
  PROVE  l.results \in [Lists -> Seq(DOMAIN l.records)]
<1>1. ASSUME NEW list \in Lists
      PROVE  l.results[list] \in Seq(DOMAIN l.records)
  <2> DEFINE s == l.results[list]
  <2>1. s \in Seq(Nat) /\ Ids(s) \subseteq DOMAIN l.records
    BY FiledExist DEF SoundLedger, LedgerType, Filed
  <2> HIDE DEF s
  <2>2. \A i \in 1..Len(s) : s[i] \in DOMAIN l.records
    BY <2>1 DEF Ids
  <2>3. s \in Seq(DOMAIN l.records)
    BY <2>1, <2>2
  <2> QED
    BY <2>3 DEF s
<1>2. l.results \in [Lists -> Seq(Nat)]
  BY DEF SoundLedger, LedgerType
<1> QED
  BY <1>1, <1>2

(* What is_all_pass needs of the results of one class.                       *)
Counts == Once(ledger.results) /\ Latest /\ Chain({})

(* With that is_all_pass counts right.                                       *)
LEMMA CountsVerdict ==
  ASSUME Inv, Counts
  PROVE  VerdictSound
<1>1. SoundLedger(ledger) /\ ledger.records \in Seq(RecordType)
  BY InvSound DEF Inv, TypeOK, LedgerType
<1>2. ledger.results \in [Lists -> Seq(DOMAIN ledger.records)]
  BY <1>1, ResultLists
<1>3. Verdictable(ledger.records, ledger.results)
  BY <1>1, <1>2 DEF Verdictable, Counts, Once, Chain, Lists, SoundLedger,
     WellFiled, BadIn
<1> QED
  BY <1>1, <1>3, VerdictOf DEF VerdictSound, FailedIds, Errors, Passed, BadIn

(* A class run begins with empty lists and one record, which is no retry.     *)
LEMMA CountsInit ==
  ASSUME Init
  PROVE  Counts
<1>1. \A list \in Lists : ledger.results[list] = <<>>
  BY DEF Init, EmptyResult
<1>2. \A id \in DOMAIN ledger.records : ledger.records[id].link = "none"
  BY DEF Init, NewRecord
<1> QED
  BY <1>1, <1>2
     DEF Counts, Once, IsInjective, Latest, Chain, Chained, Init, TestStages

(* Every step keeps what is_all_pass needs.                                  *)
LEMMA CountsStep ==
  ASSUME Inv, StageOf, Counts, [Next]_vars
  PROVE  Counts'
<1>1. Once(ledger'.results)
  BY StepSound, StepWrites, FilesOnce DEF Writes, Counts
<1>2. Latest' /\ Chain({})'
  BY ChainStep DEF Counts, Chain
<1> QED
  BY <1>1, <1>2 DEF Counts

(* is_all_pass: in every state of every class run, whatever tests are retried  *)
(* how often, the difference of counts it computes is zero just when every   *)
(* failed or erroneous record is forgiven by a later passing retry.          *)
THEOREM VerdictCorrect == Spec => []VerdictSound
<1>1. Init => StageOf /\ Counts
  BY InitStageOf, CountsInit
<1>2. Inv /\ StageOf /\ Counts /\ [Next]_vars => StageOf' /\ Counts'
  BY StageOfStep, CountsStep
<1>3. Inv /\ Counts => VerdictSound
  BY CountsVerdict
<1> QED
  BY <1>1, <1>2, <1>3, Invariance, PTL DEF Spec

-----------------------------------------------------------------------------
(* Iterations *)

(* A record of one iteration of a retried or repeated test.                  *)
Iterated(r) == r.name.kind \in {"retry", "repeat"}

(* Permitted, of any records.                                                *)
Fits(records, id, m) ==
  LET i == records[id].name.i
  IN /\ records[id].name = Name(m, i)
     /\ i > 0 => id > 1 /\ records[id - 1].name = Name(m, i - 1)
     /\ m.retry # None => i < m.retry /\ (i > 0 => Failed(records[id - 1]))
     /\ m.retry = None =>
          /\ i < m.repeat
          /\ Threshold(m) \in 1..i =>
               \E j \in id - Threshold(m)..id - 1 : ~Failed(records[j])

(* The iterations before one are final, so what it followed stays true.       *)
Following ==
  \A id \in DOMAIN ledger.records :
    Iterated(ledger.records[id]) =>
      /\ \E k \in DOMAIN plan.methods :
           Fits(ledger.records, id, plan.methods[k])
      /\ id - ledger.records[id].name.i..id - 1 \subseteq Final(ledger)

(* What the loops over the iterations know of those before the current one:   *)
(* streak counts the failures that end in it, and stays below the threshold.  *)
InStep ==
  pc \in TestStages =>
    /\ ledger.records[info].name = Name(Current, it)
    /\ info - it..info - 1 \subseteq Final(ledger)
    /\ \A w \in 1..it :
         (\A j \in info - w..info - 1 : Failed(ledger.records[j])) => w <= streak
    /\ Current.retry = None /\ Current.repeat # None /\ Threshold(Current) > 0
         => streak < Threshold(Current)

(* The plan asks for no test twice.                                          *)
AskedOnce ==
  \A j, k \in DOMAIN plan.methods :
    plan.methods[j].name = plan.methods[k].name => j = k

(* The iterations of no test but the current one and those before have run.   *)
Behind ==
  /\ pc \in {"pre_run", "setup_class"} =>
       \A id \in DOMAIN ledger.records : ~Iterated(ledger.records[id])
  /\ pc \in TestStages =>
       \A id \in DOMAIN ledger.records :
         Iterated(ledger.records[id]) =>
           \E k \in 1..n : /\ ledger.records[id].name.test = plan.methods[k].name
                           /\ k = n => ledger.records[id].name.i <= it
  /\ AskedOnce =>
       \A id, j \in DOMAIN ledger.records :
         /\ Iterated(ledger.records[id]) /\ Iterated(ledger.records[j])
         /\ ledger.records[id].name = ledger.records[j].name
         => id = j

(* All three are needed for IterationPolicy to be inductive: it speaks of the  *)
(* records that were filed, and these of how the loops came to make them.    *)
Iterating == Following /\ InStep /\ Behind

(* The name of an iteration tells which it is.                               *)
LEMMA NameTells ==
  ASSUME NEW m, NEW i
  PROVE  /\ Name(m, i).test = m.name
         /\ Name(m, i).kind \in {"retry", "repeat"} =>
              /\ Name(m, i).i = i
              /\ m.retry # None \/ m.repeat # None
         /\ m.retry = None /\ m.repeat = None => Name(m, i).kind = "bare"
  BY DEF Name, IterationName, BareName

(* run reaches its loop from setup_class only.                               *)
LEMMA EarlyStage ==
  ASSUME Inv, [Next]_vars, pc' \in {"pre_run", "setup_class"}
  PROVE  pc \in {"pre_run", "setup_class"}
<1>1. ASSUME pc' = "setup_class" PROVE pc \in {"pre_run", "setup_class"}
  <2>1. \A c \in Controllers : Register(c) => pc' = pc
    BY DEF Register
  <2>2. \A x \in UserExpects : PreRunReturns(x) => pc = "pre_run"
    BY DEF PreRunReturns
  <2>3. SetupClassPasses \/ SetupClassExpects => pc = "setup_class"
    BY DEF SetupClassPasses, SetupClassExpects
  <2>4. \A out \in UserOutcomes, x \in UserExpects :
          /\ ~PreRunFails(out, x) /\ ~SetupClassAborts(out, x)
          /\ ~SetupClassRaises(out, x) /\ ~ClassOnFailAborts(out, x)
          /\ ~ClassOnFailReturns(out, x) /\ ~SetupTest(out, x)
          /\ ~TestMethod(out, x) /\ ~TeardownTest(out, x)
    BY <1>1 DEF PreRunFails, SetupClassAborts, SetupClassRaises, ClassOnFailAborts,
         ClassOnFailReturns, SetupTest, TestMethod, TeardownTest, SkipAndLeave
  <2>5. \A out \in UserOutcomes, x \in UserExpects :
          ~Procedure(out, x) /\ ~TeardownClass(out, x)
    BY <1>1, ProcedureFiled, TeardownClassInv
  <2>6. \A out \in UserOutcomes : GetInfo(out) \/ Destroy(out) => pc' = pc
    BY DEF GetInfo, Destroy
  <2>7. SkipNext => pc' = pc
    BY DEF SkipNext
  <2>8. ~SkipDone /\ ~InfoRecorded /\ ~FinishCleanUp
    BY <1>1 DEF SkipDone, LeaveRun, EnterStage, InfoRecorded, FinishCleanUp
  <2>9. UNCHANGED vars => pc' = pc
    BY DEF vars
  <2> QED
    BY <1>1, <2>1, <2>2, <2>3, <2>4, <2>5, <2>6, <2>7, <2>8, <2>9
       DEF Next, ClassStep, Finished
<1> QED
  BY <1>1, PreRunFirst

(* What a step leaves of the records there are.                              *)
LEMMA FinalKept ==
  ASSUME Inv, [Next]_vars
  PROVE  /\ Final(ledger) \subseteq Final(ledger')
         /\ Final(ledger) \subseteq DOMAIN ledger.records
         /\ \A id \in Final(ledger) : ledger'.records[id] = ledger.records[id]
         /\ \A id \in DOMAIN ledger.records :
              ledger'.records[id].name = ledger.records[id].name
         /\ Len(ledger.records) \in Nat /\ Len(ledger'.records) \in Nat
         /\ DOMAIN ledger.records = 1..Len(ledger.records)
         /\ DOMAIN ledger'.records = 1..Len(ledger'.records)
         /\ ledger.records \in Seq(RecordType)
         /\ info \in 1..Len(ledger.records)
         /\ plan' = plan
<1>1. SoundLedger(ledger) /\ SoundLedger(ledger')
  BY StepSound
<1>2. PICK touched, new, shown : Writes(ledger, ledger', touched, new, shown)
  BY StepWrites
<1>3. Final(ledger) \subseteq DOMAIN ledger.records
  BY <1>1, FiledExist, FinalFiled
<1>4. \A id \in Final(ledger) : ledger'.records[id] = ledger.records[id]
  BY <1>2, <1>3 DEF Writes, Touches
<1>5. Final(ledger) \subseteq Final(ledger')
  <2>1. Executed \cup Skipped \subseteq (Executed \cup Skipped)'
    BY ProgressGrows
  <2> QED
    BY <2>1 DEF Executed, Skipped, Final
<1>6. info \in 1..Len(ledger.records)
  BY DEF Inv, TypeOK
<1> QED
  BY <1>1, <1>3, <1>4, <1>5, <1>6, StepSound, PlanStays DEF SoundLedger, LedgerType

(* What an iteration follows stays as it was.                                *)
LEMMA FitsStays ==
  ASSUME NEW records, NEW later, NEW S \in SUBSET Int, NEW id \in Nat, NEW m,
         Fits(records, id, m), records[id].name.i \in Nat, Threshold(m) \in Int,
         later[id].name = records[id].name,
         \A j \in S : later[j] = records[j],
         id - records[id].name.i..id - 1 \subseteq S
  PROVE  Fits(later, id, m)
<1> DEFINE i == records[id].name.i
           t == Threshold(m)
<1>1. i \in Nat /\ t \in Int
  OBVIOUS
<1>2. i > 0 => id - 1 \in S
  <2> HIDE DEF i
  <2>1. id - i..id - 1 \subseteq S
    BY DEF i
  <2> QED
    BY <1>1, <2>1
<1>3. t \in 1..i => id - t..id - 1 \subseteq S
  <2> HIDE DEF i, t
  <2>1. id - i..id - 1 \subseteq S
    BY DEF i
  <2> QED
    BY <1>1, <2>1
<1>4. i > 0 => later[id - 1] = records[id - 1]
  BY <1>2
<1>5. t \in 1..i => \A j \in id - t..id - 1 : later[j] = records[j]
  BY <1>3
<1> QED
  BY <1>4, <1>5 DEF Fits

(* The requests of a plan are well-typed.                                    *)
LEMMA MethodType ==
  ASSUME Inv, NEW k \in DOMAIN plan.methods
  PROVE  /\ plan.methods[k] \in Methods
         /\ Threshold(plan.methods[k]) \in Int
         /\ DOMAIN plan.methods = 1..Len(plan.methods)
         /\ Len(plan.methods) \in Nat
<1>1. plan.methods \in Seq(Methods)
  BY PlanType DEF Inv, TypeOK
<1>2. plan.methods[k] \in Methods
  BY <1>1
<1> QED
  BY <1>1, <1>2 DEF Methods, Threshold

(* An iteration there was keeps what it follows.                             *)
LEMMA FollowingOld ==
  ASSUME Inv, Following, [Next]_vars, NEW id \in DOMAIN ledger.records,
         Iterated(ledger'.records[id])
  PROVE  /\ \E k \in DOMAIN plan'.methods :
              Fits(ledger'.records, id, plan'.methods[k])
         /\ id - ledger'.records[id].name.i..id - 1 \subseteq Final(ledger')
<1>1. /\ ledger'.records[id].name = ledger.records[id].name
      /\ plan' = plan /\ id \in Nat
  BY FinalKept
<1>2. /\ \E k \in DOMAIN plan.methods :
           Fits(ledger.records, id, plan.methods[k])
      /\ id - ledger.records[id].name.i..id - 1 \subseteq Final(ledger)
  BY <1>1 DEF Following, Iterated
<1>3. ledger.records[id].name.i \in Nat
  <2>1. ledger.records[id] \in RecordType
    BY FinalKept
  <2> QED
    BY <2>1 DEF RecordType, Names
<1>4. Final(ledger) \in SUBSET Int
  BY FinalKept
<1>5. PICK k \in DOMAIN plan.methods : Fits(ledger.records, id, plan.methods[k])
  BY <1>2
<1>6. Threshold(plan.methods[k]) \in Int
  BY MethodType
<1>7. Fits(ledger'.records, id, plan.methods[k])
  BY <1>1, <1>2, <1>3, <1>4, <1>5, <1>6, FinalKept, FitsStays
<1> QED
  BY <1>1, <1>2, <1>7, FinalKept

(* A step that begins no iteration of a test.                                *)
LEMMA IteratingNone ==
  ASSUME Inv, Iterating, [Next]_vars, MakesNone \/ MakesPlain
  PROVE  Iterating'
<1>0. /\ DOMAIN ledger.records \subseteq DOMAIN ledger'.records
      /\ \A id \in DOMAIN ledger'.records \ DOMAIN ledger.records :
           ~Iterated(ledger'.records[id])
      /\ pc' \in TestStages =>
           pc \in TestStages /\ UNCHANGED <<plan, n, it, streak, info>>
  <2>1. CASE MakesNone
    BY <2>1, FinalKept DEF MakesNone
  <2>2. CASE MakesPlain
    BY <2>2 DEF MakesPlain, Created, Iterated
  <2> QED
    BY <2>1, <2>2
<1>1. \A id \in DOMAIN ledger.records :
        ledger'.records[id].name = ledger.records[id].name
  BY FinalKept
<1>2. Following'
  BY <1>0, FollowingOld DEF Following, Iterating
<1>3. InStep'
  <2> SUFFICES ASSUME pc' \in TestStages PROVE InStep'
    BY DEF InStep
  <2>1. pc \in TestStages /\ UNCHANGED <<plan, n, it, streak, info>>
    BY <1>0
  <2>2. /\ ledger.records[info].name = Name(Current, it)
        /\ info - it..info - 1 \subseteq Final(ledger)
        /\ \A w \in 1..it :
             (\A j \in info - w..info - 1 : Failed(ledger.records[j])) => w <= streak
        /\ Current.retry = None /\ Current.repeat # None /\ Threshold(Current) > 0
             => streak < Threshold(Current)
    BY <2>1 DEF Iterating, InStep
  <2>3. it \in Nat /\ info \in Nat /\ info \in DOMAIN ledger.records
    BY FinalKept DEF Inv, TypeOK
  <2>4. \A w \in 1..it : \A j \in info - w..info - 1 :
          ledger'.records[j] = ledger.records[j]
    <3> SUFFICES ASSUME NEW w \in 1..it, NEW j \in info - w..info - 1
                 PROVE  ledger'.records[j] = ledger.records[j]
      OBVIOUS
    <3>1. j \in info - it..info - 1
      BY <2>3
    <3> QED
      BY <2>2, <3>1, FinalKept
  <2>5. Current' = Current
    BY <2>1 DEF Current
  <2>6. info - it..info - 1 \subseteq Final(ledger')
    BY <2>2, FinalKept
  <2>7. \A w \in 1..it :
          (\A j \in info - w..info - 1 : Failed(ledger'.records[j])) => w <= streak
    BY <2>2, <2>4
  <2>8. ledger'.records[info].name = Name(Current, it)
    BY <1>1, <2>2, <2>3
  <2> QED
    BY <2>1, <2>2, <2>5, <2>6, <2>7, <2>8 DEF InStep
<1>4. Behind'
  <2>1. \A id \in DOMAIN ledger'.records :
          Iterated(ledger'.records[id]) =>
            /\ id \in DOMAIN ledger.records /\ Iterated(ledger.records[id])
            /\ ledger'.records[id].name = ledger.records[id].name
    BY <1>0, <1>1 DEF Iterated
  <2>2. plan' = plan
    BY FinalKept
  <2>3. pc' \in {"pre_run", "setup_class"} =>
          \A id \in DOMAIN ledger'.records : ~Iterated(ledger'.records[id])
    BY <2>1, EarlyStage DEF Iterating, Behind
  <2>4. pc' \in TestStages =>
          \A id \in DOMAIN ledger'.records :
            Iterated(ledger'.records[id]) =>
              \E k \in 1..n' :
                /\ ledger'.records[id].name.test = plan'.methods[k].name
                /\ k = n' => ledger'.records[id].name.i <= it'
    BY <1>0, <2>1, <2>2 DEF Iterating, Behind
  <2>5. AskedOnce' =>
          \A id, j \in DOMAIN ledger'.records :
            /\ Iterated(ledger'.records[id]) /\ Iterated(ledger'.records[j])
            /\ ledger'.records[id].name = ledger'.records[j].name
            => id = j
    BY <2>1, <2>2 DEF Iterating, Behind, AskedOnce
  <2> QED
    BY <2>3, <2>4, <2>5 DEF Behind
<1> QED
  BY <1>2, <1>3, <1>4 DEF Iterating

(* What a new record of an iteration means for all the others.               *)
LEMMA BehindNew ==
  ASSUME Inv, Iterating, [Next]_vars, pc' = "setup_test", NEW name,
         NEW parent, NEW link, Created(NewRecord(name, parent, link)),
         n' \in DOMAIN plan.methods, name.test = plan.methods[n'].name,
         Iterated(NewRecord(name, parent, link)) => name.i = it',
         \/ pc \in TestStages /\ n' = n /\ it' = it + 1
         \/ it' = 0 /\ Comes(n')
  PROVE  Behind'
<1> DEFINE new == NewRecord(name, parent, link)
           last == Len(ledger.records) + 1
<1>1. /\ plan' = plan /\ n \in Nat /\ it \in Nat /\ n' \in Nat
      /\ \A id \in DOMAIN ledger.records :
           ledger'.records[id].name = ledger.records[id].name
      /\ DOMAIN plan.methods = 1..Len(plan.methods)
      /\ Len(plan.methods) \in Nat
      /\ n' >= 1
  BY FinalKept, MethodType DEF Inv, TypeOK
<1>2. new.name = name
  BY DEF NewRecord
<1> HIDE DEF new
<1>3. /\ DOMAIN ledger'.records = DOMAIN ledger.records \cup {last}
      /\ ledger'.records[last] = new
  BY DEF Created, new
<1> HIDE DEF last
<1>4. \A id \in DOMAIN ledger.records :
        Iterated(ledger'.records[id]) <=> Iterated(ledger.records[id])
  BY <1>1 DEF Iterated
<1>5. ASSUME NEW id \in DOMAIN ledger.records, Iterated(ledger.records[id])
      PROVE  \E k \in 1..n' :
               /\ ledger.records[id].name.test = plan.methods[k].name
               /\ k = n' => ledger.records[id].name.i < it'
  <2>1. pc # "setup_class"
    BY <1>5 DEF Iterating, Behind
  <2>2. pc \in TestStages
    BY <2>1 DEF Comes, TestStages
  <2>3. PICK k \in 1..n :
          /\ ledger.records[id].name.test = plan.methods[k].name
          /\ k = n => ledger.records[id].name.i <= it
    BY <1>5, <2>2 DEF Iterating, Behind
  <2>4. ledger.records[id].name.i \in Nat
    <3>1. ledger.records[id] \in RecordType
      BY FinalKept
    <3> QED
      BY <3>1 DEF RecordType, Names
  <2>5. CASE n' = n /\ it' = it + 1
    BY <1>1, <2>3, <2>4, <2>5
  <2>6. CASE n' = n + 1
    BY <1>1, <2>3, <2>6
  <2> QED
    BY <2>1, <2>5, <2>6 DEF Comes
<1>6. ASSUME AskedOnce, NEW id \in DOMAIN ledger.records,
             Iterated(ledger.records[id]), Iterated(new)
      PROVE  ledger.records[id].name # name
  <2>1. PICK k \in 1..n' :
          /\ ledger.records[id].name.test = plan.methods[k].name
          /\ k = n' => ledger.records[id].name.i < it'
    BY <1>5, <1>6
  <2>2. CASE ledger.records[id].name = name
    <3>1. k \in DOMAIN plan.methods
      BY <1>1
    <3>2. k = n'
      BY <1>6, <2>1, <2>2, <3>1 DEF AskedOnce
    <3>3. name.i = it' /\ name.i < it'
      BY <1>6, <2>1, <2>2, <3>2 DEF new
    <3>4. it' \in Nat
      BY <1>1
    <3> QED
      BY <3>3, <3>4
  <2> QED
    BY <2>2
<1>7. AskedOnce' =>
        \A id, j \in DOMAIN ledger'.records :
          /\ Iterated(ledger'.records[id]) /\ Iterated(ledger'.records[j])
          /\ ledger'.records[id].name = ledger'.records[j].name
          => id = j
  <2> SUFFICES ASSUME AskedOnce',
                      NEW id \in DOMAIN ledger'.records,
                      NEW j \in DOMAIN ledger'.records,
                      Iterated(ledger'.records[id]), Iterated(ledger'.records[j]),
                      ledger'.records[id].name = ledger'.records[j].name
               PROVE  id = j
    OBVIOUS
  <2>1. AskedOnce
    BY <1>1 DEF AskedOnce
  <2>2. CASE id \in DOMAIN ledger.records /\ j \in DOMAIN ledger.records
    BY <1>1, <1>4, <2>1, <2>2 DEF Iterating, Behind
  <2>3. CASE id \in DOMAIN ledger.records /\ j = last
    BY <1>1, <1>2, <1>3, <1>4, <1>6, <2>1, <2>3
  <2>4. CASE id = last /\ j \in DOMAIN ledger.records
    BY <1>1, <1>2, <1>3, <1>4, <1>6, <2>1, <2>4
  <2> QED
    BY <1>3, <2>2, <2>3, <2>4
<1>8. ASSUME NEW id \in DOMAIN ledger'.records, Iterated(ledger'.records[id])
      PROVE  \E k \in 1..n' :
               /\ ledger'.records[id].name.test = plan'.methods[k].name
               /\ k = n' => ledger'.records[id].name.i <= it'
  <2>1. CASE id \in DOMAIN ledger.records
    <3>1. PICK k \in 1..n' :
            /\ ledger.records[id].name.test = plan.methods[k].name
            /\ k = n' => ledger.records[id].name.i < it'
      BY <1>4, <1>5, <1>8, <2>1
    <3>2. ledger.records[id].name.i \in Nat /\ it' \in Nat
      <4>1. ledger.records[id] \in RecordType
        BY <2>1, FinalKept
      <4> QED
        BY <1>1, <4>1 DEF RecordType, Names
    <3>3. k = n' => ledger.records[id].name.i <= it'
      BY <3>1, <3>2
    <3> QED
      BY <1>1, <2>1, <3>1, <3>3
  <2>2. CASE id = last
    <3>1. ledger'.records[id].name = name /\ name.i = it'
      BY <1>2, <1>3, <1>8, <2>2 DEF new
    <3>2. n' \in 1..n' /\ it' <= it'
      BY <1>1
    <3> QED
      BY <1>1, <3>1, <3>2
  <2> QED
    BY <1>3, <2>1, <2>2
<1>9. pc' \notin {"pre_run", "setup_class"}
  OBVIOUS
<1> QED
  BY <1>7, <1>8, <1>9 DEF Behind

(* The first iteration of a test follows none.                               *)
LEMMA IteratingFirst ==
  ASSUME Inv, Iterating, [Next]_vars, MakesFirst
  PROVE  Iterating'
<1> DEFINE m == plan.methods[n']
           last == Len(ledger.records) + 1
           name == Name(m, 0)
<1>1. /\ pc' = "setup_test" /\ it' = 0 /\ streak' = 0 /\ info' = last
      /\ n' \in DOMAIN plan.methods /\ ~Invalid(m) /\ Comes(n')
      /\ Created(NewRecord(name, 0, "none"))
      /\ plan' = plan
  BY FinalKept DEF MakesFirst
<1>2. m \in Methods /\ Threshold(m) \in Int
  BY <1>1, MethodType
<1> HIDE DEF m
<1>3. name.test = m.name
  BY NameTells
<1>4. name.kind \in {"retry", "repeat"} =>
        name.i = 0 /\ m.retry = None /\ m.repeat # None
  BY DEF Name, IterationName, BareName
<1> HIDE DEF name
<1>5. /\ DOMAIN ledger'.records = DOMAIN ledger.records \cup {last}
      /\ ledger'.records[last].name = name
      /\ Iterated(NewRecord(name, 0, "none")) <=> name.kind \in {"retry", "repeat"}
      /\ last \in Nat
  BY <1>1, FinalKept DEF Created, NewRecord, Iterated
<1> HIDE DEF last
<1>6. ASSUME Iterated(ledger'.records[last])
      PROVE  /\ Fits(ledger'.records, last, m)
             /\ last - ledger'.records[last].name.i..last - 1 \subseteq Final(ledger')
  <2>1. name.i = 0 /\ m.retry = None /\ m.repeat # None
    BY <1>4, <1>5, <1>6 DEF Iterated
  <2>2. 0 < m.repeat
    BY <1>1, <1>2, <2>1 DEF Invalid, Methods, None
  <2>3. Fits(ledger'.records, last, m)
    BY <1>2, <1>5, <2>1, <2>2 DEF Fits, name
  <2>4. last - 0..last - 1 = {}
    BY <1>5
  <2> QED
    BY <1>5, <2>1, <2>3, <2>4
<1>7. Following'
  <2>1. ASSUME NEW id \in DOMAIN ledger'.records, Iterated(ledger'.records[id])
        PROVE  /\ \E k \in DOMAIN plan'.methods :
                    Fits(ledger'.records, id, plan'.methods[k])
               /\ id - ledger'.records[id].name.i..id - 1 \subseteq Final(ledger')
    <3>1. CASE id \in DOMAIN ledger.records
      BY <2>1, <3>1, FollowingOld DEF Iterating
    <3>2. CASE id = last
      BY <1>1, <1>6, <2>1, <3>2 DEF m
    <3> QED
      BY <1>5, <3>1, <3>2
  <2> QED
    BY <2>1 DEF Following
<1>8. InStep'
  <2>1. Current' = m
    BY <1>1 DEF Current, m
  <2>2. ledger'.records[info'].name = Name(m, 0)
    BY <1>1, <1>5 DEF name
  <2>3. info' - it'..info' - 1 = {} /\ 1..it' = {}
    BY <1>1, <1>5
  <2>4. Threshold(m) > 0 => streak' < Threshold(m)
    BY <1>1, <1>2
  <2> QED
    BY <1>1, <2>1, <2>2, <2>3, <2>4 DEF InStep
<1>9. Behind'
  BY <1>1, <1>3, <1>4, <1>5, BehindNew DEF m
<1> QED
  BY <1>7, <1>8, <1>9 DEF Iterating

(* The next iteration: the one before is final, and Again let it follow.      *)
LEMMA IteratingNext ==
  ASSUME Inv, StageOf, Latest, Iterating, [Next]_vars, MakesNext
  PROVE  Iterating'
<1> DEFINE m == Current
           r == ledger'.records[info]
           i == it + 1
           last == Len(ledger.records) + 1
           name == Name(m, i)
           t == Threshold(m)
<1>0. pc = "procedure" /\ pc \in TestStages
  BY DEF MakesNext, TestStages
<1>1. /\ pc' = "setup_test" /\ n' = n /\ it' = i
      /\ streak' = Streak(r) /\ info' = last /\ info' = info + 1
      /\ Again(m, r) /\ info \in Filed(ledger'.results)
      /\ Created(NewRecord(name, info, Link(m, i)))
      /\ plan' = plan /\ n \in DOMAIN plan.methods
      /\ it \in Nat /\ i \in Nat /\ i > 0 /\ streak \in Nat /\ info \in Nat
      /\ info \in DOMAIN ledger.records
  <2>1. n \in 1..Len(plan.methods) /\ plan.methods \in Seq(Methods)
    BY <1>0, PlanType DEF Inv, CurrentTest, TypeOK
  <2>2. info = Len(ledger.records)
    BY <1>0 DEF Latest
  <2> QED
    BY <1>0, <2>1, <2>2, FinalKept DEF MakesNext, Inv, TypeOK
<1>2. m \in Methods /\ t \in Int
  BY <1>1, MethodType DEF Current
<1>3. m = plan.methods[n]
  BY DEF Current
<1>4. /\ ledger.records[info].name = Name(m, it)
      /\ info - it..info - 1 \subseteq Final(ledger)
      /\ \A w \in 1..it :
           (\A j \in info - w..info - 1 : Failed(ledger.records[j])) => w <= streak
      /\ m.retry = None /\ m.repeat # None /\ t > 0 => streak < t
  BY <1>0 DEF Iterating, InStep
<1>5. info \in Final(ledger')
  <2>1. ledger'.records[info].name.kind # "stage"
    BY <1>0, <1>1, FinalKept DEF Inv, StageRecord
  <2>2. SoundLedger(ledger')
    BY StepSound
  <2> QED
    BY <1>1, <2>1, <2>2, TestFiled DEF Final
<1>6. info' - i..info' - 1 \subseteq Final(ledger')
  <2> SUFFICES ASSUME NEW j \in info' - i..info' - 1 PROVE j \in Final(ledger')
    OBVIOUS
  <2>1. j = info \/ j \in info - it..info - 1
    BY <1>1
  <2> QED
    BY <1>4, <1>5, <2>1, FinalKept
<1> HIDE DEF m, i, last, t
<1>7. name.test = m.name /\ (name.kind \in {"retry", "repeat"} => name.i = i)
  BY NameTells
<1>8. m.retry # None \/ m.repeat # None
  BY <1>1 DEF Again
<1> HIDE DEF name
<1>9. /\ DOMAIN ledger'.records = DOMAIN ledger.records \cup {last}
      /\ ledger'.records[last].name = name
      /\ Iterated(NewRecord(name, info, Link(m, i))) =>
           name.kind \in {"retry", "repeat"}
  BY <1>1, FinalKept DEF Created, NewRecord, Iterated, last
(* The failures that end in the record of this iteration. *)
<1>10. ASSUME NEW w \in 1..i,
              \A j \in info' - w..info' - 1 : Failed(ledger'.records[j])
       PROVE  w <= streak'
  <2>1. info \in info' - w..info' - 1
    BY <1>1
  <2>2. Failed(r)
    BY <1>10, <2>1
  <2>3. streak' = streak + 1
    BY <1>1, <2>2 DEF Streak
  <2>4. CASE w = 1
    BY <1>1, <2>3, <2>4
  <2>5. CASE w # 1
    <3> DEFINE v == w - 1
    <3>1. v \in 1..it
      BY <1>1, <2>5 DEF i
    <3>2. ASSUME NEW j \in info - v..info - 1 PROVE Failed(ledger.records[j])
      <4>1. j \in info' - w..info' - 1 /\ j \in info - it..info - 1
        BY <1>1, <3>1
      <4> QED
        BY <1>4, <1>10, <4>1, FinalKept
    <3> HIDE DEF v
    <3>3. v <= streak
      BY <1>4, <3>1, <3>2
    <3> QED
      BY <1>1, <2>3, <3>3 DEF v
  <2> QED
    BY <2>4, <2>5
<1>11. m.retry = None /\ m.repeat # None /\ t > 0 => streak' < t
  <2> SUFFICES ASSUME m.retry = None, m.repeat # None, t > 0 PROVE streak' < t
    OBVIOUS
  <2>1. streak < t /\ Streak(r) # t
    BY <1>1, <1>4 DEF Again, t
  <2> QED
    BY <1>1, <1>2, <2>1 DEF Streak
<1>12. InStep'
  <2>1. Current' = m
    BY <1>1 DEF Current, m
  <2>2. ledger'.records[info'].name = Name(m, i)
    BY <1>1, <1>9 DEF name
  <2> QED
    BY <1>1, <1>6, <1>10, <1>11, <2>1, <2>2 DEF InStep, t
<1>13. ASSUME Iterated(ledger'.records[last])
       PROVE  /\ Fits(ledger'.records, last, m)
              /\ last - ledger'.records[last].name.i..last - 1 \subseteq Final(ledger')
  <2>1. name.i = i
    BY <1>7, <1>9, <1>13 DEF Iterated
  <2>2. last - 1 = info /\ last > 1 /\ i - 1 = it /\ last = info'
    BY <1>1, FinalKept DEF i
  <2>3. ledger'.records[last - 1].name = Name(m, i - 1)
    BY <1>1, <1>4, <2>2, FinalKept
  <2>4. m.retry # None => i < m.retry /\ Failed(ledger'.records[last - 1])
    BY <1>1, <2>2 DEF Again, i
  <2>5. ASSUME m.retry = None
        PROVE  /\ i < m.repeat
               /\ t \in 1..i => \E j \in last - t..last - 1 : ~Failed(ledger'.records[j])
    <3>1. i < m.repeat /\ m.repeat # None
      BY <1>1, <2>5 DEF Again, i
    <3>2. ASSUME t \in 1..i, \A j \in last - t..last - 1 : Failed(ledger'.records[j])
          PROVE  FALSE
      <4>1. t <= streak'
        BY <1>10, <2>2, <3>2
      <4>2. streak' < t
        BY <1>2, <1>11, <2>5, <3>1, <3>2
      <4>3. streak' \in Int
        BY <1>1 DEF Streak
      <4> QED
        BY <1>2, <4>1, <4>2, <4>3
    <3> QED
      BY <3>1, <3>2
  <2>6. Fits(ledger'.records, last, m)
    BY <1>1, <1>9, <2>1, <2>2, <2>3, <2>4, <2>5 DEF Fits, name, t
  <2> QED
    BY <1>6, <1>9, <2>1, <2>2, <2>6
<1>14. Following'
  <2>1. ASSUME NEW id \in DOMAIN ledger'.records, Iterated(ledger'.records[id])
        PROVE  /\ \E k \in DOMAIN plan'.methods :
                    Fits(ledger'.records, id, plan'.methods[k])
               /\ id - ledger'.records[id].name.i..id - 1 \subseteq Final(ledger')
    <3>1. CASE id \in DOMAIN ledger.records
      BY <2>1, <3>1, FollowingOld DEF Iterating
    <3>2. CASE id = last
      BY <1>1, <1>3, <1>13, <2>1, <3>2
    <3> QED
      BY <1>9, <3>1, <3>2
  <2> QED
    BY <2>1 DEF Following
<1>15. Behind'
  BY <1>0, <1>1, <1>3, <1>7, <1>9, BehindNew DEF i
<1> QED
  BY <1>12, <1>14, <1>15 DEF Iterating

(* _exec_one_test_with_retry, _exec_one_test_with_repeat: in every class run,   *)
(* for every plan, a retry follows a failed iteration, no test runs more      *)
(* often than its count, no repeat follows as many failures in a row as its   *)
(* threshold, and what is asked for once runs no iteration twice.            *)
THEOREM IterationCorrect == Spec => []IterationPolicy
<1>1. Init => StageOf /\ Counts /\ Iterating
  <2> SUFFICES ASSUME Init PROVE StageOf /\ Counts /\ Iterating
    OBVIOUS
  <2>1. \A id \in DOMAIN ledger.records : ~Iterated(ledger.records[id])
    BY DEF Init, NewRecord, StageName, Iterated
  <2>2. Iterating
    BY <2>1 DEF Iterating, Following, InStep, Behind, Init, TestStages
  <2> QED
    BY <2>2, InitStageOf, CountsInit
<1>2. Inv /\ StageOf /\ Counts /\ Iterating /\ [Next]_vars
        => StageOf' /\ Counts' /\ Iterating'
  BY StageOfStep, CountsStep, StepMakes, IteratingNone, IteratingFirst,
     IteratingNext DEF Counts
<1>3. Inv /\ Iterating => IterationPolicy
  <2> SUFFICES ASSUME Inv, Iterating PROVE IterationPolicy
    OBVIOUS
  <2>1. Executed \cup Skipped \subseteq DOMAIN ledger.records
    <3>1. Final(ledger) \subseteq DOMAIN ledger.records
      BY InvSound, FiledExist, FinalFiled
    <3> QED
      BY <3>1 DEF Final, Executed, Skipped
  <2>2. \A id, k : Fits(ledger.records, id, plan.methods[k])
                     => Permitted(id, plan.methods[k])
    BY DEF Fits, Permitted
  <2>3. ASSUME NEW id \in Executed \cup Skipped,
               ledger.records[id].name.kind \in {"retry", "repeat"}
        PROVE  \E k \in DOMAIN plan.methods : Permitted(id, plan.methods[k])
    BY <2>1, <2>2, <2>3 DEF Iterating, Following, Iterated
  <2>4. ASSUME AskedOnce,
               NEW id \in Executed \cup Skipped, NEW j \in Executed \cup Skipped,
               ledger.records[id].name.kind \in {"retry", "repeat"},
               ledger.records[id].name = ledger.records[j].name
        PROVE  id = j
    BY <2>1, <2>4 DEF Iterating, Behind, Iterated
  <2> QED
    BY <2>3, <2>4 DEF IterationPolicy, AskedOnce
<1> QED
  BY <1>1, <1>2, <1>3, Invariance, PTL DEF Spec

-----------------------------------------------------------------------------
(* Programs *)

Marks(l, type) == {i \in DOMAIN l.file : l.file[i].type = type}

(* What the runner has counted and what the running class has filed. *)
AllFiled == Filed(total) \cup Filed(ledger.results)

(* The file shows these records as they are, but for those of setup_class. *)
Recounted(ids) ==
  \A id \in ids :
    \/ \E i \in Entries(ledger) :
         /\ ledger.file[i].rec = id
         /\ ledger.file[i].result = ledger.records[id].result
    \/ ledger.records[id].name = StageName("setup_class")

Kept ==
  /\ total \in [Lists -> Seq(Nat)]
  /\ Filed(total) \subseteq DOMAIN ledger.records

(* What a class run can write to was not counted, or is an ERROR. *)
Apart ==
  phase \in {"setup", "class"} =>
    /\ outcome = "ok"
    /\ info \notin Filed(total)
    /\ \A id \in Filed(total) : ledger.records[id].result # "none"
    /\ pc \in {"pre_run", "done"} /\ recorder.rec \in AllFiled =>
         ledger.records[recorder.rec].result = "ERROR"

Told ==
  /\ phase \in {"setup", "class"} =>
       /\ Recounted(AllFiled)
       /\ \A i \in Entries(ledger) : ledger.file[i].rec \in AllFiled
  /\ phase \in {"summary", "bed"} =>
       /\ Recounted(Filed(total))
       /\ outcome # "crash" =>
            \A i \in Entries(ledger) : ledger.file[i].rec \in Filed(total)

(* Which marks the file bears in each phase, and where. *)
Order ==
  /\ phase \in {"setup", "class", "summary"} => Marks(ledger, "SUMMARY") = {}
  /\ phase = "bed" => Marks(ledger, "SUMMARY") = {Len(ledger.file)}
  /\ phase # "exit" => Marks(ledger, "SUITE_INFO") = {}
  /\ phase = "setup" => mode = "suite_class" /\ ~ok
  /\ phase = "teardown" /\ ok =>
       Marks(ledger, "SUMMARY") = {Len(ledger.file)}

RunInv ==
  /\ Inv /\ StageOf
  /\ Kept /\ Apart /\ Told /\ Order
  /\ SuiteInfoClosesFile

-----------------------------------------------------------------------------
(* Records *)

(* What a concatenation holds. *)
LEMMA IdsConcat ==
  ASSUME NEW s \in Seq(Nat), NEW t \in Seq(Nat)
  PROVE  Ids(s \o t) = Ids(s) \cup Ids(t)
<1> DEFINE u == s \o t
<1>1. /\ u \in Seq(Nat) /\ Len(u) = Len(s) + Len(t)
      /\ Len(s) \in Nat /\ Len(t) \in Nat
      /\ DOMAIN s = 1..Len(s) /\ DOMAIN t = 1..Len(t) /\ DOMAIN u = 1..Len(u)
  OBVIOUS
<1>2. \A i \in 1..Len(s) : u[i] = s[i]
  OBVIOUS
<1>3. \A i \in 1..Len(t) : u[Len(s) + i] = t[i]
  OBVIOUS
<1> HIDE DEF u
<1>4. ASSUME NEW k \in Ids(u) PROVE k \in Ids(s) \cup Ids(t)
  <2>1. PICK i \in DOMAIN u : k = u[i]
    BY <1>4 DEF Ids
  <2>2. CASE i <= Len(s)
    BY <1>1, <1>2, <2>1, <2>2 DEF Ids
  <2>3. CASE i > Len(s)
    <3>1. i - Len(s) \in 1..Len(t) /\ Len(s) + (i - Len(s)) = i
      BY <1>1, <2>1, <2>3
    <3> QED
      BY <1>1, <1>3, <2>1, <3>1 DEF Ids
  <2> QED
    BY <1>1, <2>1, <2>2, <2>3
<1>5. ASSUME NEW i \in 1..Len(s) PROVE s[i] \in Ids(u)
  <2>1. i \in DOMAIN u
    BY <1>1
  <2> QED
    BY <1>2, <2>1 DEF Ids
<1>6. ASSUME NEW i \in 1..Len(t) PROVE t[i] \in Ids(u)
  <2>1. Len(s) + i \in DOMAIN u
    BY <1>1
  <2> QED
    BY <1>3, <2>1 DEF Ids
<1>7. Ids(s) \cup Ids(t) \subseteq Ids(u)
  BY <1>1, <1>5, <1>6 DEF Ids
<1> QED
  BY <1>4, <1>7 DEF u

(* TestResult.__add__: the sum holds what either of the two holds. *)
LEMMA MergeFiled ==
  ASSUME NEW a \in [Lists -> Seq(Nat)], NEW b \in [Lists -> Seq(Nat)]
  PROVE  /\ MergeResults(a, b) \in [Lists -> Seq(Nat)]
         /\ Filed(MergeResults(a, b)) = Filed(a) \cup Filed(b)
<1> DEFINE m == MergeResults(a, b)
<1>1. /\ m \in [Lists -> Seq(Nat)]
      /\ \A l \in Lists : m[l] = a[l] \o b[l]
  BY DEF MergeResults
<1> HIDE DEF m
<1>2. \A l \in Lists : Ids(m[l]) = Ids(a[l]) \cup Ids(b[l])
  BY <1>1, IdsConcat
<1>3. Filed(m) = Filed(a) \cup Filed(b)
  BY <1>2 DEF Filed
<1> QED
  BY <1>1, <1>3 DEF m

(* Nothing is filed in empty results. *)
LEMMA EmptyFiled ==
  /\ EmptyResult \in [Lists -> Seq(Nat)]
  /\ Filed(EmptyResult) = {}
<1>1. /\ EmptyResult \in [Lists -> Seq(Nat)]
      /\ \A l \in Lists : EmptyResult[l] = <<>>
  BY DEF EmptyResult
<1>2. \A l \in Lists : Ids(EmptyResult[l]) = {}
  BY <1>1 DEF Ids
<1> QED
  BY <1>1, <1>2 DEF Filed

(* A filed record has a result. *)
LEMMA FiledResult ==
  ASSUME NEW l, SoundLedger(l), NEW id \in Filed(l.results)
  PROVE  l.records[id].result # "none"
<1>1. /\ id \in UNION {Ids(l.results[list]) : list \in Lists}
      /\ WellFiled(l)
  BY DEF Filed, SoundLedger
<1> QED
  BY <1>1 DEF WellFiled, Lists

(* The entry, if any, that a step of a class run adds to the file is one of a  *)
(* record or of what a class run notes.                                      *)
LEMMA WritesEntries ==
  ASSUME NEW l, NEW m, SoundLedger(l), SoundLedger(m), NEW touched, NEW new,
         NEW shown, Writes(l, m, touched, new, shown)
  PROVE  /\ \A type \in {"SUMMARY", "SUITE_INFO"} :
              Marks(m, type) = Marks(l, type)
         /\ \A i \in Entries(l) : i \in Entries(m) /\ m.file[i] = l.file[i]
         /\ \A i \in Entries(m) : \/ i \in Entries(l) /\ m.file[i] = l.file[i]
                                  \/ m.file[i].rec \in shown
         /\ \A id \in shown : \E i \in Entries(m) :
              /\ m.file[i].rec = id
              /\ m.file[i].result = m.records[id].result
<1>1. l.file \in Seq(EntryType) /\ m.records \in Seq(RecordType)
  BY DEF SoundLedger, LedgerType
<1> DEFINE last == Len(l.file) + 1
<1>2. ASSUME NEW entry \in EntryType, m.file = Append(l.file, entry)
      PROVE  /\ DOMAIN m.file = DOMAIN l.file \cup {last}
             /\ last \notin DOMAIN l.file
             /\ m.file[last] = entry
             /\ \A i \in DOMAIN l.file : m.file[i] = l.file[i]
  BY <1>1, <1>2, AppendAt
<1>3. CASE shown = {} /\ m.file = l.file
  BY <1>3 DEF Marks, Entries
<1>4. ASSUME NEW type \in Notes, shown = {},
             m.file = Append(l.file, Entry(type, 0, "none"))
      PROVE  /\ \A t \in {"SUMMARY", "SUITE_INFO"} : Marks(m, t) = Marks(l, t)
             /\ Entries(m) = Entries(l)
             /\ \A i \in Entries(l) : m.file[i] = l.file[i]
  <2> DEFINE entry == Entry(type, 0, "none")
  <2>1. entry \in EntryType /\ entry.type \in Notes
    BY DEF Entry, EntryType, EntryTypes, Notes, Results
  <2> HIDE DEF entry
  <2>2. /\ DOMAIN m.file = DOMAIN l.file \cup {last}
        /\ last \notin DOMAIN l.file
        /\ m.file[last] = entry
        /\ \A i \in DOMAIN l.file : m.file[i] = l.file[i]
    BY <1>2, <1>4, <2>1 DEF entry
  <2> HIDE DEF last
  <2> QED
    BY <2>1, <2>2 DEF Marks, Entries, Notes
<1>5. ASSUME NEW id \in DOMAIN m.records, shown = {id},
             m.file = Append(l.file, Entry("RECORD", id, m.records[id].result))
      PROVE  /\ \A t \in {"SUMMARY", "SUITE_INFO"} : Marks(m, t) = Marks(l, t)
             /\ Entries(m) = Entries(l) \cup {last}
             /\ m.file[last].rec = id
             /\ m.file[last].result = m.records[id].result
             /\ \A i \in Entries(l) : m.file[i] = l.file[i]
  <2> DEFINE entry == Entry("RECORD", id, m.records[id].result)
  <2>1. /\ entry \in EntryType /\ entry.type = "RECORD" /\ entry.rec = id
        /\ entry.result = m.records[id].result
    <3>1. m.records[id] \in RecordType /\ id \in Nat
      BY <1>1
    <3>2. m.records[id].result \in Results
      BY <3>1 DEF RecordType
    <3> QED
      BY <3>1, <3>2 DEF Entry, EntryType, EntryTypes
  <2> HIDE DEF entry
  <2>2. /\ DOMAIN m.file = DOMAIN l.file \cup {last}
        /\ last \notin DOMAIN l.file
        /\ m.file[last] = entry
        /\ \A i \in DOMAIN l.file : m.file[i] = l.file[i]
    BY <1>2, <1>5, <2>1 DEF entry
  <2> HIDE DEF last
  <2> QED
    BY <2>1, <2>2 DEF Marks, Entries
<1> HIDE DEF last
<1>6. CASE \E type \in Notes :
             shown = {} /\ m.file = Append(l.file, Entry(type, 0, "none"))
  BY <1>4, <1>6
<1>7. CASE \E id \in DOMAIN m.records :
             /\ shown = {id}
             /\ m.file = Append(l.file,
                                Entry("RECORD", id, m.records[id].result))
  BY <1>5, <1>7
<1> QED
  BY <1>3, <1>6, <1>7 DEF Writes, Shows

(* A mark at the end of the file. *)
LEMMA MarkAdded ==
  ASSUME NEW l, SoundLedger(l), NEW type \in {"SUMMARY", "SUITE_INFO"},
         NEW m, m = DumpOther(l, type)
  PROVE  /\ m.records = l.records /\ m.results = l.results
         /\ Len(m.file) = Len(l.file) + 1 /\ Len(l.file) \in Nat
         /\ Marks(m, type) = Marks(l, type) \cup {Len(m.file)}
         /\ \A t \in {"SUMMARY", "SUITE_INFO"} \ {type} :
              Marks(m, t) = Marks(l, t)
         /\ Entries(m) = Entries(l)
         /\ \A i \in Entries(l) : m.file[i] = l.file[i]
         /\ SoundLedger(m)
<1> DEFINE entry == Entry(type, 0, "none")
           last == Len(l.file) + 1
<1>1. entry \in EntryType /\ entry.type = type /\ type \in EntryTypes
  BY DEF Entry, EntryType, EntryTypes, Results
<1>2. /\ m.records = l.records /\ m.results = l.results
      /\ m.file = Append(l.file, entry) /\ SoundLedger(m)
  BY <1>1, DumpOtherSound
<1> HIDE DEF entry
<1>3. l.file \in Seq(EntryType)
  BY DEF SoundLedger, LedgerType
<1>4. /\ DOMAIN m.file = DOMAIN l.file \cup {last}
      /\ last \notin DOMAIN l.file
      /\ m.file[last] = entry
      /\ \A i \in DOMAIN l.file : m.file[i] = l.file[i]
  BY <1>1, <1>2, <1>3, AppendAt
<1>5. Len(m.file) = last /\ Len(l.file) \in Nat
  BY <1>1, <1>2, <1>3
<1>6. Marks(m, type) = Marks(l, type) \cup {last}
  <2> HIDE DEF last
  <2> QED
    BY <1>1, <1>4 DEF Marks
<1>7. /\ \A t \in {"SUMMARY", "SUITE_INFO"} \ {type} : Marks(m, t) = Marks(l, t)
      /\ Entries(m) = Entries(l)
      /\ \A i \in Entries(l) : m.file[i] = l.file[i]
  <2> HIDE DEF last
  <2> QED
    BY <1>1, <1>4 DEF Marks, Entries
<1> QED
  BY <1>2, <1>5, <1>6, <1>7

-----------------------------------------------------------------------------
(* A class run within the program *)

(* A new instance of a test class begins as the invariants of a class run ask. *)
LEMMA StartClassInv ==
  ASSUME NEW records \in Seq(RecordType), NEW file \in Seq(EntryType),
         NEW held \in DOMAIN records, TypeOK,
         StartClass(records, file, held)
  PROVE  /\ Inv' /\ StageOf'
         /\ ledger'.file = file
         /\ Filed(ledger'.results) = {}
         /\ DOMAIN records \subseteq DOMAIN ledger'.records
         /\ \A k \in DOMAIN records : ledger'.records[k] = records[k]
         /\ info' \notin DOMAIN records
         /\ recorder'.rec = held
<1> DEFINE first == NewRecord(StageName("pre_run"), 0, "none")
           id == Len(records) + 1
<1>1. /\ pc' = "pre_run" /\ plan' \in Plans
      /\ n' = 0 /\ it' = 0 /\ streak' = 0 /\ pos' = 1
      /\ exc' = "ok" /\ raised' = {}
      /\ objects' = <<>> /\ live' = {}
      /\ ledger' = [records |-> Append(records, first),
                    results |-> EmptyResult, file |-> file]
      /\ info' = id
      /\ recorder' = [recorder EXCEPT !.rec = held]
  BY DEF StartClass
<1>2. first \in RecordType /\ first.name.kind = "stage"
  <2>1. first \in RecordType
    BY StageNames, NewRecordType DEF StageLabels, Links
  <2> QED
    BY <2>1, StageNames DEF StageLabels, NewRecord
<1> HIDE DEF first
<1>3. /\ ledger'.records \in Seq(RecordType)
      /\ Len(ledger'.records) = id /\ id \in Nat
      /\ DOMAIN records = 1..Len(records) /\ Len(records) \in Nat
      /\ DOMAIN ledger'.records = 1..id
      /\ ledger'.records[id] = first
      /\ \A k \in DOMAIN records : ledger'.records[k] = records[k]
  BY <1>1, <1>2
<1>4. ledger' \in LedgerType /\ Filed(ledger'.results) = {}
  BY <1>1, <1>3, EmptyFiled DEF LedgerType
<1>5. WellFiled(ledger')
  <2>1. \A list \in Lists : Ids(ledger'.results[list]) = {}
    BY <1>4 DEF Filed
  <2> QED
    BY <2>1 DEF WellFiled, Lists
<1>6. /\ info' \in 1..id /\ info' \notin DOMAIN records
      /\ held \in 1..id
  BY <1>1, <1>3
<1>7. recorder' \in [rec : 1..id, count : Nat] /\ recorder'.rec = held
  BY <1>1, <1>6 DEF TypeOK
<1>8. ledger'.file = file
  BY <1>1
<1>9. TypeOK'
  BY <1>1, <1>3, <1>4, <1>6, <1>7, StagesDiffer DEF TypeOK, Outcomes
<1>10. FiledByResult' /\ Unfiled' /\ StageRecord' /\ CurrentTest'
  BY <1>1, <1>2, <1>3, <1>4, <1>5, StagesDiffer
     DEF FiledByResult, Unfiled, StageRecord, CurrentTest
<1>11. StageOf'
  BY <1>1 DEF StageOf, ClassOnFail, TestStages
<1> QED
  BY <1>3, <1>4, <1>6, <1>7, <1>8, <1>9, <1>10, <1>11 DEF Inv

(* The current record stays, or a stage begins with a new one. *)
LEMMA InfoMoves ==
  ASSUME Inv, [Next]_vars
  PROVE  info' = info \/ ledger'.records[info'].result = "none"
<1> USE DEF control
<1> DEFINE Moved == info' = info \/ ledger'.records[info'].result = "none"
<1>a. TypeOK /\ SoundLedger(ledger)
  BY InvSound DEF Inv
<1>b. StageName("teardown_class") \in Names /\ StageName("setup_class") \in Names
      /\ 0 \in Nat /\ "none" \in Links
  BY StageNames DEF StageLabels, Links
<1>1. ASSUME NEW c \in Controllers, Register(c) PROVE Moved
  BY <1>1 DEF Register
<1>2. ASSUME NEW x \in UserExpects, PreRunReturns(x) PROVE Moved
  <2> DEFINE l == DumpOther(Expected(x), "TEST_NAME_LIST")
  <2>1. x \in BOOLEAN /\ pc = "pre_run"
    BY <1>2, InputsAssumption DEF PreRunReturns
  <2>2. SoundLedger(l)
    BY <2>1, ExpectedSound, DumpOtherSound DEF EntryTypes
  <2>3. \/ EnterStage(l, "setup_class", StageName("setup_class"), 0, "none")
        \/ info' = info
    BY <1>2 DEF PreRunReturns
  <2> HIDE DEF l
  <2> QED
    BY <1>b, <2>2, <2>3, EnterStageRecord
<1>3. CASE SetupClassPasses
  <2>1. Advance(ledger, 1) /\ 1 \in Nat \ {0}
    BY <1>3 DEF SetupClassPasses
  <2> QED
    BY <1>a, <2>1, AdvanceRecord
<1>4. ASSUME NEW out \in UserOutcomes, NEW x \in UserExpects,
             \/ PreRunFails(out, x) \/ SetupClassAborts(out, x)
             \/ SetupClassRaises(out, x) \/ ClassOnFailAborts(out, x)
             \/ ClassOnFailReturns(out, x)
             \/ SetupTest(out, x) \/ TestMethod(out, x)
             \/ TeardownTest(out, x)
      PROVE  Moved
  BY <1>4 DEF PreRunFails, SetupClassAborts, SetupClassRaises,
              ClassOnFailAborts, ClassOnFailReturns, SkipAndLeave, SetupTest,
              TestMethod, TeardownTest
<1>5. ASSUME NEW out \in UserOutcomes, NEW x \in UserExpects, Procedure(out, x)
      PROVE  Moved
  <2>1. n \in 1..Len(plan.methods) /\ n + 1 \in Nat \ {0}
    BY <1>5, <1>a DEF Procedure, Inv, CurrentTest, TestStages, TypeOK
  <2>2. PICK filed :
          /\ SoundLedger(filed)
          /\ \/ SkipAndLeave(filed, InFlight(out)) /\ UNCHANGED control
             \/ /\ BeginIteration(filed, Current, it + 1, info)
                /\ UNCHANGED <<n, pos>>
             \/ Advance(filed, n + 1)
    BY <1>5, ProcedureFiled
  <2>3. CASE SkipAndLeave(filed, InFlight(out))
    BY <2>3 DEF SkipAndLeave
  <2>4. CASE BeginIteration(filed, Current, it + 1, info)
    BY <1>a, <2>1, <2>2, <2>4, IterationRecord
  <2>5. CASE Advance(filed, n + 1)
    BY <1>a, <2>1, <2>2, <2>5, AdvanceRecord
  <2> QED
    BY <2>2, <2>3, <2>4, <2>5
<1>6. ASSUME NEW out \in UserOutcomes, NEW x \in UserExpects,
             TeardownClass(out, x)
      PROVE  Moved
  BY <1>6, TeardownClassInv
<1>7. ASSUME NEW out \in UserOutcomes, GetInfo(out) \/ Destroy(out)
      PROVE  Moved
  BY <1>7 DEF GetInfo, Destroy
<1>8. CASE SkipDone
  BY <1>8, <1>a, <1>b, EnterStageRecord DEF SkipDone, LeaveRun
<1>9. CASE \/ SetupClassExpects \/ SkipNext \/ InfoRecorded \/ FinishCleanUp
           \/ UNCHANGED vars
  BY <1>9 DEF SetupClassExpects, SkipNext, InfoRecorded, FinishCleanUp, vars
<1> QED
  BY <1>1, <1>2, <1>3, <1>4, <1>5, <1>6, <1>7, <1>8, <1>9
     DEF Next, ClassStep, Finished

(* Where run returns or raises. *)
LEMMA RunEnds ==
  ASSUME Inv, ClassStep, pc' = "done"
  PROVE  \/ \E out \in UserOutcomes, x \in UserExpects : PreRunFails(out, x)
         \/ \E x \in UserExpects : PreRunReturns(x)
         \/ FinishCleanUp
<1>1. \A c \in Controllers : ~Register(c)
  BY DEF Register, UserStages, ClassOnFail, TestStages
<1>2. ~SetupClassPasses /\ ~SetupClassExpects
  BY AdvanceStage DEF SetupClassPasses, SetupClassExpects
<1>3. \A out \in UserOutcomes, x \in UserExpects :
        /\ ~SetupClassAborts(out, x)
        /\ ~SetupClassRaises(out, x) /\ ~ClassOnFailAborts(out, x)
        /\ ~ClassOnFailReturns(out, x) /\ ~SetupTest(out, x)
        /\ ~TestMethod(out, x) /\ ~TeardownTest(out, x)
  BY DEF SetupClassAborts, SetupClassRaises, ClassOnFailAborts,
         ClassOnFailReturns, SetupTest, TestMethod, TeardownTest, SkipAndLeave
<1>4. \A out \in UserOutcomes, x \in UserExpects :
        ~Procedure(out, x) /\ ~TeardownClass(out, x)
  BY ProcedureFiled, TeardownClassInv
<1>5. \A out \in UserOutcomes : ~GetInfo(out) /\ ~Destroy(out)
  BY DEF GetInfo, Destroy
<1>6. ~SkipNext /\ ~SkipDone /\ ~InfoRecorded
  BY DEF SkipNext, SkipDone, LeaveRun, EnterStage, InfoRecorded
<1> QED
  BY <1>1, <1>2, <1>3, <1>4, <1>5, <1>6 DEF ClassStep

(* An ERROR remains one, whatever pre_run's expectations add to it.           *)
LEMMA PreRunErrors ==
  ASSUME Inv, ClassStep, pc = "pre_run"
  PROVE  \A id \in DOMAIN ledger.records :
           ledger.records[id].result = "ERROR"
             => ledger'.records[id].result = "ERROR"
<1>1. \A c \in Controllers : Register(c) => ledger' = ledger
  BY DEF Register
<1>2. ~SetupClassPasses /\ ~SetupClassExpects
  BY DEF SetupClassPasses, SetupClassExpects
<1>3. \A out \in UserOutcomes, x \in UserExpects :
        /\ ~SetupClassAborts(out, x)
        /\ ~SetupClassRaises(out, x) /\ ~ClassOnFailAborts(out, x)
        /\ ~ClassOnFailReturns(out, x) /\ ~SetupTest(out, x)
        /\ ~TestMethod(out, x) /\ ~TeardownTest(out, x)
        /\ ~Procedure(out, x) /\ ~TeardownClass(out, x)
  BY DEF SetupClassAborts, SetupClassRaises, ClassOnFailAborts, ClassOnFail,
         ClassOnFailReturns, SetupTest, TestMethod, TeardownTest, Procedure,
         TeardownClass
<1>4. \A out \in UserOutcomes : ~GetInfo(out) /\ ~Destroy(out)
  BY DEF GetInfo, Destroy
<1>5. ~SkipNext /\ ~SkipDone /\ ~InfoRecorded /\ ~FinishCleanUp
  BY DEF SkipNext, SkipDone, InfoRecorded, FinishCleanUp
<1>6. \/ ledger' = ledger
      \/ \E out \in UserOutcomes, x \in UserExpects : PreRunFails(out, x)
      \/ \E x \in UserExpects : PreRunReturns(x)
  BY <1>1, <1>2, <1>3, <1>4, <1>5 DEF ClassStep
<1> QED
  BY <1>6, PreRunFailsInv, PreRunReturnsInv

(* run has returned: no step of the class is left. *)
LEMMA NoStepWhenDone ==
  ASSUME ClassStep
  PROVE  pc # "done"
<1>1. \A c \in Controllers : Register(c) => pc # "done"
  BY DEF Register, UserStages, ClassOnFail, TestStages
<1>2. SetupClassPasses \/ SetupClassExpects => pc # "done"
  BY DEF SetupClassPasses, SetupClassExpects
<1>3. ASSUME NEW out \in UserOutcomes, NEW x \in UserExpects
      PROVE  /\ PreRunFails(out, x) => pc # "done"
             /\ SetupClassAborts(out, x) => pc # "done"
             /\ SetupClassRaises(out, x) => pc # "done"
             /\ ClassOnFailAborts(out, x) => pc # "done"
             /\ ClassOnFailReturns(out, x) => pc # "done"
             /\ SetupTest(out, x) => pc # "done"
             /\ TestMethod(out, x) => pc # "done"
             /\ TeardownTest(out, x) => pc # "done"
             /\ Procedure(out, x) => pc # "done"
             /\ TeardownClass(out, x) => pc # "done"
  <2>1. PreRunFails(out, x) => pc # "done"
    BY DEF PreRunFails
  <2>2. /\ SetupClassAborts(out, x) => pc # "done"
        /\ SetupClassRaises(out, x) => pc # "done"
        /\ ClassOnFailAborts(out, x) => pc # "done"
        /\ ClassOnFailReturns(out, x) => pc # "done"
    BY DEF SetupClassAborts, SetupClassRaises, ClassOnFailAborts, ClassOnFail,
           ClassOnFailReturns
  <2>3. /\ SetupTest(out, x) => pc # "done"
        /\ TestMethod(out, x) => pc # "done"
        /\ TeardownTest(out, x) => pc # "done"
    BY DEF SetupTest, TestMethod, TeardownTest
  <2>4. Procedure(out, x) => pc # "done"
    BY DEF Procedure
  <2>5. TeardownClass(out, x) => pc # "done"
    BY DEF TeardownClass
  <2> QED
    BY <2>1, <2>2, <2>3, <2>4, <2>5
<1>4. \A out \in UserOutcomes : GetInfo(out) \/ Destroy(out) => pc # "done"
  BY DEF GetInfo, Destroy
<1>5. \A x \in UserExpects : PreRunReturns(x) => pc # "done"
  BY DEF PreRunReturns
<1>6. SkipNext \/ SkipDone \/ InfoRecorded \/ FinishCleanUp => pc # "done"
  BY DEF SkipNext, SkipDone, InfoRecorded, FinishCleanUp
<1> QED
  BY <1>1, <1>2, <1>3, <1>4, <1>5, <1>6 DEF ClassStep

(* What the runner has counted stays as it was counted. *)
LEMMA CountedStays ==
  ASSUME Inv, StageOf, Kept, Apart, InClass, NEW id \in AllFiled
  PROVE  /\ id \in DOMAIN ledger.records
         /\ ledger'.records[id].name = ledger.records[id].name
         /\ ledger'.records[id].result = ledger.records[id].result
<1>1. phase = "class" /\ ClassStep /\ [Next]_vars
  BY DEF InClass, Next
<1>2. id \in DOMAIN ledger.records
  BY InvSound, FiledExist DEF AllFiled, Kept
<1>3. PICK touched, new, shown :
        /\ Writes(ledger, ledger', touched, new, shown)
        /\ touched \subseteq InHand
  BY <1>1, FiledByStep
<1>4. ledger'.records[id].name = ledger.records[id].name
  BY <1>2, <1>3 DEF Writes, Touches
<1>5. CASE id \in Filed(ledger.results) \/ id \notin touched
  BY <1>2, <1>3, <1>4, <1>5 DEF Writes, Touches
<1>6. CASE id \notin Filed(ledger.results) /\ id \in touched
  <2>1. id \in Filed(total) /\ id # info
    BY <1>1, <1>6 DEF AllFiled, Apart
  <2>2. id = recorder.rec /\ pc \in {"pre_run", "done"}
    BY <1>3, <1>6, <2>1 DEF InHand, StageOf
  <2>3. pc = "pre_run" /\ ledger.records[id].result = "ERROR"
    BY <1>1, <2>1, <2>2, NoStepWhenDone DEF Apart, AllFiled
  <2>4. ledger'.records[id].result = "ERROR"
    BY <1>1, <1>2, <2>3, PreRunErrors
  <2> QED
    BY <1>2, <1>4, <2>3, <2>4
<1> QED
  BY <1>5, <1>6

(* A step of a class run keeps the record in hand apart. *)
LEMMA ApartInClass ==
  ASSUME Inv, StageOf, Kept, Apart, InClass
  PROVE  Apart'
<1>1. /\ phase = "class" /\ ClassStep /\ [Next]_vars
      /\ UNCHANGED <<phase, total, outcome>>
  BY DEF InClass, Next, runner
<1>2. /\ outcome' = "ok"
      /\ \A id \in Filed(total) : ledger'.records[id].result # "none"
  BY <1>1, CountedStays DEF Apart, AllFiled
<1>3. info' \notin Filed(total)
  BY <1>1, <1>2, InfoMoves DEF Apart
<1>4. ASSUME pc' = "pre_run", recorder'.rec \in AllFiled'
      PROVE  ledger'.records[recorder'.rec].result = "ERROR"
  <2>1. pc = "pre_run" /\ UNCHANGED <<ledger, info, recorder>>
    BY <1>1, <1>4, PreRunFirst
  <2> QED
    BY <1>1, <1>4, <2>1 DEF Apart, AllFiled
<1>5. ASSUME pc' = "done", recorder'.rec \in AllFiled'
      PROVE  ledger'.records[recorder'.rec].result = "ERROR"
  <2>1. \A x : Recorded(x) => recorder'.rec = recorder.rec
    BY DEF Recorded, Inv, TypeOK
  <2>2. ASSUME NEW out \in UserOutcomes, NEW x \in UserExpects,
               PreRunFails(out, x)
        PROVE  ledger'.records[recorder'.rec].result = "ERROR"
    <3>1. pc = "pre_run" /\ recorder'.rec = recorder.rec
      BY <2>1, <2>2 DEF PreRunFails
    <3>2. Filed(ledger'.results) = Filed(ledger.results) \cup {info}
      BY <2>2, PreRunFailsInv DEF Writes, Files
    <3>3. recorder.rec = info \/ ledger.records[recorder.rec].result = "ERROR"
      BY <1>1, <1>5, <3>1, <3>2 DEF AllFiled, Apart
    <3> QED
      BY <2>2, <3>1, <3>3, PreRunFailsInv, InvSound
  <2>3. ASSUME NEW x \in UserExpects, PreRunReturns(x)
        PROVE  ledger'.records[recorder'.rec].result = "ERROR"
    <3>1. pc = "pre_run" /\ recorder'.rec = recorder.rec
      BY <1>5, <2>1, <2>3 DEF PreRunReturns, EnterStage
    <3>2. Filed(ledger'.results) = Filed(ledger.results)
      BY <2>3, PreRunReturnsInv DEF Writes, Files
    <3>3. ledger.records[recorder.rec].result = "ERROR"
      BY <1>1, <1>5, <3>1, <3>2 DEF AllFiled, Apart
    <3> QED
      BY <2>3, <3>1, <3>3, PreRunReturnsInv, InvSound
  <2>4. CASE FinishCleanUp
    <3>1. pc = "destroy" /\ recorder' = recorder
      BY <2>4 DEF FinishCleanUp
    <3>2. recorder.rec = info /\ info \notin AllFiled
      BY <1>1, <3>1 DEF StageOf, Apart, AllFiled, Inv, Unfiled
    <3>3. HasError(FALSE) \in BOOLEAN
      BY DEF HasError
    <3>4. CASE HasError(FALSE)
      BY <2>4, <3>1, <3>2, <3>4, FinishCleanUpInv
    <3>5. CASE ~HasError(FALSE)
      <4>1. ledger' = ledger
        BY <2>4, <3>5, FinishCleanUpInv
      <4> QED
        BY <1>1, <1>5, <3>1, <3>2, <4>1 DEF AllFiled
    <3> QED
      BY <3>3, <3>4, <3>5
  <2> QED
    BY <1>1, <1>5, <2>2, <2>3, <2>4, RunEnds
<1> QED
  BY <1>1, <1>2, <1>3, <1>4, <1>5 DEF Apart

(* A step of a class run keeps what the file tells of the bed. *)
LEMMA ToldInClass ==
  ASSUME Inv, StageOf, Kept, Apart, Told, InClass
  PROVE  /\ Told' /\ Kept'
         /\ Marks(ledger, "SUMMARY")' = Marks(ledger, "SUMMARY")
         /\ Marks(ledger, "SUITE_INFO")' = Marks(ledger, "SUITE_INFO")
<1>1. phase = "class" /\ [Next]_vars /\ UNCHANGED <<phase, total>>
  BY DEF InClass, Next, runner
<1>2. SoundLedger(ledger) /\ SoundLedger(ledger')
      /\ DOMAIN ledger.records \subseteq DOMAIN ledger'.records
  BY <1>1, StepSound
<1>3. PICK touched, new, shown :
        /\ Writes(ledger, ledger', touched, new, shown)
        /\ shown \subseteq Filed(ledger.results) \cup new
        /\ \A id \in new :
             \/ id \in shown
             \/ ledger'.records[id].name = StageName("setup_class")
  BY <1>1, FiledByStep
<1>4. AllFiled' = AllFiled \cup new /\ shown \subseteq AllFiled'
  BY <1>1, <1>3 DEF AllFiled, Writes, Files
<1>5. /\ \A i \in Entries(ledger) :
           i \in Entries(ledger') /\ ledger'.file[i] = ledger.file[i]
      /\ \A i \in Entries(ledger') :
           \/ i \in Entries(ledger) /\ ledger'.file[i] = ledger.file[i]
           \/ ledger'.file[i].rec \in shown
      /\ \A id \in shown : \E i \in Entries(ledger') :
           /\ ledger'.file[i].rec = id
           /\ ledger'.file[i].result = ledger'.records[id].result
      /\ \A type \in {"SUMMARY", "SUITE_INFO"} :
           Marks(ledger', type) = Marks(ledger, type)
  BY <1>2, <1>3, WritesEntries
<1>6. ASSUME NEW id \in AllFiled'
      PROVE  \/ \E i \in Entries(ledger') :
                  /\ ledger'.file[i].rec = id
                  /\ ledger'.file[i].result = ledger'.records[id].result
             \/ ledger'.records[id].name = StageName("setup_class")
  <2>1. CASE id \in AllFiled
    <3>1. \/ \E i \in Entries(ledger) :
               /\ ledger.file[i].rec = id
               /\ ledger.file[i].result = ledger.records[id].result
          \/ ledger.records[id].name = StageName("setup_class")
      BY <1>1, <2>1 DEF Told, Recounted
    <3> QED
      BY <1>5, <2>1, <3>1, CountedStays
  <2>2. CASE id \in new
    BY <1>3, <1>5, <2>2
  <2> QED
    BY <1>4, <2>1, <2>2
<1>7. ASSUME NEW i \in Entries(ledger')
      PROVE  ledger'.file[i].rec \in AllFiled'
  BY <1>1, <1>4, <1>5 DEF Told
<1>8. Told'
  BY <1>1, <1>6, <1>7 DEF Told, Recounted
<1>9. Kept'
  BY <1>1, <1>2 DEF Kept
<1> QED
  BY <1>5, <1>8, <1>9

(* Every step of a class run keeps the invariant. *)
LEMMA InClassInv ==
  ASSUME RunInv, InClass
  PROVE  RunInv'
<1>1. /\ phase = "class" /\ [Next]_vars
      /\ UNCHANGED <<mode, phase, outcome, total, ok>>
  BY DEF InClass, Next, runner
<1>2. Inv' /\ StageOf'
  BY <1>1, NextInv, StageOfStep DEF RunInv
<1>3. Apart'
  BY ApartInClass DEF RunInv
<1>4. /\ Told' /\ Kept'
      /\ Marks(ledger, "SUMMARY")' = Marks(ledger, "SUMMARY")
      /\ Marks(ledger, "SUITE_INFO")' = Marks(ledger, "SUITE_INFO")
  BY ToldInClass DEF RunInv
<1>5. Order'
  BY <1>1, <1>4 DEF Order, RunInv
<1>6. SuiteInfoClosesFile'
  BY <1>1 DEF SuiteInfoClosesFile
<1> QED
  BY <1>2, <1>3, <1>4, <1>5, <1>6 DEF RunInv

(* A mark in the file changes nothing that a class run relies on. *)
LEMMA MarkKeeps ==
  ASSUME Inv, StageOf, NEW type \in {"SUMMARY", "SUITE_INFO"},
         ledger' = DumpOther(ledger, type),
         UNCHANGED <<pc, control, info, recorder, exc, raised, registry>>
  PROVE  /\ Inv' /\ StageOf'
         /\ ledger'.records = ledger.records
         /\ ledger'.results = ledger.results
<1>1. SoundLedger(ledger)
  BY InvSound
<1>2. /\ ledger'.records = ledger.records
      /\ ledger'.results = ledger.results
      /\ SoundLedger(ledger')
  BY <1>1, MarkAdded
<1>3. UNCHANGED <<pc, plan, n, it, streak, info, recorder, exc, raised,
                  objects, live, pos>>
  BY DEF control, registry
<1>4. TypeOK' /\ FiledByResult'
  BY <1>2, <1>3 DEF Inv, TypeOK, FiledByResult, SoundLedger
<1>5. Unfiled' /\ StageRecord' /\ CurrentTest'
  BY <1>2, <1>3 DEF Inv, Unfiled, StageRecord, CurrentTest
<1>6. StageOf'
  BY <1>2, <1>3 DEF StageOf
<1> QED
  BY <1>2, <1>4, <1>5, <1>6 DEF Inv

(* What nothing happened to stays. *)
LEMMA VarsKeep ==
  ASSUME Inv, StageOf, UNCHANGED vars
  PROVE  Inv' /\ StageOf'
<1>1. [Next]_vars
  OBVIOUS
<1> QED
  BY <1>1, NextInv, StageOfStep

-----------------------------------------------------------------------------
(* The program *)

(* A program starts so.                                                      *)
LEMMA InitRunInv ==
  ASSUME RunInit
  PROVE  RunInv
<1>1. /\ Init /\ phase \in {"setup", "class"} /\ outcome = "ok"
      /\ total = EmptyResult
      /\ phase = "setup" => mode = "suite_class" /\ ~ok
  BY DEF RunInit
<1>2. Inv /\ StageOf
  BY <1>1, InitInv, InitStageOf
<1>3. ledger.file = <<>> /\ ledger.results = EmptyResult
  BY <1>1 DEF Init
<1>4. /\ total \in [Lists -> Seq(Nat)]
      /\ Filed(total) = {} /\ AllFiled = {}
  BY <1>1, <1>3, EmptyFiled DEF AllFiled
<1>5. Entries(ledger) = {} /\ \A type : Marks(ledger, type) = {}
  BY <1>3 DEF Entries, Marks
<1>6. Kept /\ Apart /\ Told
  BY <1>1, <1>4, <1>5 DEF Kept, Apart, Told, Recounted
<1>7. Order /\ SuiteInfoClosesFile
  BY <1>1, <1>5 DEF Order, SuiteInfoClosesFile
<1> QED
  BY <1>2, <1>6, <1>7 DEF RunInv

(* setup_suite touches neither records nor the file. *)
LEMMA SetupSuiteInv ==
  ASSUME RunInv, NEW raises \in BOOLEAN, SetupSuite(raises)
  PROVE  RunInv'
<1>1. /\ phase = "setup" /\ UNCHANGED <<vars, mode, total, ok>>
      /\ \/ phase' = "teardown"
         \/ phase' = "class" /\ outcome' = outcome
  BY DEF SetupSuite
<1>2. Inv' /\ StageOf'
  BY <1>1, VarsKeep DEF RunInv
<1>3. UNCHANGED <<pc, ledger, info, recorder>>
  BY <1>1 DEF vars
<1>4. AllFiled' = AllFiled
  BY <1>1, <1>3 DEF AllFiled
<1>5. Kept' /\ Apart'
  BY <1>1, <1>3, <1>4 DEF RunInv, Kept, Apart
<1>6. Told'
  BY <1>1, <1>3, <1>4 DEF RunInv, Told, Recounted
<1>7. Order'
  BY <1>1, <1>3 DEF RunInv, Order
<1>8. SuiteInfoClosesFile'
  BY <1>1 DEF SuiteInfoClosesFile
<1> QED
  BY <1>2, <1>5, <1>6, <1>7, <1>8 DEF RunInv

(* The results of the class that ended are those the runner counts now, or    *)
(* the runner crashes.                                                       *)
LEMMA EndClassInv ==
  ASSUME RunInv, EndClass
  PROVE  RunInv'
<1>1. /\ phase = "class" /\ pc = "done" /\ UNCHANGED <<mode, added, ok>>
      /\ total' = IF Counted(exc) THEN MergeResults(total, ledger.results)
                                  ELSE total
      /\ Inv /\ StageOf /\ TypeOK
  BY DEF EndClass, RunInv, Inv
<1>2. /\ SoundLedger(ledger) /\ recorder.rec \in DOMAIN ledger.records
      /\ ledger.results \in [Lists -> Seq(Nat)]
      /\ ledger.records \in Seq(RecordType) /\ ledger.file \in Seq(EntryType)
      /\ Filed(ledger.results) \subseteq DOMAIN ledger.records
  BY <1>1, InvSound, FiledExist DEF SoundLedger, LedgerType
<1>3. /\ total' \in [Lists -> Seq(Nat)]
      /\ Counted(exc) => Filed(total') = AllFiled
      /\ ~Counted(exc) => Filed(total') = Filed(total)
  BY <1>1, <1>2, MergeFiled DEF AllFiled, RunInv, Kept
<1>4. Counted(exc) \in BOOLEAN /\ (~Counted(exc) <=> exc = "crash")
  BY DEF Counted
<1>5. /\ Filed(total') \subseteq AllFiled
      /\ AllFiled \subseteq DOMAIN ledger.records
  BY <1>2, <1>3, <1>4 DEF AllFiled, RunInv, Kept
<1>6. /\ outcome = "ok"
      /\ \A id \in AllFiled : ledger.records[id].result # "none"
      /\ recorder.rec \in AllFiled =>
           ledger.records[recorder.rec].result = "ERROR"
  BY <1>1, <1>2, FiledResult DEF RunInv, Apart, AllFiled
<1>7. /\ Recounted(AllFiled)
      /\ \A i \in Entries(ledger) : ledger.file[i].rec \in AllFiled
      /\ Marks(ledger, "SUMMARY") = {} /\ Marks(ledger, "SUITE_INFO") = {}
  BY <1>1 DEF RunInv, Told, Order
<1>8. CASE /\ exc \notin {"crash", "abort_all"} /\ phase' = phase
           /\ outcome' = outcome
           /\ StartClass(ledger.records, ledger.file, recorder.rec)
  <2>1. /\ Inv' /\ StageOf'
        /\ ledger'.file = ledger.file
        /\ Filed(ledger'.results) = {}
        /\ DOMAIN ledger.records \subseteq DOMAIN ledger'.records
        /\ \A k \in DOMAIN ledger.records :
             ledger'.records[k] = ledger.records[k]
        /\ info' \notin DOMAIN ledger.records
        /\ recorder'.rec = recorder.rec
    BY <1>1, <1>2, <1>8, StartClassInv
  <2>2. Filed(total') = AllFiled /\ AllFiled' = AllFiled
    BY <1>3, <1>4, <1>8, <2>1 DEF AllFiled
  <2>3. Kept'
    BY <1>3, <1>5, <2>1, <2>2 DEF Kept
  <2>4. Apart'
    BY <1>2, <1>5, <1>6, <1>8, <2>1, <2>2 DEF Apart
  <2>5. /\ Entries(ledger') = Entries(ledger)
        /\ \A type : Marks(ledger', type) = Marks(ledger, type)
    BY <2>1 DEF Entries, Marks
  <2>6. Recounted(AllFiled)'
    BY <1>5, <1>7, <2>1, <2>2, <2>5 DEF Recounted
  <2>7. Told'
    BY <1>1, <1>7, <1>8, <2>1, <2>2, <2>5, <2>6 DEF Told
  <2>8. Order' /\ SuiteInfoClosesFile'
    BY <1>1, <1>7, <1>8, <2>5 DEF Order, SuiteInfoClosesFile
  <2> QED
    BY <2>1, <2>3, <2>4, <2>7, <2>8 DEF RunInv
<1>9. CASE /\ phase' = "summary" /\ UNCHANGED vars
           /\ \/ exc # "crash"
              \/ exc = "crash" /\ outcome' = "crash"
  <2>1. Inv' /\ StageOf' /\ ledger' = ledger
    BY <1>1, <1>9, VarsKeep DEF vars
  <2>2. Kept' /\ Apart'
    BY <1>3, <1>5, <1>9, <2>1 DEF Kept, Apart
  <2>3. Recounted(Filed(total))'
    BY <1>5, <1>7, <2>1 DEF Recounted
  <2>4. outcome' # "crash" =>
          \A i \in Entries(ledger') : ledger'.file[i].rec \in Filed(total')
    BY <1>3, <1>4, <1>7, <1>9, <2>1
  <2>5. Told'
    BY <1>9, <2>3, <2>4 DEF Told
  <2>6. Order' /\ SuiteInfoClosesFile'
    BY <1>7, <1>9, <2>1 DEF Order, SuiteInfoClosesFile
  <2> QED
    BY <2>1, <2>2, <2>5, <2>6 DEF RunInv
<1> QED
  BY <1>1, <1>8, <1>9 DEF EndClass

(* The SUMMARY is the last entry of the file, and its only one of this type.  *)
LEMMA WriteSummaryInv ==
  ASSUME RunInv, WriteSummary
  PROVE  RunInv'
<1>1. /\ phase = "summary" /\ phase' = "bed"
      /\ ledger' = DumpOther(ledger, "SUMMARY")
      /\ UNCHANGED <<pc, control, info, recorder, exc, raised, registry>>
      /\ UNCHANGED <<mode, total, outcome, ok>>
      /\ Inv /\ StageOf
  BY DEF WriteSummary, RunInv
<1>2. Inv' /\ StageOf'
  BY <1>1, MarkKeeps
<1>3. /\ ledger'.records = ledger.records
      /\ Marks(ledger', "SUMMARY") =
           Marks(ledger, "SUMMARY") \cup {Len(ledger'.file)}
      /\ Marks(ledger', "SUITE_INFO") = Marks(ledger, "SUITE_INFO")
      /\ Entries(ledger') = Entries(ledger)
      /\ \A i \in Entries(ledger) : ledger'.file[i] = ledger.file[i]
  BY <1>1, InvSound, MarkAdded
<1>4. Kept' /\ Apart'
  BY <1>1, <1>3 DEF RunInv, Kept, Apart
<1>5. Recounted(Filed(total))'
  BY <1>1, <1>3 DEF RunInv, Told, Recounted
<1>6. Told'
  BY <1>1, <1>3, <1>5 DEF RunInv, Told
<1>7. Order' /\ SuiteInfoClosesFile'
  BY <1>1, <1>3 DEF RunInv, Order, SuiteInfoClosesFile
<1> QED
  BY <1>2, <1>4, <1>6, <1>7 DEF RunInv

(* The next bed starts with a file and results of its own. *)
LEMMA EndBedInv ==
  ASSUME RunInv, EndBed
  PROVE  RunInv'
<1>1. phase = "bed" /\ UNCHANGED mode /\ Inv /\ StageOf /\ TypeOK
  BY DEF EndBed, RunInv, Inv
<1>2. CASE /\ phase' = "class" /\ total' = EmptyResult /\ outcome' = "ok"
           /\ StartClass(<<ledger.records[recorder.rec]>>, <<>>, 1)
  <2> DEFINE records == <<ledger.records[recorder.rec]>>
  <2>1. /\ records \in Seq(RecordType) /\ <<>> \in Seq(EntryType)
        /\ 1 \in DOMAIN records
    <3>1. ledger.records \in Seq(RecordType)
          /\ recorder.rec \in DOMAIN ledger.records
      BY <1>1, InvSound DEF SoundLedger, LedgerType
    <3>2. ledger.records[recorder.rec] \in RecordType
      BY <3>1
    <3> QED
      BY <3>2
  <2> HIDE DEF records
  <2>2. StartClass(records, <<>>, 1)
    BY <1>2 DEF records
  <2>3. /\ Inv' /\ StageOf'
        /\ ledger'.file = <<>> /\ Filed(ledger'.results) = {}
    BY <1>1, <2>1, <2>2, StartClassInv
  <2>4. /\ total' \in [Lists -> Seq(Nat)]
        /\ Filed(total') = {} /\ AllFiled' = {}
    BY <1>2, <2>3, EmptyFiled DEF AllFiled
  <2>5. Entries(ledger') = {} /\ \A type : Marks(ledger', type) = {}
    BY <2>3 DEF Entries, Marks
  <2>6. Kept' /\ Apart' /\ Told'
    BY <1>2, <2>4, <2>5 DEF Kept, Apart, Told, Recounted
  <2>7. Order' /\ SuiteInfoClosesFile'
    BY <1>2, <2>5 DEF Order, SuiteInfoClosesFile
  <2> QED
    BY <2>3, <2>6, <2>7 DEF RunInv
<1>3. CASE /\ UNCHANGED <<vars, total, outcome>>
           /\ \/ phase' = "teardown"
              \/ phase' = "exit" /\ mode = "run_suite"
  <2>1. Inv' /\ StageOf' /\ ledger' = ledger
    BY <1>1, <1>3, VarsKeep DEF vars
  <2>2. Kept' /\ Apart' /\ Told'
    BY <1>3, <2>1 DEF RunInv, Kept, Apart, Told
  <2>3. Order' /\ SuiteInfoClosesFile'
    BY <1>1, <1>3, <2>1 DEF RunInv, Order, SuiteInfoClosesFile
  <2> QED
    BY <2>1, <2>2, <2>3 DEF RunInv
<1> QED
  BY <1>2, <1>3 DEF EndBed

(* SUITE_INFO follows what the suite wrote. *)
LEMMA TeardownSuiteInv ==
  ASSUME RunInv, NEW raises \in BOOLEAN, TeardownSuite(raises)
  PROVE  RunInv'
<1>1. /\ phase = "teardown" /\ phase' = "exit"
      /\ ledger' = IF raises THEN ledger ELSE DumpOther(ledger, "SUITE_INFO")
      /\ ok' = (ok /\ ~raises)
      /\ UNCHANGED <<pc, control, info, recorder, exc, raised, registry>>
      /\ UNCHANGED <<mode, total, outcome>>
      /\ Inv /\ StageOf
  BY DEF TeardownSuite, StillOk, RunInv
<1>2. /\ Marks(ledger, "SUITE_INFO") = {}
      /\ ok => Marks(ledger, "SUMMARY") = {Len(ledger.file)}
  BY <1>1 DEF RunInv, Order
<1>3. CASE raises
  <2>1. Inv' /\ StageOf' /\ ledger' = ledger /\ ~ok'
    BY <1>1, <1>3, VarsKeep DEF vars, control, registry
  <2>2. Kept' /\ Apart' /\ Told' /\ Order'
    BY <1>1, <2>1 DEF RunInv, Kept, Apart, Told, Order
  <2>3. SuiteInfoClosesFile'
    BY <1>2, <2>1 DEF SuiteInfoClosesFile, Marks
  <2> QED
    BY <2>1, <2>2, <2>3 DEF RunInv
<1>4. CASE ~raises
  <2>1. Inv' /\ StageOf'
    BY <1>1, <1>4, MarkKeeps
  <2>2. /\ ledger'.records = ledger.records
        /\ Len(ledger'.file) = Len(ledger.file) + 1 /\ Len(ledger.file) \in Nat
        /\ Marks(ledger', "SUITE_INFO") =
             Marks(ledger, "SUITE_INFO") \cup {Len(ledger'.file)}
        /\ Marks(ledger', "SUMMARY") = Marks(ledger, "SUMMARY")
    BY <1>1, <1>4, InvSound, MarkAdded
  <2>3. Kept' /\ Apart' /\ Told' /\ Order'
    BY <1>1, <2>2 DEF RunInv, Kept, Apart, Told, Order
  <2>4. /\ Marks(ledger', "SUITE_INFO") = {Len(ledger'.file)}
        /\ ok' => Marks(ledger', "SUMMARY") = {Len(ledger'.file) - 1}
    BY <1>1, <1>2, <2>2
  <2>5. SuiteInfoClosesFile'
    BY <2>4 DEF SuiteInfoClosesFile, Marks
  <2> QED
    BY <2>1, <2>3, <2>5 DEF RunInv
<1> QED
  BY <1>3, <1>4

(* Every step of the program keeps the invariant. *)
LEMMA RunNextInv ==
  ASSUME RunInv, [RunNext]_runVars
  PROVE  RunInv'
<1>1. CASE UNCHANGED runVars
  <2>1. /\ UNCHANGED vars
        /\ UNCHANGED <<mode, phase, total, outcome, ok>>
    BY <1>1 DEF runVars, runner
  <2>2. Inv' /\ StageOf'
    BY <2>1, VarsKeep DEF RunInv
  <2>3. UNCHANGED <<pc, ledger, info, recorder>>
    BY <2>1 DEF vars
  <2>4. Kept' /\ Apart' /\ Order' /\ SuiteInfoClosesFile'
    BY <2>1, <2>3 DEF RunInv, Kept, Apart, AllFiled, Order,
                      SuiteInfoClosesFile, Marks
  <2>5. Told'
    BY <2>1, <2>3 DEF RunInv, Told, AllFiled, Recounted, Entries
  <2> QED
    BY <2>2, <2>4, <2>5 DEF RunInv
<1> QED
  BY <1>1, InClassInv, SetupSuiteInv, EndClassInv, WriteSummaryInv, EndBedInv,
     TeardownSuiteInv DEF RunNext, RunStep, Exited

(* RunInv holds throughout the program. *)
THEOREM RunInvariance == RunSpec => []RunInv
<1>1. RunInit => RunInv
  BY InitRunInv
<1>2. RunInv /\ [RunNext]_runVars => RunInv'
  BY RunNextInv
<1> QED
  BY <1>1, <1>2, PTL DEF RunSpec

(* TestRunner.run: a bed's file ends with its only SUMMARY, however the run    *)
(* ends, and tells what the runner counted.                                  *)
THEOREM SummaryTold == RunSpec => []SummaryClosesFile
<1>1. RunInv => SummaryClosesFile
  BY DEF RunInv, Told, Order, Recounted, Marks, Entries, SummaryClosesFile
<1> QED
  BY <1>1, RunInvariance, PTL

(* run_suite_class: SUITE_INFO is the last entry of the file, and a run that   *)
(* succeeds has written it right after SUMMARY.                              *)
THEOREM SuiteInfoLast == RunSpec => []SuiteInfoClosesFile
<1>1. RunInv => SuiteInfoClosesFile
  BY DEF RunInv
<1> QED
  BY <1>1, RunInvariance, PTL

(* The class runs of a program keep their types and file each record by its   *)
(* result, although the recorder they share may hold a record of an earlier. *)
THEOREM RunFilingCorrect == RunSpec => [](TypeOK /\ FiledByResult)
<1>1. RunInv => TypeOK /\ FiledByResult
  BY DEF RunInv, Inv
<1> QED
  BY <1>1, RunInvariance, PTL

-----------------------------------------------------------------------------
(* The exit code of a program *)

(* The results the runner counted, over the records as they are.             *)
Total == [ledger EXCEPT !.results = total]

(* Between two runs the recorder holds the record of no retry: a bed that      *)
(* starts with that record alone starts with no link.                        *)
Loose == pc \in {"pre_run", "done"} => ledger.records[recorder.rec].link # "RETRY"

(* Each entry of the file shows the result its record has.                   *)
Depicts(l) ==
  \A i \in DOMAIN l.file :
    IF i \in Entries(l) THEN l.file[i].result = l.records[l.file[i].rec].result
                        ELSE l.file[i].result = "none"

(* In a program: what the runner added up is well filed and counts each       *)
(* record once, the file shows it, and while classes run the links of the    *)
(* retries reach into this class or an earlier one of the bed.  After a      *)
(* crash the results of the class are lost, and ok is FALSE for good.        *)
Summed ==
  /\ SoundLedger(Total)
  /\ Once(total) /\ Once(ledger.results)
  /\ Depicts(ledger)
  /\ Latest /\ Loose
  /\ phase \in {"setup", "class"} =>
       /\ Filed(total) \cap Filed(ledger.results) = {}
       /\ Chain(BadIn(total))
  /\ phase \in {"summary", "bed"} =>
       /\ pc = "done"
       /\ outcome # "crash" => Chained(ledger.records, BadIn(total))

(* A suite class has one bed, and ok stays FALSE once it is.                 *)
History ==
  /\ clean \in Seq(BOOLEAN)
  /\ ok => \A b \in DOMAIN clean : clean[b]
  /\ mode = "suite_class" /\ phase \in {"setup", "class", "summary", "bed"}
       => clean = <<>>

(* A step of a class run leaves its recorder with the record of a stage.      *)
LEMMA LooseStep ==
  ASSUME Inv, StageOf, Loose, NEW more, Chain(more), ClassStep
  PROVE  Loose'
<1>1. [Next]_vars
  BY DEF Next
<1>2. ASSUME recorder'.rec = recorder.rec,
             ledger.records[recorder.rec].link # "RETRY"
      PROVE  ledger'.records[recorder'.rec].link # "RETRY"
  <2>1. recorder.rec \in DOMAIN ledger.records
    BY DEF Inv, TypeOK, LedgerType
  <2> QED
    BY <1>1, <1>2, <2>1, StepSound DEF Origin
<1>3. ASSUME pc' = "pre_run"
      PROVE  ledger'.records[recorder'.rec].link # "RETRY"
  BY <1>1, <1>2, <1>3, PreRunFirst DEF Loose
<1>4. ASSUME pc' = "done"
      PROVE  ledger'.records[recorder'.rec].link # "RETRY"
  <2>1. \A x : Recorded(x) => recorder'.rec = recorder.rec
    BY DEF Recorded, Inv, TypeOK
  <2>2. ASSUME NEW out \in UserOutcomes, NEW x \in UserExpects, PreRunFails(out, x)
        PROVE  pc = "pre_run" /\ recorder'.rec = recorder.rec
    BY <2>1, <2>2 DEF PreRunFails
  <2>3. ASSUME NEW x \in UserExpects, PreRunReturns(x)
        PROVE  pc = "pre_run" /\ recorder'.rec = recorder.rec
    BY <1>4, <2>1, <2>3 DEF PreRunReturns, EnterStage
  <2>4. CASE FinishCleanUp
    <3>1. /\ pc = "destroy" /\ recorder' = recorder
          /\ pc \notin TestStages \cup {"skip", "done"}
      BY <2>4 DEF FinishCleanUp, TestStages
    <3>2. recorder.rec = info /\ ledger.records[info].name.kind = "stage"
      BY <3>1 DEF StageOf, Inv, StageRecord
    <3>3. info \in DOMAIN ledger.records
      BY DEF Inv, TypeOK, LedgerType
    <3> QED
      BY <1>2, <3>1, <3>2, <3>3 DEF Chain, Chained
  <2> QED
    BY <1>2, <1>4, <2>2, <2>3, <2>4, RunEnds DEF Loose
<1> QED
  BY <1>3, <1>4 DEF Loose

(* What a step of a class run adds to the file shows what is the case.        *)
LEMMA WritesDepicts ==
  ASSUME NEW l, NEW m, SoundLedger(l), SoundLedger(m), NEW touched, NEW new,
         NEW shown, Writes(l, m, touched, new, shown), Depicts(l),
         \A i \in Entries(l) :
           m.records[l.file[i].rec].result = l.records[l.file[i].rec].result
  PROVE  Depicts(m)
<1> DEFINE last == Len(l.file) + 1
<1>1. l.file \in Seq(EntryType) /\ m.records \in Seq(RecordType)
  BY DEF SoundLedger, LedgerType
<1>2. CASE m.file = l.file
  BY <1>2 DEF Depicts, Entries
<1>3. ASSUME NEW entry \in EntryType, m.file = Append(l.file, entry),
             entry.result = IF entry.type = "RECORD"
                            THEN m.records[entry.rec].result ELSE "none"
      PROVE  Depicts(m)
  <2>1. /\ DOMAIN m.file = DOMAIN l.file \cup {last}
        /\ last \notin DOMAIN l.file
        /\ m.file[last] = entry
        /\ \A i \in DOMAIN l.file : m.file[i] = l.file[i]
    BY <1>1, <1>3, AppendAt
  <2> HIDE DEF last
  <2>2. ASSUME NEW i \in DOMAIN l.file
        PROVE  IF i \in Entries(m)
               THEN m.file[i].result = m.records[m.file[i].rec].result
               ELSE m.file[i].result = "none"
    BY <2>1 DEF Depicts, Entries
  <2>3. IF last \in Entries(m)
        THEN m.file[last].result = m.records[m.file[last].rec].result
        ELSE m.file[last].result = "none"
    BY <1>3, <2>1 DEF Entries
  <2> QED
    BY <2>1, <2>2, <2>3 DEF Depicts
<1>4. ASSUME NEW type \in Notes, m.file = Append(l.file, Entry(type, 0, "none"))
      PROVE  Depicts(m)
  <2> DEFINE entry == Entry(type, 0, "none")
  <2>1. entry \in EntryType /\ entry.type # "RECORD" /\ entry.result = "none"
    BY DEF Entry, EntryType, EntryTypes, Notes, Results
  <2> HIDE DEF entry
  <2> QED
    BY <1>3, <1>4, <2>1 DEF entry
<1>5. ASSUME NEW id \in DOMAIN m.records,
             m.file = Append(l.file, Entry("RECORD", id, m.records[id].result))
      PROVE  Depicts(m)
  <2> DEFINE entry == Entry("RECORD", id, m.records[id].result)
  <2>1. /\ entry \in EntryType /\ entry.type = "RECORD" /\ entry.rec = id
        /\ entry.result = m.records[id].result
    <3>1. m.records[id] \in RecordType /\ id \in Nat
      BY <1>1
    <3>2. m.records[id].result \in Results
      BY <3>1 DEF RecordType
    <3> QED
      BY <3>1, <3>2 DEF Entry, EntryType, EntryTypes
  <2> HIDE DEF entry
  <2> QED
    BY <1>3, <1>5, <2>1 DEF entry
<1> QED
  BY <1>2, <1>4, <1>5 DEF Writes, Shows

(* A mark shows no result.                                                   *)
LEMMA MarkDepicts ==
  ASSUME NEW l, SoundLedger(l), NEW type \in {"SUMMARY", "SUITE_INFO"},
         Depicts(l)
  PROVE  Depicts(DumpOther(l, type))
<1> DEFINE entry == Entry(type, 0, "none")
           last == Len(l.file) + 1
           m == DumpOther(l, type)
<1>1. entry \in EntryType /\ entry.type # "RECORD" /\ entry.result = "none"
  BY DEF Entry, EntryType, EntryTypes, Results
<1>2. l.file \in Seq(EntryType)
  BY DEF SoundLedger, LedgerType
<1>3. m.records = l.records /\ m.file = Append(l.file, entry)
  BY DEF SoundLedger, LedgerType, DumpOther
<1> HIDE DEF entry, m
<1>4. /\ DOMAIN m.file = DOMAIN l.file \cup {last}
      /\ m.file[last] = entry
      /\ \A i \in DOMAIN l.file : m.file[i] = l.file[i]
  BY <1>1, <1>2, <1>3, AppendAt
<1> HIDE DEF last
<1>5. Depicts(m)
  BY <1>1, <1>3, <1>4 DEF Depicts, Entries
<1> QED
  BY <1>5 DEF m

(* Results stay well filed as long as their records keep name and result.     *)
LEMMA ResultsKept ==
  ASSUME NEW l, NEW m, NEW res, SoundLedger([l EXCEPT !.results = res]),
         l \in LedgerType, m \in LedgerType,
         \A id \in Filed(res) : /\ id \in DOMAIN m.records
                                /\ m.records[id].name = l.records[id].name
                                /\ m.records[id].result = l.records[id].result
  PROVE  SoundLedger([m EXCEPT !.results = res])
<1> DEFINE k == [l EXCEPT !.results = res]
           o == [m EXCEPT !.results = res]
<1>1. /\ k.records = l.records /\ k.results = res
      /\ o.records = m.records /\ o.results = res /\ o.file = m.file
  BY DEF LedgerType
<1>2. k \in LedgerType /\ WellFiled(k)
  BY DEF SoundLedger
<1> HIDE DEF k
<1>3. o \in LedgerType
  BY <1>1, <1>2 DEF LedgerType
<1> HIDE DEF o
<1>4. \A list \in Lists : \A id \in Ids(res[list]) :
        /\ id \in DOMAIN o.records
        /\ o.records[id].name = k.records[id].name
        /\ o.records[id].result = k.records[id].result
  BY <1>1 DEF Filed
<1>5. WellFiled(o)
  <2>1. /\ Ids(res["failed"])
             \subseteq {id \in DOMAIN o.records : o.records[id].result = "FAIL"}
        /\ Ids(res["passed"])
             \subseteq {id \in DOMAIN o.records : o.records[id].result = "PASS"}
        /\ Ids(res["skipped"])
             \subseteq {id \in DOMAIN o.records : o.records[id].result = "SKIP"}
        /\ Ids(res["error"])
             \subseteq {id \in DOMAIN o.records : o.records[id].result = "ERROR"}
    BY <1>1, <1>2, <1>4 DEF WellFiled, Lists
  <2>2. Ids(res["executed"]) =
          Ids(res["failed"]) \cup Ids(res["passed"]) \cup
            {id \in Ids(res["error"]) : o.records[id].name.kind # "stage"}
    BY <1>1, <1>2, <1>4 DEF WellFiled, Lists
  <2> QED
    BY <1>1, <2>1, <2>2 DEF WellFiled
<1>6. SoundLedger(o)
  BY <1>3, <1>5 DEF SoundLedger
<1> QED
  BY <1>6 DEF o

(* Two lists with nothing in common and no repetitions, one after the other.  *)
LEMMA ConcatOnce ==
  ASSUME NEW s \in Seq(Nat), NEW t \in Seq(Nat), IsInjective(s), IsInjective(t),
         Ids(s) \cap Ids(t) = {}
  PROVE  IsInjective(s \o t)
<1> DEFINE u == s \o t
<1>1. /\ u \in Seq(Nat) /\ Len(u) = Len(s) + Len(t)
      /\ Len(s) \in Nat /\ Len(t) \in Nat
      /\ DOMAIN s = 1..Len(s) /\ DOMAIN t = 1..Len(t) /\ DOMAIN u = 1..Len(u)
  OBVIOUS
<1>2. \A i \in 1..Len(s) : u[i] = s[i]
  OBVIOUS
<1>3. \A i \in 1..Len(t) : u[Len(s) + i] = t[i]
  OBVIOUS
<1> HIDE DEF u
<1>4. ASSUME NEW i \in DOMAIN u, ~(i <= Len(s))
      PROVE  i - Len(s) \in DOMAIN t /\ u[i] = t[i - Len(s)] /\ u[i] \in Ids(t)
  <2>1. i - Len(s) \in 1..Len(t) /\ Len(s) + (i - Len(s)) = i
    BY <1>1, <1>4
  <2> QED
    BY <1>1, <1>3, <2>1 DEF Ids
<1>5. ASSUME NEW i \in DOMAIN u, i <= Len(s)
      PROVE  i \in DOMAIN s /\ u[i] = s[i] /\ u[i] \in Ids(s)
  BY <1>1, <1>2, <1>5 DEF Ids
<1>6. ASSUME NEW i \in DOMAIN u, NEW j \in DOMAIN u, u[i] = u[j]
      PROVE  i = j
  <2>1. CASE i <= Len(s) /\ j <= Len(s)
    BY <1>5, <1>6, <2>1 DEF IsInjective
  <2>2. CASE ~(i <= Len(s)) /\ ~(j <= Len(s))
    <3>1. i - Len(s) = j - Len(s)
      BY <1>4, <1>6, <2>2 DEF IsInjective
    <3> QED
      BY <1>1, <3>1
  <2>3. CASE (i <= Len(s)) # (j <= Len(s))
    BY <1>4, <1>5, <1>6, <2>3
  <2> QED
    BY <2>1, <2>2, <2>3
<1>7. IsInjective(u)
  BY <1>6 DEF IsInjective
<1> QED
  BY <1>7 DEF u

(* The runner adds the results of a class to those of the classes before.     *)
LEMMA MergeSound ==
  ASSUME NEW l, SoundLedger(l), NEW res, SoundLedger([l EXCEPT !.results = res]),
         Once(res), Once(l.results), Filed(res) \cap Filed(l.results) = {}
  PROVE  /\ SoundLedger([l EXCEPT !.results = MergeResults(res, l.results)])
         /\ Once(MergeResults(res, l.results))
         /\ BadIn(MergeResults(res, l.results)) = BadIn(res) \cup BadIn(l.results)
<1> DEFINE sum == MergeResults(res, l.results)
           k == [l EXCEPT !.results = res]
           o == [l EXCEPT !.results = sum]
<1>1. /\ l \in LedgerType /\ l.results \in [Lists -> Seq(Nat)]
      /\ k.records = l.records /\ k.results = res
      /\ o.records = l.records /\ o.results = sum /\ o.file = l.file
      /\ DOMAIN o = {"records", "results", "file"}
  BY DEF SoundLedger, LedgerType
<1>2. res \in [Lists -> Seq(Nat)] /\ WellFiled(k)
  BY <1>1 DEF SoundLedger, LedgerType
<1>3. /\ sum \in [Lists -> Seq(Nat)]
      /\ \A list \in Lists : sum[list] = res[list] \o l.results[list]
  BY <1>1, <1>2, MergeFiled DEF MergeResults
<1>4. o \in LedgerType
  <2> HIDE DEF sum
  <2> QED
    BY <1>1, <1>3 DEF LedgerType
<1> HIDE DEF sum, k, o
<1>5. \A list \in Lists :
        /\ Ids(sum[list]) = Ids(res[list]) \cup Ids(l.results[list])
        /\ IsInjective(sum[list])
  <2> SUFFICES ASSUME NEW list \in Lists
               PROVE  /\ Ids(sum[list]) = Ids(res[list]) \cup Ids(l.results[list])
                      /\ IsInjective(sum[list])
    OBVIOUS
  <2> DEFINE s == res[list]
             t == l.results[list]
  <2>1. /\ s \in Seq(Nat) /\ t \in Seq(Nat) /\ sum[list] = s \o t
        /\ IsInjective(s) /\ IsInjective(t)
    BY <1>1, <1>2, <1>3 DEF Once
  <2>2. Ids(s) \cap Ids(t) = {}
    BY DEF Filed
  <2> HIDE DEF s, t
  <2>3. Ids(s \o t) = Ids(s) \cup Ids(t) /\ IsInjective(s \o t)
    BY <2>1, <2>2, IdsConcat, ConcatOnce
  <2> QED
    BY <2>1, <2>3 DEF s, t
<1>6. Once(sum) /\ BadIn(sum) = BadIn(res) \cup BadIn(l.results)
  BY <1>5 DEF Once, BadIn, Lists
<1>7. WellFiled(o)
  <2>1. WellFiled(l)
    BY DEF SoundLedger
  <2>2. /\ Ids(sum["failed"])
             \subseteq {id \in DOMAIN l.records : l.records[id].result = "FAIL"}
        /\ Ids(sum["passed"])
             \subseteq {id \in DOMAIN l.records : l.records[id].result = "PASS"}
        /\ Ids(sum["skipped"])
             \subseteq {id \in DOMAIN l.records : l.records[id].result = "SKIP"}
        /\ Ids(sum["error"])
             \subseteq {id \in DOMAIN l.records : l.records[id].result = "ERROR"}
    BY <1>1, <1>2, <1>5, <2>1 DEF WellFiled, Lists
  <2>3. Ids(sum["executed"]) =
          Ids(sum["failed"]) \cup Ids(sum["passed"]) \cup
            {id \in Ids(sum["error"]) : l.records[id].name.kind # "stage"}
    BY <1>1, <1>2, <1>5, <2>1 DEF WellFiled, Lists
  <2> QED
    BY <1>1, <2>2, <2>3 DEF WellFiled
<1> QED
  BY <1>4, <1>6, <1>7 DEF SoundLedger, sum, o

(* What is_all_pass says of a bed, its summary file says too.                 *)
LEMMA BedClean ==
  ASSUME RunInv, Summed, phase = "bed", outcome # "crash",
         IsAllPass(ledger.records, total)
  PROVE  FileClean
<1> DEFINE shown(results) ==
             {ledger.file[i].rec : i \in {j \in DOMAIN ledger.file :
                                            ledger.file[j].result \in results}}
<1>1. /\ Inv /\ SoundLedger(ledger) /\ ledger.records \in Seq(RecordType)
      /\ DOMAIN ledger.records = 1..Len(ledger.records)
      /\ Len(ledger.records) \in Nat
  BY InvSound DEF RunInv, Inv, TypeOK, LedgerType
<1>2. /\ SoundLedger(Total) /\ Total.records = ledger.records
      /\ Total.results = total
  BY <1>1 DEF Summed, Total, SoundLedger, LedgerType
<1>3. Verdictable(ledger.records, total)
  <2>1. total \in [Lists -> Seq(DOMAIN ledger.records)]
    BY <1>2, ResultLists
  <2>2. Chained(ledger.records, BadIn(total)) /\ Once(total)
    BY DEF Summed
  <2>3. /\ Ids(total["failed"]) \cap Ids(total["error"]) = {}
        /\ Ids(total["passed"]) \cap BadIn(total) = {}
    BY <1>2 DEF SoundLedger, WellFiled, BadIn
  <2> QED
    BY <2>1, <2>2, <2>3 DEF Verdictable, Once, Lists
<1>4. \A id \in BadIn(total) : Forgiven(id, Ids(total["passed"]))
  BY <1>1, <1>3, VerdictOf
<1>5. ASSUME NEW id \in shown({"FAIL", "ERROR"})
      PROVE  id \in BadIn(total)
  <2>1. PICK i \in DOMAIN ledger.file :
          id = ledger.file[i].rec /\ ledger.file[i].result \in {"FAIL", "ERROR"}
    BY <1>5
  <2>2. /\ i \in Entries(ledger)
        /\ ledger.file[i].result = ledger.records[id].result
    BY <2>1 DEF Summed, Depicts
  <2>3. id \in Filed(total) /\ Failed(ledger.records[id])
    BY <2>1, <2>2 DEF RunInv, Told, Failed
  <2> QED
    BY <1>2, <2>3, FiledBad
<1>6. ASSUME NEW p \in Ids(total["passed"]), ledger.records[p].link = "RETRY"
      PROVE  p \in shown({"PASS"})
  <2>1. /\ p \in Filed(total) /\ p \in DOMAIN ledger.records
        /\ ledger.records[p].result = "PASS"
    BY <1>2 DEF Filed, Lists, SoundLedger, WellFiled
  <2>2. ledger.records[p].name.kind = "retry"
    BY <1>6, <2>1 DEF Summed, Chained
  <2>3. ledger.records[p].name # StageName("setup_class")
    BY <2>2 DEF StageName
  <2>4. PICK i \in Entries(ledger) : /\ ledger.file[i].rec = p
                                     /\ ledger.file[i].result = "PASS"
    BY <2>1, <2>3 DEF RunInv, Told, Recounted
  <2> QED
    BY <2>4 DEF Entries
<1>7. ASSUME NEW id \in shown({"FAIL", "ERROR"})
      PROVE  Forgiven(id, shown({"PASS"}))
  <2>1. Forgiven(id, Ids(total["passed"])) /\ id \in BadIn(total)
    BY <1>4, <1>5, <1>7
  <2>2. PICK p \in Ids(total["passed"]) :
          /\ p > id
          /\ \A j \in id + 1..p :
               /\ ledger.records[j].link = "RETRY"
               /\ ledger.records[j].name.test = ledger.records[id].name.test
    BY <2>1 DEF Forgiven
  <2>3. id \in Nat /\ p \in Nat
    <3>1. id \in Filed(total) /\ p \in Filed(total)
      BY <2>1, <2>2 DEF BadIn, Filed, Lists
    <3> QED
      BY <1>1, <3>1 DEF RunInv, Kept
  <2>4. p \in id + 1..p
    BY <2>2, <2>3
  <2>5. p \in shown({"PASS"})
    BY <1>6, <2>2, <2>4
  <2> HIDE DEF shown
  <2> QED
    BY <2>2, <2>5 DEF Forgiven
<1> QED
  BY <1>7 DEF FileClean

(* A step of a class run keeps this.                                         *)
LEMMA SummedInClass ==
  ASSUME RunInv, Summed, InClass
  PROVE  Summed'
<1>1. /\ phase = "class" /\ ClassStep /\ [Next]_vars
      /\ UNCHANGED <<phase, total, outcome>>
      /\ Inv /\ StageOf /\ Kept /\ Apart /\ Told
  BY DEF InClass, Next, runner, RunInv
<1>2. /\ SoundLedger(ledger) /\ SoundLedger(ledger')
      /\ DOMAIN ledger.records \subseteq DOMAIN ledger'.records
  BY <1>1, StepSound
<1>3. PICK touched, new, shown :
        /\ Writes(ledger, ledger', touched, new, shown)
        /\ \A id \in new : id = info \/ id \notin DOMAIN ledger.records
  BY <1>1, FiledByStep
<1>4. \A id \in AllFiled :
        /\ id \in DOMAIN ledger'.records
        /\ ledger'.records[id].name = ledger.records[id].name
        /\ ledger'.records[id].result = ledger.records[id].result
  BY <1>1, <1>2, CountedStays
<1>5. SoundLedger(Total)'
  <2>1. \A id \in Filed(total) : id \in AllFiled
    BY DEF AllFiled
  <2>2. SoundLedger([ledger EXCEPT !.results = total])
    BY DEF Summed, Total
  <2>3. SoundLedger([ledger' EXCEPT !.results = total])
    BY <1>2, <1>4, <2>1, <2>2, ResultsKept DEF SoundLedger
  <2> QED
    BY <1>1, <2>3 DEF Total
<1>6. Once(total') /\ Once(ledger'.results)
  BY <1>1, <1>2, <1>3, FilesOnce DEF Writes, Summed
<1>7. Depicts(ledger')
  <2>1. \A i \in Entries(ledger) : ledger.file[i].rec \in AllFiled
    BY <1>1 DEF Told
  <2> QED
    BY <1>2, <1>3, <1>4, <2>1, WritesDepicts DEF Summed
<1>8. Latest' /\ Chain(BadIn(total))'
  BY <1>1, ChainStep DEF Summed, Chain
<1>9. Loose'
  BY <1>1, LooseStep DEF Summed
<1>10. Filed(total') \cap Filed(ledger'.results) = {}
  <2>1. Filed(ledger'.results) = Filed(ledger.results) \cup new
    BY <1>3 DEF Writes, Files
  <2>2. info \notin Filed(total) /\ Filed(total) \subseteq DOMAIN ledger.records
    BY <1>1 DEF Apart, Kept
  <2> QED
    BY <1>1, <1>3, <2>1, <2>2 DEF Summed
<1> QED
  BY <1>1, <1>5, <1>6, <1>7, <1>8, <1>9, <1>10 DEF Summed

(* A stage record is no link.                                                *)
LEMMA ChainAppend ==
  ASSUME NEW records \in Seq(RecordType), NEW r \in RecordType,
         r.link # "RETRY", NEW bad, Chained(records, bad)
  PROVE  Chained(Append(records, r), bad)
<1>1. /\ DOMAIN Append(records, r) = DOMAIN records \cup {Len(records) + 1}
      /\ Append(records, r)[Len(records) + 1] = r
      /\ \A i \in DOMAIN records : Append(records, r)[i] = records[i]
  BY AppendAt
<1>2. \A i \in DOMAIN records : i > 1 => i - 1 \in DOMAIN records
  OBVIOUS
<1> QED
  BY <1>1, <1>2 DEF Chained

(* A class starts, after others of its bed or alone.                         *)
LEMMA SummedStart ==
  ASSUME NEW records \in Seq(RecordType), NEW file \in Seq(EntryType),
         NEW held \in DOMAIN records, TypeOK, ledger' \in LedgerType,
         StartClass(records, file, held),
         records[held].link # "RETRY", Chained(records, BadIn(total')),
         NEW l, l \in LedgerType, l.records = records, l.file = file,
         SoundLedger([l EXCEPT !.results = total']), Once(total'), Depicts(l),
         \A i \in Entries(l) : file[i].rec \in DOMAIN records,
         phase' = "class"
  PROVE  Summed'
<1> DEFINE first == NewRecord(StageName("pre_run"), 0, "none")
<1>1. first \in RecordType /\ first.link = "none"
  <2>1. first \in RecordType
    BY StageNames, NewRecordType DEF StageLabels, Links
  <2> QED
    BY <2>1 DEF NewRecord
<1>2. /\ ledger'.records = Append(records, first)
      /\ ledger'.results = EmptyResult
      /\ ledger'.file = file
      /\ pc' = "pre_run" /\ recorder'.rec = held
  BY DEF StartClass, TypeOK
<1> HIDE DEF first
<1>3. /\ DOMAIN records \subseteq DOMAIN ledger'.records
      /\ \A i \in DOMAIN records : ledger'.records[i] = records[i]
  BY <1>1, <1>2, AppendAt
<1>4. SoundLedger(Total)'
  <2>1. Filed(total') \subseteq DOMAIN records
    <3> DEFINE k == [l EXCEPT !.results = total']
    <3>1. k.results = total' /\ k.records = records /\ SoundLedger(k)
      BY DEF LedgerType
    <3> HIDE DEF k
    <3> QED
      BY <3>1, FiledExist
  <2>2. SoundLedger([ledger' EXCEPT !.results = total'])
    BY <1>3, <2>1, ResultsKept
  <2> QED
    BY <2>2 DEF Total
<1>5. Once(ledger'.results) /\ BadIn(ledger'.results) = {} /\ Filed(ledger'.results) = {}
  BY <1>2, EmptyFiled DEF Once, EmptyResult, IsInjective, BadIn, Lists, Ids
<1>6. Depicts(ledger')
  <2>1. Entries(ledger') = Entries(l)
    BY <1>2 DEF Entries
  <2> QED
    BY <1>2, <1>3, <2>1 DEF Depicts
<1>7. Latest' /\ Loose'
  BY <1>2, <1>3 DEF Latest, Loose, TestStages
<1>8. Chain(BadIn(total))'
  BY <1>1, <1>2, <1>5, ChainAppend DEF Chain
<1> QED
  BY <1>4, <1>5, <1>6, <1>7, <1>8 DEF Summed

(* So does the runner as it adds the results of a class that ended.          *)
LEMMA SummedEndClass ==
  ASSUME RunInv, Summed, EndClass
  PROVE  Summed'
<1>1. /\ phase = "class" /\ pc = "done"
      /\ total' = IF Counted(exc) THEN MergeResults(total, ledger.results)
                                  ELSE total
      /\ Inv /\ StageOf /\ TypeOK
      /\ RunInv'
  BY EndClassInv DEF EndClass, RunInv, Inv
<1>2. /\ SoundLedger(ledger) /\ recorder.rec \in DOMAIN ledger.records
      /\ ledger \in LedgerType
      /\ ledger.records \in Seq(RecordType) /\ ledger.file \in Seq(EntryType)
      /\ Filed(ledger.results) \subseteq DOMAIN ledger.records
  BY <1>1, InvSound, FiledExist DEF SoundLedger, LedgerType
<1>3. /\ Filed(total) \cap Filed(ledger.results) = {}
      /\ Chain(BadIn(total)) /\ Once(total) /\ Once(ledger.results)
      /\ SoundLedger([ledger EXCEPT !.results = total])
  BY <1>1 DEF Summed, Total
<1>4. Counted(exc) \in BOOLEAN /\ (Counted(exc) <=> exc # "crash")
  BY DEF Counted
<1>5. /\ SoundLedger([ledger EXCEPT !.results = total'])
      /\ Once(total')
      /\ exc # "crash" => Chained(ledger.records, BadIn(total'))
  <2>1. CASE Counted(exc)
    <3>1. total' = MergeResults(total, ledger.results)
      BY <1>1, <2>1
    <3>2. BadIn(total') = BadIn(total) \cup BadIn(ledger.results)
      BY <1>2, <1>3, <3>1, MergeSound
    <3> QED
      BY <1>2, <1>3, <3>1, <3>2, MergeSound DEF Chain
  <2>2. CASE ~Counted(exc)
    BY <1>1, <1>3, <1>4, <2>2
  <2> QED
    BY <1>4, <2>1, <2>2
<1>6. CASE /\ exc \notin {"crash", "abort_all"} /\ phase' = phase
           /\ StartClass(ledger.records, ledger.file, recorder.rec)
  <2>1. ledger' \in LedgerType
    BY <1>1 DEF RunInv, Inv, TypeOK
  <2>2. ledger.records[recorder.rec].link # "RETRY"
    BY <1>1 DEF Summed, Loose
  <2>4. \A i \in Entries(ledger) : ledger.file[i].rec \in DOMAIN ledger.records
    BY <1>1, <1>2 DEF RunInv, Told, AllFiled, Kept
  <2>5. Depicts(ledger)
    BY DEF Summed
  <2> QED
    BY <1>1, <1>2, <1>5, <1>6, <2>1, <2>2, <2>4, <2>5, SummedStart
<1>7. CASE /\ phase' = "summary" /\ UNCHANGED vars
           /\ \/ exc # "crash"
              \/ exc = "crash" /\ outcome' = "crash"
  <2>1. UNCHANGED <<pc, ledger, info, recorder>>
    BY <1>7 DEF vars
  <2>2. SoundLedger(Total)'
    BY <1>5, <2>1 DEF Total
  <2>3. Latest' /\ Loose'
    BY <2>1 DEF Summed, Latest, Loose
  <2> QED
    BY <1>1, <1>3, <1>5, <1>7, <2>1, <2>2, <2>3 DEF Summed
<1> QED
  BY <1>1, <1>6, <1>7 DEF EndClass

(* A mark in the file concerns none of it.                                   *)
LEMMA SummedMark ==
  ASSUME RunInv, Summed, NEW type \in {"SUMMARY", "SUITE_INFO"},
         ledger' = DumpOther(ledger, type), UNCHANGED <<pc, info, recorder>>,
         UNCHANGED <<total, outcome>>,
         phase' \notin {"setup", "class"},
         phase' \in {"summary", "bed"} =>
           /\ pc = "done"
           /\ outcome # "crash" => Chained(ledger.records, BadIn(total))
  PROVE  Summed'
<1>1. SoundLedger(ledger) /\ ledger \in LedgerType
  BY InvSound DEF RunInv, SoundLedger
<1>2. /\ ledger'.records = ledger.records /\ ledger'.results = ledger.results
      /\ SoundLedger(ledger') /\ ledger' \in LedgerType
  BY <1>1, MarkAdded DEF SoundLedger
<1>3. SoundLedger(Total)'
  <2>1. Filed(total) \subseteq DOMAIN ledger'.records
    BY <1>2 DEF RunInv, Kept
  <2>2. SoundLedger([ledger EXCEPT !.results = total])
    BY DEF Summed, Total
  <2>3. SoundLedger([ledger' EXCEPT !.results = total])
    BY <1>1, <1>2, <2>1, <2>2, ResultsKept
  <2> QED
    BY <2>3 DEF Total
<1>4. Depicts(ledger')
  BY <1>1, MarkDepicts DEF Summed
<1>5. Latest' /\ Loose'
  BY <1>2 DEF Summed, Latest, Loose
<1> QED
  BY <1>2, <1>3, <1>4, <1>5 DEF Summed

(* The next bed starts with nothing filed, and its class alone.              *)
LEMMA SummedEndBed ==
  ASSUME RunInv, Summed, EndBed
  PROVE  Summed'
<1>1. phase = "bed" /\ Inv /\ TypeOK /\ RunInv' /\ pc = "done"
  BY EndBedInv DEF EndBed, RunInv, Inv, Summed
<1>2. CASE /\ phase' = "class" /\ total' = EmptyResult
           /\ StartClass(<<ledger.records[recorder.rec]>>, <<>>, 1)
  <2> DEFINE records == <<ledger.records[recorder.rec]>>
             l == [records |-> records, results |-> EmptyResult, file |-> <<>>]
  <2>1. /\ records \in Seq(RecordType) /\ <<>> \in Seq(EntryType)
        /\ 1 \in DOMAIN records /\ DOMAIN records = {1}
        /\ records[1].link # "RETRY"
    <3>1. ledger.records \in Seq(RecordType)
          /\ recorder.rec \in DOMAIN ledger.records
      BY <1>1, InvSound DEF SoundLedger, LedgerType
    <3>2. ledger.records[recorder.rec] \in RecordType
      BY <3>1
    <3> QED
      BY <1>1, <3>2 DEF Summed, Loose
  <2> HIDE DEF records
  <2>2. StartClass(records, <<>>, 1)
    BY <1>2 DEF records
  <2>3. /\ l \in LedgerType /\ l.records = records
        /\ [l EXCEPT !.results = total'] = l
        /\ l.file = <<>>
    BY <1>2, <2>1, EmptyFiled DEF LedgerType
  <2>4. \A list \in Lists : l.results[list] = <<>>
    BY DEF EmptyResult
  <2>5. SoundLedger(l)
    BY <2>3, <2>4 DEF SoundLedger, WellFiled, Ids, Lists
  <2>6. Once(total') /\ BadIn(total') = {}
    BY <1>2 DEF EmptyResult, Once, IsInjective, BadIn, Lists, Ids
  <2>7. Chained(records, BadIn(total'))
    BY <2>1 DEF Chained
  <2>8. Depicts(l) /\ Entries(l) = {}
    BY DEF Depicts, Entries
  <2>9. ledger' \in LedgerType
    BY <1>1 DEF RunInv, Inv, TypeOK
  <2> HIDE DEF l
  <2> QED
    BY <1>1, <1>2, <2>1, <2>2, <2>3, <2>5, <2>6, <2>7, <2>8, <2>9, SummedStart
<1>3. CASE UNCHANGED <<vars, total, outcome>> /\ phase' \in {"teardown", "exit"}
  <2>1. UNCHANGED <<pc, ledger, info, recorder>>
    BY <1>3 DEF vars
  <2> QED
    BY <1>3, <2>1 DEF Summed, Total, Latest, Loose
<1> QED
  BY <1>2, <1>3 DEF EndBed

(* It holds as the program starts.                                           *)
LEMMA SummedInit ==
  ASSUME RunInit
  PROVE  Summed /\ History
<1>1. /\ Init /\ phase \in {"setup", "class"} /\ total = EmptyResult
      /\ clean = <<>>
  BY DEF RunInit
<1>2. SoundLedger(ledger) /\ ledger \in LedgerType
  BY <1>1, InitInv, InvSound DEF SoundLedger
<1>3. ledger.results = EmptyResult /\ ledger.file = <<>>
  BY <1>1 DEF Init
<1>4. SoundLedger(Total)
  <2>1. Total = ledger
    BY <1>1, <1>2, <1>3 DEF Total, LedgerType
  <2> QED
    BY <1>2, <2>1
<1>5. /\ Once(EmptyResult) /\ Filed(EmptyResult) = {}
      /\ Depicts(ledger) /\ Latest
  BY <1>1, <1>3, EmptyFiled
     DEF Once, EmptyResult, IsInjective, Depicts, Entries, Latest, Init, TestStages
<1>6. \A id \in DOMAIN ledger.records : ledger.records[id].link = "none"
  BY <1>1 DEF Init, NewRecord
<1>7. Loose /\ Chain(BadIn(total))
  <2>1. recorder.rec \in DOMAIN ledger.records
    BY <1>1 DEF Init
  <2> QED
    BY <1>6, <2>1 DEF Loose, Chain, Chained
<1>8. History
  BY <1>1 DEF History
<1> QED
  BY <1>1, <1>3, <1>4, <1>5, <1>7, <1>8 DEF Summed

(* The bed that ends without a failure is clean.                             *)
LEMMA HistoryEndBed ==
  ASSUME RunInv, Summed, History, EndBed
  PROVE  History'
<1>1. /\ phase = "bed" /\ mode' = mode /\ ok' = NextOk
      /\ clean' = Append(clean, FileClean)
      /\ mode = "suite_class" => phase' = "teardown"
  BY DEF EndBed
<1>2. FileClean \in BOOLEAN
  BY DEF FileClean
<1> DEFINE c == FileClean
<1> HIDE DEF c
<1>3. c \in BOOLEAN /\ clean' = Append(clean, c) /\ clean \in Seq(BOOLEAN)
  BY <1>1, <1>2 DEF c, History
<1>4. clean' \in Seq(BOOLEAN)
  BY <1>3
<1>5. /\ DOMAIN clean' = DOMAIN clean \cup {Len(clean) + 1}
      /\ clean'[Len(clean) + 1] = c
      /\ \A b \in DOMAIN clean : clean'[b] = clean[b]
  BY <1>3, AppendAt
<1>6. ASSUME ok' PROVE c /\ \A b \in DOMAIN clean : clean[b]
  <2>1. /\ ok \/ mode = "suite_class"
        /\ outcome # "crash" /\ IsAllPass(ledger.records, total)
    BY <1>1, <1>6 DEF NextOk
  <2>2. FileClean
    BY <1>1, <2>1, BedClean
  <2>3. \A b \in DOMAIN clean : clean[b]
    BY <1>1, <2>1 DEF History
  <2> QED
    BY <2>2, <2>3 DEF c
<1>7. ok' => \A b \in DOMAIN clean' : clean'[b]
  BY <1>5, <1>6, Zenon
<1> QED
  BY <1>1, <1>4, <1>7 DEF History

(* Every step of the program keeps both.                                     *)
LEMMA SummedStep ==
  ASSUME RunInv, Summed, History, [RunNext]_runVars
  PROVE  Summed' /\ History'
<1>1. ASSUME NEW raises \in BOOLEAN, SetupSuite(raises)
      PROVE  Summed' /\ History'
  <2>1. /\ phase = "setup" /\ UNCHANGED <<vars, mode, total, ok, clean>>
        /\ phase' \in {"teardown", "class"}
    BY <1>1 DEF SetupSuite
  <2>2. UNCHANGED <<pc, ledger, info, recorder>>
    BY <2>1 DEF vars
  <2> QED
    BY <2>1, <2>2 DEF Summed, Total, Latest, Loose, Chain, History
<1>2. CASE InClass
  <2>1. phase = "class" /\ UNCHANGED <<mode, phase, ok, clean>>
    BY <1>2 DEF InClass, runner
  <2> QED
    BY <1>2, <2>1, SummedInClass DEF History
<1>3. CASE EndClass
  <2>1. phase = "class" /\ UNCHANGED <<mode, ok, clean>>
    BY <1>3 DEF EndClass
  <2> QED
    BY <1>3, <2>1, SummedEndClass DEF History
<1>4. CASE WriteSummary
  <2>1. /\ phase = "summary" /\ phase' = "bed"
        /\ ledger' = DumpOther(ledger, "SUMMARY")
        /\ UNCHANGED <<pc, info, recorder>> /\ UNCHANGED <<total, outcome>>
        /\ UNCHANGED <<mode, ok, clean>>
    BY <1>4 DEF WriteSummary
  <2>2. /\ pc = "done"
        /\ outcome # "crash" => Chained(ledger.records, BadIn(total))
    BY <2>1 DEF Summed
  <2>3. Summed'
    BY <2>1, <2>2, SummedMark
  <2> QED
    BY <2>1, <2>3 DEF History
<1>5. CASE EndBed
  BY <1>5, SummedEndBed, HistoryEndBed
<1>6. ASSUME NEW raises \in BOOLEAN, TeardownSuite(raises)
      PROVE  Summed' /\ History'
  <2>1. /\ phase = "teardown" /\ phase' = "exit"
        /\ ledger' = IF raises THEN ledger ELSE DumpOther(ledger, "SUITE_INFO")
        /\ ok' = (ok /\ ~raises)
        /\ UNCHANGED <<pc, info, recorder>> /\ UNCHANGED <<total, outcome>>
        /\ UNCHANGED <<mode, clean>>
    BY <1>6 DEF TeardownSuite, StillOk
  <2>2. History'
    BY <2>1 DEF History
  <2>3. CASE raises
    <3>1. ledger' = ledger
      BY <2>1, <2>3
    <3> QED
      BY <2>1, <2>2, <3>1 DEF Summed, Total, Latest, Loose
  <2>4. CASE ~raises
    <3>1. ledger' = DumpOther(ledger, "SUITE_INFO")
      BY <2>1, <2>4
    <3> QED
      BY <2>1, <2>2, <3>1, SummedMark
  <2> QED
    BY <2>3, <2>4
<1>7. CASE UNCHANGED runVars
  <2>1. UNCHANGED <<pc, ledger, info, recorder, mode, phase, total, outcome, ok,
                    clean>>
    BY <1>7 DEF runVars, runner, vars
  <2> QED
    BY <2>1 DEF Summed, Total, Latest, Loose, Chain, History
<1> QED
  BY <1>1, <1>2, <1>3, <1>4, <1>5, <1>6, <1>7 DEF RunNext, RunStep, Exited

(* run_suite, run_suite_class: the program exits with 0 only if no bed's        *)
(* summary file shows a failure that no retry forgives, for every number of   *)
(* beds and of classes, in whichever class or stage it happens.              *)
THEOREM ExitCorrect == RunSpec => []ExitSound
<1>1. RunInit => Summed /\ History
  BY SummedInit
<1>2. RunInv /\ Summed /\ History /\ [RunNext]_runVars => Summed' /\ History'
  BY SummedStep
<1>3. History => ExitSound
  BY DEF History, ExitSound
<1> QED
  BY <1>1, <1>2, <1>3, RunInvariance, PTL DEF RunSpec
=============================================================================
