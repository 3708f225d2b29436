--------------------------- MODULE Instrumentation --------------------------
(***************************************************************************)
(* The parser of the output of an instrumentation run on a device          *)
(* (mobly/base_instrumentation_test.py): it follows the lines as adb hands *)
(* them over and files a record for each test of the device.               *)
(***************************************************************************)
EXTENDS Naturals, Sequences, FiniteSets, SequencesExt

None == "None"

(* Lines: a key with its value, the code that ends a block, the result that  *)
(* ends the run, a failure to start, and any other text, which continues the *)
(* value before it.                                                          *)
Status(key, value) == [kind |-> "status", key |-> key, value |-> value]
Code(c) == [kind |-> "code", code |-> c]
Result(key) == [kind |-> "result", key |-> key, value |-> None]
Failed == [kind |-> "failed"]
Text(what) == [kind |-> "text", what |-> what]
Blank == Text("")

Timing == {"START", "IN_PROGRESS"}

(* The block before it, if any, is kept in a sequence of length one.         *)
NewBlock(state, previous) ==
  [state |-> state, code |-> None, test |-> None, keys |-> {}, lines |-> {},
   empty |-> TRUE, error |-> FALSE, previous |-> previous]

SetKey(b, line) ==
  [b EXCEPT !.empty = FALSE, !.keys = @ \cup {line.key},
            !.test = IF line.key = "test" THEN line.value ELSE @]

SetStatusCode(b, line) == [b EXCEPT !.empty = FALSE, !.code = line.code]

AddValue(b, line) ==
  [b EXCEPT !.empty = @ /\ line = Blank, !.lines = @ \cup {line}]

-----------------------------------------------------------------------------
(* Records *)

IsFailed(b) ==
  \/ b.code \in {"ERROR", "FAILURE"}
  \/ "stack" \in b.keys /\ b.code # "ASSUMPTION_FAILURE"
  \/ b.keys \cap {"Error", "shortMsg", "longMsg"} # {}

(* The result, or None: a block of timing alone has no record.               *)
ResultOf(b) ==
  CASE IsFailed(b) -> "FAIL"
    [] b.code \in {"IGNORED", "ASSUMPTION_FAILURE"} -> "SKIP"
    [] b.code = "OK" -> "PASS"
    [] b.code \in Timing /\ ~b.error -> None
    [] OTHER -> "ERROR"

(* The record of a block, if it has one. *)
CreateRecord(b) ==
  IF ResultOf(b) = None THEN <<>> ELSE <<[test |-> b.test, result |-> ResultOf(b)]>>

(* Mutant: a run that ends is not the end of the test it was in. *)
NeverCompletedStartOnly(b, new) ==
  b.previous # <<>> /\ b.previous[1].code \in Timing /\ b.code = "START"

(* A test was begun in the block before, and this one begins another or ends *)
(* the run.                                                                  *)
PreviousNeverCompleted(b, new) ==
  /\ b.previous # <<>> /\ b.previous[1].code \in Timing
  /\ b.code = "START" \/ new = "RESULT"

Formatted(b, new) ==
  (IF PreviousNeverCompleted(b, new)
   THEN CreateRecord([b.previous[1] EXCEPT !.error = TRUE]) ELSE <<>>)
  \o (IF b.empty THEN <<>> ELSE CreateRecord(b))

-----------------------------------------------------------------------------
(* The parser: the block it is in, the records it filed, and whether it      *)
(* raised.                                                                   *)

(* A block whose kind was unknown becomes of the new kind, any other ends.   *)
TransitionState(b, new) ==
  IF b.state = "UNKNOWN" THEN [b EXCEPT !.state = new]
  ELSE NewBlock(new, <<[b EXCEPT !.previous = <<>>]>>)

Transition(p, new) ==
  [p EXCEPT !.filed = @ \o Formatted(p.block, new),
            !.block = TransitionState(@, new)]

(* A result in the middle of a block: _parse_result_line, which is to go on, *)
(* does not exist, and is looked up before the block is ended.               *)
ParseMethodBlockLine(p, line) ==
  CASE line.kind = "status" -> [p EXCEPT !.block = SetKey(@, line)]
    [] line.kind = "code" ->
         Transition([p EXCEPT !.block = SetStatusCode(@, line)], "UNKNOWN")
    [] line.kind = "result" ->
         [p EXCEPT !.block = SetKey(@, line), !.raised = TRUE]
    [] OTHER -> [p EXCEPT !.block = AddValue(@, line)]

ParseResultBlockLine(p, line) == [p EXCEPT !.block = AddValue(@, line)]

ParseUnknownBlockLine(p, line) ==
  CASE line.kind = "status" -> ParseMethodBlockLine(Transition(p, "METHOD"), line)
    [] line.kind \in {"result", "failed"} ->
         ParseResultBlockLine(Transition(p, "RESULT"), line)
    [] OTHER -> [p EXCEPT !.block = AddValue(@, line)]

ParseLine(p, line) ==
  CASE p.raised -> p
    [] p.block.state = "METHOD" -> ParseMethodBlockLine(p, line)
    [] p.block.state = "RESULT" -> ParseResultBlockLine(p, line)
    [] OTHER -> ParseUnknownBlockLine(p, line)

FinishParsing(p) ==
  CASE p.raised -> "AttributeError"
    [] Text("OK (") \in p.block.lines -> "passed"
    [] Text("FAILURES!!!") \in p.block.lines -> "failed"
    [] OTHER -> "TestError"

Start == [block |-> NewBlock("UNKNOWN", <<>>), filed |-> <<>>, raised |-> FALSE]

(* The lines, one after the other. *)
ParseLines(p, lines) ==
  LET after[i \in 0..Len(lines)] ==
        IF i = 0 THEN p ELSE ParseLine(after[i - 1], lines[i])
  IN after[Len(lines)]

RunInstrumentationTest(output) ==
  LET p == ParseLines(Start, output)
  IN [filed |-> p.filed, outcome |-> FinishParsing(p)]

-----------------------------------------------------------------------------
(* What a device prints: each test begins and, unless its process dies with  *)
(* it, ends; then the run ends in one of these ways.                         *)

Ends == {"OK", "FAILURE", "ERROR", "IGNORED", "ASSUMPTION_FAILURE", "never"}

Finishes == {"passed", "failed", "crash", "cut", "torn"}

(* Blank lines may be anywhere, and a value may have more than one line.     *)
Begins(test) ==
  <<Status("stream", None), Text("more"), Blank, Status("test", test), Blank,
    Code("START"), Blank>>

Ended(test, end) ==
  IF end = "never" THEN <<>>
  ELSE (IF end = "OK" THEN <<Status("test", test), Code("IN_PROGRESS")>> ELSE <<>>)
       \o (IF end \in {"FAILURE", "ASSUMPTION_FAILURE"}
           THEN <<Status("stack", None), Text("more")>> ELSE <<>>)
       \o <<Status("test", test), Code(end), Blank>>

(* "torn": the process dies while it writes a block; "cut": adb ends.        *)
Finish(how) ==
  CASE how = "passed" -> <<Result("stream"), Blank, Text("OK ("), Text("more")>>
    [] how = "failed" -> <<Result("stream"), Text("FAILURES!!!")>>
    [] how = "crash" -> <<Result("shortMsg"), Text("more")>>
    [] how = "torn" -> <<Status("stream", None), Result("shortMsg"), Text("more")>>
    [] how = "cut" -> <<>>

Output(tests, how) ==
  LET printed[i \in 0..Len(tests)] ==
        IF i = 0 THEN <<>>
        ELSE printed[i - 1] \o (Begins(tests[i].test) \o Ended(tests[i].test, tests[i].end))
  IN printed[Len(tests)] \o Finish(how)

-----------------------------------------------------------------------------
(* Properties *)

Deserved(t) ==
  [test |-> t.test,
   result |-> CASE t.end = "OK" -> "PASS"
                [] t.end \in {"FAILURE", "ERROR"} -> "FAIL"
                [] t.end \in {"IGNORED", "ASSUMPTION_FAILURE"} -> "SKIP"
                [] t.end = "never" -> "ERROR"]

(* Each test of the device is filed once and with the result it had; one     *)
(* that never ended is an ERROR, unless the output ended with it.  The run   *)
(* passes only if it says so.                                                *)
FilesEachTest(tests, how) ==
  LET run == RunInstrumentationTest(Output(tests, how))
      records == [i \in DOMAIN tests |-> Deserved(tests[i])]
      open == tests # <<>> /\ Last(tests).end = "never" /\ how = "cut"
  IN /\ run.filed = IF open THEN Front(records) ELSE records
     /\ run.outcome = IF how \in {"passed", "failed"} THEN how ELSE "TestError"
=============================================================================
