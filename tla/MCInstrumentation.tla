-------------------------- MODULE MCInstrumentation -------------------------
(* The parser of Instrumentation, handed the lines of one run of a device.   *)
EXTENDS Instrumentation

VARIABLES
  tests, how,   \* the tests of the device and how the run ends
  output,       \* the lines adb has still to hand over
  parser

vars == <<tests, how, output, parser>>

Init ==
  /\ tests \in BoundedSeq([test : {"a", "b"}, end : Ends], 2) \ {<<>>}
  /\ how \in Finishes
  /\ output = Output(tests, how)
  /\ parser = Start

Handle ==
  /\ output # <<>>
  /\ parser' = ParseLine(parser, Head(output))
  /\ output' = Tail(output)
  /\ UNCHANGED <<tests, how>>

Spec == Init /\ [][Handle]_vars

(* run_instrumentation_test: "Raises: TestError if the instrumentation run    *)
(* crashed or if parsing the output failed", wherever it crashed.            *)
CrashRaisesTestError ==
  output = <<>> => FinishParsing(parser) \in {"passed", "failed", "TestError"}
=============================================================================
