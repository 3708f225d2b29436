----------------------------- MODULE MCTestRun -----------------------------
(* Instances of TestRun for TLC, with the two algorithms around it: what the *)
(* selectors select, and the parser a test may run.                          *)
EXTENDS TestRun

MCTestNames == {"test_a"}

single(t) ==
  [name |-> t, sel |-> t, repeat |-> None, consec |-> None, retry |-> None]

ask(m) ==
  [requested |-> <<m.sel>>, methods |-> <<m>>, resolves |-> TRUE]

(* A test retried once, one repeated; a repeat count that is not valid.      *)
MCPlans ==
  {ask([single("test_a") EXCEPT !.retry = 2]),
   ask([single("test_a") EXCEPT !.repeat = 2]),
   ask([single("test_a") EXCEPT !.repeat = 1])}

MCClasses == <<2, 1>>

OnePlan == {ask(single("test_a"))}

-----------------------------------------------------------------------------
Selectors == INSTANCE TestSelectors

(* A class, the same with a suffix, another, and one that nobody knows.      *)
MCSelectors ==
  {[name |-> name, test |-> test] :
     name \in {<<"Foo">>, <<"Foo", "A">>, <<"Bar">>, <<"Baz">>},
     test \in {"None", "test_a", "test_b"}}

MCOffers ==
  {[key |-> [cls |-> "Foo", suffix |-> suffix], tests |-> tests] :
     suffix \in {<<>>, <<"A">>, <<"B">>},
     tests \in {Selectors!Whole, Selectors!Just("test_a")}}

(* _parse_raw_test_selector, compute_selected_tests, add_test_class: of up to *)
(* three selectors, whatever their order, none overrides another, and what   *)
(* is run is what they ask for.  They are read before anything runs: only    *)
(* the initial states are looked at.                                         *)
SelectionSound ==
  phase = "setup" =>
  \A selectors \in Selectors!BoundedSeq(MCSelectors, 3) :
    Selectors!SelectsNamed(<<"Foo", "Bar">>, MCOffers, {"test_a", "test_b"}, selectors)

-----------------------------------------------------------------------------
Parser == INSTANCE Instrumentation

DeviceRuns == Parser!BoundedSeq([test : {"a", "b"}, end : Parser!Ends], 3)

(* run_instrumentation_test, on the output of up to three tests that end in   *)
(* every way or not at all: each is filed once, as it ended, when the run    *)
(* ends between two blocks.                                                  *)
InstrumentationSound ==
  phase = "setup" =>
    \A tests \in DeviceRuns, how \in Parser!Finishes \ {"torn"} :
      Parser!FilesEachTest(tests, how)
=============================================================================
