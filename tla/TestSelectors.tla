---------------------------- MODULE TestSelectors ---------------------------
(***************************************************************************)
(* The selectors of the command line, <class>[_<suffix>][.<test>]: how     *)
(* compute_selected_tests and _parse_raw_test_selector of                  *)
(* mobly/suite_runner.py, and add_test_class of mobly/base_suite.py, turn  *)
(* them into the classes a runner is given and the tests of each.          *)
(***************************************************************************)
EXTENDS Naturals, Sequences, SequencesExt

None == "None"

(* A selector: name is what is before the ".", parted at "_"; test may be    *)
(* None.  A key: the suffix None is the empty one.                           *)
Key(s) == [cls |-> Head(s.name), suffix |-> Tail(s.name)]

(* The tests of a class: all of them, or those named in their order.         *)
Whole == [all |-> TRUE, names |-> <<>>]
Just(test) == [all |-> FALSE, names |-> <<test>>]

KeysOf(d) == {d[i].key : i \in DOMAIN d}

(* Mutant: a test named after its class leaves that test alone. *)
MergedLatest(tests, test) ==
  IF test = None THEN Whole ELSE [all |-> FALSE, names |-> Append(tests.names, test)]

(* A class once selected stays so. *)
Merged(tests, test) ==
  IF test = None \/ tests.all THEN Whole
  ELSE [tests EXCEPT !.names = Append(@, test)]

(* An OrderedDict: the entries in the order of their first selector.         *)
Noted(d, s) ==
  IF Key(s) \in KeysOf(d)
  THEN [i \in DOMAIN d |-> IF d[i].key = Key(s)
                           THEN [d[i] EXCEPT !.tests = Merged(@, s.test)] ELSE d[i]]
  ELSE Append(d, [key |-> Key(s), tests |-> IF s.test = None THEN Whole ELSE Just(s.test)])

ParseRawTestSelector(selectors) ==
  LET noted[i \in 0..Len(selectors)] ==
        IF i = 0 THEN <<>> ELSE Noted(noted[i - 1], selectors[i])
  IN noted[Len(selectors)]

(* run_suite: no suffixes, and only the classes it was given. *)
Refused(classes, selectors) ==
  \E key \in KeysOf(ParseRawTestSelector(selectors)) :
    key.suffix # <<>> \/ key.cls \notin ToSet(classes)

ComputeSelectedTests(classes, selectors) ==
  IF selectors = <<>> THEN [i \in DOMAIN classes |-> [cls |-> classes[i], tests |-> Whole]]
  ELSE LET d == ParseRawTestSelector(selectors)
       IN [i \in DOMAIN d |-> [cls |-> d[i].key.cls, tests |-> d[i].tests]]

(* BaseSuite: an offer is what setup_suite calls add_test_class with.  The   *)
(* result is the call of the runner's, or none.                              *)
AddTestClass(offer, selectors) ==
  LET d == ParseRawTestSelector(selectors)
      found == {i \in DOMAIN d : d[i].key = offer.key}
  IN IF selectors = <<>> THEN {offer}
     ELSE {[offer EXCEPT !.tests = d[i].tests] : i \in found}

-----------------------------------------------------------------------------
(* Properties *)

Runs(tests, test) == tests.all \/ test \in ToSet(tests.names)

Names(s, key) == Key(s) = key

Asked(selectors, key, test) ==
  \E i \in DOMAIN selectors :
    Names(selectors[i], key) /\ selectors[i].test \in {None, test}

FirstFor(selectors, key) ==
  CHOOSE i \in DOMAIN selectors :
    Names(selectors[i], key) /\ \A j \in 1..i - 1 : ~Names(selectors[j], key)

(* A test runs if and only if a selector names it or its whole class, which-  *)
(* ever comes first; classes run once, in the order they are first named; a  *)
(* test named with its class in a suite replaces the tests the suite chose.  *)
SelectsNamed(classes, offers, tests, selectors) ==
  LET runs == ComputeSelectedTests(classes, selectors)
      KeyOf(i) == [cls |-> runs[i].cls, suffix |-> <<>>]
  IN selectors # <<>> =>
     /\ ~Refused(classes, selectors) =>
          /\ \A i, j \in DOMAIN runs :
               i < j => FirstFor(selectors, KeyOf(i)) < FirstFor(selectors, KeyOf(j))
          /\ \A c \in ToSet(classes), t \in tests :
               Asked(selectors, [cls |-> c, suffix |-> <<>>], t)
                 <=> \E i \in DOMAIN runs : runs[i].cls = c /\ Runs(runs[i].tests, t)
     /\ \A offer \in offers, t \in tests :
          Asked(selectors, offer.key, t)
            <=> \E added \in AddTestClass(offer, selectors) : Runs(added.tests, t)
=============================================================================
