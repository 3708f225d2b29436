\* Two test beds with two classes and one, or a suite of up to two classes.
CONSTANTS
  TestNames <- MCTestNames
  Plans <- MCPlans
  Controllers = {}
  UserOutcomes = {"ok", "fail", "abort_all"}
  UserExpects = {FALSE}
  NumClasses <- MCClasses
SPECIFICATION RunSpec
INVARIANTS
  SummaryClosesFile
  SuiteInfoClosesFile
  ExitSound
  SelectionSound
  InstrumentationSound
PROPERTIES
  RunExits
