\* abort_all raised wherever user code runs, two classes.
CONSTANTS
  TestNames <- MCTestNames
  Plans <- OnePlan
  Controllers = {}
  UserOutcomes = {"ok", "fail", "abort_all"}
  UserExpects = {FALSE}
  NumClasses <- MCClasses
SPECIFICATION RunSpec
PROPERTIES
  NoClassAfterAbortAll
