\* Repeated and retried tests.
CONSTANTS
  TestNames <- MCTestNames
  Plans <- IterationPlans
  Controllers = {}
  UserOutcomes = {"ok", "fail", "skip"}
  UserExpects = {FALSE}
SPECIFICATION FairSpec
INVARIANTS
  VerdictSound
  IterationPolicy
