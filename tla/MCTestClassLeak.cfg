\* A controller registered in pre_run.
CONSTANTS
  TestNames <- MCTestNames
  Plans <- RepeatPlans
  Controllers = {dev}
  UserOutcomes = {"ok", "error"}
  UserExpects = {FALSE}
SPECIFICATION Spec
INVARIANTS
  ControllersAlwaysReleased
