\* One class run, every ending of every callback.
CONSTANTS
  TestNames <- MCTestNames
  Plans <- MCPlans
  Controllers = {dev}
  UserOutcomes = {"ok", "fail", "error", "skip", "pass", "abort_class", "abort_all"}
  UserExpects = {TRUE, FALSE}
SPECIFICATION FairSpec
INVARIANTS
  TypeOK
  FiledByResult
  NoErrorFiledAsPass
  FileShowsResults
  ErrorsReported
  EveryRequestReported
  NoTestAfterAbort
  ControllersReleased
PROPERTIES
  RecordsFinal
  CleansUp
