\* Two threads on one event client.
CONSTANTS
  Threads = {t1, t2}
  Timeouts = {1, 3}
  RpcMax = 2
  MaxEvents = 2
  MaxRpcs = 2
  None = None
SPECIFICATION FairSpec
\* The threads may make no more calls.
CHECK_DEADLOCK FALSE
INVARIANTS
  FailsByFaultOnly
PROPERTIES
  TimeoutKept
  CallsEnd
  ImplementsQueue
