\* Two clients, two threads that make asynchronous RPCs.
CONSTANTS
  Names = {a, b}
  Ports = {p1, p2}
  EventClients = {e1, e2}
  Threads = {t1, t2}
  MaxCalls = 4
  MaxFaults = 2
  Other = Other
  None = None
SPECIFICATION Spec
CONSTRAINT HandlersBesideOne
SYMMETRY Symmetry
\* No more calls and faults.
CHECK_DEADLOCK FALSE
INVARIANTS
  ForwardsKnown
  HandlersSurvive
PROPERTIES
  StopReleases
