\* Up to three lines, or one in two pieces and another.
CONSTANTS
  Scanners = {s1, s2}
  Patterns <- MCPatterns
  MaxPieces = 3
  QueueSize = 1
SPECIFICATION FairSpec
CHECK_DEADLOCK FALSE
INVARIANTS
  WaitSound
  DispatchedOnce
  QueueFifo
  TailSound
PROPERTIES
  QuietAfterExit
  WaitFinds
