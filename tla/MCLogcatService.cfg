\* Three lines are one before a pause, one in it and one after it.
CONSTANTS
  MaxLines = 3
  MaxWritten = 4
SPECIFICATION ServiceSpec
INVARIANTS
  PauseKeepsLines
  ExcerptsPartition
