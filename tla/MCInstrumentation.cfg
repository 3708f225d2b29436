\* A device with one or two tests, whose process may die in a block.
SPECIFICATION Spec
INVARIANTS
  CrashRaisesTestError
CHECK_DEADLOCK FALSE
