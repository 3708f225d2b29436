\* The logcat service and one of a test, contexts one in the other, and a
\* thread that reads build_info at any time.
CONSTANTS
  Aliases = {"logcat", "mine"}
  Builtin <- MCBuiltin
  Readers = {t1}
  MaxDepth = 2
SPECIFICATION Spec
CONSTRAINT ReadsBesideOne
\* The device is not used after destroy.
CHECK_DEADLOCK FALSE
INVARIANTS
  TypeOK
  StopsOthers
  NothingLeftRunning
  CacheFresh
PROPERTIES
  ContextRestores
