\* Two devices, configured up to three times.
CONSTANTS
  Serials <- MCSerials
  Configurations <- MCConfigurations
  MinNumbers = {1, 2}
SPECIFICATION Spec
\* The devices are destroyed.
CHECK_DEADLOCK FALSE
INVARIANTS
  NothingLeftBehind
PROPERTIES
  RequiredServed
