SPECIFICATION Spec
CONSTANTS
  watchdogTimeout = 3
  Delay = 1
  MaxTime = 14
INVARIANTS
  TypeOK
  QuietMeansTimeout
PROPERTIES
  TimeoutMeansQuiet
CHECK_DEADLOCK FALSE
