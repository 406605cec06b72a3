CONSTANTS
  MaxConnects = 2
SPECIFICATION LinkSpec
INVARIANTS
  NoSocketLeft
  TimersFitConnection
PROPERTIES
  ConnectionResolved
  LossNoticed
CONSTRAINT
  NotBothSet
CHECK_DEADLOCK FALSE
