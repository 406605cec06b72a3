CONSTANTS
  Reopen = TRUE
  MaxLua = 3
  MaxSession = 3
  MaxExecuted = 6
  MaxQueue = 3
SPECIFICATION Spec
INVARIANTS
  CountsConsistent
  SessionConsistent
  EventsFindState
  HookCallsReported
  PauseFindsCall
CHECK_DEADLOCK FALSE
