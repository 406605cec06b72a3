CONSTANTS
  Reopen = FALSE
  MaxLua = 2
  MaxSession = 2
  MaxExecuted = 4
  MaxQueue = 3
SPECIFICATION Spec
INVARIANT ExitCallsOriginal
CHECK_DEADLOCK FALSE
