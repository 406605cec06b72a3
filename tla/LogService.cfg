CONSTANTS
  main = main
  pool = pool
  x = x
  y = y
  bye = bye
  NoContent = NoContent
  Thread <- MCThread
  Main = main
  Message <- MCMessage
  Farewell <- MCFarewell
  BufSize = 4
  MaxLogged = 4
SPECIFICATION Spec
INVARIANTS
  BufferConsistent
  LogComplete
  NothingVanishes
PROPERTIES
  DisposeKeeps
  EventLogRefinement
CHECK_DEADLOCK FALSE
