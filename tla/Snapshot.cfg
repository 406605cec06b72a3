CONSTANTS
  reg = reg
  caller = caller
  a = a
  b = b
  u = u
  f = f
  co = co
  Plain = Plain
  Nil = Nil
  Obj <- MCObj
  Registry = reg
  Caller = caller
  Heap <- MCHeap
  MinStack = 3
  MaxStack = 9
SPECIFICATION FairSpec
INVARIANTS
  StacksConsistent
  OnlyReachableMarked
  NothingMissed
  TablesWrittenOnce
PROPERTIES
  SnapshotReturns
CHECK_DEADLOCK FALSE
