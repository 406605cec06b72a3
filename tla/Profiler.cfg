CONSTANTS
  Fun = {"f"}
  Capacity = 2
  MaxDepth = 3
  MaxFrame = 2
  MaxEvents = 5
SPECIFICATION FairSpec
INVARIANT LogFaithful
INVARIANT ImageInStep
PROPERTY FramesReachLog
CHECK_DEADLOCK FALSE
