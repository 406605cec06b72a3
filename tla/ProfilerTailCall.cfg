CONSTANTS
  Fun = {"f"}
  Capacity = 1
  MaxDepth = 2
  MaxFrame = 1
  MaxEvents = 3
SPECIFICATION FairSpec
PROPERTY OutIsReturn
CHECK_DEADLOCK FALSE
