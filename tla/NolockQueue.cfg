CONSTANTS
  Event = {e1, e2}
  NoEvent = NoEvent
  Reserved = 2
  UintSize = 8
SPECIFICATION FairSpec
INVARIANT IInv
INVARIANT NoDataRace
PROPERTY FifoRefinement
PROPERTY PushReturns
PROPERTY EventsReachConsumer
