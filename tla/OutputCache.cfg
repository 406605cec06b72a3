CONSTANTS
  Tree = {1, 6}
  FrameId = {0, 1}
  HeaderLen = 3
  TreeLen <- MCTreeLen
  nOutputBufferSize = 13
  MaxFrames = 5
  MaxTrees = 2
  Interesting = {6}
SPECIFICATION PerfSpec
INVARIANTS
  CacheConsistent
  BufferFits
  TreesAreFound
  TimesAreFound
PROPERTIES
  CallbackSeesLog
  LogRefinement
