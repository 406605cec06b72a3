CONSTANTS
  Fun = {f, g}
  FrameId = {1}
  MaxDepth = 4
  MaxNodes = 5
SPECIFICATION Spec
INVARIANT HeapFitsStack
INVARIANT LevelIsDepth
INVARIANT NoNodeLost
PROPERTY NestingRefinement
