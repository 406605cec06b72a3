CONSTANTS
  consumer = consumer
  game = game
  Writer <- MCWriter
  Packets <- MCPackets
  Profiler = consumer
SPECIFICATION Spec
INVARIANTS
  WindowConsistent
  PacketsInOrder
PROPERTIES
  NobodyStalls
CHECK_DEADLOCK FALSE
