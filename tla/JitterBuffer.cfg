CONSTANTS
  Capacity = 3
  TargetDepth = 2
  MaxSequence = 5
  MaxBatch = 2
  HighWater = 1
  TrimInterval = 2
  MaxReceived = 9
SPECIFICATION Spec
INVARIANTS
  PlayedInOrder
  Conserved
  PlayoutTracksSender
CHECK_DEADLOCK FALSE
