CONSTANTS
  MaxFrames = 2
  MaxMoves = 3
  MaxBatch = 2
SPECIFICATION LoopSpec
INVARIANTS
  LoopTypeOK
  MotionShownOnce
  EndsForAReason
  ReleasedAtEnd
PROPERTIES
  PendingFrameDrawn
  LoopEnds
CHECK_DEADLOCK FALSE
