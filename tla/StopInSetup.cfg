CONSTANTS
  MaxFrames = 2
  MaxMoves = 3
  MaxBatch = 2
SPECIFICATION LoopSpec
PROPERTY StopEndsRun
CHECK_DEADLOCK FALSE
