CONSTANTS
  MaxChunks = 3
SPECIFICATION CommandSpec
INVARIANTS
  CaptureIsWhole
PROPERTIES
  CaptureEnds
CHECK_DEADLOCK FALSE
