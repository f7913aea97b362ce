SPECIFICATION Spec
CONSTANTS
  LineLimit = 2
  ChunkSizes = {1, 2, 3}
  StallTicks = 1
  MaxChars = 5
INVARIANTS EndsCleanly
CHECK_DEADLOCK FALSE
