SPECIFICATION RelaySpec
CONSTANTS
  LineLimit = 2
  ChunkSizes = {1, 2, 3}
  StallTicks = 2
  MaxChars = 4
  MaxRelayed = 4
  MaxFrames = 4
  Tools = {}
INVARIANTS BrokenUpstreamFails
CHECK_DEADLOCK FALSE
