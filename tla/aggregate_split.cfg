SPECIFICATION CollectorSpec
CONSTANTS
  LineLimit = 2
  Tools = {"t1"}
  MaxFrames = 0
  MaxLines = 3
INVARIANTS AggregateSeesEveryLine
CHECK_DEADLOCK FALSE
