SPECIFICATION Spec
CONSTANTS
  c1 = c1
  c2 = c2
  c3 = c3
  Cells = {c1}
  TxBatch = 1
  MaxRows = 1
  MaxFails = 0
INVARIANTS NothingLeftAtExit
CHECK_DEADLOCK FALSE
