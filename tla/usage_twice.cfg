SPECIFICATION Spec
CONSTANTS
  c1 = c1
  c2 = c2
  c3 = c3
  Cells = {c1, c2}
  TxBatch = 1
  MaxRows = 1
  MaxFails = 1
INVARIANTS TotalsExact
CHECK_DEADLOCK FALSE
