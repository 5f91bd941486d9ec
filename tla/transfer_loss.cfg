SPECIFICATION Spec
CONSTANTS
  MaxTransfers = 2
  MaxFaults = 0
INVARIANTS NoDataLoss
CHECK_DEADLOCK FALSE
