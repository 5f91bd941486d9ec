SPECIFICATION FairSpec
CONSTANTS
  MaxTransfers = 2
  MaxFaults = 1
INVARIANTS FilesAtHome TransferSettled
PROPERTIES TransferEnds
CHECK_DEADLOCK FALSE
