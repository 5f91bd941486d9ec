CONSTANTS
  c1 = c1  c2 = c2
  Clients <- TwoClients  Snapshots <- TwoSnapshots  Ops <- AllOps  Backends <- BothBackends
  MaxFaults = 1  MaxRetries = 2  PageSize = 2
SPECIFICATION FairSpec
INVARIANTS ReportsTrue
PROPERTIES SnapshotsSafe CallsReturn
CHECK_DEADLOCK FALSE
