SPECIFICATION Spec
CONSTANTS
  Pulls = {p1, p2, p3}
  Simultaneous = 2
  Handlers = {h1, h2}
  MaxStarts = 2
  Publishers = {w1, w2}
  Listeners = {"log", "events"}
  Capacity <- MCCapacity
  MaxPushes = 2
  Conns = {c1}
  Inbound = {i1, i2}
  Sessions = {f1, f2}
  MaxSockets = 1
  MaxTime = 1
  Servers = {s1}
  MaxCrashes = 2
  MaxFaults = 1
INVARIANTS LimitHeld NoClosedSend InOrder RevokedNeverActs
PROPERTIES DownloadsEnd LimiterStops PushReturns ConnectionsEnd RestoredAsRecorded
CHECK_DEADLOCK FALSE
