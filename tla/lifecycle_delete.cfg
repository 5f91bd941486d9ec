SPECIFICATION Spec
CONSTANTS
  Threads = {t1, t2}
  MaxFaults = 1
  MaxStops = 1
INVARIANTS NoSendOnClosed
CHECK_DEADLOCK FALSE
