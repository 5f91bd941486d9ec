SPECIFICATION LimitedSpec
CONSTANTS
  Names = {a, b}
  MaxSize = 1
  Limits = {0, 1}
  Tasks = {t1, t2}
  MaxRequests = 2
INVARIANTS UsageExact QuotaHeld
PROPERTIES UsageRecovers
