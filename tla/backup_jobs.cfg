CONSTANTS
  j1 = j1  j2 = j2  w1 = w1  w2 = w2  b1 = b1  m1 = m1  m2 = m2
  NoJob = NoJob  NoMutex = NoMutex
  Jobs <- TwoJobs  Workers <- TwoWorkers  Backups <- OneBackup  Mutexes <- TwoMutexes
  Kinds <- AllKinds  Cancels <- OneJob  Updates <- ToPending  QueueCap = 1
SPECIFICATION FairSpec
INVARIANTS TypeOK ExecutedOnce BackupExclusive ReleasesOwnMutex RestoringFlagCovers
PROPERTY AcceptedJobsEnd
CHECK_DEADLOCK FALSE
