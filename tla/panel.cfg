SPECIFICATION Spec
CONSTANTS
  MaxAttempts = 2
  Rows = {1, 2, 3, 4, 5}
  Sftp = {1, 2, 3}
  Invalid = {2, 5}
  Event <- MCEvent
  Key <- MCKey
  Runs = {g1, g2}
  SendCount = 1
  ChunkSize = 1
  MaxFaults = 1
  MaxSize = 4
  PartSize = 2
INVARIANTS NothingLost SentOnce BackupStored
PROPERTIES RowsLeave
