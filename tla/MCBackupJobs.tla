---------------------------- MODULE MCBackupJobs ----------------------------
(* Small instances of BackupJobs for TLC.                                  *)
EXTENDS BackupJobs

CONSTANTS j1, j2, w1, w2, b1, m1, m2

OneJob == {j1}
TwoJobs == {j1, j2}
TwoWorkers == {w1, w2}
OneBackup == {b1}
TwoMutexes == {m1, m2}
ToPending == {"pending"}
=============================================================================
