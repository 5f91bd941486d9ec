-------------------------- MODULE BackupJobsProofs --------------------------
(***************************************************************************)
(* The backup jobs for any number of jobs, workers, backups and mutexes and *)
(* any capacity of the channel: what BackupJobs states of the channel, the *)
(* backup mutex and the restoring flag is preserved by every step.         *)
(***************************************************************************)
EXTENDS BackupJobs, TLAPS

\* Init: the daemon starts with an empty channel and no mutex.
LEMMA InitInv == Init => JobInv
<1> SUFFICES ASSUME Init PROVE JobInv
  OBVIOUS
<1>1. TypeOK
  <2>1. queue \in Seq(Jobs) /\ Len(queue) <= QueueCap
    BY CapAssumption DEF Init
  <2>2. stored \subseteq Backups /\ kind \in [Jobs -> AllKinds]
    BY KindsAssumption DEF Init
  <2> QED
    BY <2>1, <2>2 DEF Init, TypeOK, Statuses, PCs, Places
<1>2. ExecutedOnce
  BY DEF Init, ExecutedOnce
<1>3. WorkerInv /\ BackupExclusive /\ ReleasesOwnMutex /\ RestoringFlagCovers
  BY DEF Init, WorkerInv, BackupExclusive, ReleasesOwnMutex, RestoringFlagCovers,
         LockedPCs, RestorePCs
<1> QED
  BY <1>1, <1>2, <1>3 DEF JobInv

\* Return takes a worker to its next stage with an outcome.
LEMMA ReturnTyped ==
    ASSUME pc \in [Workers -> PCs], outcome \in [Workers -> {"completed", "failed"}],
           NEW w \in Workers, NEW l \in PCs, NEW o \in {"completed", "failed"}, Return(w, l, o)
    PROVE  pc' \in [Workers -> PCs] /\ outcome' \in [Workers -> {"completed", "failed"}]
  BY DEF Return, Goto

\* Every step of the manager, the workers and the API keeps the variables in
\* their types.
LEMMA StepTyped ==
    ASSUME JobInv, [Next]_vars
    PROVE TypeOK'
<1> USE KindsAssumption, ApiAssumption, CapAssumption, NoneAssumption
<1> USE DEF JobInv, TypeOK, Statuses, Places, PCs, LockedPCs, RestorePCs, WorkerInv, AllKinds
<1>1. ASSUME NEW j \in Jobs, CreateJob(j) PROVE TypeOK'
  BY <1>1 DEF CreateJob, SetStatus, jobVars, lockVars, dataVars
<1>2. ASSUME NEW j \in Jobs, Enqueue(j) PROVE TypeOK'
  <2>1. queue' \in Seq(Jobs) /\ Len(queue') <= QueueCap
    <3>1. CASE Len(queue) < QueueCap
      <4>1. queue' = Append(queue, j) /\ Len(queue) \in Nat
        BY <1>2, <3>1 DEF Enqueue
      <4>2. Len(queue') = Len(queue) + 1 /\ queue' \in Seq(Jobs)
        BY <4>1
      <4> QED
        BY <3>1, <4>1, <4>2, CapAssumption
    <3>2. CASE ~(Len(queue) < QueueCap)
      BY <1>2, <3>2 DEF Enqueue
    <3> QED
      BY <3>1, <3>2
  <2>2. place' \in [Jobs -> Places]
    BY <1>2 DEF Enqueue
  <2> QED
    BY <1>2, <2>1, <2>2 DEF Enqueue, jobVars, lockVars, dataVars
<1>3. ASSUME NEW j \in Jobs, UpdateJob(j) PROVE TypeOK'
  BY <1>3 DEF UpdateJob, SetStatus, jobVars, lockVars, dataVars
<1>4. ASSUME NEW j \in Jobs, CancelCheck(j) PROVE TypeOK'
  BY <1>4 DEF CancelCheck, jobVars, lockVars, dataVars
<1>5. ASSUME NEW j \in Jobs, CancelSet(j) PROVE TypeOK'
  BY <1>5 DEF CancelSet, SetStatus, jobVars, lockVars, dataVars
<1>6. ASSUME NEW j \in Jobs, OrphanEnds(j) PROVE TypeOK'
  BY <1>6 DEF OrphanEnds, jobVars, lockVars, dataVars
<1>7. ASSUME NEW w \in Workers, Dequeue(w) PROVE TypeOK'
  BY <1>7 DEF Dequeue, Goto, SetStatus, jobVars, lockVars, dataVars
<1>8. ASSUME NEW w \in Workers, FinishJob(w) PROVE TypeOK'
  BY <1>8 DEF FinishJob, Return, Goto, SetStatus, jobVars, lockVars, dataVars
<1>9. ASSUME NEW w \in Workers, Locate(w) PROVE TypeOK'
  <2>1. pc' \in [Workers -> PCs] /\ outcome' \in [Workers -> {"completed", "failed"}]
    BY <1>9 DEF Locate, Return, Goto
  <2> QED
    BY <1>9, <2>1 DEF Locate, jobVars, lockVars, dataVars
<1>10. ASSUME NEW w \in Workers, LockEntry(w) PROVE TypeOK'
  BY <1>10 DEF LockEntry, Goto, jobVars, lockVars, dataVars
<1>11. ASSUME NEW w \in Workers, LockBackup(w) PROVE TypeOK'
  BY <1>11 DEF LockBackup, Goto, FirstStep, jobVars, lockVars, dataVars
<1>12. ASSUME NEW w \in Workers, ReleaseBackupLock(w) PROVE TypeOK'
  BY <1>12 DEF ReleaseBackupLock, Goto, jobVars, lockVars, dataVars
<1>13. ASSUME NEW w \in Workers, CreateBackup(w) PROVE TypeOK'
  <2>1. pc' \in [Workers -> PCs] /\ outcome' \in [Workers -> {"completed", "failed"}]
    BY <1>13, ReturnTyped DEF CreateBackup
  <2>2. stored' \subseteq Backups
    BY <1>13 DEF CreateBackup
  <2> QED
    BY <1>13, <2>1, <2>2 DEF CreateBackup, jobVars, lockVars, dataVars
<1>14. ASSUME NEW w \in Workers, DeleteLocal(w) PROVE TypeOK'
  <2>1. pc' \in [Workers -> PCs] /\ outcome' \in [Workers -> {"completed", "failed"}]
    BY <1>14, ReturnTyped DEF DeleteLocal
  <2>2. stored' \subseteq Backups
    BY <1>14 DEF DeleteLocal
  <2> QED
    BY <1>14, <2>1, <2>2 DEF DeleteLocal, jobVars, lockVars, dataVars
<1>15. ASSUME NEW w \in Workers, DeleteS3(w) PROVE TypeOK'
  <2>1. pc' \in [Workers -> PCs] /\ outcome' \in [Workers -> {"completed", "failed"}]
    BY <1>15, ReturnTyped DEF DeleteS3
  <2>2. stored' \subseteq Backups
    BY <1>15 DEF DeleteS3
  <2> QED
    BY <1>15, <2>1, <2>2 DEF DeleteS3, jobVars, lockVars, dataVars
<1>16. ASSUME NEW w \in Workers, DeleteRustic(w) PROVE TypeOK'
  <2>1. pc' \in [Workers -> PCs] /\ outcome' \in [Workers -> {"completed", "failed"}]
    BY <1>16, ReturnTyped DEF DeleteRustic, LocateFails
  <2>2. stored' \subseteq Backups
    BY <1>16 DEF DeleteRustic, LocateFails
  <2> QED
    BY <1>16, <2>1, <2>2 DEF DeleteRustic, jobVars, lockVars, dataVars
<1>17. ASSUME NEW w \in Workers, MarkRestoring(w) PROVE TypeOK'
  BY <1>17 DEF MarkRestoring, Goto, jobVars, lockVars, dataVars
<1>18. ASSUME NEW w \in Workers, Truncate(w) PROVE TypeOK'
  BY <1>18 DEF Truncate, Return, Goto, jobVars, lockVars, dataVars
<1>19. ASSUME NEW w \in Workers, RestoreStored(w) PROVE TypeOK'
  BY <1>19 DEF RestoreStored, Return, Goto, jobVars, lockVars, dataVars
<1>20. ASSUME NEW w \in Workers, RestoreS3(w) PROVE TypeOK'
  <2>1. pc' \in [Workers -> PCs] /\ outcome' \in [Workers -> {"completed", "failed"}]
    BY <1>20, ReturnTyped DEF RestoreS3
  <2>2. orphans' \subseteq Jobs
    BY <1>20 DEF RestoreS3
  <2> QED
    BY <1>20, <2>1, <2>2 DEF RestoreS3, jobVars, lockVars, dataVars
<1>21. ASSUME NEW w \in Workers, UnmarkRestoring(w) PROVE TypeOK'
  BY <1>21 DEF UnmarkRestoring, Goto, jobVars, lockVars, dataVars
<1>22. ASSUME NEW w \in Workers, DeleteAllBackups(w) PROVE TypeOK'
  <2>1. pc' \in [Workers -> PCs] /\ outcome' \in [Workers -> {"completed", "failed"}]
    BY <1>22, ReturnTyped DEF DeleteAllBackups
  <2>2. stored' \subseteq Backups
    BY <1>22 DEF DeleteAllBackups
  <2> QED
    BY <1>22, <2>1, <2>2 DEF DeleteAllBackups, jobVars, lockVars, dataVars
<1>23. CASE RemoveServer
  BY <1>23 DEF RemoveServer, jobVars, lockVars, dataVars
<1>24. CASE UNCHANGED vars
  BY <1>24 DEF vars, jobVars, lockVars, dataVars
<1> QED
  BY <1>1, <1>2, <1>3, <1>4, <1>5, <1>6, <1>7, <1>8, <1>9, <1>10, <1>11, <1>12, <1>13, <1>14,
     <1>15, <1>16, <1>17, <1>18, <1>19, <1>20, <1>21, <1>22, <1>23, <1>24 DEF Next, ApiStep,
     WorkerStep, Execute

\* Enqueue, Dequeue and FinishJob move a job from the API to the channel, to one
\* worker and to its end; no other step moves one.
LEMMA StepExecutedOnce ==
    ASSUME JobInv, [Next]_vars
    PROVE ExecutedOnce'
<1> USE NoneAssumption
<1> USE DEF JobInv, TypeOK, ExecutedOnce, WorkerInv, Places
<1>1. ASSUME NEW j \in Jobs, CreateJob(j) PROVE ExecutedOnce'
  BY <1>1 DEF CreateJob, SetStatus, jobVars, lockVars, dataVars
<1>2. ASSUME NEW j \in Jobs, Enqueue(j) PROVE ExecutedOnce'
  <2>1. \A i \in DOMAIN queue : queue[i] \in Jobs /\ queue[i] # j
    BY <1>2 DEF Enqueue
  <2>0. cur' = cur
    BY <1>2 DEF Enqueue
  <2>2. CASE Len(queue) < QueueCap
    <3>0. queue' = Append(queue, j) /\ place' = [place EXCEPT ![j] = "queued"]
      BY <1>2, <2>2 DEF Enqueue
    <3>1. DOMAIN queue' = 1..(Len(queue) + 1) /\ DOMAIN queue = 1..Len(queue)
      BY <3>0
    <3>2. \A i \in DOMAIN queue : queue'[i] = queue[i]
      BY <3>0
    <3>3. queue'[Len(queue) + 1] = j
      BY <3>0
    <3>4. Len(queue) \in Nat
      OBVIOUS
    <3>5. \A i, k \in DOMAIN queue' : queue'[i] = queue'[k] => i = k
      BY <2>1, <3>1, <3>2, <3>3, <3>4
    <3>6. \A i \in DOMAIN queue' : place'[queue'[i]] = "queued"
      BY <2>1, <3>0, <3>1, <3>2, <3>3, <3>4
    <3>7. \A w \in Workers : cur[w] # NoJob => cur[w] # j /\ place'[cur[w]] = "executing"
      BY <1>2, <3>0 DEF Enqueue
    <3> QED
      BY <2>0, <3>5, <3>6, <3>7
  <2>3. CASE ~(Len(queue) < QueueCap)
    BY <1>2, <2>1, <2>3 DEF Enqueue
  <2> QED
    BY <1>2, <2>2, <2>3 DEF Enqueue
<1>3. ASSUME NEW j \in Jobs, UpdateJob(j) PROVE ExecutedOnce'
  BY <1>3 DEF UpdateJob, SetStatus, jobVars, lockVars, dataVars
<1>4. ASSUME NEW j \in Jobs, CancelCheck(j) PROVE ExecutedOnce'
  BY <1>4 DEF CancelCheck, jobVars, lockVars, dataVars
<1>5. ASSUME NEW j \in Jobs, CancelSet(j) PROVE ExecutedOnce'
  BY <1>5 DEF CancelSet, SetStatus, jobVars, lockVars, dataVars
<1>6. ASSUME NEW j \in Jobs, OrphanEnds(j) PROVE ExecutedOnce'
  BY <1>6 DEF OrphanEnds, jobVars, lockVars, dataVars
<1>7. ASSUME NEW w \in Workers, Dequeue(w) PROVE ExecutedOnce'
  BY <1>7 DEF Dequeue, Goto, SetStatus, jobVars, lockVars, dataVars
<1>8. ASSUME NEW w \in Workers, FinishJob(w) PROVE ExecutedOnce'
  BY <1>8 DEF FinishJob, Return, Goto, SetStatus, jobVars, lockVars, dataVars
<1>9. ASSUME NEW w \in Workers, Locate(w) PROVE ExecutedOnce'
  BY <1>9 DEF Locate, Return, Goto, jobVars, lockVars, dataVars
<1>10. ASSUME NEW w \in Workers, LockEntry(w) PROVE ExecutedOnce'
  BY <1>10 DEF LockEntry, Goto, jobVars, lockVars, dataVars
<1>11. ASSUME NEW w \in Workers, LockBackup(w) PROVE ExecutedOnce'
  BY <1>11 DEF LockBackup, Goto, FirstStep, jobVars, lockVars, dataVars
<1>12. ASSUME NEW w \in Workers, ReleaseBackupLock(w) PROVE ExecutedOnce'
  BY <1>12 DEF ReleaseBackupLock, Goto, jobVars, lockVars, dataVars
<1>13. ASSUME NEW w \in Workers, CreateBackup(w) PROVE ExecutedOnce'
  BY <1>13 DEF CreateBackup, Return, Goto, jobVars, lockVars, dataVars
<1>14. ASSUME NEW w \in Workers, DeleteLocal(w) PROVE ExecutedOnce'
  BY <1>14 DEF DeleteLocal, Return, Goto, jobVars, lockVars, dataVars
<1>15. ASSUME NEW w \in Workers, DeleteS3(w) PROVE ExecutedOnce'
  BY <1>15 DEF DeleteS3, Return, Goto, jobVars, lockVars, dataVars
<1>16. ASSUME NEW w \in Workers, DeleteRustic(w) PROVE ExecutedOnce'
  BY <1>16 DEF DeleteRustic, LocateFails, Return, Goto, jobVars, lockVars, dataVars
<1>17. ASSUME NEW w \in Workers, MarkRestoring(w) PROVE ExecutedOnce'
  BY <1>17 DEF MarkRestoring, Goto, jobVars, lockVars, dataVars
<1>18. ASSUME NEW w \in Workers, Truncate(w) PROVE ExecutedOnce'
  BY <1>18 DEF Truncate, Return, Goto, jobVars, lockVars, dataVars
<1>19. ASSUME NEW w \in Workers, RestoreStored(w) PROVE ExecutedOnce'
  BY <1>19 DEF RestoreStored, Return, Goto, jobVars, lockVars, dataVars
<1>20. ASSUME NEW w \in Workers, RestoreS3(w) PROVE ExecutedOnce'
  BY <1>20 DEF RestoreS3, Return, Goto, jobVars, lockVars, dataVars
<1>21. ASSUME NEW w \in Workers, UnmarkRestoring(w) PROVE ExecutedOnce'
  BY <1>21 DEF UnmarkRestoring, Goto, jobVars, lockVars, dataVars
<1>22. ASSUME NEW w \in Workers, DeleteAllBackups(w) PROVE ExecutedOnce'
  BY <1>22 DEF DeleteAllBackups, Return, Goto, jobVars, lockVars, dataVars
<1>23. CASE RemoveServer
  BY <1>23 DEF RemoveServer, jobVars, lockVars, dataVars
<1>24. CASE UNCHANGED vars
  BY <1>24 DEF vars, jobVars, lockVars, dataVars
<1> QED
  BY <1>1, <1>2, <1>3, <1>4, <1>5, <1>6, <1>7, <1>8, <1>9, <1>10, <1>11, <1>12, <1>13, <1>14,
     <1>15, <1>16, <1>17, <1>18, <1>19, <1>20, <1>21, <1>22, <1>23, <1>24 DEF Next, ApiStep,
     WorkerStep, Execute

\* The program counters, the mutex of the map and the ones that the workers wait
\* for or hold stay together.
LEMMA StepWorkerInv ==
    ASSUME JobInv, [Next]_vars
    PROVE WorkerInv'
<1> USE NoneAssumption, KindsAssumption
<1> USE DEF JobInv, TypeOK, WorkerInv, PCs, LockedPCs, RestorePCs, AllKinds
<1>1. ASSUME NEW j \in Jobs, CreateJob(j) PROVE WorkerInv'
  BY <1>1 DEF CreateJob, SetStatus, jobVars, lockVars, dataVars
<1>2. ASSUME NEW j \in Jobs, Enqueue(j) PROVE WorkerInv'
  BY <1>2 DEF Enqueue, jobVars, lockVars, dataVars
<1>3. ASSUME NEW j \in Jobs, UpdateJob(j) PROVE WorkerInv'
  BY <1>3 DEF UpdateJob, SetStatus, jobVars, lockVars, dataVars
<1>4. ASSUME NEW j \in Jobs, CancelCheck(j) PROVE WorkerInv'
  BY <1>4 DEF CancelCheck, jobVars, lockVars, dataVars
<1>5. ASSUME NEW j \in Jobs, CancelSet(j) PROVE WorkerInv'
  BY <1>5 DEF CancelSet, SetStatus, jobVars, lockVars, dataVars
<1>6. ASSUME NEW j \in Jobs, OrphanEnds(j) PROVE WorkerInv'
  BY <1>6 DEF OrphanEnds, jobVars, lockVars, dataVars
<1>7. ASSUME NEW w \in Workers, Dequeue(w) PROVE WorkerInv'
  BY <1>7 DEF Dequeue, Goto, SetStatus, jobVars, lockVars, dataVars
<1>8. ASSUME NEW w \in Workers, FinishJob(w) PROVE WorkerInv'
  BY <1>8 DEF FinishJob, Return, Goto, SetStatus, jobVars, lockVars, dataVars
<1>9. ASSUME NEW w \in Workers, Locate(w) PROVE WorkerInv'
  BY <1>9 DEF Locate, Return, Goto, jobVars, lockVars, dataVars
<1>10. ASSUME NEW w \in Workers, LockEntry(w) PROVE WorkerInv'
  BY <1>10 DEF LockEntry, Goto, jobVars, lockVars, dataVars
<1>11. ASSUME NEW w \in Workers, LockBackup(w) PROVE WorkerInv'
  BY <1>11 DEF LockBackup, Goto, FirstStep, jobVars, lockVars, dataVars
<1>12. ASSUME NEW w \in Workers, ReleaseBackupLock(w) PROVE WorkerInv'
  BY <1>12 DEF ReleaseBackupLock, Goto, jobVars, lockVars, dataVars
<1>13. ASSUME NEW w \in Workers, CreateBackup(w) PROVE WorkerInv'
  BY <1>13 DEF CreateBackup, Return, Goto, jobVars, lockVars, dataVars
<1>14. ASSUME NEW w \in Workers, DeleteLocal(w) PROVE WorkerInv'
  BY <1>14 DEF DeleteLocal, Return, Goto, jobVars, lockVars, dataVars
<1>15. ASSUME NEW w \in Workers, DeleteS3(w) PROVE WorkerInv'
  BY <1>15 DEF DeleteS3, Return, Goto, jobVars, lockVars, dataVars
<1>16. ASSUME NEW w \in Workers, DeleteRustic(w) PROVE WorkerInv'
  BY <1>16 DEF DeleteRustic, LocateFails, Return, Goto, jobVars, lockVars, dataVars
<1>17. ASSUME NEW w \in Workers, MarkRestoring(w) PROVE WorkerInv'
  BY <1>17 DEF MarkRestoring, Goto, jobVars, lockVars, dataVars
<1>18. ASSUME NEW w \in Workers, Truncate(w) PROVE WorkerInv'
  BY <1>18 DEF Truncate, Return, Goto, jobVars, lockVars, dataVars
<1>19. ASSUME NEW w \in Workers, RestoreStored(w) PROVE WorkerInv'
  BY <1>19 DEF RestoreStored, Return, Goto, jobVars, lockVars, dataVars
<1>20. ASSUME NEW w \in Workers, RestoreS3(w) PROVE WorkerInv'
  BY <1>20 DEF RestoreS3, Return, Goto, jobVars, lockVars, dataVars
<1>21. ASSUME NEW w \in Workers, UnmarkRestoring(w) PROVE WorkerInv'
  BY <1>21 DEF UnmarkRestoring, Goto, jobVars, lockVars, dataVars
<1>22. ASSUME NEW w \in Workers, DeleteAllBackups(w) PROVE WorkerInv'
  BY <1>22 DEF DeleteAllBackups, Return, Goto, jobVars, lockVars, dataVars
<1>23. CASE RemoveServer
  BY <1>23 DEF RemoveServer, jobVars, lockVars, dataVars
<1>24. CASE UNCHANGED vars
  BY <1>24 DEF vars, jobVars, lockVars, dataVars
<1> QED
  BY <1>1, <1>2, <1>3, <1>4, <1>5, <1>6, <1>7, <1>8, <1>9, <1>10, <1>11, <1>12, <1>13, <1>14,
     <1>15, <1>16, <1>17, <1>18, <1>19, <1>20, <1>21, <1>22, <1>23, <1>24 DEF Next, ApiStep,
     WorkerStep, Execute

\* No step lets a second worker between AcquireBackupLock and ReleaseBackupLock.
LEMMA StepExclusive ==
    ASSUME JobInv, [Next]_vars
    PROVE BackupExclusive'
<1> USE NoneAssumption
<1> USE DEF JobInv, TypeOK, BackupExclusive, ReleasesOwnMutex, WorkerInv, PCs, LockedPCs, RestorePCs, AllKinds
<1>1. ASSUME NEW j \in Jobs, CreateJob(j) PROVE BackupExclusive'
  BY <1>1 DEF CreateJob, SetStatus, jobVars, lockVars, dataVars
<1>2. ASSUME NEW j \in Jobs, Enqueue(j) PROVE BackupExclusive'
  BY <1>2 DEF Enqueue, jobVars, lockVars, dataVars
<1>3. ASSUME NEW j \in Jobs, UpdateJob(j) PROVE BackupExclusive'
  BY <1>3 DEF UpdateJob, SetStatus, jobVars, lockVars, dataVars
<1>4. ASSUME NEW j \in Jobs, CancelCheck(j) PROVE BackupExclusive'
  BY <1>4 DEF CancelCheck, jobVars, lockVars, dataVars
<1>5. ASSUME NEW j \in Jobs, CancelSet(j) PROVE BackupExclusive'
  BY <1>5 DEF CancelSet, SetStatus, jobVars, lockVars, dataVars
<1>6. ASSUME NEW j \in Jobs, OrphanEnds(j) PROVE BackupExclusive'
  BY <1>6 DEF OrphanEnds, jobVars, lockVars, dataVars
<1>7. ASSUME NEW w \in Workers, Dequeue(w) PROVE BackupExclusive'
  BY <1>7 DEF Dequeue, Goto, SetStatus, jobVars, lockVars, dataVars
<1>8. ASSUME NEW w \in Workers, FinishJob(w) PROVE BackupExclusive'
  BY <1>8 DEF FinishJob, Return, Goto, SetStatus, jobVars, lockVars, dataVars
<1>9. ASSUME NEW w \in Workers, Locate(w) PROVE BackupExclusive'
  BY <1>9 DEF Locate, Return, Goto, jobVars, lockVars, dataVars
<1>10. ASSUME NEW w \in Workers, LockEntry(w) PROVE BackupExclusive'
  BY <1>10 DEF LockEntry, Goto, jobVars, lockVars, dataVars
<1>11. ASSUME NEW w \in Workers, LockBackup(w) PROVE BackupExclusive'
  BY <1>11 DEF LockBackup, Goto, FirstStep, jobVars, lockVars, dataVars
<1>12. ASSUME NEW w \in Workers, ReleaseBackupLock(w) PROVE BackupExclusive'
  BY <1>12 DEF ReleaseBackupLock, Goto, jobVars, lockVars, dataVars
<1>13. ASSUME NEW w \in Workers, CreateBackup(w) PROVE BackupExclusive'
  BY <1>13 DEF CreateBackup, Return, Goto, jobVars, lockVars, dataVars
<1>14. ASSUME NEW w \in Workers, DeleteLocal(w) PROVE BackupExclusive'
  BY <1>14 DEF DeleteLocal, Return, Goto, jobVars, lockVars, dataVars
<1>15. ASSUME NEW w \in Workers, DeleteS3(w) PROVE BackupExclusive'
  BY <1>15 DEF DeleteS3, Return, Goto, jobVars, lockVars, dataVars
<1>16. ASSUME NEW w \in Workers, DeleteRustic(w) PROVE BackupExclusive'
  BY <1>16 DEF DeleteRustic, LocateFails, Return, Goto, jobVars, lockVars, dataVars
<1>17. ASSUME NEW w \in Workers, MarkRestoring(w) PROVE BackupExclusive'
  BY <1>17 DEF MarkRestoring, Goto, jobVars, lockVars, dataVars
<1>18. ASSUME NEW w \in Workers, Truncate(w) PROVE BackupExclusive'
  BY <1>18 DEF Truncate, Return, Goto, jobVars, lockVars, dataVars
<1>19. ASSUME NEW w \in Workers, RestoreStored(w) PROVE BackupExclusive'
  BY <1>19 DEF RestoreStored, Return, Goto, jobVars, lockVars, dataVars
<1>20. ASSUME NEW w \in Workers, RestoreS3(w) PROVE BackupExclusive'
  BY <1>20 DEF RestoreS3, Return, Goto, jobVars, lockVars, dataVars
<1>21. ASSUME NEW w \in Workers, UnmarkRestoring(w) PROVE BackupExclusive'
  BY <1>21 DEF UnmarkRestoring, Goto, jobVars, lockVars, dataVars
<1>22. ASSUME NEW w \in Workers, DeleteAllBackups(w) PROVE BackupExclusive'
  BY <1>22 DEF DeleteAllBackups, Return, Goto, jobVars, lockVars, dataVars
<1>23. CASE RemoveServer
  BY <1>23 DEF RemoveServer, jobVars, lockVars, dataVars
<1>24. CASE UNCHANGED vars
  BY <1>24 DEF vars, jobVars, lockVars, dataVars
<1> QED
  BY <1>1, <1>2, <1>3, <1>4, <1>5, <1>6, <1>7, <1>8, <1>9, <1>10, <1>11, <1>12, <1>13, <1>14,
     <1>15, <1>16, <1>17, <1>18, <1>19, <1>20, <1>21, <1>22, <1>23, <1>24 DEF Next, ApiStep,
     WorkerStep, Execute

\* A worker that holds the mutex holds the one in the map until it releases it.
LEMMA StepOwnMutex ==
    ASSUME JobInv, [Next]_vars
    PROVE ReleasesOwnMutex'
<1> USE NoneAssumption
<1> USE DEF JobInv, TypeOK, BackupExclusive, ReleasesOwnMutex, WorkerInv, PCs, LockedPCs, RestorePCs, AllKinds
<1>1. ASSUME NEW j \in Jobs, CreateJob(j) PROVE ReleasesOwnMutex'
  BY <1>1 DEF CreateJob, SetStatus, jobVars, lockVars, dataVars
<1>2. ASSUME NEW j \in Jobs, Enqueue(j) PROVE ReleasesOwnMutex'
  BY <1>2 DEF Enqueue, jobVars, lockVars, dataVars
<1>3. ASSUME NEW j \in Jobs, UpdateJob(j) PROVE ReleasesOwnMutex'
  BY <1>3 DEF UpdateJob, SetStatus, jobVars, lockVars, dataVars
<1>4. ASSUME NEW j \in Jobs, CancelCheck(j) PROVE ReleasesOwnMutex'
  BY <1>4 DEF CancelCheck, jobVars, lockVars, dataVars
<1>5. ASSUME NEW j \in Jobs, CancelSet(j) PROVE ReleasesOwnMutex'
  BY <1>5 DEF CancelSet, SetStatus, jobVars, lockVars, dataVars
<1>6. ASSUME NEW j \in Jobs, OrphanEnds(j) PROVE ReleasesOwnMutex'
  BY <1>6 DEF OrphanEnds, jobVars, lockVars, dataVars
<1>7. ASSUME NEW w \in Workers, Dequeue(w) PROVE ReleasesOwnMutex'
  BY <1>7 DEF Dequeue, Goto, SetStatus, jobVars, lockVars, dataVars
<1>8. ASSUME NEW w \in Workers, FinishJob(w) PROVE ReleasesOwnMutex'
  BY <1>8 DEF FinishJob, Return, Goto, SetStatus, jobVars, lockVars, dataVars
<1>9. ASSUME NEW w \in Workers, Locate(w) PROVE ReleasesOwnMutex'
  BY <1>9 DEF Locate, Return, Goto, jobVars, lockVars, dataVars
<1>10. ASSUME NEW w \in Workers, LockEntry(w) PROVE ReleasesOwnMutex'
  BY <1>10 DEF LockEntry, Goto, jobVars, lockVars, dataVars
<1>11. ASSUME NEW w \in Workers, LockBackup(w) PROVE ReleasesOwnMutex'
  BY <1>11 DEF LockBackup, Goto, FirstStep, jobVars, lockVars, dataVars
<1>12. ASSUME NEW w \in Workers, ReleaseBackupLock(w) PROVE ReleasesOwnMutex'
  BY <1>12 DEF ReleaseBackupLock, Goto, jobVars, lockVars, dataVars
<1>13. ASSUME NEW w \in Workers, CreateBackup(w) PROVE ReleasesOwnMutex'
  BY <1>13 DEF CreateBackup, Return, Goto, jobVars, lockVars, dataVars
<1>14. ASSUME NEW w \in Workers, DeleteLocal(w) PROVE ReleasesOwnMutex'
  BY <1>14 DEF DeleteLocal, Return, Goto, jobVars, lockVars, dataVars
<1>15. ASSUME NEW w \in Workers, DeleteS3(w) PROVE ReleasesOwnMutex'
  BY <1>15 DEF DeleteS3, Return, Goto, jobVars, lockVars, dataVars
<1>16. ASSUME NEW w \in Workers, DeleteRustic(w) PROVE ReleasesOwnMutex'
  BY <1>16 DEF DeleteRustic, LocateFails, Return, Goto, jobVars, lockVars, dataVars
<1>17. ASSUME NEW w \in Workers, MarkRestoring(w) PROVE ReleasesOwnMutex'
  BY <1>17 DEF MarkRestoring, Goto, jobVars, lockVars, dataVars
<1>18. ASSUME NEW w \in Workers, Truncate(w) PROVE ReleasesOwnMutex'
  BY <1>18 DEF Truncate, Return, Goto, jobVars, lockVars, dataVars
<1>19. ASSUME NEW w \in Workers, RestoreStored(w) PROVE ReleasesOwnMutex'
  BY <1>19 DEF RestoreStored, Return, Goto, jobVars, lockVars, dataVars
<1>20. ASSUME NEW w \in Workers, RestoreS3(w) PROVE ReleasesOwnMutex'
  BY <1>20 DEF RestoreS3, Return, Goto, jobVars, lockVars, dataVars
<1>21. ASSUME NEW w \in Workers, UnmarkRestoring(w) PROVE ReleasesOwnMutex'
  BY <1>21 DEF UnmarkRestoring, Goto, jobVars, lockVars, dataVars
<1>22. ASSUME NEW w \in Workers, DeleteAllBackups(w) PROVE ReleasesOwnMutex'
  BY <1>22 DEF DeleteAllBackups, Return, Goto, jobVars, lockVars, dataVars
<1>23. CASE RemoveServer
  BY <1>23 DEF RemoveServer, jobVars, lockVars, dataVars
<1>24. CASE UNCHANGED vars
  BY <1>24 DEF vars, jobVars, lockVars, dataVars
<1> QED
  BY <1>1, <1>2, <1>3, <1>4, <1>5, <1>6, <1>7, <1>8, <1>9, <1>10, <1>11, <1>12, <1>13, <1>14,
     <1>15, <1>16, <1>17, <1>18, <1>19, <1>20, <1>21, <1>22, <1>23, <1>24 DEF Next, ApiStep,
     WorkerStep, Execute

\* Only the one worker that restores writes the restoring flag, and it gives up on a
\* goroutine only where it fails.
LEMMA StepRestoring ==
    ASSUME JobInv, [Next]_vars
    PROVE RestoringFlagCovers'
<1> USE NoneAssumption
<1> USE DEF JobInv, TypeOK, ExecutedOnce, BackupExclusive, RestoringFlagCovers, WorkerInv, PCs, LockedPCs,
        RestorePCs, AllKinds, Places
<1>1. ASSUME NEW j \in Jobs, CreateJob(j) PROVE RestoringFlagCovers'
  BY <1>1 DEF CreateJob, SetStatus, jobVars, lockVars, dataVars
<1>2. ASSUME NEW j \in Jobs, Enqueue(j) PROVE RestoringFlagCovers'
  BY <1>2 DEF Enqueue, jobVars, lockVars, dataVars
<1>3. ASSUME NEW j \in Jobs, UpdateJob(j) PROVE RestoringFlagCovers'
  BY <1>3 DEF UpdateJob, SetStatus, jobVars, lockVars, dataVars
<1>4. ASSUME NEW j \in Jobs, CancelCheck(j) PROVE RestoringFlagCovers'
  BY <1>4 DEF CancelCheck, jobVars, lockVars, dataVars
<1>5. ASSUME NEW j \in Jobs, CancelSet(j) PROVE RestoringFlagCovers'
  BY <1>5 DEF CancelSet, SetStatus, jobVars, lockVars, dataVars
<1>6. ASSUME NEW j \in Jobs, OrphanEnds(j) PROVE RestoringFlagCovers'
  BY <1>6 DEF OrphanEnds, jobVars, lockVars, dataVars
<1>7. ASSUME NEW w \in Workers, Dequeue(w) PROVE RestoringFlagCovers'
  BY <1>7 DEF Dequeue, Goto, SetStatus, jobVars, lockVars, dataVars
<1>8. ASSUME NEW w \in Workers, FinishJob(w) PROVE RestoringFlagCovers'
  BY <1>8 DEF FinishJob, Return, Goto, SetStatus, jobVars, lockVars, dataVars
<1>9. ASSUME NEW w \in Workers, Locate(w) PROVE RestoringFlagCovers'
  BY <1>9 DEF Locate, Return, Goto, jobVars, lockVars, dataVars
<1>10. ASSUME NEW w \in Workers, LockEntry(w) PROVE RestoringFlagCovers'
  BY <1>10 DEF LockEntry, Goto, jobVars, lockVars, dataVars
<1>11. ASSUME NEW w \in Workers, LockBackup(w) PROVE RestoringFlagCovers'
  BY <1>11 DEF LockBackup, Goto, FirstStep, jobVars, lockVars, dataVars
<1>12. ASSUME NEW w \in Workers, ReleaseBackupLock(w) PROVE RestoringFlagCovers'
  BY <1>12 DEF ReleaseBackupLock, Goto, jobVars, lockVars, dataVars
<1>13. ASSUME NEW w \in Workers, CreateBackup(w) PROVE RestoringFlagCovers'
  BY <1>13 DEF CreateBackup, Return, Goto, jobVars, lockVars, dataVars
<1>14. ASSUME NEW w \in Workers, DeleteLocal(w) PROVE RestoringFlagCovers'
  BY <1>14 DEF DeleteLocal, Return, Goto, jobVars, lockVars, dataVars
<1>15. ASSUME NEW w \in Workers, DeleteS3(w) PROVE RestoringFlagCovers'
  BY <1>15 DEF DeleteS3, Return, Goto, jobVars, lockVars, dataVars
<1>16. ASSUME NEW w \in Workers, DeleteRustic(w) PROVE RestoringFlagCovers'
  BY <1>16 DEF DeleteRustic, LocateFails, Return, Goto, jobVars, lockVars, dataVars
<1>17. ASSUME NEW w \in Workers, MarkRestoring(w) PROVE RestoringFlagCovers'
  BY <1>17 DEF MarkRestoring, Goto, jobVars, lockVars, dataVars
<1>18. ASSUME NEW w \in Workers, Truncate(w) PROVE RestoringFlagCovers'
  BY <1>18 DEF Truncate, Return, Goto, jobVars, lockVars, dataVars
<1>19. ASSUME NEW w \in Workers, RestoreStored(w) PROVE RestoringFlagCovers'
  BY <1>19 DEF RestoreStored, Return, Goto, jobVars, lockVars, dataVars
<1>20. ASSUME NEW w \in Workers, RestoreS3(w) PROVE RestoringFlagCovers'
  BY <1>20 DEF RestoreS3, Return, Goto, jobVars, lockVars, dataVars
<1>21. ASSUME NEW w \in Workers, UnmarkRestoring(w) PROVE RestoringFlagCovers'
  BY <1>21 DEF UnmarkRestoring, Goto, jobVars, lockVars, dataVars
<1>22. ASSUME NEW w \in Workers, DeleteAllBackups(w) PROVE RestoringFlagCovers'
  BY <1>22 DEF DeleteAllBackups, Return, Goto, jobVars, lockVars, dataVars
<1>23. CASE RemoveServer
  BY <1>23 DEF RemoveServer, jobVars, lockVars, dataVars
<1>24. CASE UNCHANGED vars
  BY <1>24 DEF vars, jobVars, lockVars, dataVars
<1> QED
  BY <1>1, <1>2, <1>3, <1>4, <1>5, <1>6, <1>7, <1>8, <1>9, <1>10, <1>11, <1>12, <1>13, <1>14,
     <1>15, <1>16, <1>17, <1>18, <1>19, <1>20, <1>21, <1>22, <1>23, <1>24 DEF Next, ApiStep,
     WorkerStep, Execute

\* JobInv is an invariant of the job manager, whatever the Panel creates, cancels
\* and updates and whenever it removes the server.
THEOREM JobInvariant == Spec => []JobInv
<1>1. JobInv /\ [Next]_vars => JobInv'
  BY StepTyped, StepExecutedOnce, StepWorkerInv, StepExclusive, StepOwnMutex, StepRestoring
     DEF JobInv
<1> QED
  BY <1>1, InitInv, PTL DEF Spec

\* TypeOK of the job manager.
THEOREM JobsTypeCorrect == Spec => []TypeOK
BY JobInvariant, PTL DEF JobInv

\* No accepted job is executed twice.
THEOREM JobsExecutedOnce == Spec => []ExecutedOnce
BY JobInvariant, PTL DEF JobInv

\* The backup lock excludes, as long as the server is registered.
THEOREM BackupLockExclusive == Spec => []BackupExclusive
BY JobInvariant, PTL DEF JobInv

\* ReleaseBackupLock unlocks the mutex of its own job, and never one that is not
\* locked, as long as the server is registered.
THEOREM BackupLockReleased == Spec => []ReleasesOwnMutex
BY JobInvariant, PTL DEF JobInv

\* The restoring flag is set exactly while a worker is inside a restore, as long as the
\* server is registered, and a job whose goroutine outlived a timeout, which writes on
\* without the flag, never goes on beside it and fails.
THEOREM RestoringFlagCorrect == Spec => []RestoringFlagCovers
BY JobInvariant, PTL DEF JobInv
=============================================================================
