----------------------------- MODULE BackupJobs -----------------------------
(***************************************************************************)
(* The job manager (jobs/job.go), the four backup jobs it runs             *)
(* (jobs/backup_job.go), and the per-server backup mutex and server        *)
(* removal they share (server/manager.go), for the jobs of one server.     *)
(*                                                                         *)
(* A job is created by an API goroutine, waits in the manager's channel    *)
(* and is executed by one of its workers.  A mutex of the map              *)
(* backupOperations is created on first use and forgotten, not destroyed,  *)
(* when the server is removed; sync.Mutex knows no owner.  The backups     *)
(* themselves (files, S3 objects, rustic snapshots) are external and are   *)
(* modelled by whether they exist.                                         *)
(***************************************************************************)
EXTENDS Naturals, Sequences, FiniteSets

CONSTANTS
    Jobs,      \* job instances that may be created
    Workers,   \* worker goroutines; 4 in the daemon
    Backups,   \* backup identifiers
    Mutexes,   \* mutexes that the map may ever hold (bound on generations)
    Kinds,     \* job types that may be created
    Cancels,   \* jobs that DELETE /api/jobs/:id may be called for
    Updates,   \* statuses that PUT /api/jobs/:id may write
    QueueCap,  \* capacity of the manager's channel; 100 in the code
    NoJob, NoMutex

AllKinds == {"create", "delete", "restore", "delete_all"}
Statuses == {"pending", "running", "completed", "failed"}

ASSUME KindsAssumption == Kinds \subseteq AllKinds
ASSUME ApiAssumption == Updates \subseteq Statuses /\ Cancels \subseteq Jobs
ASSUME CapAssumption == QueueCap \in Nat \ {0}
ASSUME NoneAssumption == NoJob \notin Jobs /\ NoMutex \notin Mutexes

VARIABLES
    status,      \* Instance.Status, "none" before the job is registered
    kind,        \* the job's type
    target,      \* the backup the job is about
    place,       \* the job's way: creating, queued, executing, ended, or rejected
    cancel,      \* where a CancelJob call for the job is
    queue,       \* the manager's channel
    pc,          \* where each worker is
    cur,         \* the instance it executes
    outcome,     \* what Execute is about to return
    mine,        \* the mutex it got in AcquireBackupLock
    entry,       \* the server's entry of backupOperations
    locked,      \* the mutexes that are locked
    server,      \* whether the manager still knows the server
    restoring,   \* the server's restoring flag
    orphans,     \* jobs whose truncate or restore goroutine has outlived a timeout
    stored,      \* the backups that exist
    daemon       \* "fatal" once the runtime has aborted the process

jobVars == <<status, kind, target, place, cancel, queue>>
lockVars == <<mine, entry, locked>>
dataVars == <<restoring, orphans, stored>>
vars == <<jobVars, pc, cur, outcome, lockVars, server, dataVars, daemon>>

\* Inside a restore's SetRestoring(true) and its deferred SetRestoring(false),
RestorePCs == {"truncate", "restore", "unmark"}
\* and inside AcquireBackupLock and its deferred ReleaseBackupLock.
LockedPCs == {"create", "delete", "mark", "release"} \cup RestorePCs
PCs == LockedPCs \cup {"idle", "locate", "entry", "wait", "wipe", "finish"}
Places == {"none", "creating", "queued", "executing", "ended", "rejected"}

\* The values of the variables.
TypeOK ==
    /\ status \in [Jobs -> Statuses \cup {"none"}]
    /\ kind \in [Jobs -> AllKinds] /\ target \in [Jobs -> Backups]
    /\ place \in [Jobs -> Places]
    /\ cancel \in [Jobs -> {"idle", "checked"}]
    /\ queue \in Seq(Jobs) /\ Len(queue) <= QueueCap
    /\ pc \in [Workers -> PCs]
    /\ cur \in [Workers -> Jobs \cup {NoJob}]
    /\ outcome \in [Workers -> {"completed", "failed"}]
    /\ mine \in [Workers -> Mutexes \cup {NoMutex}]
    /\ entry \in Mutexes \cup {NoMutex} /\ locked \subseteq Mutexes
    /\ server \in {"present", "removed"}
    /\ restoring \in {0, 1} /\ orphans \subseteq Jobs /\ stored \subseteq Backups
    /\ daemon \in {"up", "fatal"}

Init ==
    /\ status = [j \in Jobs |-> "none"]
    /\ kind \in [Jobs -> Kinds] /\ target \in [Jobs -> Backups]
    /\ place = [j \in Jobs |-> "none"]
    /\ cancel = [j \in Jobs |-> "idle"]
    /\ queue = << >>
    /\ pc = [w \in Workers |-> "idle"]
    /\ cur = [w \in Workers |-> NoJob]
    /\ outcome = [w \in Workers |-> "failed"]
    /\ mine = [w \in Workers |-> NoMutex]
    /\ entry = NoMutex /\ locked = {}
    /\ server = "present"
    /\ restoring = 0 /\ orphans = {}
    /\ stored \in SUBSET Backups
    /\ daemon = "up"

-----------------------------------------------------------------------------
(* jobs/job.go: the API side of the manager.                               *)

SetStatus(j, s) == status' = [status EXCEPT ![j] = s]

\* CreateJob registers the instance and reports it,
CreateJob(j) ==
    /\ place[j] = "none"
    /\ place' = [place EXCEPT ![j] = "creating"]
    /\ SetStatus(j, "pending")
    /\ UNCHANGED <<kind, target, cancel, queue, pc, cur, outcome, lockVars, server, dataVars, daemon>>

\* Faulty variant of Enqueue: a full channel is not noticed.
EnqueueAlways(j) ==
    /\ place[j] = "creating"
    /\ queue' = Append(queue, j)
    /\ place' = [place EXCEPT ![j] = "queued"]
    /\ UNCHANGED <<status, kind, target, cancel, pc, cur, outcome, lockVars, server, dataVars, daemon>>

\* and then sends it on the channel, or gives up on a full one.
Enqueue(j) ==
    /\ place[j] = "creating"
    /\ IF Len(queue) < QueueCap
       THEN /\ queue' = Append(queue, j)
            /\ place' = [place EXCEPT ![j] = "queued"]
       ELSE /\ place' = [place EXCEPT ![j] = "rejected"]
            /\ UNCHANGED queue
    /\ UNCHANGED <<status, kind, target, cancel, pc, cur, outcome, lockVars, server, dataVars, daemon>>

\* UpdateJob writes the status it is given over whatever is there.
UpdateJob(j) ==
    /\ status[j] # "none"
    /\ \E s \in Updates : SetStatus(j, s)
    /\ UNCHANGED <<kind, target, place, cancel, queue, pc, cur, outcome, lockVars, server, dataVars, daemon>>

\* CancelJob reads the status,
CancelCheck(j) ==
    /\ j \in Cancels
    /\ status[j] \in {"pending", "running"} /\ cancel[j] = "idle"
    /\ cancel' = [cancel EXCEPT ![j] = "checked"]
    /\ UNCHANGED <<status, kind, target, place, queue, pc, cur, outcome, lockVars, server, dataVars, daemon>>

\* and writes it without a lock: the job itself is not told.
CancelSet(j) ==
    /\ cancel[j] = "checked"
    /\ cancel' = [cancel EXCEPT ![j] = "idle"]
    /\ SetStatus(j, "failed")
    /\ UNCHANGED <<kind, target, place, queue, pc, cur, outcome, lockVars, server, dataVars, daemon>>

-----------------------------------------------------------------------------
(* jobs/job.go: a worker.                                                  *)

Goto(w, l) == pc' = [pc EXCEPT ![w] = l]

\* Faulty variant of Dequeue: the instance stays in the channel.
DequeuePeeks(w) ==
    /\ pc[w] = "idle" /\ queue # << >>
    /\ cur' = [cur EXCEPT ![w] = Head(queue)]
    /\ place' = [place EXCEPT ![Head(queue)] = "executing"]
    /\ SetStatus(Head(queue), "running")
    /\ Goto(w, "locate")
    /\ UNCHANGED <<kind, target, cancel, queue, outcome, lockVars, server, dataVars, daemon>>

\* worker and the first lines of executeJob.
Dequeue(w) ==
    /\ pc[w] = "idle" /\ queue # << >>
    /\ cur' = [cur EXCEPT ![w] = Head(queue)]
    /\ queue' = Tail(queue)
    /\ place' = [place EXCEPT ![Head(queue)] = "executing"]
    /\ SetStatus(Head(queue), "running")
    /\ Goto(w, "locate")
    /\ UNCHANGED <<kind, target, cancel, outcome, lockVars, server, dataVars, daemon>>

\* Execute goes to l and will return a result or an error; a panic is recovered
\* after the deferred calls and is reported like an error.
Return(w, l, o) == Goto(w, l) /\ outcome' = [outcome EXCEPT ![w] = o]

\* The end of executeJob, with the status Execute's result calls for.
FinishJob(w) ==
    /\ pc[w] = "finish"
    /\ SetStatus(cur[w], outcome[w])
    /\ place' = [place EXCEPT ![cur[w]] = "ended"]
    /\ cur' = [cur EXCEPT ![w] = NoJob]
    /\ Return(w, "idle", "failed")
    /\ UNCHANGED <<kind, target, cancel, queue, lockVars, server, dataVars, daemon>>

-----------------------------------------------------------------------------
(* server/manager.go: the backup mutex and the removal of the server.      *)

\* Faulty variant of LockEntry: a mutex is made without looking for one.
LockEntryFresh(w) ==
    /\ pc[w] = "entry"
    /\ \E m \in Mutexes \ (locked \cup {mine[v] : v \in Workers}) : entry' = m
    /\ mine' = [mine EXCEPT ![w] = entry']
    /\ Goto(w, "wait")
    /\ UNCHANGED <<jobVars, cur, outcome, locked, server, dataVars, daemon>>

\* AcquireBackupLock takes the mutex of the map, or makes one,
LockEntry(w) ==
    /\ pc[w] = "entry"
    /\ IF entry = NoMutex
       THEN \E m \in Mutexes \ (locked \cup {mine[v] : v \in Workers}) : entry' = m
       ELSE UNCHANGED entry
    /\ mine' = [mine EXCEPT ![w] = entry']
    /\ Goto(w, "wait")
    /\ UNCHANGED <<jobVars, cur, outcome, locked, server, dataVars, daemon>>

\* where Execute goes on once it has it,
FirstStep(k) == IF k = "restore" THEN "mark" ELSE k

\* and locks it after it has let go of the map.
LockBackup(w) ==
    /\ pc[w] = "wait" /\ mine[w] \notin locked
    /\ locked' = locked \cup {mine[w]}
    /\ Goto(w, FirstStep(kind[cur[w]]))
    /\ UNCHANGED <<jobVars, cur, outcome, mine, entry, server, dataVars, daemon>>

\* ReleaseBackupLock looks the mutex up again: it unlocks whatever is there now,
\* and unlocking a mutex that is not locked is a fatal error.
ReleaseBackupLock(w) ==
    /\ pc[w] = "release"
    /\ locked' = locked \ {entry}
    /\ daemon' = IF entry \in Mutexes \ locked THEN "fatal" ELSE daemon
    /\ mine' = [mine EXCEPT ![w] = NoMutex]
    /\ Goto(w, "finish")
    /\ UNCHANGED <<jobVars, cur, outcome, entry, server, dataVars>>

\* Faulty variant of RemoveServer: it forgets the mutex of a server it keeps.
RemoveMutexOnly ==
    /\ server = "present"
    /\ entry' = NoMutex
    /\ UNCHANGED <<jobVars, pc, cur, outcome, mine, locked, server, dataVars, daemon>>

\* Remove forgets the server, and the entry of a mutex that may be locked.
RemoveServer ==
    /\ server = "present"
    /\ server' = "removed"
    /\ entry' = NoMutex
    /\ UNCHANGED <<jobVars, pc, cur, outcome, mine, locked, dataVars, daemon>>

-----------------------------------------------------------------------------
(* jobs/backup_job.go: Execute.                                            *)

\* Every job looks the server up; delete_all takes no lock.
Locate(w) ==
    /\ pc[w] = "locate"
    /\ IF server = "removed"
       THEN Return(w, "finish", "failed")
       ELSE Goto(w, IF kind[cur[w]] = "delete_all" THEN "wipe" ELSE "entry") /\ UNCHANGED outcome
    /\ UNCHANGED <<jobVars, cur, lockVars, server, dataVars, daemon>>

\* Faulty variant of CreateBackup: an error returns without releasing the lock.
CreateKeepsLock(w) ==
    /\ pc[w] = "create"
    /\ \/ Return(w, "release", "completed") /\ stored' = stored \cup {target[cur[w]]}
       \/ Return(w, "finish", "failed") /\ UNCHANGED stored
    /\ UNCHANGED <<jobVars, cur, lockVars, server, restoring, orphans, daemon>>

\* A failed backup may leave its archive behind.
CreateBackup(w) ==
    /\ pc[w] = "create"
    /\ LET b == target[cur[w]]
       IN \/ Return(w, "release", "completed") /\ stored' = stored \cup {b}
          \/ Return(w, "release", "failed") /\ stored' \in {stored, stored \cup {b}}
    /\ UNCHANGED <<jobVars, cur, lockVars, server, restoring, orphans, daemon>>

\* A local backup that is not there, or a failed removal, is an error.
DeleteLocal(w) ==
    /\ pc[w] = "delete"
    /\ LET b == target[cur[w]]
       IN \/ b \in stored /\ Return(w, "release", "completed") /\ stored' = stored \ {b}
          \/ Return(w, "release", "failed") /\ UNCHANGED stored
    /\ UNCHANGED <<jobVars, cur, lockVars, server, restoring, orphans, daemon>>

\* The Panel deletes the object on S3, whether it was there or not, or fails.
DeleteS3(w) ==
    /\ pc[w] = "delete"
    /\ \/ Return(w, "release", "completed") /\ stored' = stored \ {target[cur[w]]}
       \/ Return(w, "release", "failed") /\ UNCHANGED stored
    /\ UNCHANGED <<jobVars, cur, lockVars, server, restoring, orphans, daemon>>

\* Looking the snapshot up may fail for any reason: the error always contains
\* "failed to get snapshot", which counts as deleted already.
LocateFails(w) == Return(w, "release", "completed") /\ UNCHANGED stored

DeleteRustic(w) ==
    /\ pc[w] = "delete"
    /\ LET b == target[cur[w]]
       IN \/ b \in stored /\ Return(w, "release", "completed") /\ stored' = stored \ {b}
          \/ LocateFails(w)
          \/ Return(w, "release", "failed") /\ UNCHANGED stored
    /\ UNCHANGED <<jobVars, cur, lockVars, server, restoring, orphans, daemon>>

MarkRestoring(w) ==
    /\ pc[w] = "mark"
    /\ restoring' = 1
    /\ \E l \in {"truncate", "restore"} : Goto(w, l)
    /\ UNCHANGED <<jobVars, cur, outcome, lockVars, server, orphans, stored, daemon>>

\* Faulty variant of Truncate: an error returns without SetRestoring(false).
TruncateKeepsFlag(w) ==
    /\ pc[w] = "truncate"
    /\ \/ Goto(w, "restore") /\ UNCHANGED <<outcome, orphans>>
       \/ Return(w, "release", "failed") /\ UNCHANGED orphans
    /\ UNCHANGED <<jobVars, cur, lockVars, server, restoring, stored, daemon>>

\* The truncation runs in a goroutine; after ten minutes the job gives up on it.
Truncate(w) ==
    /\ pc[w] = "truncate"
    /\ \/ Goto(w, "restore") /\ UNCHANGED <<outcome, orphans>>
       \/ Return(w, "unmark", "failed") /\ orphans' \in {orphans, orphans \cup {cur[w]}}
    /\ UNCHANGED <<jobVars, cur, lockVars, server, restoring, stored, daemon>>

\* restoreLocalBackup and restoreRusticBackup restore a backup that is there.
RestoreStored(w) ==
    /\ pc[w] = "restore"
    /\ \/ target[cur[w]] \in stored /\ Return(w, "unmark", "completed")
       \/ Return(w, "unmark", "failed")
    /\ UNCHANGED <<jobVars, cur, lockVars, server, dataVars, daemon>>

\* restoreS3Backup restores from a download, in a goroutine that the job gives up
\* on after thirty minutes.
RestoreS3(w) ==
    /\ pc[w] = "restore"
    /\ \/ Return(w, "unmark", "completed") /\ UNCHANGED orphans
       \/ Return(w, "unmark", "failed") /\ orphans' \in {orphans, orphans \cup {cur[w]}}
    /\ UNCHANGED <<jobVars, cur, lockVars, server, restoring, stored, daemon>>

\* The goroutine the job gave up on ends some time later.
OrphanEnds(j) ==
    /\ j \in orphans
    /\ orphans' = orphans \ {j}
    /\ UNCHANGED <<jobVars, pc, cur, outcome, lockVars, server, restoring, stored, daemon>>

UnmarkRestoring(w) ==
    /\ pc[w] = "unmark"
    /\ restoring' = 0
    /\ Goto(w, "release")
    /\ UNCHANGED <<jobVars, cur, outcome, lockVars, server, orphans, stored, daemon>>

\* BackupDeleteAllJob goes on after a backup that it cannot delete, and fails only
\* if a repository cannot be destroyed.
DeleteAllBackups(w) ==
    /\ pc[w] = "wipe"
    /\ \E o \in {"completed", "failed"} : Return(w, "finish", o)
    /\ stored' \in SUBSET stored
    /\ UNCHANGED <<jobVars, cur, lockVars, server, restoring, orphans, daemon>>

-----------------------------------------------------------------------------
Execute(w) ==
    \/ Locate(w) \/ LockEntry(w) \/ LockBackup(w) \/ ReleaseBackupLock(w)
    \/ CreateBackup(w) \/ DeleteLocal(w) \/ DeleteS3(w) \/ DeleteRustic(w)
    \/ MarkRestoring(w) \/ Truncate(w) \/ RestoreStored(w) \/ RestoreS3(w) \/ UnmarkRestoring(w)
    \/ DeleteAllBackups(w)
WorkerStep(w) == Dequeue(w) \/ Execute(w) \/ FinishJob(w)
ApiStep(j) ==
    CreateJob(j) \/ Enqueue(j) \/ UpdateJob(j) \/ CancelCheck(j) \/ CancelSet(j)

Next ==
    /\ daemon = "up"
    /\ \/ \E j \in Jobs : ApiStep(j) \/ OrphanEnds(j)
       \/ \E w \in Workers : WorkerStep(w)
       \/ RemoveServer

Spec == Init /\ [][Next]_vars

\* The scheduler runs every goroutine that can run, every backup operation ends,
\* and a mutex is granted to a waiter; whether jobs are created, cancelled or
\* updated and whether the server is removed is up to the Panel.
FairSpec ==
    /\ Spec
    /\ \A w \in Workers : WF_vars(daemon = "up" /\ WorkerStep(w))
    /\ \A j \in Jobs : WF_vars(daemon = "up" /\ (Enqueue(j) \/ CancelSet(j)))

-----------------------------------------------------------------------------
(* Properties.                                                             *)

\* Manager.queue and the workers: a job that was accepted is in the channel
\* once or with one worker, never both, so that no job is executed twice,
\* however often it is cancelled or updated meanwhile.
ExecutedOnce ==
    /\ \A i, k \in DOMAIN queue : queue[i] = queue[k] => i = k
    /\ \A i \in DOMAIN queue : place[queue[i]] = "queued"
    /\ \A w \in Workers : cur[w] # NoJob => place[cur[w]] = "executing"
    /\ \A v, w \in Workers : cur[v] = cur[w] /\ cur[w] # NoJob => v = w

\* AcquireBackupLock: while the server is registered, no two workers are between
\* acquiring and releasing its backup lock, although the mutex is looked up anew
\* by every call.
BackupExclusive ==
    server = "present" =>
        \A v, w \in Workers : pc[v] \in LockedPCs /\ pc[w] \in LockedPCs => v = w

\* ReleaseBackupLock: while the server is registered, every release meets the
\* mutex that the same job has locked, so the runtime never aborts the daemon.
ReleasesOwnMutex ==
    server = "present" =>
        /\ daemon = "up"
        /\ \A w \in Workers :
             pc[w] \in LockedPCs => mine[w] = entry /\ mine[w] \in locked

\* BackupRestoreJob: while the server is registered, its restoring flag, which
\* keeps it from being started, is set exactly while a worker is between
\* SetRestoring(true) and its deferred SetRestoring(false): no job that ends
\* clears the flag of another one.  It does not cover the goroutine of a
\* truncation or a restore that the job has given up on: that one writes on after
\* the flag is cleared.  But its job never goes on to restore beside it and never
\* succeeds: it only clears the flag, releases the lock and fails.
RestoringFlagCovers ==
    /\ server = "present" => (restoring = 1 <=> \E w \in Workers : pc[w] \in RestorePCs)
    /\ \A j \in orphans :
         /\ place[j] \in {"executing", "ended"}
         /\ \A w \in Workers :
              cur[w] = j => pc[w] \in {"unmark", "release", "finish"} /\ outcome[w] = "failed"

\* Every job the channel has accepted is executed to its end, whatever the other
\* jobs do, unless the server is removed meanwhile.
AcceptedJobsEnd ==
    \A j \in Jobs : place[j] = "queued" ~> (place[j] = "ended" \/ server = "removed")

\* How the workers, their jobs and the mutex go together: while the server is
\* registered, every worker that waits for a mutex waits for the one in the map.
WorkerInv ==
    \A w \in Workers :
        /\ pc[w] = "idle" <=> cur[w] = NoJob
        /\ pc[w] \in {"wait"} \cup LockedPCs <=> mine[w] # NoMutex
        /\ pc[w] \in {"entry", "wait"} => kind[cur[w]] # "delete_all"
        /\ server = "present" /\ mine[w] # NoMutex => mine[w] = entry

\* The inductive invariant of the jobs, the workers and the backup mutex.
JobInv ==
    /\ TypeOK /\ ExecutedOnce /\ WorkerInv
    /\ BackupExclusive /\ ReleasesOwnMutex /\ RestoringFlagCovers
=============================================================================
