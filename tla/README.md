# A TLA+ model of Elytra

Elytra is the daemon that runs game servers on a node: it drives their Docker
containers, backs them up, moves them between nodes and reports to a Panel. It
is written in Go (`src/src/`) and almost everything in it is concurrent: every
API call, websocket message, event and job has a goroutine of its own, and most
of the state they share is guarded by a flag, a channel or nothing at all. This
directory holds TLA+ modules that follow that code, TLC configurations that
check them on small instances, and TLAPS proofs for instances of any size.

Paths below are relative to `src/src/`.

## 1. The system and its parts

| Part | State | Operations | Hard because | Correct when |
|---|---|---|---|---|
| Power actions, `server/power.go` | the power lock, the installing / transferring / restoring flags | `HandlePowerAction`: start, stop, restart, kill, with or without a time to wait for the lock | a kill runs without the lock if it is taken; flags are read before the lock | actions are served one at a time, only the one served boots the container, a kill always gets through |
| Power lock, `system/locker.go` | a channel of capacity one | `Acquire`, `TryAcquire`, `Release`, `Destroy` | `Release` drains the channel whoever filled it; `Destroy` closes it under its users | only the holder releases |
| Docker environment, `environment/docker/` | the environment's state, the attached stream | `Start`, `Create`, `Attach`, `Stop`, `WaitForStop`, `SignalContainer`, `Terminate`, `SendCommand` | every Docker call is a point where the container or another goroutine may act | the reported state follows the process; a wait ends |
| Listeners and crash handler, `server/listeners.go`, `server/server.go`, `server/crash.go` | the tracked state, the time of the last crash | `OnStateChange`, `onConsoleOutput`, `handleServerCrash` | a goroutine per event, which reads the state when it runs and not when the event was sent | a crash is a crash: not a stop, not twice |
| Event bus, `events/events.go`, `system/sink_pool.go` | listener channels | `On`, `Off`, `Publish`, `Destroy` | a full channel drops its oldest entry after a timer | order is kept, a slow listener does not stop the others |
| Job manager, `jobs/job.go` | the job table, the channel of 100, the workers | `CreateJob`, `UpdateJob`, `CancelJob`, `executeJob` | status and table are shared without a lock; the channel may be full | an accepted job runs once and to its end |
| Backup jobs, `jobs/backup_job.go`, `server/backup.go` | the backups, the restoring flag | create, delete, restore, delete all | timeouts that leave a goroutine behind, deferred clean-ups, a mutex per server | one backup operation per server; the flag covers a restore |
| Server manager, `server/manager.go` | the servers, the map of backup mutexes | `Add`, `Remove`, `AcquireBackupLock`, `ReleaseBackupLock`, `ReadStates`, `PersistStates` | the map entry is removed while its mutex is in use | the mutex released is the mutex acquired |
| Installer and server configuration, `server/install.go`, `server/update.go`, `server/installer/` | installing and suspended flags, settings | install, reinstall, sync | several writers of the suspended flag | no install beside a running server |
| Transfers, `router/router_server_transfer.go`, `router/router_transfer.go`, `server/transfer/` | a registry per direction, a status, the archive | push, receive, cancel, report | two nodes and the Panel, each of which may fail | exactly one node ends up with the server |
| Boot, `cmd/root.go` | the persisted states | read states, restore servers | a crash between two saves | running servers come back |
| Disk quota and file operations, `internal/ufs/`, `server/filesystem/`, `router/router_server_files.go` | usage, limit, last lookup; the files | write, upload, copy, compress, unpack, rename, remove; lookup | usage is loaded and stored apart, and files change under the walk | usage follows the files, the limit is kept |
| Disk limiter, `server/listeners.go` | a `sync.Once` | `Trigger`, `Reset` | the `Once` is replaced while it is in use | a server beyond its limit is stopped, in every run |
| Panel client, `remote/` | - | requests with retry and backoff | retries of what was done | a permanent error is not retried |
| Downloader, `router/downloader/` | the downloads of each server | start, cancel, track | a limit checked apart from the insertion | at most three at once |
| Websocket and tokens, `router/websocket/`, `router/tokens/`, `server/websockets.go` | the connection's token, a denylist | authenticate, send, expire, revoke | token and connection age apart | nothing is sent on a revoked token |
| Activity cron, `internal/cron/` | the activity table | batch, send, delete | a failure between send and delete | nothing is lost |
| Throttle and rate, `system/rate.go`, `server/console.go` | a window and a count | `Try`, `Reset` | the boundary of the window | never more than the limit in a window |
| Backup adapters, `server/backup/` | files, S3 parts, rustic repositories | generate, restore, remove | multipart uploads with retries, repository repair | what is reported as stored is stored |
| SFTP server, `sftp/`, `system/context_bag.go` | sessions, a context per user | accept, handle, terminate | sessions share a context that is replaced | a deauthorised user's sessions end |
| Parser, router middleware, commands, loggers | none that lasts | parsing, formats, I/O | - | covered by unit tests, not by models |

How they interact: a power action calls the environment, whose `SetState`
publishes an event; the event's goroutine stores the state, and may call the
crash handler, which calls a power action again. The console reader that an
attach starts sets the state too, and so does a line of console output. A
backup job runs on one of the manager's workers, finds its server through the
server manager, takes the server's backup mutex and sets its restoring flag,
which the power actions read. A transfer and the installer set the other two
flags. The Panel calls all of it over HTTP, and is told of every result; a
synchronisation brings suspension back, which refuses starts and ends websockets
and SFTP sessions. Events of the environment go through the sink pools to the
listeners of the server, to the disk limiter and to every websocket.

## 2. Modules

| Module | Code | With |
|---|---|---|
| `ServerPower`, `PowerSerial` | `server/power.go`, `system/locker.go`, `environment/docker/`, `server/listeners.go`, `server/crash.go` | `ServerPowerProofs`, `MCServerPower` |
| `BackupJobs` | `jobs/`, `server/backup.go`, `server/manager.go` | `BackupJobsProofs`, `MCBackupJobs` |
| `RusticRepository` | `server/backup/rustic*.go` | `RusticRepositoryProofs`, `MCRusticRepository` |
| `PanelClient`, `ActivityDelivery`, `BackupUpload` | `remote/`, `internal/cron/`, `server/activity.go`, `server/backup/backup*.go` | `PanelProofs`, `MCPanel` |
| `ServerLifecycle` | `server/install.go`, `server/server.go`, `router/router_server.go`, `router/router_system.go` | `ServerLifecycleProofs`, `MCServerLifecycle` |
| `ServerTransfer` | `router/router_transfer.go`, `router/router_server_transfer.go`, `server/transfer/` | `ServerTransferProofs`, `MCServerTransfer` |
| `DiskQuota` | `internal/ufs/`, `server/filesystem/`, `router/router_server_files.go`, `sftp/handler.go` | `DiskQuotaProofs`, `MCDiskQuota` |
| `RemoteDownloads`, `DiskLimiter`, `SinkPool`, `Connections`, `BootRecovery` | `router/downloader/`, `server/listeners.go`, `system/sink_pool.go`, `router/websocket/`, `sftp/server.go`, `cmd/root.go` | `ServicesProofs`, `MCServices` |

Variables below the word "history" in a declaration are not in the code. They
record what a property needs to know of the past, and no guard reads them. The
operators that are commented "Faulty variant of" are plausible mistakes in the
definition that follows them. No specification uses them; putting one in the place
of its original makes the property fail that is meant to notice it.

### ServerPower: one server, its power lock, container and crash handler

Every goroutine is a thread with a program counter (`pc`); a step is the code
between two points at which another goroutine can be seen: a Docker call, a
`SetState`, a lock operation, a read of shared state.

* **Requests** (`Reqs`) are API calls, websocket messages, the stop of the disk
  limiter or of a suspended server (`"background"`, a `WaitForStop` outside
  `HandlePowerAction`) and the handler of an outgoing transfer. They run
  `CheckFlags`, then `Acquire`, `AcquireFails`, `TryAcquireTimeout` or
  `KillWithoutLock`, and then the action. `held` is the set of threads with a
  deferred `Release`; `lock` is the number of values in the channel. The two are
  separate because the code keeps them separate.
* **Start** (`StartCheck` to `StartFailOffline`) is `onBeforeStart` and
  `Environment.Start`: inspect, mark, remove, create, attach, boot, each of which
  may fail. `onBeforeStart` (sync, disk check, configuration files, permissions)
  is a choice between success and an error; ServerLifecycle opens it up.
* **Stop and kill** (`StopMark` to `TerminateOffline`) are `Stop`,
  `WaitForStop`, `SignalContainer` and `Terminate`, with the three stop
  configurations (command, signal, Docker's own stop) and with the deadline that
  can end each of their waits.
* **Handlers** run `OnStateChange` and `handleServerCrash`, one goroutine per
  event. `events` counts the events in the listener's channel: the handler reads
  the state, so an event carries nothing but its arrival.
* **Readers** are the goroutines that `Attach` starts. `console` is the one line
  `onConsoleOutput` is working on: the state was read, the `SetState` is due.
* **Init** is what the daemon's start (`cmd/root.go`) makes of the container it finds.
* **The container** is external: `ContainerExit` may happen whenever it runs.

`PowerSerial` is the abstract service the lock is for: power actions are processed
one at a time and only the one being processed boots the server.
`ServesOneAtATime` states that ServerPower implements it, with `held` as the owner.

### BackupJobs: the job manager, the backup jobs and the backup mutex

The jobs of one server. `CreateJob` registers an instance and `Enqueue` sends it on
the channel or gives up; `Dequeue`, `Execute` and `FinishJob` are a worker;
`UpdateJob`, `CancelCheck` and `CancelSet` are the API's writes to the status, which
take no lock. `Execute` is one action per stage of the four jobs. The
backup mutex is modelled as it is: `entry` is the map's entry, `mine` the mutex a
worker got from it, `locked` the set of mutexes that are locked, and
`ReleaseBackupLock` looks the entry up again. Unlocking a mutex that is not locked
sets `daemon` to `"fatal"`, since the Go runtime aborts the process.
`RemoveServer` is `Manager.Remove`. The adapters are choices of outcome over
`stored`, the set of backups that exist; a truncate or restore whose timeout has
passed leaves its job in `orphans`: its goroutine goes on writing, with the flag and
the mutex gone. `RestoringFlagCovers` is therefore about the workers (the flag is set
exactly while one of them is inside its restore section) and says of an orphan what the
code does keep: its job ends in failure, by way of the deferred clean-ups.

### RusticRepository: the rustic adapters

One repository, local or on S3, as the set of `objects` it consists of (its config
and its snapshots), of which some may be `bad`. Each client makes one call (create,
delete, restore, download, destroy) and holds a `handle`, the temporary directory
with the credentials. The recovery of a corrupted S3 repository is spelled out:
list, copy aside, list again, delete, init, and the recursion of `CreateSnapshot`.
rustic and S3 are external; a command answers by the state of the repository, and
`MaxFaults` of them fail. Objects may be corrupted any number of times. A delete whose
lookup finds no snapshot reports a success, and so does one whose lookup fails: the first
is `"already_deleted"`, the second `"presumed_deleted"`. To the Panel they are the same.
Jobs hold the backup mutex; downloads and the destruction
of the repository do not.

### PanelClient, ActivityDelivery, BackupUpload: the Panel and its unreliable answers

`PanelClient` has one request: `Attempts` are what one attempt may do (the Panel may
act and the answer be lost), `Outcome` what the retry makes of it. It is used by the
two others. `ActivityDelivery` is the table of activity, the two cron jobs with their
flags, pages that are gone through row by row, merged events, chunks of deletes, and a
crash of the daemon. `Orders` is the order in which each of the two queries answers.
`BackupUpload` is the job of one archive backup (`performBackupWithProgress`): creation,
upload in parts with retried bodies, the clean-up of an archive made for S3, and `reports`,
the goroutines that tell the Panel of each status and that nobody waits for. Reports that
say the same are one. `Server.Backup` (`server/backup.go` 61), which removes a backup
whose report failed, has no caller and is not modelled.

### ServerLifecycle: creation, installation, suspension, deletion

Goroutines of the seven operations, each one request after the other; the suspended
and installing flags, the context of the server, the two containers, and the power
lock with its `Destroy`. A synchronisation that finds the server suspended starts a stop
in the background, whichever operation it belongs to; `MaxStops` bounds how many are
under way. Calls made with the server's context fail once that is
cancelled (`CallFails`), calls with a context of their own do not (`OwnCallFails`):
which call has which context is what the properties turn on.

### ServerTransfer: source, target and Panel

`Transfers` are numbered in the order in which the Panel starts them. Each has a
goroutine on the source (`spc`) and one on the target (`tpc`), the state of its body
(`stream`) and of its connection (`link`). The Panel has one state for the server and
takes a report for whichever transfer is pending, since a report names the server
only. `uses` says which transfer's instance a handler on the target works with: the
registry is by server, so it may be that of another.

### DiskQuota: files and the account of their size

`Tasks` are handlers of file requests; each is a chain of small steps that change
files (`size`) and adjust `usage` by `AddLoad` and `AddStore`, the two halves of
`Quota.Add`. `walk` is the lookup. SFTP writes, and the server's own process, change
files and adjust nothing (`FileData`).

### The services

Five modules that share no state with each other, so one run has them in turn:
`RemoteDownloads` (the registry and the limit of pulls), `DiskLimiter` (the
`sync.Once` with its done flag and its mutex), `SinkPool` (the pool's RWMutex, a
goroutine per send, and the three selects of a send), `Connections` (websockets, the
token each has, messages that check and act in separate steps, the denylist, the bag,
SFTP sessions and the context bag) and `BootRecovery` (the states file, its write in
two steps, crashes of the daemon alone or with the machine, and the restoration).

In `BootRecovery` the function that restores a server has a `step` of its own for each
call another goroutine or the container can come between: the check (`CheckRunning`), the
state (`MarkRunning`, `MarkOffline`), the `Attach`, and the two halves of a start
(`BeginStart`, `BootContainer`). A container may end at any of them; the state follows
later, when the attached stream ends (`StreamEnds`). What keeps a server from coming back
is recorded: `faulty` (the data directory, the Panel or Docker failed), `refused`
(suspended, no disk space) and `slipped` (the container ended between the check and the
attach, which leaves the server running without a container).

## 3. What TLC checks

| Run | Instance | Shows |
|---|---|---|
| `power_safety` | two requests (start, restart, kill, background stop), one event handler with its crash handler, one reader, command stops, a server without a container; 1.4 million states | `TypeOK`, `PowerLockExclusive`, `StartExclusive`, `BootsFromDown`, `LockedTerminateKills`, and the refinement `ServesOneAtATime` |
| `power_live` | two requests of any kind, transfers included, every stop configuration, any container found at the daemon's start; 209 thousand states | `RequestsReturn`: they all return, whatever the container does; `KillReturns`: a kill returns even if every other goroutine hangs |
| `backup_jobs` | two jobs of any kind, two workers, a channel of one, cancels and updates, the server removed at any time; 629 thousand states | `TypeOK`, `ExecutedOnce`, `BackupExclusive`, `ReleasesOwnMutex`, `RestoringFlagCovers`, and `AcceptedJobsEnd`: an accepted job ends unless its server is removed |
| `rustic` | two clients, two snapshots, both backends, one fault, any number of corruptions, a page of two keys; 483 thousand states | `SnapshotsSafe`: only a corrupted repository is recovered, what that removes is copied aside, and no init is run over a config; `ReportsTrue`: a success is one where the call has looked or acted; `CallsReturn`: once corruptions have stopped, calls return and their credentials go, unless a command without a time limit hangs |
| `rustic_delete` | the same | violation of `DeletedIsGone`: a delete whose lookup fails reports the snapshot as already deleted (`jobs/backup_job.go` 453) |
| `panel` | five rows, two runs of each cron job, two attempts, one crash or database failure; or one backup of up to four bytes in parts of two with its reports; 123 thousand states | activity is neither lost nor sent twice without a cause nor left behind (`NothingLost`, `SentOnce`, `RowsLeave`); a backup whose job succeeded, or that the Panel was told to be completed, is stored byte for byte, and an archive made for S3 is gone from the disk (`BackupStored`) |
| `lifecycle` | two goroutines, each one operation after another, one failing call, one background stop; 577 thousand states | `InstallExclusive`, `NoBootAfterDelete`, `SuspendedRefused`, `DeleteEndsInstall` |
| `lifecycle_delete` | the same | violation of `NoSendOnClosed`: a start accepted before the deletion sends on the closed channel of the power lock (`system/locker.go` 38) |
| `transfer` | two transfers, one failing call or broken connection; 406 thousand states | `FilesAtHome`, `TransferSettled`, `TransferEnds` |
| `transfer_loss` | two transfers, no failing call | violation of `NoDataLoss`: the handler of a cancelled transfer deletes the files the next one has brought (`router/router_transfer.go` 115) |
| `files` | two handlers, two names, sizes 0 and 1, limits 0 and 1, two changes; 682 thousand states | `UsageExact`, `QuotaHeld`, and `UsageRecovers`: a wrong usage is corrected |
| `services` | three pulls with a limit of two; two handlers of the limiter; two publishers with two pushes and a listener with a buffer of one or none; a websocket with two messages at once, one denial and two half seconds; two SFTP sessions; one server, two crashes, one fault; 189 thousand states | `LimitHeld`, `DownloadsEnd`; `LimiterStops`; `NoClosedSend`, `InOrder`, `PushReturns`; `RevokedNeverActs`, `ConnectionsEnd`; `RestoredAsRecorded` |

The type invariants of `ServerPower` and `BackupJobs` are checked and proved; those of
the other modules are not part of a run, and those the proofs need are proved there.

The three expected violations state what a comment of the code says, and the code does
not do; `PROJECT.json` quotes the comments.

Several invariants name the circumstances they hold in, and these circumstances are
the interesting part: `LimitHeld` holds unless two requests pass the check at once or a
download is cancelled before it can be; `UsageExact` unless two handlers use one file
or a change is not accounted for; `FilesAtHome` unless a transfer was started before
the nodes were done with the last; `RestoredAsRecorded` unless the record was torn or made
during a boot, the start was refused, a call for the server failed, or its container ended
between the check and the attach; `RestoringFlagCovers` for the workers and not for the
goroutine a timeout has left behind; `ReportsTrue` unless the lookup of a delete failed;
`CallsReturn` unless corruptions never stop or a command hangs. Outside of them the code
does break the property, as section 5 says.

**Bounds.** Two requests and a crash handler are three contenders for the power
lock, enough for one to hold it, one to wait and one to kill past it. Only power
actions and the background stop meet in `power_safety`: a restart contains a stop,
and a transfer is a stop and a flag. One reader is enough for a stream that
ends while the next Start attaches; when all readers are busy an attach waits in
the model, which removes behaviours and adds none. `EventBuffer = 1` makes a
full channel common (the code has 8, so drops are rarer there). `power_live` has
no event handlers: a crash handler waits nowhere but in the start it calls,
which is the start a request calls. Each request thread serves one call. Two
jobs on two workers with a channel of one give two running jobs that meet at the mutex, or
a running one and a full channel. Two mutexes are two generations of the map entry. The
safety properties of the passing runs do not depend on the bounds: they are proved for any
instance (section 4).

Two clients of a repository are a job and a destroy or download beside it; three
objects with a page of two exceed what S3 lists at once. Five rows with a page of one
give a run that pages, merges and leaves a row for later. Two goroutines of the
lifecycle give every pair of operations, each followed by any other. Two transfers are
what it takes for a late handler of one to meet the next. Two handlers and two names
let operations meet on one file and on two; a size of 1 with a limit of 1 makes every
second write the one that does not fit. In `services`, one more pull than the limit,
one more message than the buffer, and a second crash during the restoration from the
first are the cases at the boundary; the servers of `BootRecovery` meet in the one file
only, so one is enough. One background stop of a suspended server (`MaxStops`) is enough
to run beside every other operation.

**Symmetry** of requests, handlers and readers is used in `power_safety` only.

**Fairness.** Weak fairness of goroutines is what the Go scheduler gives, together with
the deadlines the code passes to its Docker calls and waits; a thread that waits for a
deadline has a step that is the deadline. Requests, process exits, console lines,
clients, failures and crashes are never assumed to happen.

* `KillFairSpec` of ServerPower assumes only that goroutines that kill run;
  `RequestsReturn` adds `Scheduled`, the fairness of all of them, as its hypothesis.
* `FairSpec` of BackupJobs is weak fairness of the workers, and so assumes that an
  adapter's operation returns; the code gives most of them a timeout. Weak fairness is
  enough for the mutex because the finitely many other jobs end.
* RusticRepository: the daemon's own steps, S3 requests and the commands with a deadline
  (`TimedStep`), and the garbage collector, whose finalizer closes what nobody else does.
  The commands of a job run on `context.Background` (`jobs/job.go` 248), as do lookups and
  downloads: nothing is assumed of those (`UnlimitedPCs`), and `CallsReturn` names them.
* ActivityDelivery: the jobs, the interval that comes again, and a Panel that accepts a
  request that is repeated for ever. Nothing is assumed for BackupUpload.
* ServerLifecycle and ServerTransfer: the goroutines, not the script of an installation,
  the user or the connection.
* DiskQuota: the handlers, and a lookup that is done again and again, which the
  statistics of a server's websocket and every check of the space cause.
* Services: the goroutines and, for the limiter, the samples of a running server's
  resources once a second. Nothing is assumed of listeners and clients.

**Deadlock** is checked in `files` and `panel`, which have cyclic lookups and jobs. In
the other runs the system may stop: a server nobody asks anything of, a manager
without jobs, a transfer that is over.

## 4. What is proved

Every safety property of a passing run is a theorem. The theorems hold for every value of
the constants and rest on no assumption but those named in the modules:

* `ServerPower`, `BackupJobs`: requests and handlers are different goroutines, buffers
  and channels have a positive capacity, the flags are Booleans, the constants that
  select actions, containers and kinds select from those that exist, and the markers for
  "none" are not jobs or mutexes;
* bounds on faults, crashes, stops and pushes are natural numbers, and limits,
  pages and part sizes positive ones;
* `ActivityDelivery`: the rows are finitely many numbers; `ServerLifecycle`: finitely
  many goroutines; `RusticRepository`: a snapshot has a key after that of the config;
  `DiskQuota`: there are finitely many names of files, and the mark of a removed file is
  none of them.

In each module the property is proved from an inductive invariant: the initial states
have it, every action keeps it (one lemma or step per action), and it implies the
property.

`ServerPowerProofs`, for any number of requests, handlers and readers, any set of
actions and stop configurations:

* `TypeCorrect`: `TypeOK`.
* `PowerInvariant`: `PowerInv`, the inductive invariant. `PowerLockExclusive` is
  not inductive: that a thread returns the lock it holds rests on `PhaseInv`, which
  ties each program counter to the action and to whether the thread has the
  lock. `BootsFromDown` and `LockedTerminateKills` are needed together: only the
  thread with the lock can boot, and a container that is down stays down while
  someone else has it.
* `LockExclusive`, `StartPathExclusive`, `BootSafety`, `TerminateSafety`: the
  invariants `power_safety` checks, from `PowerInv`.
* `PowerRefinesSerial`: ServerPower implements PowerSerial. `StepMoves` says what a
  step can do to the lock and to the threads in the start path, and `MovesRefine`
  that each of these is a step of PowerSerial or a stutter.

`BackupJobsProofs`, for any number of jobs, workers, backups and mutexes and any
capacity:

* `JobInvariant`: `JobInv`. The exclusion of the backup mutex is inductive only with
  `WorkerInv`: while the server is registered every worker past the lookup has the
  mutex that is in the map now. The part of `RestoringFlagCovers` about orphans is what
  makes "the job fails" a fact of every timeout and not of the one that was tested.
* `JobsTypeCorrect`, `JobsExecutedOnce`, `BackupLockExclusive`,
  `BackupLockReleased`, `RestoringFlagCorrect`: its parts.

`RusticRepositoryProofs`, for any number of calls, snapshots and faults and any
page size, with corruptions at any time. The invariant is `RepoInv`:

* `ReportsAreTrue`: `ReportsTrue`. A success is true when it is reported because it was
  true before (`SuccessInv`), and stays so because nobody else may touch the snapshot:
  that is `MutexInv`, the backup mutex together with the fact that a snapshot is new. A
  snapshot that a lookup has not found stays absent for the same reason. The success after
  a failed lookup is not part of it: `DeletedIsGone` has it, and is violated.
* `SnapshotsAreSafe`: `SnapshotsSafe`. `CopyInv` follows the recovery from list to list:
  while no request has failed, what it has yet to delete is copied, also when the
  repository has more objects than a page.

`PanelProofs`, for any table, page, chunk, number of attempts and of scheduler
goroutines, and any archive and part size:

* `ActivityIsKept`, `ActivityIsSentOnce`: `NothingLost` and `SentOnce`, from
  `ActivityInv`. `FlagInv` keeps the runs of a cron job apart, so that a row the Panel has
  is, in the table, either in doubt or about to be deleted by the one run that sent it
  (`TableInv`); `RunOK` says that a run deletes only what it sent or what is invalid.
  Without the flag a second run would fetch those rows and send them again.
* `BackupIsStored`: `BackupStored`, from `UploadInv`: `ReportInv` has every report of a
  completion, under way or carried out, come after the job's success, `EndInv` has that
  success come after the last part, and in `PartInv` the position in the
  file and what is left of the body add up to the end of the part, so a retried part is
  accepted only if no attempt has read from its body. Four lemmas on division and
  products say that the parts cover the archive and that only the last is shorter.

`ServerLifecycleProofs`, for any number of goroutines and failing calls. The invariant is
`LifeInv`:

* `InstallIsExclusive`: `InstallExclusive`; `InstallInv` ties the installing flag to the
  one goroutine that has swapped it, and the container to that goroutine.
* `DeletedStaysDown`: `NoBootAfterDelete`; `DeleteInv` has the context cancelled before
  the lock and the container go, and whoever boots needs the context.
* `SuspensionHolds`: `SuspendedRefused`; `SuspendInv` follows a start from the answer of
  the Panel to the check of the flag.

`ServerTransferProofs`, for any number of transfers and faults: `FilesAreHome` and
`TransferIsSettled`, which are `FilesAtHome` and `TransferSettled`. `TransferInv` has two
layers. `FreshInv` always holds. `CalmInv` holds as long as no transfer was started before
the nodes were done with the last one (`~mixed`): all transfers but the last are over
(`OnlyLast`), and `SourceInv` and `TargetInv` say where the two nodes are with that one.

`DiskQuotaProofs`, for any number of files, handlers and requests, any size and any set of
limits. The invariant is `QuotaInv`:

* `UsageIsExact`: `UsageExact`. It says nothing of the time when handlers run, so it is far
  from inductive. `ExactInv` says what the usage is then: the sum, over the files, of what
  is counted for each (`Accounts`), which is the size of a file nobody works on and, for
  the file of a handler, what `Counted` says of the step the handler is at: the old size
  between the truncation and the copy, the size less the due adjustment between the write
  and `Quota.Add`, nothing once `RemoveAll` has lowered the usage. That needs the files of
  handlers to be apart (`Disjoint`) and what a handler remembers of its file to be true
  still (`FileInv`). `WalkInv` brings the account about: a walk that was not disturbed has
  the bytes of the files behind it.
* `LimitIsKept`: `QuotaHeld`, from `LimitInv`: there is one handler, and what `CanFit` has
  let through still fits on top of the usage (`Fits`).
* `NothingIsThrownAway`: while the account is exact, the cap at 0 in `Quota.Add` is never
  taken, so the gap between its load and its store loses nothing.

A sum of sizes would need an induction over the files. `Total` is instead the number of
bytes, the cardinality of a set of pairs of a name and a position, and the theorems on
cardinality say that a file that changes changes the number by as much (`CountChange`).

`ServicesProofs`, each service by itself with its own specification:

* `DownloadLimit`: `LimitHeld`. `PullInv`: what can still write is registered, and who has
  passed the check is alone and has a place.
* `SinkNeverClosed`, `SinkKeepsOrder`: `NoClosedSend` and `InOrder`. `SinkLockInv`: the
  read lock is held for every goroutine of a push, so `Off` and `Destroy`, which need the
  write lock, meet none (`WriterAlone`). `NumbersInv`: the message about to be pushed is
  newer than all that any channel or listener has from its publisher.
* `RevokedTokens`: `RevokedNeverActs`. `TokenInv`: what a message is measured against was
  answered to the Panel, and is on the denylist by then.
* `BootRestores`: `RestoredAsRecorded`, an invariant and an action property. `RecordInv`:
  the file has the last complete record unless it is being written, and what was read from
  it is that. `StepInv`: what each step of a server's function knows of its container and
  state, with the three exceptions.

Only model-checked:

* the liveness properties (`RequestsReturn`, `KillReturns`, `AcceptedJobsEnd`,
  `CallsReturn`, `RowsLeave`, `DeleteEndsInstall`, `TransferEnds`, `UsageRecovers`,
  `DownloadsEnd`, `LimiterStops`, `PushReturns`, `ConnectionsEnd`): fairness and ENABLED
  are beyond the prover;
* that the three violated properties are violated.

## 5. What the models leave out

* `SetState` is one step. In the code the store and the publication are two, which
  can only make events arrive later or twice.
* The flags installing and restoring are read in ServerPower, and only transferring
  is set there; the restoring flag is set in BackupJobs, the installing flag in
  ServerLifecycle. A start is in ServerPower with its lock and container, and in
  ServerLifecycle with its synchronisation and context.
* One server is modelled at a time, except in the proofs about `BootRecovery`. A
  removed server is not added again.
* Logs, statistics, formats, the contents of files, owners and modes.
* The five services run one at a time; they share no state.
* Tokens for another server, and the permissions a token carries.

Seen while modelling and not the subject of a run, because no comment or test says
otherwise or because a run more would show the same thing:

*Power and jobs*

* The state is read, a console line matched, and running set over whatever the state
  is by then: a line handled during a stop revives a stopped server
  (`server/listeners.go` 162 and 182, against the comment at 180).
* `OnStateChange` compares with the current state and not with the event's, so a stop
  whose stopping event is handled late is taken for a crash (`server/server.go` 345).
* The reader of an ended stream announces offline before it resets the stream; a Start
  in between skips the attach (`environment/docker/container.go` 80).
* The flags are read before the lock and never again: a start past the check boots
  the server during its transfer (`server/power.go` 57).
* The echo of a stop command sets the server to offline (`server/listeners.go` 194)
  where the comment above it speaks of stopping, so the crash handler may run while
  the process is still up.
* Two crash handlers may both read the time of the last crash before one of
  them writes it (`server/crash.go` 76 to 88), and both restart the server.
* `CancelJob` writes a status and nothing else: the job runs on and overwrites it,
  and a job that completes between the check and the write is turned into a failure
  (`jobs/job.go` 178 to 181). A job that finds the channel full stays registered as
  pending (145).
* `delete_all` takes no backup lock (`jobs/backup_job.go` 1033); a release after
  `Remove` does not find the mutex it has locked (`server/manager.go` 318); a restore
  that times out goes on writing after its lock and flag are gone
  (`jobs/backup_job.go` 951).

*Backups and the Panel*

* A repository that cannot be opened is skipped by a destroy that succeeds.
* `listS3Objects` sees the first 1000 keys; `CreateSnapshot` calls itself after every
  recovery without a limit (`server/backup/rustic_s3.go`).
* A finalizer may remove the config of a download while rustic is to read it
  (`server/backup/rustic.go` 171).
* The retry makes one attempt more than the number it is given (`remote/http.go` 199).
* Each status of a job is sent by a goroutine of its own, so running may arrive after
  completed (`jobs/job.go` 302), and a report that fails for good is only logged: the Panel
  then never learns how the job ended.
* A batch of activity that the Panel answers with 4xx is sent again for ever.

*Lifecycle and transfers*

* The repositories of a deleted server are destroyed with the context of the request,
  which has usually ended (`router/router_server.go` 229).
* The container of an installation survives the deletion of its server: its removal
  needs the context that was cancelled (`server/server.go` 110).
* A second deletion closes the closed channel, and the panic leaves the locker's mutex
  locked. A second installation that is turned away reports a failure.
* A stale synchronisation may overwrite a newer suspension.
* The route of `deleteTransfer` lacks the middleware it needs and always panics
  (`router/router.go` 70, `router/middleware/middleware.go` 218).
* An error while the archive is written blocks both nodes until someone cancels
  (`server/transfer/source.go` 99).
* If the report of a success is lost, the Panel stays pending and both nodes locked.
  Files of a failed transfer are removed only if its report failed too
  (`router/router_transfer.go` 108 to 127).
* `Remove` of the registry of transfers is by server and may remove a newer entry.

*Files and services*

* The usage may go below zero by two concurrent `Add`s in spite of the cap
  (`internal/ufs/fs_quota.go` 72), and -1 means unknown, for which everything fits.
* A compress that is refused lowers the usage by a size that was never added; one that
  fails leaves its archive unaccounted for; an unpack over a file counts it twice; SFTP
  writes are not counted. The next lookup corrects all of these (`UsageRecovers`).
* A lookup that waits for the mutex does not read the cache after it, contrary to the
  comment in `updateCachedDiskUsage`, and caches a partial sum on an error.
* A fourth download starts if two requests pass the check together; a cancel before
  `Execute` is lost (`router/downloader/downloader.go` 180 and 241).
* `Reset` during `Trigger` unlocks a mutex that is not locked, which ends the daemon
  (`server/listeners.go` 38); a failed `WaitForStop` is not tried again in the same run.
* Two messages that authenticate a connection at once give it its events twice
  (`router/websocket/websocket.go` 304).
* Two pushes to an unbuffered channel may take each other's message.
* The throttle notice of a websocket is written without the handler's lock
  (`router/router_server_ws.go` 132). A session that was validated before a
  deauthorisation and takes its context after it is not ended.
* A crash between the truncation and the write of the states file leaves all servers
  offline; a record made during a boot has servers that are not restored yet as
  offline (`server/manager.go` 176).
* A container that ends between the check and the attach of a boot leaves its server
  running without a container and without a stream that would end (`cmd/root.go` 244 to
  273); so does a failed attach.

**Not modelled.** The console throttle (one counter under one mutex), the parser and
configuration files (sequential transformations of formats), the resolution of paths
below a directory descriptor (the kernel's), the middleware, commands, loggers and
diagnostics (no lasting state).

## 6. Plan

What is modelled is what changes state, and its safety is proved. What remains:

1. The state event counter of ServerPower as an abstraction of `SinkPool`.
2. A server that is removed and added again, and two servers that share the manager.
