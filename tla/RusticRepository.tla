-------------------------- MODULE RusticRepository --------------------------
(***************************************************************************)
(* The rustic backup adapters (server/backup/rustic*.go) on the repository *)
(* of one server, local or on S3: creating, deleting, restoring and        *)
(* downloading a snapshot, destroying the repository, and the recovery of  *)
(* a corrupted S3 repository, which copies its objects aside, deletes them *)
(* and starts a fresh one.                                                 *)
(*                                                                         *)
(* rustic and S3 are external.  A rustic command answers by the state of   *)
(* the repository: "absent" without a config file, "mac" if an object      *)
(* cannot be decrypted, else "ok"; and any command or request may fail     *)
(* ("fault").  Jobs that create, delete or restore hold the server's       *)
(* backup mutex (BackupJobs!BackupExclusive); a download and the           *)
(* destruction of the repository do not.                                   *)
(***************************************************************************)
EXTENDS Naturals, FiniteSets

CONSTANTS
    Clients,    \* goroutines, each of which makes one call
    Snapshots,  \* snapshots, numbers in the order of their S3 keys
    Ops,        \* what the clients may call
    Backends,   \* "local", "s3"
    MaxFaults,  \* bound on failing commands and requests
    MaxRetries, \* attempts of DeleteSnapshot on S3; 3 in the code
    PageSize    \* keys in an answer to a list request; 1000 on S3

ASSUME SnapshotAssumption == Snapshots \subseteq Nat \ {0}
ASSUME OpsAssumption == Ops \subseteq {"create", "delete", "restore", "download", "destroy"}
ASSUME BoundAssumption == MaxFaults \in Nat /\ {MaxRetries, PageSize} \subseteq Nat \ {0}

\* The key of the config file comes before those of the snapshots.
Config == 0
NoSnapshot == 0
Objects == {Config} \cup Snapshots

VARIABLES
    backend,      \* where the repository is
    objects,      \* what is stored under rustic-repos/<server>, or in the directory
    bad,          \* objects the repository's key does not decrypt
    aside,        \* what is stored under rustic-corrupted-repos/<server>
    removed,      \* snapshots a recovery has deleted
    forgotten,    \* snapshots a delete or destroy has removed
    pc, op,       \* where each client is, and in what
    snap,         \* the snapshot it is about
    listed,       \* the keys S3 has listed for it
    attempt,      \* the attempt of its DeleteSnapshot
    handle,       \* its temporary directory with the config file
    result,       \* what it was told
    faults        \* commands and requests that have failed

repoVars == <<objects, bad, aside, removed, forgotten>>
clientVars == <<pc, op, snap, listed, attempt, handle, result>>
vars == <<backend, repoVars, clientVars, faults>>

\* Operations under the backup mutex.
LockedOps == {"create", "delete", "restore"}
RecoveryPCs == {"copylist", "copy", "deletelist", "remove"}
PCs == RecoveryPCs \cup {"idle", "open", "exists", "init", "backup", "save", "get", "locate", "forget",
                         "extract", "destroy", "size", "close", "done"}
Busy(c) == pc[c] \notin {"idle", "done"}

\* The values of the variables.
TypeOK ==
    /\ backend \in Backends
    /\ objects \subseteq Objects /\ bad \subseteq objects /\ aside \subseteq Objects
    /\ removed \subseteq Snapshots /\ forgotten \subseteq Snapshots
    /\ pc \in [Clients -> PCs] /\ op \in [Clients -> Ops]
    /\ snap \in [Clients -> Snapshots \cup {NoSnapshot}]
    /\ listed \in [Clients -> SUBSET Objects]
    /\ attempt \in [Clients -> 1..MaxRetries]
    /\ handle \in [Clients -> {"none", "open", "dropped", "closed"}]
    /\ result \in [Clients -> {"none", "ok", "failed", "already_deleted", "presumed_deleted"}]
    /\ faults \in 0..MaxFaults

Init ==
    /\ backend \in Backends
    /\ objects \in {{}} \cup {{Config} \cup S : S \in SUBSET Snapshots}
    /\ bad = {} /\ aside = {} /\ removed = {} /\ forgotten = {}
    /\ pc = [c \in Clients |-> "idle"] /\ op \in [Clients -> Ops]
    /\ snap = [c \in Clients |-> NoSnapshot]
    /\ listed = [c \in Clients |-> {}]
    /\ attempt = [c \in Clients |-> 1]
    /\ handle = [c \in Clients |-> "none"]
    /\ result = [c \in Clients |-> "none"]
    /\ faults = 0

-----------------------------------------------------------------------------
(* rustic, S3 and the steps of a client.                                   *)

\* What a rustic command finds.
Answer == IF Config \notin objects THEN "absent" ELSE IF bad # {} THEN "mac" ELSE "ok"

\* Something fails that worked before.
Fault == faults < MaxFaults /\ faults' = faults + 1
NoFault == UNCHANGED faults
\* The command or request ends with o.
Rustic(o) == (o = Answer /\ NoFault) \/ (o = "fault" /\ Fault)
Outcomes == {"ok", "absent", "mac", "fault"}

Step(c, to) == pc' = [pc EXCEPT ![c] = to]
KeepRepo == UNCHANGED <<backend, repoVars>>
KeepCall == UNCHANGED <<op, snap, listed, attempt>>

\* The call returns, and the handle is left to the finalizer or to nobody,
Return(c, r) ==
    /\ Step(c, "done") /\ result' = [result EXCEPT ![c] = r]
    /\ handle' = [handle EXCEPT ![c] = IF @ = "open" THEN "dropped" ELSE @]
\* or a deferred Close is still to run.
Closing(c, r) == Step(c, "close") /\ result' = [result EXCEPT ![c] = r] /\ UNCHANGED handle
Proceed(c, to) == Step(c, to) /\ UNCHANGED <<result, handle>>

\* A snapshot nobody has seen yet.
Fresh == {s \in Snapshots : s \notin objects \cup aside \cup removed \cup forgotten /\ \A c \in Clients : snap[c] # s}

\* A job or a download starts; the ones under the mutex one at a time.
Begin(c) ==
    /\ pc[c] = "idle"
    /\ op[c] \in LockedOps => \A d \in Clients \ {c} : Busy(d) => op[d] \notin LockedOps
    /\ \E s \in CASE op[c] = "create" -> Fresh [] op[c] = "destroy" -> {NoSnapshot}
                  [] OTHER -> Snapshots \cup {NoSnapshot} :
            snap' = [snap EXCEPT ![c] = s]
    /\ Proceed(c, "open") /\ NoFault /\ KeepRepo /\ UNCHANGED <<op, listed, attempt>>

\* createConfigFile makes the temporary directory with the credentials.
createConfigFile(c) == handle' = [handle EXCEPT ![c] = "open"]

\* NewRusticBackup, or the repository alone for a destroy.  Without a handle there is
\* nothing to call, and a destroy of a repository it cannot open is skipped.
NewRusticBackup(c) ==
    /\ pc[c] = "open"
    /\ \/ /\ NoFault /\ createConfigFile(c) /\ UNCHANGED result
          /\ Step(c, CASE op[c] = "create" -> "exists" [] op[c] = "destroy" -> "destroy" [] OTHER -> "locate")
       \/ Fault /\ Return(c, IF op[c] = "destroy" THEN "ok" ELSE "failed")
    /\ KeepRepo /\ KeepCall

-----------------------------------------------------------------------------
(* Generate: Initialize, CreateSnapshot, GetSnapshot.                      *)

\* Exists on S3 tells absence, corruption and other failures apart.
ExistsS3 == [ok |-> "yes", absent |-> "no", mac |-> "corrupt", fault |-> "error"]

\* On a local disk every failure counts as absence.
ExistsLocal == [ok |-> "yes", absent |-> "no", mac |-> "no", fault |-> "no"]

InitializeS3(c) ==
    /\ pc[c] = "exists" /\ backend = "s3"
    /\ \E o \in Outcomes :
         /\ Rustic(o)
         /\ CASE ExistsS3[o] = "yes" -> Proceed(c, "backup")
              [] ExistsS3[o] = "no" -> Proceed(c, "init")
              [] ExistsS3[o] = "corrupt" -> Proceed(c, "copylist")
              [] OTHER -> Return(c, "failed")
    /\ KeepRepo /\ KeepCall

InitializeLocal(c) ==
    /\ pc[c] = "exists" /\ backend = "local"
    /\ \E o \in Outcomes : Rustic(o) /\ Proceed(c, IF ExistsLocal[o] = "yes" THEN "backup" ELSE "init")
    /\ KeepRepo /\ KeepCall

\* rustic init refuses where it finds a config.  What is left of an older
\* repository is not readable with the new key.
RusticInit ==
    /\ Config \notin objects /\ NoFault
    /\ objects' = objects \cup {Config} /\ bad' = objects
    /\ UNCHANGED <<backend, aside, removed, forgotten>>

RusticInitFails == ((Config \in objects /\ NoFault) \/ Fault) /\ KeepRepo

\* initializeFreshRepository: after the recovery, or where there is none.
InitializeFreshRepository(c) ==
    /\ pc[c] = "init" /\ backend = "s3"
    /\ (RusticInit /\ Proceed(c, "backup")) \/ (RusticInitFails /\ Return(c, "failed"))
    /\ KeepCall

InitLocalRepository(c) ==
    /\ pc[c] = "init" /\ backend = "local"
    /\ (RusticInit /\ Proceed(c, "backup")) \/ (RusticInitFails /\ Return(c, "failed"))
    /\ KeepCall

\* CreateSnapshot runs rustic backup, which opens the repository first; on S3 a
\* corruption found now starts the recovery, and then CreateSnapshot again.
CreateSnapshotS3(c) ==
    /\ pc[c] = "backup" /\ backend = "s3"
    /\ \E o \in Outcomes :
         /\ Rustic(o)
         /\ CASE o = "ok" -> Proceed(c, "save")
              [] o = "mac" -> Proceed(c, "copylist")
              [] OTHER -> Return(c, "failed")
    /\ KeepRepo /\ KeepCall

CreateSnapshotLocal(c) ==
    /\ pc[c] = "backup" /\ backend = "local"
    /\ \E o \in Outcomes : Rustic(o) /\ IF o = "ok" THEN Proceed(c, "save") ELSE Return(c, "failed")
    /\ KeepRepo /\ KeepCall

Saved(c) == objects' = objects \cup {snap[c]} /\ UNCHANGED <<backend, bad, aside, removed, forgotten>>

\* The snapshot is saved, unless the repository has gone meanwhile or the command
\* fails or its output has no snapshot ID, before or after the snapshot is there.
SaveSnapshot(c) ==
    /\ pc[c] = "save"
    /\ \/ NoFault /\ Saved(c) /\ Proceed(c, "get")
       \/ Config \notin objects /\ NoFault /\ KeepRepo /\ Return(c, "failed")
       \/ Fault /\ (Saved(c) \/ KeepRepo) /\ Return(c, "failed")
    /\ KeepCall

\* GetSnapshot: the snapshot is found.
Found(c, o) == o = "ok" /\ snap[c] \in objects

\* Generate ends with a look at what was just saved.
GenerateDetails(c) ==
    /\ pc[c] = "get"
    /\ \E o \in Outcomes : Rustic(o) /\ IF Found(c, o) THEN Proceed(c, "size") ELSE Return(c, "failed")
    /\ KeepRepo /\ KeepCall

\* GetRepositorySize: whatever it answers, the job succeeds.
GetRepositorySize(c) == pc[c] = "size" /\ NoFault /\ Closing(c, "ok") /\ KeepRepo /\ KeepCall

\* Close removes the temporary directory.
Close(c) ==
    /\ pc[c] = "close" /\ Step(c, "done")
    /\ handle' = [handle EXCEPT ![c] = "closed"]
    /\ UNCHANGED result /\ NoFault /\ KeepRepo /\ KeepCall

\* A handle nobody closed is closed by the runtime's finalizer once it is unreachable.
Finalize(c) ==
    /\ handle[c] = "dropped" /\ handle' = [handle EXCEPT ![c] = "closed"]
    /\ UNCHANGED <<pc, result>> /\ NoFault /\ KeepRepo /\ KeepCall

-----------------------------------------------------------------------------
(* backupCorruptedRepository: copy aside, delete, and init again.          *)

\* A list request answers with the first PageSize keys, and no more are asked for.
ListS3Objects == {o \in objects : Cardinality({p \in objects : p < o}) < PageSize}

\* backupCorruptedRepository copies first; if it cannot list the objects, the deletion
\* goes on anyway.
ListForCopy(c) ==
    /\ pc[c] = "copylist"
    /\ \/ NoFault /\ listed' = [listed EXCEPT ![c] = ListS3Objects] /\ Proceed(c, "copy")
       \/ Fault /\ UNCHANGED listed /\ Proceed(c, "deletelist")
    /\ KeepRepo /\ UNCHANGED <<op, snap, attempt>>

\* A copy request.
CopyS3Object(o) ==
    \/ NoFault /\ aside' = aside \cup ({o} \cap objects)
    \/ Fault /\ UNCHANGED aside

\* Faulty variant of CopyRepository: the first object that is copied ends the loop.
CopyFirst(c) ==
    /\ pc[c] = "copy" /\ \E o \in listed[c] : CopyS3Object(o)
    /\ Proceed(c, "deletelist") /\ listed' = [listed EXCEPT ![c] = {}]
    /\ UNCHANGED <<backend, objects, bad, removed, forgotten, op, snap, attempt>>

\* Each object is copied; one that is not is logged and skipped.
CopyRepository(c) ==
    /\ pc[c] = "copy"
    /\ IF listed[c] = {}
       THEN Proceed(c, "deletelist") /\ NoFault /\ UNCHANGED <<listed, aside>>
       ELSE \E o \in listed[c] :
              listed' = [listed EXCEPT ![c] = @ \ {o}] /\ Proceed(c, "copy") /\ CopyS3Object(o)
    /\ UNCHANGED <<backend, objects, bad, removed, forgotten, op, snap, attempt>>

\* The deletion lists again; whether it can or not, init is tried after it.
ListForDelete(c) ==
    /\ pc[c] = "deletelist"
    /\ \/ NoFault /\ listed' = [listed EXCEPT ![c] = ListS3Objects] /\ Proceed(c, "remove")
       \/ Fault /\ UNCHANGED listed /\ Proceed(c, "init")
    /\ KeepRepo /\ UNCHANGED <<op, snap, attempt>>

\* A delete request.
DeleteS3Object(o) ==
    \/ /\ NoFault /\ objects' = objects \ {o} /\ bad' = bad \ {o}
       /\ removed' = removed \cup ({o} \cap objects \cap Snapshots)
    \/ Fault /\ UNCHANGED <<objects, bad, removed>>

\* Each object is deleted; one that is not is logged and skipped.
DeleteRepository(c) ==
    /\ pc[c] = "remove"
    /\ IF listed[c] = {}
       THEN Proceed(c, "init") /\ NoFault /\ UNCHANGED <<listed, objects, bad, removed>>
       ELSE \E o \in listed[c] :
              listed' = [listed EXCEPT ![c] = @ \ {o}] /\ Proceed(c, "remove") /\ DeleteS3Object(o)
    /\ UNCHANGED <<backend, aside, forgotten, op, snap, attempt>>

-----------------------------------------------------------------------------
(* Deleting, restoring, downloading and destroying.                        *)

\* What a delete reports when the lookup has not found the snapshot: a success, with
\* already_deleted, also when the lookup itself has failed.
AlreadyDeleted(o) == IF o = "ok" THEN "already_deleted" ELSE "presumed_deleted"

\* LocateRusticBySnapshotID looks the snapshot up, unless it has no ID.
LocateSnapshot(c) ==
    /\ pc[c] = "locate" /\ op[c] # "download"
    /\ \/ snap[c] = NoSnapshot /\ NoFault /\ Proceed(c, IF op[c] = "delete" THEN "forget" ELSE "extract")
       \/ /\ snap[c] # NoSnapshot
          /\ \E o \in Outcomes :
               /\ Rustic(o)
               /\ IF Found(c, o) THEN Proceed(c, IF op[c] = "delete" THEN "forget" ELSE "extract")
                  ELSE Return(c, IF op[c] = "delete" THEN AlreadyDeleted(o) ELSE "failed")
    /\ KeepRepo /\ KeepCall

\* A download needs a snapshot.  Nothing refers to the handle any more once
\* DownloadTarGz has called RestoreSnapshot.
LocateForDownload(c) ==
    /\ pc[c] = "locate" /\ op[c] = "download"
    /\ \E o \in Outcomes :
         /\ IF snap[c] = NoSnapshot THEN NoFault ELSE Rustic(o)
         /\ IF Found(c, o) THEN /\ Step(c, "extract") /\ UNCHANGED result
                                /\ handle' = [handle EXCEPT ![c] = "dropped"]
            ELSE Return(c, "failed")
    /\ KeepRepo /\ KeepCall

Forget(S) ==
    /\ objects' = objects \ S /\ bad' = bad \ S
    /\ forgotten' = forgotten \cup (S \cap objects \cap Snapshots)
    /\ UNCHANGED <<backend, aside, removed>>

\* A command that is killed may have removed some of S.
ForgetKilled(S) == KeepRepo \/ (Answer = "ok" /\ \E R \in SUBSET S : Forget(R))

\* Remove without a snapshot has nothing to do.
RemoveNothing(c) ==
    /\ pc[c] = "forget" /\ snap[c] = NoSnapshot
    /\ NoFault /\ Proceed(c, "size") /\ KeepRepo /\ KeepCall

\* DeleteSnapshot on a local disk has one attempt; a snapshot that is gone is a success.
DeleteSnapshotLocal(c) ==
    /\ pc[c] = "forget" /\ snap[c] # NoSnapshot /\ backend = "local"
    /\ \E o \in Outcomes :
         /\ Rustic(o)
         /\ CASE o = "ok" -> Forget({snap[c]}) /\ Proceed(c, "size")
              [] o = "fault" -> ForgetKilled({snap[c]}) /\ Closing(c, "failed")
              [] OTHER -> KeepRepo /\ Closing(c, "failed")
    /\ KeepCall

\* deleteSnapshotWithTimeout: a failed attempt may be killed before or after the
\* snapshot is removed; one that is gone already is a success if the bucket
\* keeps delete markers, and a failure if it does not.
AttemptSucceeds(c) == Answer = "ok" /\ NoFault /\ Forget({snap[c]})

AttemptFails(c) ==
    \/ (Answer # "ok" \/ snap[c] \notin objects) /\ NoFault /\ KeepRepo
    \/ Fault /\ ForgetKilled({snap[c]})

\* Faulty variant of DeleteSnapshotS3: a timeout counts as success.
TimeoutIsSuccess(c) ==
    /\ pc[c] = "forget" /\ snap[c] # NoSnapshot /\ backend = "s3"
    /\ AttemptSucceeds(c) \/ (Fault /\ ForgetKilled({snap[c]}))
    /\ Proceed(c, "size") /\ KeepCall

\* Faulty variant of DeleteSnapshotS3: every timeout begins the attempts anew.
RetriesAnew(c) ==
    /\ pc[c] = "forget" /\ snap[c] # NoSnapshot /\ backend = "s3"
    /\ (AttemptSucceeds(c) /\ Proceed(c, "size")) \/ (AttemptFails(c) /\ Proceed(c, "forget"))
    /\ KeepCall

\* On S3 there are up to MaxRetries attempts, whatever the failure.
DeleteSnapshotS3(c) ==
    /\ pc[c] = "forget" /\ snap[c] # NoSnapshot /\ backend = "s3"
    /\ \/ AttemptSucceeds(c) /\ Proceed(c, "size") /\ UNCHANGED attempt
       \/ /\ AttemptFails(c)
          /\ IF attempt[c] < MaxRetries
             THEN attempt' = [attempt EXCEPT ![c] = @ + 1] /\ Proceed(c, "forget")
             ELSE UNCHANGED attempt /\ Closing(c, "failed")
    /\ UNCHANGED <<op, snap, listed>>

\* RestoreSnapshot: rustic restore, which finds its config in the working directory.
RestoreSnapshot(c, o) == Found(c, o) /\ (backend = "s3" => handle[c] # "closed")

\* Restore extracts the snapshot and walks the files; its Close is deferred.
Restore(c) ==
    /\ pc[c] = "extract" /\ op[c] = "restore"
    /\ \E o \in Outcomes :
         /\ IF snap[c] = NoSnapshot THEN NoFault ELSE Rustic(o)
         /\ Closing(c, IF RestoreSnapshot(c, o) THEN "ok" ELSE "failed")
    /\ KeepRepo /\ KeepCall

\* DownloadTarGz does the same for the client of the API, and closes nothing.
DownloadTarGz(c) ==
    /\ pc[c] = "extract" /\ op[c] = "download"
    /\ \E o \in Outcomes : Rustic(o) /\ Return(c, IF RestoreSnapshot(c, o) THEN "ok" ELSE "failed")
    /\ KeepRepo /\ KeepCall

\* Destroy on S3 forgets every snapshot and leaves the config,
DestroyS3(c) ==
    /\ pc[c] = "destroy" /\ backend = "s3"
    /\ \E o \in Outcomes :
         /\ Rustic(o)
         /\ CASE o = "ok" -> Forget(Snapshots) /\ Closing(c, "ok")
              [] o = "absent" -> KeepRepo /\ Closing(c, "ok")
              [] o = "mac" -> KeepRepo /\ Closing(c, "failed")
              [] OTHER -> ForgetKilled(Snapshots) /\ Closing(c, "failed")
    /\ KeepCall

\* and on a local disk removes the directory, or a part of it.
DestroyLocal(c) ==
    /\ pc[c] = "destroy" /\ backend = "local"
    /\ \/ NoFault /\ Forget(Objects) /\ Closing(c, "ok")
       \/ Fault /\ (\E S \in SUBSET Objects : Forget(S)) /\ Closing(c, "failed")
    /\ KeepCall

\* Some objects become undecryptable, any number of times.  External.
Corrupt ==
    /\ Config \in objects
    /\ \E S \in SUBSET (objects \ bad) \ {{}} : bad' = bad \cup S
    /\ UNCHANGED <<backend, objects, aside, removed, forgotten, clientVars, faults>>

ClientStep(c) ==
    \/ NewRusticBackup(c) \/ InitializeS3(c) \/ InitializeLocal(c) \/ InitializeFreshRepository(c)
    \/ InitLocalRepository(c) \/ CreateSnapshotS3(c) \/ CreateSnapshotLocal(c) \/ SaveSnapshot(c)
    \/ GenerateDetails(c) \/ GetRepositorySize(c) \/ Close(c) \/ Finalize(c)
    \/ ListForCopy(c) \/ CopyRepository(c) \/ ListForDelete(c) \/ DeleteRepository(c)
    \/ LocateSnapshot(c) \/ LocateForDownload(c) \/ RemoveNothing(c)
    \/ DeleteSnapshotLocal(c) \/ DeleteSnapshotS3(c)
    \/ Restore(c) \/ DownloadTarGz(c) \/ DestroyS3(c) \/ DestroyLocal(c)

Next == Corrupt \/ \E c \in Clients : Begin(c) \/ ClientStep(c)

Spec == Init /\ [][Next]_vars

\* Where a call waits for a rustic command that has no time limit: the jobs, the lookup
\* and the download run theirs on a background context.
UnlimitedPCs == {"exists", "init", "backup", "save", "get", "locate", "extract"}

\* A step of the daemon, of S3 or of a command with a time limit is taken, and so is that
\* of the garbage collector; nothing is assumed of the other commands, which may hang, of
\* calls and of corruptions.
TimedStep(c) == pc[c] \notin UnlimitedPCs /\ ClientStep(c)

FairSpec == Spec /\ \A c \in Clients : WF_vars(TimedStep(c)) /\ WF_vars(Finalize(c))

-----------------------------------------------------------------------------
(* What the adapters promise.                                              *)

RecoversCorrupt == \A c \in Clients : pc[c] \in {"copylist", "copy", "deletelist"} => bad # {}
ConfigKept ==
    bad = {} /\ Config \in objects /\ ~Corrupt => bad' \cap objects \cap Snapshots = {}

\* Backups that can be read are safe from the daemon.  The recovery, which deletes a
\* server's backups, only runs on a repository with an object that is corrupt now: no
\* failure of another kind starts it, and nothing repairs it meanwhile (rustic_s3.go,
\* Exists and CreateSnapshot).  Unless a request fails, what it removes is in the copy it
\* has made before, also when the repository has more objects than S3 lists at once.
\* And no config is written over an existing one, which would leave the snapshots
\* unreadable (rustic_local.go, Initialize).
SnapshotsSafe ==
    /\ []RecoversCorrupt
    /\ [](faults = 0 => removed \subseteq aside)
    /\ [][ConfigKept]_vars

\* The reported success of a call that has looked or acted is one.  The snapshot of a
\* delete is gone, after however many timeouts (rustic_s3.go, DeleteSnapshot) and where a
\* lookup has found it already deleted; that of a create is in the repository until a
\* delete, a destroy or a recovery takes it out.  A delete whose lookup has failed also
\* reports a success: that one is not claimed here, and DeletedIsGone refutes it.
ReportsTrue ==
    \A c \in Clients :
        /\ op[c] = "delete" /\ snap[c] # NoSnapshot /\ result[c] \in {"ok", "already_deleted"} =>
             snap[c] \notin objects
        /\ op[c] = "create" /\ result[c] = "ok" => snap[c] \in objects \cup forgotten \cup removed

\* The same of every success a delete reports, as the comment in backup_job.go has it: the
\* success without a deletion is for a snapshot that was not found.  The program reports it
\* after any failure of the lookup, so this does not hold.
DeletedIsGone ==
    \A c \in Clients :
        op[c] = "delete" /\ snap[c] # NoSnapshot /\ result[c] \in {"ok", "already_deleted", "presumed_deleted"} =>
            snap[c] \notin objects

\* Every call returns and its temporary directory with the credentials is removed, whether
\* its owner closes it or not, unless a rustic command without a time limit never ends.
\* A repository that is corrupted again and again has CreateSnapshot recover again and
\* again, without a limit (rustic_s3.go, CreateSnapshot): the calls are only promised to
\* return once the corruptions have stopped, however many there have been, and with objects
\* left over by one recovery spoiling the next repository.
CallsReturn ==
    <>[][~Corrupt]_vars =>
        \A c \in Clients :
            pc[c] = "open" ~> \/ pc[c] = "done" /\ handle[c] \in {"none", "closed"}
                              \/ [](pc[c] \in UnlimitedPCs)
=============================================================================
