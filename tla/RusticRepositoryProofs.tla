---------------------- MODULE RusticRepositoryProofs ----------------------
(***************************************************************************)
(* What the rustic adapters promise, for any number of calls, snapshots,   *)
(* failing commands and corruptions, and any page of S3.                   *)
(***************************************************************************)
EXTENDS RusticRepository, TLAPS

\* The steps that belong to some calls only.
Suits(o, p) ==
    /\ p \in RecoveryPCs \cup {"exists", "init", "backup", "save", "get"} => o = "create"
    /\ p = "forget" => o = "delete"
    /\ p = "size" => o \in {"create", "delete"}
    /\ p = "destroy" => o = "destroy"
    /\ p = "locate" => o \in {"delete", "restore", "download"}

\* Where the calls are.  A recovery is that of a create on S3.
CallsInv ==
    \A c \in Clients :
        /\ Suits(op[c], pc[c])
        /\ pc[c] \in RecoveryPCs => backend = "s3"
        /\ pc[c] \notin {"close", "done"} => result[c] \notin {"ok", "already_deleted"}
        /\ pc[c] = "idle" => snap[c] = NoSnapshot
        /\ op[c] = "create" /\ pc[c] # "idle" => snap[c] \in Snapshots

\* The backup mutex, and what it and fresh snapshots give: nobody else who holds it or has held
\* it is about the snapshot that is being created.
MutexInv ==
    \A c, d \in Clients : c # d /\ op[c] \in LockedOps /\ op[d] \in LockedOps =>
        /\ ~(Busy(c) /\ Busy(d))
        /\ op[c] = "create" /\ Busy(c) => snap[c] # snap[d]

\* The delete has removed its snapshot or has seen that it is gone.
Gone(p, r) == p = "size" \/ r \in {"ok", "already_deleted"}

\* A success that is about to be reported is one already.
SuccessInv ==
    \A c \in Clients :
        /\ op[c] = "delete" /\ snap[c] # NoSnapshot /\ Gone(pc[c], result[c]) => snap[c] \notin objects
        /\ op[c] = "create" /\ (pc[c] \in {"get", "size"} \/ result[c] = "ok") =>
             snap[c] \in objects \cup forgotten \cup removed

\* As long as no request has failed, what the recovery has yet to copy or to delete is listed.
CopyInv ==
    faults = 0 =>
        /\ removed \subseteq aside
        /\ \A c \in Clients :
             /\ pc[c] = "copy" => ListS3Objects \subseteq aside \cup listed[c]
             /\ pc[c] = "deletelist" => ListS3Objects \subseteq aside
             /\ pc[c] = "remove" => listed[c] \subseteq aside

RepoInv == TypeOK /\ CallsInv /\ MutexInv /\ SuccessInv /\ RecoversCorrupt /\ CopyInv

\* A step of one call leaves the others where they are.
Advances(c) ==
    /\ TypeOK'
    /\ \A d \in Clients \ {c} : pc'[d] = pc[d] /\ result'[d] = result[d] /\ listed'[d] = listed[d]
    /\ UNCHANGED <<backend, op, snap>>
    /\ Busy(c) \/ (pc'[c] = pc[c] /\ result'[c] = result[c])
    /\ pc'[c] = "idle" => pc[c] = "idle"
    /\ Suits(op[c], pc'[c])
    /\ pc'[c] \in RecoveryPCs => backend = "s3"
    /\ pc'[c] \notin {"close", "done"} => result'[c] \notin {"ok", "already_deleted"}
    /\ faults' = 0 => faults = 0

-----------------------------------------------------------------------------
(* How a call moves.                                                        *)

Results == {"none", "ok", "failed", "already_deleted", "presumed_deleted"}
Handles == {"none", "open", "dropped", "closed"}

LEMMA ProceedMoves ==
    ASSUME TypeOK, NEW c \in Clients, NEW to \in PCs, Proceed(c, to)
    PROVE  /\ pc' \in [Clients -> PCs] /\ result' \in [Clients -> Results] /\ handle' \in [Clients -> Handles]
           /\ pc'[c] = to /\ result'[c] = result[c]
           /\ \A d \in Clients \ {c} : pc'[d] = pc[d] /\ result'[d] = result[d]
BY DEF TypeOK, Proceed, Step, Results, Handles

LEMMA ClosingMoves ==
    ASSUME TypeOK, NEW c \in Clients, NEW r \in Results, Closing(c, r)
    PROVE  /\ pc' \in [Clients -> PCs] /\ result' \in [Clients -> Results] /\ handle' \in [Clients -> Handles]
           /\ pc'[c] = "close" /\ result'[c] = r
           /\ \A d \in Clients \ {c} : pc'[d] = pc[d] /\ result'[d] = result[d]
BY DEF TypeOK, Closing, Step, Results, Handles, PCs

LEMMA ReturnMoves ==
    ASSUME TypeOK, NEW c \in Clients, NEW r \in Results, Return(c, r)
    PROVE  /\ pc' \in [Clients -> PCs] /\ result' \in [Clients -> Results] /\ handle' \in [Clients -> Handles]
           /\ pc'[c] = "done" /\ result'[c] = r
           /\ \A d \in Clients \ {c} : pc'[d] = pc[d] /\ result'[d] = result[d]
BY DEF TypeOK, Return, Step, Results, Handles, PCs

LEMMA Bounds == MaxFaults \in Nat /\ MaxRetries \in Nat \ {0}
BY BoundAssumption

LEMMA FaultCount ==
    ASSUME TypeOK, Fault \/ NoFault
    PROVE  faults' \in 0..MaxFaults /\ (faults' = 0 => faults = 0)
<1>1. faults \in 0..MaxFaults /\ MaxFaults \in Nat
  BY Bounds DEF TypeOK
<1> QED
  BY <1>1 DEF Fault, NoFault

\* The control of every call, and the mutex.
LEMMA ControlKept ==
    ASSUME RepoInv, NEW c \in Clients, Advances(c)
    PROVE  CallsInv' /\ MutexInv'
<1>1. ASSUME NEW d \in Clients
      PROVE  /\ Suits(op'[d], pc'[d])
             /\ pc'[d] \in RecoveryPCs => backend' = "s3"
             /\ pc'[d] \notin {"close", "done"} => result'[d] \notin {"ok", "already_deleted"}
             /\ pc'[d] = "idle" => snap'[d] = NoSnapshot
             /\ op'[d] = "create" /\ pc'[d] # "idle" => snap'[d] \in Snapshots
  <2>1. /\ Suits(op[d], pc[d]) /\ (pc[d] \in RecoveryPCs => backend = "s3")
        /\ (pc[d] \notin {"close", "done"} => result[d] \notin {"ok", "already_deleted"})
        /\ (pc[d] = "idle" => snap[d] = NoSnapshot)
        /\ (op[d] = "create" /\ pc[d] # "idle" => snap[d] \in Snapshots)
    BY DEF RepoInv, CallsInv
  <2>2. CASE d = c
    BY <2>1, <2>2 DEF Advances, Busy
  <2>3. CASE d # c
    BY <2>1, <2>3 DEF Advances
  <2> QED
    BY <2>2, <2>3
<1>2. \A d \in Clients : Busy(d)' => Busy(d)
  BY DEF Advances, Busy
<1>3. MutexInv'
  BY <1>2 DEF RepoInv, MutexInv, Advances, Busy
<1> QED
  BY <1>1, <1>3 DEF CallsInv

\* A step that leaves the repository alone and reports no success that was not known already.
LEMMA QuietStep ==
    ASSUME RepoInv, NEW c \in Clients, Advances(c), UNCHANGED <<objects, bad, aside, removed, forgotten>>,
           pc'[c] \notin {"copy", "deletelist", "remove"} \/ (pc'[c] = pc[c] /\ listed'[c] = listed[c]),
           pc'[c] = "copylist" => pc[c] = "copylist" \/ bad # {},
           op[c] = "delete" /\ snap[c] # NoSnapshot /\ Gone(pc'[c], result'[c]) =>
               Gone(pc[c], result[c]) \/ snap[c] \notin objects,
           op[c] = "create" /\ (pc'[c] \in {"get", "size"} \/ result'[c] = "ok") =>
               pc[c] \in {"get", "size"} \/ result[c] = "ok"
    PROVE  RepoInv'
<1>1. SuccessInv'
  BY DEF RepoInv, SuccessInv, Advances
<1>2. RecoversCorrupt'
  BY DEF RepoInv, RecoversCorrupt, Advances
<1>3. ListS3Objects' = ListS3Objects
  BY DEF ListS3Objects
<1>4. CopyInv'
  BY <1>3 DEF RepoInv, CopyInv, Advances
<1> QED
  BY <1>1, <1>2, <1>4, ControlKept DEF RepoInv, Advances

\* What a call does to itself.
Moved(c) ==
    /\ pc' \in [Clients -> PCs] /\ result' \in [Clients -> Results] /\ handle' \in [Clients -> Handles]
    /\ \A d \in Clients \ {c} : pc'[d] = pc[d] /\ result'[d] = result[d]

LEMMA QuietType ==
    ASSUME TypeOK, NEW c \in Clients, Moved(c), KeepRepo, KeepCall, Fault \/ NoFault
    PROVE  TypeOK'
<1>1. faults' \in 0..MaxFaults
  BY FaultCount
<1> QED
  BY <1>1 DEF TypeOK, Moved, Results, Handles, KeepRepo, KeepCall, repoVars

LEMMA QuietMove ==
    ASSUME RepoInv, NEW c \in Clients, NEW to \in PCs, Moved(c), pc'[c] = to, result'[c] = result[c],
           KeepRepo, KeepCall, Fault \/ NoFault,
           Busy(c), pc[c] # "close", Suits(op[c], to),
           to \notin {"idle", "close", "done", "get", "copy", "deletelist", "remove"},
           to = "copylist" => bad # {} /\ backend = "s3",
           to = "size" => pc[c] = "get" \/ snap[c] = NoSnapshot
    PROVE  RepoInv'
<1>2. TypeOK' /\ (faults' = 0 => faults = 0)
  BY QuietType, FaultCount DEF RepoInv
<1>3. UNCHANGED <<objects, bad, aside, removed, forgotten, backend, op, snap, listed>>
  BY DEF KeepRepo, KeepCall, repoVars
<1>4. /\ result[c] \notin {"ok", "already_deleted"} /\ (op[c] = "create" => snap[c] # NoSnapshot)
      /\ (op[c] = "delete" => pc[c] # "get")
  BY SnapshotAssumption DEF RepoInv, CallsInv, Busy, NoSnapshot, Suits
<1>5. Advances(c)
  BY <1>2, <1>3, <1>4 DEF Advances, Moved, RecoveryPCs, Busy
<1> QED
  BY <1>3, <1>4, <1>5, QuietStep DEF Gone

LEMMA QuietProceed ==
    ASSUME RepoInv, NEW c \in Clients, NEW to \in PCs, Proceed(c, to), KeepRepo, KeepCall, Fault \/ NoFault,
           Busy(c), pc[c] # "close", Suits(op[c], to),
           to \notin {"idle", "close", "done", "get", "copy", "deletelist", "remove"},
           to = "copylist" => bad # {} /\ backend = "s3",
           to = "size" => pc[c] = "get" \/ snap[c] = NoSnapshot
    PROVE  RepoInv'
<1>1. Moved(c) /\ pc'[c] = to /\ result'[c] = result[c]
  BY ProceedMoves DEF RepoInv, Moved
<1> QED
  BY <1>1, QuietMove

LEMMA QuietEnd ==
    ASSUME RepoInv, NEW c \in Clients, NEW r \in Results, Closing(c, r) \/ Return(c, r),
           KeepRepo, KeepCall, Fault \/ NoFault, Busy(c),
           r = "ok" => pc[c] = "size" \/ op[c] \notin {"create", "delete"},
           r = "already_deleted" => snap[c] \notin objects
    PROVE  RepoInv'
<1>1. TypeOK /\ Moved(c) /\ pc'[c] \in {"close", "done"} /\ result'[c] = r
  BY ClosingMoves, ReturnMoves DEF RepoInv, Moved
<1>2. TypeOK' /\ (faults' = 0 => faults = 0)
  BY <1>1, QuietType, FaultCount
<1>3. UNCHANGED <<objects, bad, aside, removed, forgotten, backend, op, snap, listed>>
  BY DEF KeepRepo, KeepCall, repoVars
<1>5. Advances(c)
  BY <1>1, <1>2, <1>3 DEF Advances, Moved, RecoveryPCs, Suits
<1> QED
  BY <1>1, <1>3, <1>5, QuietStep DEF RepoInv, SuccessInv, Gone

-----------------------------------------------------------------------------
(* The steps that leave the repository alone.                               *)

LEMMA QuietSteps ==
    ASSUME RepoInv, NEW c \in Clients,
           \/ NewRusticBackup(c)
           \/ InitializeS3(c)
           \/ InitializeLocal(c)
           \/ CreateSnapshotS3(c)
           \/ CreateSnapshotLocal(c)
           \/ GenerateDetails(c)
           \/ GetRepositorySize(c)
           \/ Close(c)
           \/ Finalize(c)
           \/ LocateSnapshot(c)
           \/ LocateForDownload(c)
           \/ RemoveNothing(c)
           \/ Restore(c)
           \/ DownloadTarGz(c)
    PROVE  RepoInv'
<1>1. CASE NewRusticBackup(c)
  <2>1. CASE Fault /\ Return(c, IF op[c] = "destroy" THEN "ok" ELSE "failed")
    BY <1>1, <2>1, QuietEnd DEF Busy, Results, NewRusticBackup
  <2>2. CASE /\ NoFault /\ createConfigFile(c) /\ UNCHANGED result
             /\ Step(c, CASE op[c] = "create" -> "exists" [] op[c] = "destroy" -> "destroy" [] OTHER -> "locate")
    <3> DEFINE to == CASE op[c] = "create" -> "exists" [] op[c] = "destroy" -> "destroy" [] OTHER -> "locate"
    <3>1. Step(c, to) /\ pc[c] = "open"
      BY <1>1, <2>2 DEF NewRusticBackup
    <3>2. op[c] \in {"create", "delete", "restore", "download", "destroy"}
      BY OpsAssumption DEF RepoInv, TypeOK
    <3>3. to \in {"exists", "destroy", "locate"} /\ to \in PCs /\ Suits(op[c], to)
      BY <3>2 DEF PCs, Suits, RecoveryPCs
    <3> HIDE DEF to
    <3>a. createConfigFile(c) /\ UNCHANGED result
      BY <2>2
    <3>4. Moved(c) /\ pc'[c] = to /\ result'[c] = result[c]
      BY <3>a, <3>1, <3>3 DEF RepoInv, TypeOK, Moved, Step, createConfigFile, Results, Handles
    <3> QED
      BY <1>1, <2>2, <3>1, <3>3, <3>4, QuietMove DEF Busy, NewRusticBackup
  <2> QED
    BY <1>1, <2>1, <2>2 DEF NewRusticBackup
<1>2. CASE InitializeS3(c)
  <2>1. PICK o \in Outcomes :
          /\ Rustic(o)
          /\ CASE ExistsS3[o] = "yes" -> Proceed(c, "backup")
               [] ExistsS3[o] = "no" -> Proceed(c, "init")
               [] ExistsS3[o] = "corrupt" -> Proceed(c, "copylist")
               [] OTHER -> Return(c, "failed")
    BY <1>2 DEF InitializeS3
  <2>2. \/ Proceed(c, "backup") \/ Proceed(c, "init") \/ Return(c, "failed")
        \/ Proceed(c, "copylist") /\ o = "mac"
    BY <2>1 DEF ExistsS3, Outcomes
  <2>3. (Fault \/ NoFault) /\ (o = "mac" => bad # {})
    BY <2>1 DEF Rustic, Answer
  <2> QED
    BY <1>2, <2>2, <2>3, QuietProceed, QuietEnd
       DEF RepoInv, CallsInv, Suits, Busy, PCs, RecoveryPCs, Results, InitializeS3
<1>3. CASE InitializeLocal(c)
  BY <1>3, QuietProceed, QuietEnd
     DEF RepoInv, CallsInv, Suits, Busy, PCs, RecoveryPCs, Results, InitializeLocal, Rustic, ExistsLocal, Outcomes
<1>4. CASE CreateSnapshotS3(c)
  BY <1>4, QuietProceed, QuietEnd
     DEF RepoInv, CallsInv, Suits, Busy, PCs, RecoveryPCs, Results, CreateSnapshotS3, Rustic, Outcomes, Answer
<1>5. CASE CreateSnapshotLocal(c)
  BY <1>5, QuietProceed, QuietEnd
     DEF RepoInv, CallsInv, Suits, Busy, PCs, RecoveryPCs, Results, CreateSnapshotLocal, Rustic, Outcomes
<1>6. CASE GenerateDetails(c)
  BY <1>6, QuietProceed, QuietEnd
     DEF RepoInv, CallsInv, Suits, Busy, PCs, RecoveryPCs, Results, GenerateDetails, Rustic
<1>7. CASE GetRepositorySize(c)
  BY <1>7, QuietProceed, QuietEnd
     DEF RepoInv, CallsInv, Suits, Busy, PCs, RecoveryPCs, Results, GetRepositorySize
<1>8. CASE Close(c)
  <2>1. Moved(c) /\ pc'[c] = "done" /\ result'[c] = result[c] /\ pc[c] = "close"
    BY <1>8 DEF RepoInv, TypeOK, Moved, Step, Results, Handles, PCs, Close
  <2>2. TypeOK' /\ (faults' = 0 => faults = 0)
    BY <1>8, <2>1, QuietType, FaultCount DEF RepoInv, Close
  <2>3. UNCHANGED <<objects, bad, aside, removed, forgotten, backend, op, snap, listed>>
    BY <1>8 DEF Close, KeepRepo, KeepCall, repoVars
  <2>4. Advances(c)
    BY <2>1, <2>2, <2>3 DEF Advances, Moved, RecoveryPCs, Busy, Suits
  <2> QED
    BY <2>1, <2>3, <2>4, QuietStep DEF Gone
<1>9. CASE Finalize(c)
  <2>1. Moved(c) /\ UNCHANGED <<pc, result>>
    BY <1>9 DEF RepoInv, TypeOK, Moved, Results, Handles, Finalize
  <2>2. TypeOK' /\ (faults' = 0 => faults = 0)
    BY <1>9, <2>1, QuietType, FaultCount DEF RepoInv, Finalize
  <2>3. UNCHANGED <<objects, bad, aside, removed, forgotten, backend, op, snap, listed>>
    BY <1>9 DEF Finalize, KeepRepo, KeepCall, repoVars
  <2>4. Advances(c)
    BY <2>1, <2>2, <2>3 DEF RepoInv, CallsInv, Advances
  <2> QED
    BY <2>1, <2>3, <2>4, QuietStep DEF Gone
<1>10. CASE LocateSnapshot(c)
  <2> DEFINE next == IF op[c] = "delete" THEN "forget" ELSE "extract"
  <2>0. pc[c] = "locate" /\ Busy(c) /\ KeepRepo /\ KeepCall
    BY <1>10 DEF LocateSnapshot, Busy
  <2>1. CASE Proceed(c, next) /\ (Fault \/ NoFault)
    BY <2>0, <2>1, QuietProceed DEF Suits, PCs, RecoveryPCs
  <2>2. CASE Return(c, "failed") /\ (Fault \/ NoFault)
    BY <2>0, <2>2, QuietEnd DEF Results
  <2>3. ASSUME NEW o \in Outcomes, Return(c, AlreadyDeleted(o)), Rustic(o), ~Found(c, o) PROVE RepoInv'
    <3>1. AlreadyDeleted(o) \in Results \ {"ok"} /\ (AlreadyDeleted(o) = "already_deleted" => snap[c] \notin objects)
      BY <2>3 DEF AlreadyDeleted, Results, Found
    <3> QED
      BY <2>0, <2>3, <3>1, QuietEnd DEF Rustic
  <2> QED
    BY <1>10, <2>1, <2>2, <2>3 DEF LocateSnapshot, Rustic
<1>11. CASE LocateForDownload(c)
  <2>1. CASE Return(c, "failed")
    BY <1>11, <2>1, QuietEnd DEF Busy, Results, LocateForDownload, Rustic
  <2>2. CASE Step(c, "extract") /\ UNCHANGED result /\ handle' = [handle EXCEPT ![c] = "dropped"]
    <3>1. Moved(c) /\ pc'[c] = "extract" /\ result'[c] = result[c]
      BY <2>2 DEF RepoInv, TypeOK, Moved, Step, Results, Handles, PCs
    <3>2. Fault \/ NoFault
      BY <1>11 DEF LocateForDownload, Rustic
    <3> QED
      BY <1>11, <3>1, <3>2, QuietMove DEF Busy, LocateForDownload, PCs, Suits, RecoveryPCs
  <2> QED
    BY <1>11, <2>1, <2>2 DEF LocateForDownload
<1>12. CASE RemoveNothing(c)
  BY <1>12, QuietProceed, QuietEnd
     DEF RepoInv, CallsInv, Suits, Busy, PCs, RecoveryPCs, Results, RemoveNothing
<1>13. CASE Restore(c)
  BY <1>13, QuietProceed, QuietEnd
     DEF RepoInv, CallsInv, Suits, Busy, PCs, RecoveryPCs, Results, Restore, Rustic
<1>14. CASE DownloadTarGz(c)
  BY <1>14, QuietProceed, QuietEnd
     DEF RepoInv, CallsInv, Suits, Busy, PCs, RecoveryPCs, Results, DownloadTarGz, Rustic
<1> QED
  BY <1>1, <1>2, <1>3, <1>4, <1>5, <1>6, <1>7, <1>8, <1>9, <1>10, <1>11, <1>12, <1>13, <1>14

-----------------------------------------------------------------------------
(* The steps that change the repository.                                    *)

\* A recovery, like every step of a create, has the mutex to itself, and there is nothing in it
\* for a destroy: the repository is corrupt.
LEMMA Alone ==
    ASSUME RepoInv, NEW c \in Clients, op[c] \in LockedOps, Busy(c)
    PROVE  \A d \in Clients \ {c} : pc[d] \notin RecoveryPCs \cup {"size", "save", "init", "forget", "get"}
<1> SUFFICES ASSUME NEW d \in Clients \ {c}, pc[d] \in RecoveryPCs \cup {"size", "save", "init", "forget", "get"}
             PROVE  FALSE
  OBVIOUS
<1>1. op[d] \in LockedOps /\ Busy(d)
  BY DEF RepoInv, CallsInv, Suits, LockedOps, Busy, RecoveryPCs
<1> QED
  BY <1>1 DEF RepoInv, MutexInv

\* Snapshots are removed while no recovery lists or copies them.
LEMMA ForgetStep ==
    ASSUME RepoInv, NEW c \in Clients, Advances(c), NEW S \in SUBSET Objects, Forget(S),
           \A d \in Clients : pc[d] \notin {"copylist", "copy", "deletelist"},
           pc'[c] \notin RecoveryPCs, op[c] # "create",
           op[c] = "delete" /\ snap[c] # NoSnapshot /\ Gone(pc'[c], result'[c]) => snap[c] \in S
    PROVE  RepoInv'
<1>1. /\ objects' = objects \ S /\ forgotten' = forgotten \cup (S \cap objects \cap Snapshots)
      /\ UNCHANGED <<aside, removed>>
  BY DEF Forget
<1>2. \A d \in Clients \ {c} : pc'[d] = pc[d] /\ result'[d] = result[d] /\ listed'[d] = listed[d]
  BY DEF Advances
<1>3. UNCHANGED <<op, snap>> /\ (faults' = 0 => faults = 0)
  BY DEF Advances
<1>4. ASSUME NEW d \in Clients
      PROVE  op[d] = "delete" /\ snap[d] # NoSnapshot /\ Gone(pc'[d], result'[d]) => snap[d] \notin objects'
  <2>1. CASE d = c
    BY <1>1, <2>1
  <2>2. CASE d # c
    BY <1>1, <1>2, <2>2 DEF RepoInv, SuccessInv
  <2> QED
    BY <2>1, <2>2
<1>5. ASSUME NEW d \in Clients, op[d] = "create", pc'[d] \in {"get", "size"} \/ result'[d] = "ok"
      PROVE  snap[d] \in objects' \cup forgotten' \cup removed'
  <2>1. d # c
    BY <1>5
  <2>2. snap[d] \in objects \cup forgotten \cup removed
    BY <1>2, <1>5, <2>1 DEF RepoInv, SuccessInv
  <2>3. snap[d] \in Snapshots
    BY <1>2, <1>5, <2>1 DEF RepoInv, CallsInv
  <2> QED
    BY <1>1, <2>2, <2>3
<1>6. SuccessInv'
  BY <1>3, <1>4, <1>5 DEF SuccessInv
<1>7. RecoversCorrupt'
  BY <1>2 DEF RecoversCorrupt, RecoveryPCs
<1>8. CopyInv'
  BY <1>1, <1>2, <1>3 DEF RepoInv, CopyInv, RecoveryPCs
<1> QED
  BY <1>6, <1>7, <1>8, ControlKept DEF RepoInv, Advances

LEMMA ForgetType ==
    ASSUME TypeOK, NEW c \in Clients, Moved(c), NEW S \in SUBSET Objects, Forget(S), Fault \/ NoFault,
           UNCHANGED <<op, snap, listed>>, attempt' \in [Clients -> 1..MaxRetries]
    PROVE  TypeOK'
<1>1. faults' \in 0..MaxFaults
  BY FaultCount
<1>2. UNCHANGED <<backend, aside, removed>> /\ objects' = objects \ S /\ bad' = bad \ S
      /\ forgotten' = forgotten \cup (S \cap objects \cap Snapshots)
  BY DEF Forget
<1>3. objects' \subseteq Objects /\ bad' \subseteq objects' /\ forgotten' \subseteq Snapshots
  BY <1>2 DEF TypeOK
<1> QED
  BY <1>1, <1>2, <1>3 DEF TypeOK, Moved, Results, Handles

\* A killed command has removed some of S, or nothing, and a corrupt repository it does not open.
LEMMA KilledForget ==
    ASSUME NEW S, ForgetKilled(S)
    PROVE  KeepRepo \/ (bad = {} /\ \E R \in SUBSET S : Forget(R))
BY DEF ForgetKilled, Answer

\* The removal of snapshots by a delete or a destroy that ends its call or goes on to the size.
LEMMA ForgetEnds ==
    ASSUME RepoInv, NEW c \in Clients, NEW S \in SUBSET Objects, Forget(S), Fault \/ NoFault,
           UNCHANGED <<op, snap, listed>>, attempt' \in [Clients -> 1..MaxRetries],
           Busy(c), pc[c] \in {"forget", "destroy"},
           bad = {} \/ backend = "local" \/ op[c] = "delete",
           \/ Proceed(c, "size") /\ op[c] = "delete" /\ snap[c] \in S
           \/ Proceed(c, "forget") /\ op[c] = "delete"
           \/ Closing(c, "failed")
           \/ Closing(c, "ok") /\ op[c] = "destroy"
    PROVE  RepoInv'
<1>1. Moved(c) /\ pc'[c] \in {"size", "forget", "close"} /\ TypeOK
  BY ProceedMoves, ClosingMoves DEF RepoInv, Moved, PCs, Results
<1>2. /\ (pc'[c] # "close" => op[c] = "delete" /\ result'[c] = result[c])
      /\ (pc'[c] = "size" => snap[c] \in S)
      /\ (op[c] = "delete" /\ pc'[c] = "close" => result'[c] = "failed")
  <2>1. CASE \/ Proceed(c, "size") /\ op[c] = "delete" /\ snap[c] \in S
             \/ Proceed(c, "forget") /\ op[c] = "delete"
    BY <1>1, <2>1, ProceedMoves DEF PCs
  <2>2. CASE Closing(c, "failed") \/ (Closing(c, "ok") /\ op[c] = "destroy")
    BY <1>1, <2>2, ClosingMoves DEF Results
  <2> QED
    BY <2>1, <2>2
<1>3. TypeOK'
  BY <1>1, ForgetType
<1>4. result[c] \notin {"ok", "already_deleted"} /\ op[c] # "create"
  BY DEF RepoInv, CallsInv, Suits, Busy
<1>5. UNCHANGED backend /\ (faults' = 0 => faults = 0)
  BY <1>1, FaultCount DEF Forget
<1>6. Advances(c)
  BY <1>1, <1>2, <1>3, <1>4, <1>5 DEF Advances, Moved, RecoveryPCs, Suits
<1>7. \A d \in Clients : pc[d] \notin {"copylist", "copy", "deletelist"}
  <2>1. CASE bad = {}
    BY <2>1 DEF RepoInv, RecoversCorrupt
  <2>2. CASE backend = "local"
    BY <2>2 DEF RepoInv, CallsInv, RecoveryPCs
  <2>3. CASE op[c] = "delete"
    BY <2>3, Alone DEF LockedOps, RecoveryPCs
  <2> QED
    BY <2>1, <2>2, <2>3
<1> QED
  BY <1>1, <1>2, <1>4, <1>6, <1>7, ForgetStep DEF RecoveryPCs, Gone

\* A delete: what is killed, what fails and what succeeds.
LEMMA DeleteSteps ==
    ASSUME RepoInv, NEW c \in Clients, DeleteSnapshotLocal(c) \/ DeleteSnapshotS3(c)
    PROVE  RepoInv'
<1>1. pc[c] = "forget" /\ snap[c] # NoSnapshot /\ Busy(c) /\ op[c] = "delete" /\ UNCHANGED <<op, snap, listed>>
  BY DEF DeleteSnapshotLocal, DeleteSnapshotS3, Busy, RepoInv, CallsInv, Suits, KeepCall
<1>2. {snap[c]} \in SUBSET Objects
  BY <1>1 DEF RepoInv, TypeOK, Objects, NoSnapshot
<1>3. attempt' \in [Clients -> 1..MaxRetries] /\ (UNCHANGED attempt \/ attempt[c] < MaxRetries)
  <2>1. MaxRetries \in Nat /\ attempt \in [Clients -> 1..MaxRetries] /\ attempt[c] \in 1..MaxRetries
    BY Bounds DEF RepoInv, TypeOK
  <2>2. UNCHANGED attempt \/ (attempt[c] < MaxRetries /\ attempt' = [attempt EXCEPT ![c] = @ + 1])
    BY DEF DeleteSnapshotLocal, DeleteSnapshotS3, KeepCall
  <2>3. attempt[c] < MaxRetries => attempt[c] + 1 \in 1..MaxRetries
    BY <2>1
  <2> QED
    BY <2>1, <2>2, <2>3
<1>4. ASSUME NEW R \in SUBSET {snap[c]}, Forget(R), Fault \/ NoFault,
             \/ Proceed(c, "size") /\ R = {snap[c]}
             \/ Proceed(c, "forget")
             \/ Closing(c, "failed")
      PROVE  RepoInv'
  <2>1. R \in SUBSET Objects
    BY <1>2
  <2> QED
    BY <1>1, <1>3, <1>4, <2>1, ForgetEnds
<1>5. ASSUME KeepRepo, Fault \/ NoFault, Proceed(c, "forget") \/ Closing(c, "failed") PROVE RepoInv'
  <2>1. \E R \in SUBSET {snap[c]} : Forget(R)
    <3>1. Forget({})
      BY <1>5 DEF KeepRepo, Forget, repoVars
    <3> QED
      BY <3>1
  <2> QED
    BY <1>4, <1>5, <2>1
<1>6. ASSUME Fault, ForgetKilled({snap[c]}), Proceed(c, "forget") \/ Closing(c, "failed") PROVE RepoInv'
  BY <1>4, <1>5, <1>6, KilledForget
<1>7. CASE DeleteSnapshotLocal(c)
  <2>1. PICK o \in Outcomes :
          /\ Rustic(o)
          /\ CASE o = "ok" -> Forget({snap[c]}) /\ Proceed(c, "size")
               [] o = "fault" -> ForgetKilled({snap[c]}) /\ Closing(c, "failed")
               [] OTHER -> KeepRepo /\ Closing(c, "failed")
    BY <1>7 DEF DeleteSnapshotLocal
  <2>2. CASE o = "ok"
    BY <1>4, <2>1, <2>2 DEF Rustic
  <2>3. CASE o = "fault"
    <3>1. Fault /\ ForgetKilled({snap[c]}) /\ Closing(c, "failed")
      BY <2>1, <2>3 DEF Rustic, Answer
    <3> QED
      BY <1>6, <3>1
  <2>4. CASE o # "ok" /\ o # "fault"
    <3>1. NoFault /\ KeepRepo /\ Closing(c, "failed")
      BY <2>1, <2>4 DEF Rustic, Answer
    <3> QED
      BY <1>5, <3>1
  <2> QED
    BY <2>2, <2>3, <2>4
<1>8. CASE DeleteSnapshotS3(c)
  <2>1. CASE AttemptSucceeds(c) /\ Proceed(c, "size")
    BY <1>4, <2>1 DEF AttemptSucceeds
  <2>2. CASE AttemptFails(c) /\ (Proceed(c, "forget") \/ Closing(c, "failed"))
    BY <1>5, <1>6, <2>2 DEF AttemptFails
  <2> QED
    BY <1>8, <2>1, <2>2 DEF DeleteSnapshotS3
<1> QED
  BY <1>7, <1>8

\* A destroy, which does not take the mutex.
LEMMA DestroySteps ==
    ASSUME RepoInv, NEW c \in Clients, DestroyS3(c) \/ DestroyLocal(c)
    PROVE  RepoInv'
<1>1. /\ pc[c] = "destroy" /\ Busy(c) /\ op[c] = "destroy" /\ UNCHANGED <<op, snap, listed, attempt>>
      /\ attempt' \in [Clients -> 1..MaxRetries]
  BY DEF DestroyS3, DestroyLocal, Busy, RepoInv, TypeOK, CallsInv, Suits, KeepCall
<1>2. ASSUME NEW S \in SUBSET Objects, Forget(S), Fault \/ NoFault, Closing(c, "ok") \/ Closing(c, "failed"),
             bad = {} \/ backend = "local"
      PROVE  RepoInv'
  BY <1>1, <1>2, ForgetEnds
<1>3. ASSUME KeepRepo, Fault \/ NoFault, Closing(c, "ok") \/ Closing(c, "failed") PROVE RepoInv'
  BY <1>1, <1>3, QuietEnd DEF KeepCall, Results
<1>4. Snapshots \in SUBSET Objects
  BY DEF Objects
<1>5. CASE DestroyLocal(c)
  BY <1>2, <1>5 DEF DestroyLocal
<1>6. CASE DestroyS3(c)
  <2>1. PICK o \in Outcomes :
          /\ Rustic(o)
          /\ CASE o = "ok" -> Forget(Snapshots) /\ Closing(c, "ok")
               [] o = "absent" -> KeepRepo /\ Closing(c, "ok")
               [] o = "mac" -> KeepRepo /\ Closing(c, "failed")
               [] OTHER -> ForgetKilled(Snapshots) /\ Closing(c, "failed")
    BY <1>6 DEF DestroyS3
  <2>2. Fault \/ NoFault
    BY <2>1 DEF Rustic
  <2>3. CASE o = "ok"
    <3>1. bad = {}
      BY <2>1, <2>3 DEF Rustic, Answer
    <3> QED
      BY <1>2, <1>4, <2>1, <2>2, <2>3, <3>1
  <2>4. CASE o \in {"absent", "mac"}
    BY <1>3, <2>1, <2>2, <2>4
  <2>5. CASE o = "fault"
    <3>1. ForgetKilled(Snapshots) /\ Closing(c, "failed")
      BY <2>1, <2>5
    <3>2. CASE KeepRepo
      BY <1>3, <2>2, <3>1, <3>2
    <3>3. ASSUME bad = {}, NEW R \in SUBSET Snapshots, Forget(R) PROVE RepoInv'
      <4>1. R \in SUBSET Objects
        BY <1>4
      <4> QED
        BY <1>2, <2>2, <3>1, <3>3, <4>1
    <3> QED
      BY <3>1, <3>2, <3>3, KilledForget
  <2> QED
    BY <2>1, <2>3, <2>4, <2>5 DEF Outcomes
<1> QED
  BY <1>5, <1>6

\* A create makes the repository or saves its snapshot: with the mutex, so that nobody recovers
\* and nobody who deletes is about this snapshot.
LEMMA CreateSteps ==
    ASSUME RepoInv, NEW c \in Clients,
           InitializeFreshRepository(c) \/ InitLocalRepository(c) \/ SaveSnapshot(c)
    PROVE  RepoInv'
<1>1. pc[c] \in {"init", "save"} /\ Busy(c) /\ op[c] = "create" /\ snap[c] \in Snapshots /\ result[c] \notin {"ok", "already_deleted"} /\ KeepCall
  BY DEF InitializeFreshRepository, InitLocalRepository, SaveSnapshot, Busy, RepoInv, CallsInv,
     Suits
<1>2. \A d \in Clients : pc[d] \notin RecoveryPCs
  BY <1>1, Alone DEF LockedOps, RecoveryPCs
<1>3. snap[c] \in Objects /\ Config \in Objects /\ NoSnapshot \notin Snapshots /\ Config = NoSnapshot
  BY <1>1, SnapshotAssumption DEF Objects, NoSnapshot, Config
<1>4. ASSUME NEW o \in {Config, snap[c]}, objects' = objects \cup {o}, bad' \subseteq objects',
             UNCHANGED <<backend, aside, removed, forgotten>>, Fault \/ NoFault,
             \/ Proceed(c, "backup")
             \/ Proceed(c, "get") /\ o = snap[c]
             \/ Return(c, "failed")
      PROVE  RepoInv'
  <2>1. Moved(c) /\ TypeOK /\ pc'[c] \in {"backup", "get", "done"} /\ result'[c] \notin {"ok", "already_deleted"} /\ (pc'[c] = "get" => o = snap[c])
    <3>1. CASE Proceed(c, "backup") \/ (Proceed(c, "get") /\ o = snap[c])
      BY <1>1, <3>1, ProceedMoves DEF RepoInv, Moved, PCs
    <3>2. CASE Return(c, "failed")
      BY <3>2, ReturnMoves DEF RepoInv, Moved, Results
    <3> QED
      BY <1>4, <3>1, <3>2
  <2>2. UNCHANGED <<op, snap, listed, attempt>> /\ faults' \in 0..MaxFaults /\ (faults' = 0 => faults = 0)
    BY <1>1, <1>4, <2>1, FaultCount DEF KeepCall
  <2>3. TypeOK'
    BY <1>3, <1>4, <2>1, <2>2 DEF TypeOK, Moved, Results, Handles
  <2>4. Advances(c)
    BY <1>1, <1>4, <2>1, <2>2, <2>3 DEF Advances, Moved, Suits, RecoveryPCs
  <2>5. ASSUME NEW d \in Clients, op[d] = "delete", snap[d] # NoSnapshot, Gone(pc'[d], result'[d])
        PROVE  snap[d] \notin objects'
    <3>1. d # c /\ snap[d] # snap[c]
      BY <1>1, <2>5 DEF RepoInv, MutexInv, LockedOps
    <3>2. snap[d] \notin objects
      BY <2>1, <2>5, <3>1 DEF RepoInv, SuccessInv, Moved
    <3> QED
      BY <1>3, <1>4, <2>5, <3>1, <3>2
  <2>6. ASSUME NEW d \in Clients, op[d] = "create", pc'[d] \in {"get", "size"} \/ result'[d] = "ok"
        PROVE  snap[d] \in objects' \cup forgotten' \cup removed'
    <3>1. CASE d = c
      BY <1>4, <2>1, <2>6, <3>1
    <3>2. CASE d # c
      BY <1>4, <2>1, <2>6, <3>2 DEF RepoInv, SuccessInv, Moved
    <3> QED
      BY <3>1, <3>2
  <2>7. SuccessInv'
    BY <2>2, <2>5, <2>6 DEF SuccessInv
  <2>8. \A d \in Clients : pc'[d] \notin RecoveryPCs
    BY <1>2, <2>1 DEF Moved, RecoveryPCs
  <2>9. RecoversCorrupt' /\ CopyInv'
    BY <1>4, <2>2, <2>8 DEF RepoInv, RecoversCorrupt, CopyInv, RecoveryPCs
  <2> QED
    BY <2>3, <2>4, <2>7, <2>9, ControlKept DEF RepoInv
<1>5. CASE InitializeFreshRepository(c) \/ InitLocalRepository(c)
  <2>1. CASE RusticInit /\ Proceed(c, "backup")
    <3>1. bad' \subseteq objects'
      BY <2>1 DEF RusticInit
    <3> QED
      BY <1>4, <2>1, <3>1 DEF RusticInit
  <2>2. CASE RusticInitFails /\ Return(c, "failed")
    BY <1>1, <2>2, QuietEnd DEF RusticInitFails, Results
  <2> QED
    BY <1>5, <2>1, <2>2 DEF InitializeFreshRepository, InitLocalRepository
<1>6. CASE SaveSnapshot(c)
  <2>1. ASSUME Saved(c), Fault \/ NoFault, Proceed(c, "get") \/ Return(c, "failed") PROVE RepoInv'
    <3>1. objects' = objects \cup {snap[c]} /\ UNCHANGED <<backend, bad, aside, removed, forgotten>>
      BY <2>1 DEF Saved
    <3>2. bad' \subseteq objects'
      BY <3>1 DEF RepoInv, TypeOK
    <3> QED
      BY <1>4, <2>1, <3>1, <3>2
  <2>2. ASSUME KeepRepo, Fault \/ NoFault, Return(c, "failed") PROVE RepoInv'
    BY <1>1, <2>2, QuietEnd DEF Results
  <2> QED
    BY <1>6, <2>1, <2>2 DEF SaveSnapshot
<1> QED
  BY <1>5, <1>6

\* The recovery.
LEMMA RecoverySteps ==
    ASSUME RepoInv, NEW c \in Clients,
           ListForCopy(c) \/ CopyRepository(c) \/ ListForDelete(c) \/ DeleteRepository(c)
    PROVE  RepoInv'
<1>1. pc[c] \in RecoveryPCs /\ Busy(c) /\ op[c] = "create" /\ backend = "s3" /\ result[c] \notin {"ok", "already_deleted"} /\ TypeOK
  BY DEF ListForCopy, CopyRepository, ListForDelete, DeleteRepository, Busy, RepoInv, CallsInv,
     Suits, RecoveryPCs
<1>2. \A d \in Clients \ {c} : pc[d] \notin RecoveryPCs \cup {"size", "save", "init", "forget", "get"}
  BY <1>1, Alone DEF LockedOps
<1>3. PICK to \in RecoveryPCs \cup {"init"} : Proceed(c, to)
  BY DEF ListForCopy, CopyRepository, ListForDelete, DeleteRepository, RecoveryPCs
<1>4. Moved(c) /\ pc'[c] = to /\ result'[c] = result[c]
  BY <1>1, <1>3, ProceedMoves DEF Moved, PCs, RecoveryPCs
<1>5. /\ UNCHANGED <<backend, op, snap, attempt, forgotten>> /\ (Fault \/ NoFault)
      /\ listed' \in [Clients -> SUBSET Objects] /\ \A d \in Clients \ {c} : listed'[d] = listed[d]
  <2>1. UNCHANGED <<backend, op, snap, attempt, forgotten>> /\ (Fault \/ NoFault)
    BY DEF ListForCopy, CopyRepository, ListForDelete, DeleteRepository, KeepRepo, repoVars,
       CopyS3Object, DeleteS3Object
  <2>2. \E S \in SUBSET Objects : listed' = [listed EXCEPT ![c] = S] \/ listed' = listed
    <3>1. ListS3Objects \in SUBSET Objects /\ \A o : listed[c] \ {o} \in SUBSET Objects
      BY <1>1 DEF TypeOK, ListS3Objects
    <3> QED
      BY <3>1 DEF ListForCopy, CopyRepository, ListForDelete, DeleteRepository
  <2> QED
    BY <1>1, <2>1, <2>2 DEF TypeOK
<1>6. faults' \in 0..MaxFaults /\ (faults' = 0 => faults = 0 /\ NoFault)
  <2>1. faults \in 0..MaxFaults /\ MaxFaults \in Nat
    BY <1>1, Bounds DEF TypeOK
  <2> QED
    BY <1>5, <2>1 DEF Fault, NoFault
<1>7. /\ objects' \subseteq objects /\ bad' = bad \cap objects' /\ aside \subseteq aside' /\ aside' \subseteq Objects
      /\ removed' = removed \cup ((objects \ objects') \cap Snapshots)
  <2>1. bad \subseteq objects /\ objects \subseteq Objects /\ aside \subseteq Objects
    BY <1>1 DEF TypeOK
  <2>2. CASE ListForCopy(c) \/ ListForDelete(c)
    BY <2>1, <2>2 DEF ListForCopy, ListForDelete, KeepRepo, repoVars
  <2>3. CASE CopyRepository(c)
    BY <2>1, <2>3 DEF CopyRepository, CopyS3Object
  <2>4. CASE DeleteRepository(c)
    BY <2>1, <2>4 DEF DeleteRepository, DeleteS3Object
  <2> QED
    BY <2>2, <2>3, <2>4
<1>8. TypeOK'
  BY <1>1, <1>4, <1>5, <1>6, <1>7 DEF TypeOK, Moved, Results, Handles
<1>9. Advances(c)
  BY <1>1, <1>4, <1>5, <1>6, <1>8 DEF Advances, Moved, Suits, RecoveryPCs
<1>10. SuccessInv'
  <2>1. ASSUME NEW d \in Clients, op[d] = "delete", snap[d] # NoSnapshot, Gone(pc'[d], result'[d])
        PROVE  snap[d] \notin objects'
    <3>1. d # c
      BY <1>1, <2>1
    <3> QED
      BY <1>4, <1>7, <2>1, <3>1 DEF RepoInv, SuccessInv, Moved
  <2>2. ASSUME NEW d \in Clients, op[d] = "create", pc'[d] \in {"get", "size"} \/ result'[d] = "ok"
        PROVE  snap[d] \in objects' \cup forgotten' \cup removed'
    <3>1. d # c
      BY <1>1, <1>4, <2>2 DEF RecoveryPCs
    <3>2. snap[d] \in objects \cup forgotten \cup removed
      BY <1>4, <2>2, <3>1 DEF RepoInv, SuccessInv, Moved
    <3>3. snap[d] \in Snapshots
      BY <1>4, <2>2, <3>1 DEF RepoInv, CallsInv, Moved
    <3> QED
      BY <1>5, <1>7, <3>2, <3>3
  <2> QED
    BY <1>5, <2>1, <2>2 DEF SuccessInv
<1>11. RecoversCorrupt'
  <2>1. \A d \in Clients \ {c} : pc'[d] \notin RecoveryPCs
    BY <1>2, <1>4 DEF Moved
  <2>2. pc'[c] \in {"copylist", "copy", "deletelist"} => pc[c] \in {"copylist", "copy", "deletelist"} /\ UNCHANGED objects
    BY <1>4, ProceedMoves DEF ListForCopy, CopyRepository, ListForDelete, DeleteRepository,
       KeepRepo, repoVars, Proceed, Step, RepoInv, TypeOK
  <2>3. pc'[c] \in {"copylist", "copy", "deletelist"} => bad' # {}
    BY <1>1, <1>7, <2>2 DEF RepoInv, RecoversCorrupt, TypeOK
  <2> QED
    BY <2>1, <2>3 DEF RecoversCorrupt, RecoveryPCs
<1>12. CopyInv'
  <2> SUFFICES ASSUME faults' = 0 PROVE CopyInv'
    BY DEF CopyInv
  <2>0. NoFault /\ ~Fault /\ faults = 0 /\ removed \subseteq aside
    BY <1>6 DEF RepoInv, CopyInv, Fault
  <2>1. \A d \in Clients \ {c} : pc'[d] \notin RecoveryPCs
    BY <1>2, <1>4 DEF Moved
  <2>2. ListForCopy(c) => pc'[c] = "copy" /\ removed' = removed /\ listed'[c] = ListS3Objects /\ ListS3Objects' = ListS3Objects
    <3> SUFFICES ASSUME ListForCopy(c) PROVE pc'[c] = "copy" /\ removed' = removed /\ listed'[c] = ListS3Objects /\ ListS3Objects' = ListS3Objects
      OBVIOUS
    <3>1. listed' = [listed EXCEPT ![c] = ListS3Objects] /\ Proceed(c, "copy") /\ UNCHANGED <<objects, removed>>
      BY <2>0 DEF ListForCopy, KeepRepo, repoVars
    <3>2. ListS3Objects' = ListS3Objects
      BY <3>1 DEF ListS3Objects
    <3>3. listed'[c] = ListS3Objects
      BY <1>1, <3>1 DEF TypeOK
    <3> QED
      BY <1>1, <3>1, <3>2, <3>3, ProceedMoves DEF PCs, RecoveryPCs
  <2>3. CASE ListForCopy(c)
    BY <1>7, <2>0, <2>1, <2>2, <2>3 DEF CopyInv, RecoveryPCs
  <2>4. CASE CopyRepository(c)
    <3>1. pc[c] = "copy" /\ UNCHANGED <<objects, removed>> /\ ListS3Objects \subseteq aside \cup listed[c]
      BY <2>0, <2>4 DEF CopyRepository, RepoInv, CopyInv
    <3>2. ListS3Objects' = ListS3Objects /\ ListS3Objects \subseteq objects
      BY <3>1 DEF ListS3Objects
    <3>3. CASE listed[c] = {}
      <4>1. Proceed(c, "deletelist") /\ UNCHANGED aside
        BY <2>4, <3>3 DEF CopyRepository
      <4>2. pc'[c] = "deletelist"
        BY <1>1, <4>1, ProceedMoves DEF PCs, RecoveryPCs
      <4> QED
        BY <2>0, <2>1, <3>1, <3>2, <3>3, <4>1, <4>2 DEF CopyInv, RecoveryPCs
    <3>4. CASE listed[c] # {}
      <4>1. PICK o \in listed[c] : listed' = [listed EXCEPT ![c] = @ \ {o}] /\ Proceed(c, "copy") /\ CopyS3Object(o)
        BY <2>4, <3>4 DEF CopyRepository
      <4>2. pc'[c] = "copy" /\ listed'[c] = listed[c] \ {o} /\ aside' = aside \cup ({o} \cap objects)
        BY <1>1, <2>0, <4>1, ProceedMoves DEF PCs, RecoveryPCs, TypeOK, CopyS3Object
      <4> QED
        BY <2>0, <2>1, <3>1, <3>2, <4>2 DEF CopyInv, RecoveryPCs
    <3> QED
      BY <3>3, <3>4
  <2>5. CASE ListForDelete(c)
    <3>1. pc[c] = "deletelist" /\ ListS3Objects \subseteq aside
      BY <2>0, <2>5 DEF ListForDelete, RepoInv, CopyInv
    <3>2. listed' = [listed EXCEPT ![c] = ListS3Objects] /\ Proceed(c, "remove") /\ UNCHANGED <<aside, removed>>
      BY <2>0, <2>5 DEF ListForDelete, KeepRepo, repoVars
    <3>3. listed'[c] = ListS3Objects /\ pc'[c] = "remove"
      BY <1>1, <3>2, ProceedMoves DEF PCs, RecoveryPCs, TypeOK
    <3> QED
      BY <2>0, <2>1, <3>1, <3>2, <3>3 DEF CopyInv, RecoveryPCs
  <2>6. CASE DeleteRepository(c)
    <3>1. pc[c] = "remove" /\ UNCHANGED aside /\ listed[c] \subseteq aside
      BY <2>0, <2>6 DEF DeleteRepository, RepoInv, CopyInv
    <3>2. CASE listed[c] = {}
      <4>1. Proceed(c, "init") /\ UNCHANGED removed
        BY <2>6, <3>2 DEF DeleteRepository
      <4>2. pc'[c] = "init"
        BY <1>1, <4>1, ProceedMoves DEF PCs, RecoveryPCs
      <4> QED
        BY <2>0, <2>1, <3>1, <4>1, <4>2 DEF CopyInv, RecoveryPCs
    <3>3. CASE listed[c] # {}
      <4>1. PICK o \in listed[c] : listed' = [listed EXCEPT ![c] = @ \ {o}] /\ Proceed(c, "remove") /\ DeleteS3Object(o)
        BY <2>6, <3>3 DEF DeleteRepository
      <4>2. pc'[c] = "remove" /\ listed'[c] = listed[c] \ {o} /\ removed' = removed \cup ({o} \cap objects \cap Snapshots)
        BY <1>1, <2>0, <4>1, ProceedMoves DEF PCs, RecoveryPCs, TypeOK, DeleteS3Object
      <4> QED
        BY <2>0, <2>1, <3>1, <4>2 DEF CopyInv, RecoveryPCs
    <3> QED
      BY <3>2, <3>3
  <2> QED
    BY <2>3, <2>4, <2>5, <2>6
<1> QED
  BY <1>8, <1>9, <1>10, <1>11, <1>12, ControlKept DEF RepoInv

\* A call starts; the snapshot of a create is new to everybody.
LEMMA BeginStep ==
    ASSUME RepoInv, NEW c \in Clients, Begin(c) PROVE RepoInv'
<1>1. /\ pc[c] = "idle" /\ Proceed(c, "open") /\ NoFault
      /\ UNCHANGED <<backend, objects, bad, aside, removed, forgotten, op, listed, attempt>>
      /\ (op[c] \in LockedOps => \A d \in Clients \ {c} : Busy(d) => op[d] \notin LockedOps)
  BY DEF Begin, KeepRepo, repoVars
<1>2. PICK s : /\ s \in CASE op[c] = "create" -> Fresh [] op[c] = "destroy" -> {NoSnapshot}
                        [] OTHER -> Snapshots \cup {NoSnapshot}
               /\ snap' = [snap EXCEPT ![c] = s]
  BY DEF Begin
<1>3. s \in Snapshots \cup {NoSnapshot} /\ (op[c] = "create" => s \in Snapshots /\ \A d \in Clients : snap[d] # s)
  BY <1>2 DEF Fresh
<1>4. TypeOK /\ Moved(c) /\ pc'[c] = "open" /\ result'[c] = result[c] /\ result[c] \notin {"ok", "already_deleted"} /\ faults' = faults
  BY <1>1, ProceedMoves DEF RepoInv, CallsInv, Moved, PCs, NoFault
<1>5. snap' \in [Clients -> Snapshots \cup {NoSnapshot}] /\ snap'[c] = s /\ \A d \in Clients \ {c} : snap'[d] = snap[d]
  BY <1>2, <1>3, <1>4 DEF TypeOK
<1>6. TypeOK'
  BY <1>1, <1>4, <1>5 DEF TypeOK, Moved, Results, Handles
<1>7. CallsInv'
  BY <1>1, <1>3, <1>4, <1>5 DEF RepoInv, CallsInv, Moved, Suits, RecoveryPCs
<1>8. MutexInv'
  <2> SUFFICES ASSUME NEW d \in Clients, NEW e \in Clients, d # e, op[d] \in LockedOps, op[e] \in LockedOps
               PROVE  ~(Busy(d)' /\ Busy(e)') /\ (op[d] = "create" /\ Busy(d)' => snap'[d] # snap'[e])
    BY <1>1 DEF MutexInv
  <2>1. CASE d # c /\ e # c
    BY <1>4, <1>5, <2>1 DEF RepoInv, MutexInv, Busy, Moved
  <2>2. CASE d = c
    BY <1>1, <1>3, <1>4, <1>5, <2>2 DEF Busy, Moved
  <2>3. CASE e = c
    BY <1>1, <1>3, <1>4, <1>5, <2>3 DEF Busy, Moved
  <2> QED
    BY <2>1, <2>2, <2>3
<1>9. SuccessInv'
  BY <1>1, <1>4, <1>5 DEF RepoInv, SuccessInv, Moved, Gone
<1>10. RecoversCorrupt'
  BY <1>1, <1>4 DEF RepoInv, RecoversCorrupt, Moved
<1>11. ListS3Objects' = ListS3Objects
  BY <1>1 DEF ListS3Objects
<1>12. CopyInv'
  BY <1>1, <1>4, <1>11 DEF RepoInv, CopyInv, Moved
<1> QED
  BY <1>6, <1>7, <1>8, <1>9, <1>10, <1>12 DEF RepoInv

LEMMA CorruptStep ==
    ASSUME RepoInv, Corrupt PROVE RepoInv'
<1>1. PICK S \in SUBSET objects : bad' = bad \cup S
  BY DEF Corrupt
<1>2. UNCHANGED <<backend, objects, aside, removed, forgotten, pc, op, snap, listed, attempt, handle, result, faults>>
  BY DEF Corrupt, clientVars
<1>4. TypeOK'
  BY <1>1, <1>2 DEF RepoInv, TypeOK
<1>5. CallsInv' /\ MutexInv' /\ SuccessInv'
  BY <1>2 DEF RepoInv, CallsInv, MutexInv, SuccessInv, Busy
<1>6. RecoversCorrupt'
  BY <1>1, <1>2 DEF RepoInv, RecoversCorrupt
<1>7. ListS3Objects' = ListS3Objects
  BY <1>2 DEF ListS3Objects
<1>8. CopyInv'
  BY <1>2, <1>7 DEF RepoInv, CopyInv
<1> QED
  BY <1>4, <1>5, <1>6, <1>8 DEF RepoInv

-----------------------------------------------------------------------------
(* The theorems.                                                            *)

LEMMA RepoInit == Init => RepoInv
<1> SUFFICES ASSUME Init PROVE RepoInv
  OBVIOUS
<1>1. faults \in 0..MaxFaults /\ 1 \in 1..MaxRetries
  BY Bounds DEF Init
<1>2. pc \in [Clients -> PCs] /\ snap \in [Clients -> Snapshots \cup {NoSnapshot}] /\ listed \in [Clients -> SUBSET Objects]
      /\ attempt \in [Clients -> 1..MaxRetries]
  BY <1>1 DEF Init, PCs
<1>3. TypeOK
  BY <1>1, <1>2 DEF Init, TypeOK, Objects
<1>4. CallsInv
  BY DEF Init, CallsInv, Suits, RecoveryPCs
<1>5. MutexInv /\ SuccessInv
  BY DEF Init, MutexInv, SuccessInv, Busy
<1>6. RecoversCorrupt /\ CopyInv
  BY DEF Init, RecoversCorrupt, CopyInv
<1> QED
  BY <1>3, <1>4, <1>5, <1>6 DEF RepoInv

LEMMA RepoStep == RepoInv /\ [Next]_vars => RepoInv'
<1> SUFFICES ASSUME RepoInv, [Next]_vars PROVE RepoInv'
  OBVIOUS
<1>1. CASE Next
  BY <1>1, CorruptStep, BeginStep, QuietSteps, CreateSteps, RecoverySteps, DeleteSteps, DestroySteps
     DEF Next, ClientStep
<1>2. CASE UNCHANGED vars
  <2>1. /\ UNCHANGED <<backend, objects, bad, aside, removed, forgotten, pc, op, snap, listed, attempt, handle, result>>
        /\ UNCHANGED faults
    BY <1>2 DEF vars, repoVars, clientVars
  <2>2. ListS3Objects' = ListS3Objects
    BY <2>1 DEF ListS3Objects
  <2>3. TypeOK' /\ CallsInv' /\ MutexInv' /\ SuccessInv' /\ RecoversCorrupt'
    BY <2>1 DEF RepoInv, TypeOK, CallsInv, MutexInv, SuccessInv, RecoversCorrupt, Busy
  <2>4. CopyInv'
    BY <2>1, <2>2 DEF RepoInv, CopyInv
  <2> QED
    BY <2>3, <2>4 DEF RepoInv
<1> QED
  BY <1>1, <1>2

\* A success that a delete or a create reports is one, after however many failed attempts and
\* whatever other calls, recoveries and corruptions meet it.
THEOREM ReportsAreTrue == Spec => []ReportsTrue
<1>1. RepoInv => ReportsTrue
  BY DEF RepoInv, SuccessInv, ReportsTrue, Gone
<1> QED
  BY <1>1, RepoInit, RepoStep, PTL DEF Spec

\* No step but a corruption makes a snapshot of a good repository unreadable.
LEMMA ConfigStep == RepoInv /\ [Next]_vars => [ConfigKept]_vars
<1> SUFFICES ASSUME RepoInv, Next, bad = {}, Config \in objects, ~Corrupt PROVE bad' = {}
  BY DEF ConfigKept
<1>2. PICK c \in Clients : Begin(c) \/ ClientStep(c)
  BY DEF Next
<1>3. CASE Begin(c)
  BY <1>3 DEF Begin, KeepRepo, repoVars
<1>4. CASE KeepRepo
  BY <1>4 DEF KeepRepo, repoVars
<1>5. CASE \E S : Forget(S)
  BY <1>5 DEF Forget
<1>6. ~RusticInit
  BY DEF RusticInit
<1>7. \A S : ForgetKilled(S) => KeepRepo \/ \E R : Forget(R)
  BY DEF ForgetKilled
<1>8. CASE InitializeFreshRepository(c) \/ InitLocalRepository(c)
  BY <1>4, <1>6, <1>8 DEF InitializeFreshRepository, InitLocalRepository, RusticInitFails
<1>9. CASE SaveSnapshot(c)
  BY <1>4, <1>9 DEF SaveSnapshot, Saved
<1>10. CASE CopyRepository(c) \/ DeleteRepository(c)
  BY <1>10 DEF CopyRepository, DeleteRepository, DeleteS3Object
<1>11. CASE DeleteSnapshotLocal(c) \/ DeleteSnapshotS3(c)
  BY <1>4, <1>5, <1>7, <1>11 DEF DeleteSnapshotLocal, DeleteSnapshotS3, AttemptSucceeds,
     AttemptFails, Outcomes
<1>12. CASE DestroyS3(c) \/ DestroyLocal(c)
  BY <1>4, <1>5, <1>7, <1>12 DEF DestroyS3, DestroyLocal, Outcomes
<1>13. CASE \/ NewRusticBackup(c) \/ InitializeS3(c) \/ InitializeLocal(c) \/ CreateSnapshotS3(c)
            \/ CreateSnapshotLocal(c) \/ GenerateDetails(c) \/ GetRepositorySize(c) \/ Close(c) \/ Finalize(c)
            \/ ListForCopy(c) \/ ListForDelete(c) \/ LocateSnapshot(c) \/ LocateForDownload(c)
            \/ RemoveNothing(c) \/ Restore(c) \/ DownloadTarGz(c)
  BY <1>4, <1>13 DEF NewRusticBackup, InitializeS3, InitializeLocal, CreateSnapshotS3,
     CreateSnapshotLocal,
       GenerateDetails, GetRepositorySize, Close, Finalize, ListForCopy, ListForDelete, LocateSnapshot,
       LocateForDownload, RemoveNothing, Restore, DownloadTarGz
<1> QED
  BY <1>2, <1>3, <1>8, <1>9, <1>10, <1>11, <1>12, <1>13 DEF ClientStep

\* The recovery only runs on a repository that is corrupt; without a failing request what it
\* deletes was copied aside, whatever S3 lists at once; and a config is never overwritten.
THEOREM SnapshotsAreSafe == Spec => SnapshotsSafe
<1>1. RepoInv => RecoversCorrupt /\ (faults = 0 => removed \subseteq aside)
  BY DEF RepoInv, CopyInv
<1> QED
  BY <1>1, RepoInit, RepoStep, ConfigStep, PTL DEF Spec, SnapshotsSafe
=============================================================================
