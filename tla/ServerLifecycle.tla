-------------------------- MODULE ServerLifecycle --------------------------
(***************************************************************************)
(* The life of one server on a node: creation, installation and            *)
(* reinstallation, synchronisation with the Panel, suspension, a restore,  *)
(* a start, and deletion, each a goroutine of its own. They share the      *)
(* suspended and installing flags, the power lock, the context of the      *)
(* server, and the two containers. The paths of a start that do not meet   *)
(* the others are in ServerPower.                                          *)
(***************************************************************************)
EXTENDS Naturals, FiniteSets

CONSTANTS
  Threads,        \* goroutines, one for each request
  MaxFaults,      \* bound: calls to Docker or the Panel that fail
  MaxStops        \* bound: stops of a suspended server that are pending at once

ASSUME LifecycleAssumption == IsFiniteSet(Threads) /\ {MaxFaults, MaxStops} \subseteq Nat

VARIABLES
  th,             \* the goroutines: op, pc, what Sync fetched, the result
  registered,     \* the server is in the manager's list
  cancelled,      \* the context of the server
  stopping,       \* how many goroutines stop the suspended server in the background
  suspended,      \* Configuration.Suspended
  panelSuspended, \* the Panel's record of it
  installing,     \* the flag of the installer
  lock,           \* the channel of the power lock
  mu,             \* the mutex of the power lock: "free", or "stuck" for good
  state,          \* the state of the environment
  container,      \* the container of the server
  installer,      \* the container of the installation
  leaked,         \* its removal failed, an error that is ignored
  overwritten,    \* the starts whose view of suspended was overwritten
  panicked,       \* "no", "handler" (recovered by gin) or "daemon"
  faults

flags == <<suspended, panelSuspended, installing, overwritten>>
locks == <<lock, mu, panicked>>
docker == <<state, container, installer, leaked>>
server == <<registered, cancelled, stopping>>
vars == <<th, flags, locks, docker, server, faults>>

Ops == {"create", "install", "reinstall", "sync", "restore", "start", "delete"}
Ended == [op |-> "none", pc |-> "ended", fetched |-> FALSE, good |-> TRUE]

\* A server that exists, or one whose creation is the first request.
Init ==
  /\ th = [t \in Threads |-> Ended]
  /\ registered = TRUE /\ cancelled = FALSE /\ stopping = 0
  /\ panelSuspended = FALSE /\ suspended = FALSE
  /\ installing = FALSE
  /\ lock = "open" /\ mu = "free"
  /\ container \in {"none", "down", "up"}
  /\ state = IF container = "up" THEN "running" ELSE "offline"
  /\ installer = "none" /\ leaked = FALSE
  /\ overwritten = {}
  /\ panicked = "no"
  /\ faults = 0

-----------------------------------------------------------------------------
At(t, pc) == th[t].pc = pc /\ panicked # "daemon"
Goto(t, pc) == th' = [th EXCEPT ![t].pc = pc]
End(t) == th' = [th EXCEPT ![t] = Ended]

\* A goroutine returns; a start that got that far releases the power lock,
\* which on a closed channel does nothing.
Return(t) ==
  /\ End(t)
  /\ IF th[t].op = "start" /\ th[t].pc \notin {"check", "acquire"}
     THEN /\ mu = "free"
          /\ lock' = IF lock = "held" THEN "open" ELSE lock
          /\ UNCHANGED <<mu, panicked>>
     ELSE UNCHANGED locks

\* A call to Docker or the Panel with the context of the server returns an
\* error once that is cancelled, and may fail before.
CallFails ==
  \/ cancelled /\ UNCHANGED faults
  \/ ~cancelled /\ faults < MaxFaults /\ faults' = faults + 1

\* A call with a context of its own.
OwnCallFails == faults < MaxFaults /\ faults' = faults + 1

\* ServerExists finds the server; each operation starts with its first step.
\* A start may come from a websocket, which does not look at the suspension.
FirstStep == [create |-> "environment", install |-> "fetch", reinstall |-> "stop",
              sync |-> "fetch", restore |-> "suspend", start |-> "check",
              delete |-> "suspend"]

Request(t, op) ==
  /\ At(t, "ended") /\ registered
  /\ th' = [th EXCEPT ![t] = [Ended EXCEPT !.op = op, !.pc = FirstStep[op]]]
  /\ overwritten' = overwritten \ {t}
  /\ UNCHANGED <<suspended, panelSuspended, installing, locks, docker, server, faults>>

\* postServerReinstall refuses while a power action runs.
RequestReinstall(t) ==
  /\ lock # "held" /\ mu = "free"
  /\ Request(t, "reinstall")

\* An administrator suspends the server or lifts the suspension.
PanelSuspends ==
  /\ panicked # "daemon"
  /\ panelSuspended' = ~panelSuspended
  /\ UNCHANGED <<th, suspended, installing, overwritten, locks, docker, server, faults>>

\* Whoever sets the flag to FALSE lets go a start that was to be refused.
SetSuspended(t, value) ==
  /\ suspended' = value
  /\ overwritten' = (IF value THEN overwritten ELSE
       overwritten \cup {u \in Threads \ {t} : th[u].op = "start" /\ th[u].pc = "suspended"})

-----------------------------------------------------------------------------
\* Sync: the configuration is fetched, and what was fetched is applied later.
SyncFetch(t) ==
  /\ At(t, "fetch")
  /\ \/ /\ ~cancelled
        /\ th' = [th EXCEPT ![t] = [@ EXCEPT !.pc = "apply", !.fetched = panelSuspended]]
        /\ UNCHANGED <<locks, faults>>
     \/ CallFails /\ Return(t)
  /\ UNCHANGED <<flags, docker, server>>

AfterSync == [sync |-> "ended", install |-> "script", reinstall |-> "script",
              start |-> "suspended"]

\* The configuration is replaced; a suspended server that runs is stopped, by
\* a goroutine in the background, whoever asked for the Sync.
SyncApply(t) ==
  /\ At(t, "apply")
  /\ SetSuspended(t, th[t].fetched)
  /\ IF th[t].fetched /\ state # "offline"
     THEN stopping < MaxStops /\ stopping' = stopping + 1 ELSE UNCHANGED stopping
  /\ IF th[t].op # "sync" THEN Goto(t, AfterSync[th[t].op]) ELSE End(t)
  /\ UNCHANGED <<panelSuspended, installing, locks, docker, registered, cancelled, faults>>

\* WaitForStop leaves the server down, unless it fails.
Stopped ==
  /\ container' = IF container = "up" THEN "down" ELSE container
  /\ state' = "offline"
  /\ UNCHANGED <<installer, leaked>>

StopSuspended ==
  /\ stopping > 0 /\ panicked # "daemon"
  /\ stopping' = stopping - 1
  /\ \/ ~cancelled /\ Stopped /\ UNCHANGED faults
     \/ CallFails /\ UNCHANGED docker
  /\ UNCHANGED <<th, flags, locks, registered, cancelled>>

\* Reinstall stops the server before it fetches the configuration.
ReinstallStop(t) ==
  /\ At(t, "stop")
  /\ \/ (state = "offline" \/ ~cancelled) /\ Stopped /\ Goto(t, "fetch") /\ UNCHANGED faults
     \/ state # "offline" /\ CallFails /\ End(t) /\ UNCHANGED docker
  /\ UNCHANGED <<flags, locks, server>>

-----------------------------------------------------------------------------
\* CreateEnvironment of a new server, whose calls have a context of their own.
CreateEnvironment(t) ==
  /\ At(t, "environment")
  /\ \/ /\ container' = IF container = "none" THEN "down" ELSE container
        /\ Goto(t, "script") /\ UNCHANGED <<state, installer, leaked, faults>>
     \/ OwnCallFails /\ End(t) /\ UNCHANGED docker
  /\ UNCHANGED <<flags, locks, server>>

\* install: the egg may have no script to run.
GetInstallationScript(t) ==
  /\ At(t, "script")
  /\ \/ Goto(t, "notify") /\ UNCHANGED faults
     \/ ~cancelled /\ Goto(t, "swap") /\ UNCHANGED faults
     \/ CallFails /\ th' = [th EXCEPT ![t] = [@ EXCEPT !.pc = "notify", !.good = FALSE]]
  /\ UNCHANGED <<flags, locks, docker, server>>

\* Faulty variant of SwapInstalling:
\* The flag is set whatever it was.
StoreInstalling(t) ==
  /\ At(t, "swap")
  /\ installing' = TRUE
  /\ Goto(t, "before")
  /\ UNCHANGED <<suspended, panelSuspended, overwritten, locks, docker, server, faults>>

\* InstallationProcess.Run takes the flag, or fails if another one has it.
SwapInstalling(t) ==
  /\ At(t, "swap")
  /\ IF installing
     THEN th' = [th EXCEPT ![t] = [@ EXCEPT !.pc = "notify", !.good = FALSE]] /\ UNCHANGED installing
     ELSE Goto(t, "before") /\ installing' = TRUE
  /\ UNCHANGED <<suspended, panelSuspended, overwritten, locks, docker, server, faults>>

\* The deferred release of the flag.
EndInstall(t, good) ==
  /\ installing' = FALSE
  /\ th' = [th EXCEPT ![t] = [@ EXCEPT !.pc = "notify", !.good = good]]
  /\ UNCHANGED <<suspended, panelSuspended, overwritten>>

\* BeforeExecute: script, image, and the container of an earlier installation.
BeforeExecute(t) ==
  /\ At(t, "before")
  /\ \/ /\ ~cancelled
        /\ installer' = "none" /\ leaked' = FALSE /\ Goto(t, "execute")
        /\ UNCHANGED <<flags, state, container, faults>>
     \/ CallFails /\ EndInstall(t, FALSE) /\ UNCHANGED docker
  /\ UNCHANGED <<locks, server>>

\* Execute creates and starts the container; if that fails, Run removes what
\* was created.
ExecuteStart(t) ==
  /\ At(t, "execute")
  /\ \/ /\ ~cancelled /\ installer = "none"
        /\ installer' = "running" /\ Goto(t, "wait")
        /\ UNCHANGED <<faults, state, container, leaked>>
     \/ /\ CallFails
        /\ installer' \in {installer, "created"}
        /\ Goto(t, "remove_failed")
        /\ UNCHANGED <<state, container, leaked>>
  /\ UNCHANGED <<flags, locks, server>>

\* The script ends, in its own time.
InstallerExits ==
  /\ installer = "running" /\ panicked # "daemon"
  /\ installer' = "exited"
  /\ UNCHANGED <<th, flags, locks, state, container, leaked, server, faults>>

\* Faulty variant of ExecuteWait:
\* The wait does not look at the context.
WaitForScript(t) ==
  /\ At(t, "wait")
  /\ installer # "running" /\ Goto(t, "after") /\ UNCHANGED faults
  /\ UNCHANGED <<flags, locks, docker, server>>

\* ContainerWait: the script ended, or the context of the server did.
ExecuteWait(t) ==
  /\ At(t, "wait")
  /\ \/ installer # "running" /\ Goto(t, "after") /\ UNCHANGED faults
     \/ CallFails /\ Goto(t, "remove_failed")
  /\ UNCHANGED <<flags, locks, docker, server>>

\* RemoveContainer of a failed Run, or deferred by AfterExecute: its error is
\* ignored, and with a cancelled context it does nothing.
RemoveContainer(t) ==
  /\ At(t, "after") \/ At(t, "remove_failed")
  /\ \/ ~cancelled /\ installer' = "none" /\ UNCHANGED <<leaked, faults>>
     \/ CallFails /\ leaked' = TRUE /\ UNCHANGED installer
  /\ UNCHANGED <<state, container>>
  /\ EndInstall(t, th[t].pc = "after")
  /\ UNCHANGED <<locks, server>>

\* SyncInstallState, whose error is only logged; then the state is set to
\* offline, and a server that was just created may be started.
SyncInstallState(t) ==
  /\ At(t, "notify")
  /\ (~cancelled /\ UNCHANGED faults) \/ CallFails
  /\ state' = "offline"
  /\ \/ End(t)
     \/ th[t].op = "create" /\ th[t].good /\ th' = [th EXCEPT ![t] = [@ EXCEPT !.op = "start", !.pc = "check"]]
  /\ UNCHANGED <<flags, locks, container, installer, leaked, server>>

-----------------------------------------------------------------------------
\* HandlePowerAction of a start: the flags, then the lock, whose channel may
\* have been closed: a send on it panics, and nobody recovers the goroutine.
StartCheck(t) ==
  /\ At(t, "check")
  /\ IF installing THEN End(t) ELSE Goto(t, "acquire")
  /\ UNCHANGED <<flags, locks, docker, server, faults>>

Acquire(t) ==
  /\ At(t, "acquire") /\ mu = "free"
  /\ \/ lock = "open" /\ lock' = "held" /\ Goto(t, "state") /\ UNCHANGED panicked
     \/ lock = "held" /\ End(t) /\ UNCHANGED <<lock, panicked>>
     \/ lock = "closed" /\ panicked' = "daemon" /\ UNCHANGED <<th, lock>>
  /\ UNCHANGED <<mu, flags, docker, server, faults>>

StartState(t) ==
  /\ At(t, "state")
  /\ IF state # "offline" THEN Return(t) ELSE Goto(t, "fetch") /\ UNCHANGED locks
  /\ UNCHANGED <<flags, docker, server, faults>>

\* Faulty variant of StartUnlessSuspended:
\* A suspended server is started.
StartSuspended(t) ==
  /\ At(t, "suspended")
  /\ Goto(t, "recreate") /\ UNCHANGED locks
  /\ UNCHANGED <<flags, docker, server, faults>>

\* onBeforeStart: the flag is read after the synchronisation.
StartUnlessSuspended(t) ==
  /\ At(t, "suspended")
  /\ IF suspended THEN Return(t) ELSE Goto(t, "recreate") /\ UNCHANGED locks
  /\ UNCHANGED <<flags, docker, server, faults>>

\* Environment.Start removes the old container, with the server's context.
RemoveOld(t) ==
  /\ At(t, "recreate")
  /\ \/ /\ ~cancelled
        /\ container' = "none" /\ state' = "starting" /\ Goto(t, "build")
        /\ UNCHANGED <<installer, leaked, locks, faults>>
     \/ CallFails /\ Return(t) /\ state' = "offline" /\ UNCHANGED <<container, installer, leaked>>
  /\ UNCHANGED <<flags, server>>

\* Environment.Create has a context of its own.
CreateContainer(t) ==
  /\ At(t, "build")
  /\ \/ container' = "down" /\ Goto(t, "boot") /\ UNCHANGED <<state, installer, leaked, locks, faults>>
     \/ OwnCallFails /\ Return(t) /\ state' = "offline" /\ UNCHANGED <<container, installer, leaked>>
  /\ UNCHANGED <<flags, server>>

\* Faulty variant of Boot:
\* The container is started with a context of its own.
BootAnyway(t) ==
  /\ At(t, "boot")
  /\ \/ /\ container # "none" /\ container' = "up" /\ state' = "running"
        /\ Return(t) /\ UNCHANGED <<installer, leaked, faults>>
     \/ CallFails /\ Return(t) /\ state' = "offline" /\ UNCHANGED <<container, installer, leaked>>
  /\ UNCHANGED <<flags, server>>

\* The container is started, with the server's context.
Boot(t) ==
  /\ At(t, "boot")
  /\ \/ /\ ~cancelled /\ container # "none"
        /\ container' = "up" /\ state' = "running"
        /\ Return(t) /\ UNCHANGED <<installer, leaked, faults>>
     \/ /\ CallFails \/ (container = "none" /\ UNCHANGED faults)
        /\ Return(t) /\ state' = "offline" /\ UNCHANGED <<container, installer, leaked>>
  /\ UNCHANGED <<flags, server>>

\* The server's process ends, which Docker tells the environment.
ContainerExits ==
  /\ container = "up" /\ panicked # "daemon"
  /\ container' = "down" /\ state' = "offline"
  /\ UNCHANGED <<th, flags, locks, installer, leaked, server, faults>>

-----------------------------------------------------------------------------
\* RestoreBackup: suspended, stop the server, write the files; the deferred
\* call lifts the suspension whoever set it.
RestoreBegin(t) ==
  /\ At(t, "suspend") /\ th[t].op = "restore"
  /\ SetSuspended(t, TRUE)
  /\ Goto(t, "restore_stop")
  /\ UNCHANGED <<panelSuspended, installing, locks, docker, server, faults>>

RestoreStop(t) ==
  /\ At(t, "restore_stop")
  /\ \/ /\ state = "offline" \/ ~cancelled
        /\ Stopped /\ Goto(t, "restore_write") /\ UNCHANGED faults
     \/ state # "offline" /\ CallFails /\ Goto(t, "restore_end") /\ UNCHANGED docker
  /\ UNCHANGED <<flags, locks, server>>

RestoreWrite(t) ==
  /\ At(t, "restore_write")
  /\ Goto(t, "restore_end")
  /\ UNCHANGED <<flags, locks, docker, server, faults>>

RestoreEnd(t) ==
  /\ At(t, "restore_end")
  /\ SetSuspended(t, FALSE)
  /\ End(t)
  /\ UNCHANGED <<panelSuspended, installing, locks, docker, server, faults>>

-----------------------------------------------------------------------------
\* deleteServer: the server is suspended, its context cancelled, its lock
\* destroyed, its container removed, and it leaves the manager. Its files and
\* repositories are removed in the background, and nothing here reads them.
DeleteSuspend(t) ==
  /\ At(t, "suspend") /\ th[t].op = "delete"
  /\ SetSuspended(t, TRUE)
  /\ Goto(t, "cancel")
  /\ UNCHANGED <<panelSuspended, installing, locks, docker, server, faults>>

CtxCancel(t) ==
  /\ At(t, "cancel")
  /\ cancelled' = TRUE
  /\ Goto(t, "lock")
  /\ UNCHANGED <<registered, stopping, flags, locks, docker, faults>>

\* Locker.Destroy closes the channel. Closing it again panics with the mutex
\* locked; gin recovers the handler, and the mutex stays locked.
DestroyLock(t) ==
  /\ At(t, "lock") /\ mu = "free"
  /\ \/ /\ lock # "closed" /\ lock' = "closed"
        /\ Goto(t, "destroy") /\ UNCHANGED <<mu, panicked>>
     \/ /\ lock = "closed" /\ mu' = "stuck" /\ panicked' = "handler"
        /\ End(t) /\ UNCHANGED lock
  /\ UNCHANGED <<flags, docker, server, faults>>

\* Environment.Destroy removes the container, also one that runs; if that
\* fails the handler returns, with the server still registered.
DestroyEnvironment(t) ==
  /\ At(t, "destroy")
  /\ state' = "offline"
  /\ \/ container' = "none" /\ Goto(t, "remove") /\ UNCHANGED faults
     \/ OwnCallFails /\ End(t) /\ UNCHANGED container
  /\ UNCHANGED <<installer, leaked, flags, locks, server>>

RemoveServer(t) ==
  /\ At(t, "remove")
  /\ registered' = FALSE
  /\ End(t)
  /\ UNCHANGED <<cancelled, stopping, flags, locks, docker, faults>>

-----------------------------------------------------------------------------
Step(t) ==
  \/ SyncFetch(t) \/ SyncApply(t) \/ ReinstallStop(t)
  \/ CreateEnvironment(t) \/ GetInstallationScript(t) \/ SwapInstalling(t) \/ BeforeExecute(t)
  \/ ExecuteStart(t) \/ ExecuteWait(t) \/ RemoveContainer(t) \/ SyncInstallState(t)
  \/ StartCheck(t) \/ Acquire(t) \/ StartState(t) \/ StartUnlessSuspended(t)
  \/ RemoveOld(t) \/ CreateContainer(t) \/ Boot(t)
  \/ RestoreBegin(t) \/ RestoreStop(t) \/ RestoreWrite(t) \/ RestoreEnd(t)
  \/ DeleteSuspend(t) \/ CtxCancel(t) \/ DestroyLock(t) \/ DestroyEnvironment(t)
  \/ RemoveServer(t)

Next ==
  \/ \E t \in Threads : \/ Step(t) \/ RequestReinstall(t)
                        \/ \E op \in Ops \ {"reinstall"} : Request(t, op)
  \/ StopSuspended \/ PanelSuspends \/ InstallerExits \/ ContainerExits

\* Goroutines are scheduled; requests, the Panel, the script of the installer
\* and the server's process do as they like.
Spec == Init /\ [][Next]_vars /\ WF_vars(StopSuspended) /\ \A t \in Threads : WF_vars(Step(t))

-----------------------------------------------------------------------------
TypeOK ==
  /\ \A t \in Threads :
       /\ th[t].op \in Ops \cup {"none"}
       /\ th[t].op = "none" <=> th[t].pc = "ended"
  /\ {registered, cancelled, suspended, panelSuspended, installing, leaked} \subseteq BOOLEAN
  /\ lock \in {"open", "held", "closed"} /\ mu \in {"free", "stuck"}
  /\ state \in {"offline", "starting", "running"} /\ container \in {"none", "down", "up"}
  /\ installer \in {"none", "created", "running", "exited"}
  /\ overwritten \subseteq Threads /\ stopping \in 0..MaxStops /\ panicked \in {"no", "handler", "daemon"}
  /\ faults \in 0..MaxFaults

Installing(t) == th[t].pc \in {"before", "execute", "wait", "after", "remove_failed"}

\* The installing flag, which keeps a server from being started, is set exactly while
\* one installation runs, also when a second one was turned away or the first failed
\* anywhere on its way; and the container of an installation runs only for a goroutine
\* that waits for it or is about to remove it, so that the files are not written behind
\* the daemon's back, unless the removal failed, which it always does when the server
\* was deleted, since it needs the context that is cancelled.
InstallExclusive ==
  /\ Cardinality({t \in Threads : Installing(t)}) = (IF installing THEN 1 ELSE 0)
  /\ installer = "running" =>
       leaked \/ \E t \in Threads : th[t].pc \in {"wait", "remove_failed"}

\* A server that was deleted does not run: the context is cancelled before
\* the container is destroyed, so a start that is under way cannot boot it
\* again, wherever it was.
NoBootAfterDelete == ~registered => container # "up"

\* A start that was told by the Panel that the server is suspended goes on
\* only if another synchronisation or a restore overwrote the flag in the
\* moment before it was read.
SuspendedRefused ==
  \A t \in Threads :
    th[t].op = "start" /\ th[t].pc \in {"recreate", "build", "boot"} /\ th[t].fetched
      => t \in overwritten

\* Deleting a server ends its installation, whatever the script does.
DeleteEndsInstall == cancelled ~> (~installing \/ panicked = "daemon")

\* A start that is asked for while the server is being deleted is refused; in
\* the code it may meet the closed channel of the power lock, and the panic
\* of its goroutine ends the daemon and all its servers' supervision.
NoSendOnClosed == panicked # "daemon"
=============================================================================
