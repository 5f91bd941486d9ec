---------------------------- MODULE ServerPower ----------------------------
(***************************************************************************)
(* One game server of the daemon: the power lock (system/locker.go), the   *)
(* power actions (server/power.go), the Docker environment they drive      *)
(* (environment/docker), the listeners that react to the environment's     *)
(* state events (server/listeners.go, server/server.go) and the crash      *)
(* handler (server/crash.go).                                              *)
(*                                                                         *)
(* Every goroutine is a thread with a program counter; a step is the code  *)
(* between two points at which another goroutine can be observed: a Docker *)
(* call, a SetState, a lock operation or a read of shared state.  Docker   *)
(* itself is external and is modelled from the calls the code makes.       *)
(***************************************************************************)
EXTENDS Naturals, FiniteSets

CONSTANTS
    Reqs,            \* requests: API calls, websocket messages, background stops
    Handlers,        \* goroutines handling state events (bound on how many at once)
    Readers,         \* console reader goroutines (bound on how many at once)
    Actions,         \* what the requests may ask for
    StopTypes,       \* stop configurations the Panel may have sent for the egg
    Found,           \* containers the daemon may find when it starts
    EventBuffer,     \* capacity of the listener's channel; 8 in the code
    CrashDetection,  \* the server's CrashDetectionEnabled
    DetectCleanExit  \* the node's DetectCleanExitAsCrash

ASSUME ThreadsDisjoint == Reqs \cap Handlers = {}
ASSUME BufferAssumption == EventBuffer \in Nat \ {0}
ASSUME FlagAssumption == CrashDetection \in BOOLEAN /\ DetectCleanExit \in BOOLEAN

VARIABLES
    envState,     \* Environment.st
    resState,     \* Server.resources.State, the status the daemon reports
    events,       \* state events published and not yet handled
    container,    \* Docker's view of the container
    stream,       \* Environment.stream
    reader,       \* the goroutine Attach starts, one per attached stream
    console,      \* onConsoleOutput has matched a line, its SetState is due
    lock,         \* the number of values in the channel of powerLock
    held,         \* the threads that have a deferred Release
    busy,         \* which of the installing, transferring, restoring flags are set
    lastCrash,    \* "recent" while the last crash is less than the timeout ago
    pc,           \* where each thread is
    action,       \* what a request or crash handler was called for
    waits,        \* the requests that wait for the lock for some seconds
    via,          \* SignalContainer was called by Stop or by Terminate
    prev, seen    \* locals of OnStateChange

envVars == <<envState, events>>
dockerVars == <<container, stream, reader>>
taskVars == <<lock, held, action, waits, via>>
serverVars == <<resState, console, lastCrash>>
localVars == <<prev, seen>>
vars == <<envVars, dockerVars, serverVars, busy, pc, taskVars, localVars>>

Threads == Reqs \cup Handlers
PowerActions == {"start", "stop", "restart", "kill"}
\* "background" is a WaitForStop outside HandlePowerAction: the disk space
\* limiter and the stop of a suspended server.
AllActions == PowerActions \cup {"background", "transfer"}
ASSUME ActionsAssumption == Actions \subseteq AllActions

Containers == {"absent", "created", "exited", "failed", "running"}
ASSUME FoundAssumption == Found \subseteq Containers

States == {"offline", "starting", "running", "stopping"}
Online == {"starting", "running"}
Flags == {"installing", "transferring", "restoring"}
\* A container whose process has ended, with exit code 0 or with another one,
Exited == {"exited", "failed"}
\* and one that exists and does not run.
Down == Exited \cup {"created"}

\* Where a thread is inside Environment.Start or the checks that lead to it.
StartPCs == {"startCheck", "preboot", "inspect", "markRunning", "attachRunning",
             "markStarting", "remove", "create", "attach", "boot",
             "failStopping", "failOffline"}
\* Where it is inside Environment.WaitForStop.
WaitPCs == {"stopMark", "stopSend", "stopNative", "await"}
\* Where it is inside SignalContainer and Terminate.
SignalPCs == {"sigInspect", "sigDead", "sigDeadOffline", "sigStopping", "sigKill",
              "termOffline"}
TransferPCs == {"transferCheck", "transferSet", "archive"}
HandlerPCs == {"idle", "loadPrev", "loadState", "storeState", "detect",
               "crash", "crashExit", "crashTime", "crashSet"}
PCs == StartPCs \cup WaitPCs \cup SignalPCs \cup TransferPCs \cup HandlerPCs
         \cup {"new", "flags", "lock", "done"}

EnvOK == envState \in States /\ events \in 0..EventBuffer
DockerOK ==
    /\ container \in Containers
    /\ stream \in {"nil", "open"}
    /\ reader \in [Readers -> {"idle", "live", "eof", "closing"}]
ServerOK ==
    /\ resState \in States
    /\ console \in {"idle", "matched", "echoed"} /\ lastCrash \in {"old", "recent"} /\ busy \subseteq Flags
TaskOK ==
    /\ pc \in [Threads -> PCs]
    /\ lock \in {0, 1} /\ held \subseteq Threads
    /\ action \in [Threads -> AllActions]
    /\ waits \subseteq Threads
    /\ via \in [Threads -> {"stop", "term"}]
LocalOK == prev \in [Threads -> States] /\ seen \in [Threads -> States]

\* The values of the variables.
TypeOK == EnvOK /\ DockerOK /\ ServerOK /\ TaskOK /\ LocalOK

\* How the daemon's start leaves a server before requests are served: offline, if
\* its container is down or could not be inspected, or marked as running because
\* its container is, with the stream attached unless the attach has failed.  The
\* event of that SetState is not handled yet.
Bootstrapped ==
    \/ /\ envState = "offline" /\ events = 0
       /\ container \in Found
       /\ stream = "nil" /\ reader = [r \in Readers |-> "idle"]
    \/ /\ envState = "running" /\ events = 1
       /\ container = "running" /\ "running" \in Found
       /\ \/ stream = "nil" /\ reader = [r \in Readers |-> "idle"]
          \/ /\ stream = "open"
             /\ \E s \in Readers : reader = [r \in Readers |-> IF r = s THEN "live" ELSE "idle"]

Init ==
    /\ Bootstrapped
    /\ resState = "offline"
    /\ console = "idle"
    /\ lock = 0 /\ held = {}
    /\ busy = {}
    /\ lastCrash = "old"
    /\ pc = [t \in Threads |-> IF t \in Reqs THEN "new" ELSE "idle"]
    /\ action = [t \in Threads |-> "start"]
    /\ waits = {}
    /\ via = [t \in Threads |-> "stop"]
    /\ prev = [t \in Threads |-> "offline"]
    /\ seen = [t \in Threads |-> "offline"]

-----------------------------------------------------------------------------
(* Shared helpers.                                                         *)

Goto(t, l) == pc' = [pc EXCEPT ![t] = l]

Continue(t, l) == Goto(t, l) /\ UNCHANGED taskVars

\* Faulty variant of Publish: nothing makes room on a full channel.
PublishUnbounded == events' = events + 1

\* Publishing on a full channel drops the oldest event to make room.
Publish == events' = IF events < EventBuffer THEN events + 1 ELSE events

\* Environment.SetState: a state that is already set publishes nothing.
SetState(s) ==
    IF envState = s
    THEN UNCHANGED envVars
    ELSE envState' = s /\ Publish

\* The streams of a container end when its process does or it is removed.
EndStreams(rd) == [r \in Readers |-> IF rd[r] = "live" THEN "eof" ELSE rd[r]]

\* Faulty variant of Finish: Release is deferred before the lock is acquired, so a
\* thread that never got the lock drains the channel too.
FinishAlwaysReleases(t) ==
    /\ Goto(t, IF t \in Reqs THEN "done" ELSE "idle")
    /\ lock' = 0
    /\ held' = held \ {t}
    /\ action' = [action EXCEPT ![t] = "start"]
    /\ waits' = waits \ {t}
    /\ via' = [via EXCEPT ![t] = "stop"]

\* The thread returns: a deferred Release drains the lock's channel.
Finish(t) ==
    /\ Goto(t, IF t \in Reqs THEN "done" ELSE "idle")
    /\ lock' = IF t \in held THEN 0 ELSE lock
    /\ held' = held \ {t}
    /\ action' = [action EXCEPT ![t] = "start"]
    /\ waits' = waits \ {t}
    /\ via' = [via EXCEPT ![t] = "stop"]

Working(t) == pc[t] \notin {"new", "idle", "done"}

-----------------------------------------------------------------------------
(* server/power.go: HandlePowerAction.                                     *)

\* A request arrives.  Only power actions take a number of seconds to wait.
Request(t) ==
    /\ pc[t] = "new"
    /\ \E a \in Actions, w \in {{}, {t}} :
         /\ w # {} => a \in PowerActions \ {"kill"}
         /\ action' = [action EXCEPT ![t] = a]
         /\ waits' = waits \cup w
         /\ Goto(t, CASE a = "background" -> "stopMark"
                      [] a = "transfer" -> "transferCheck"
                      [] OTHER -> "flags")
    /\ UNCHANGED <<envVars, dockerVars, serverVars, busy, lock, held, via, localVars>>

\* The installing, transferring and restoring flags are read before the lock.
CheckFlags(t) ==
    /\ pc[t] = "flags"
    /\ IF busy # {} THEN Finish(t) ELSE Continue(t, "lock")
    /\ UNCHANGED <<envVars, dockerVars, serverVars, busy, localVars>>

\* The switch on the action once the lock step is over.
Dispatch(t) ==
    /\ Goto(t, CASE action[t] = "start" -> "startCheck"
                 [] action[t] = "kill" -> "sigInspect"
                 [] OTHER -> "stopMark")
    /\ via' = [via EXCEPT ![t] = IF action[t] = "kill" THEN "term" ELSE "stop"]

\* Locker.Acquire, and Locker.TryAcquire when it gets the lock.
Acquire(t) ==
    /\ pc[t] = "lock" /\ lock = 0
    /\ lock' = 1
    /\ held' = held \cup {t}
    /\ waits' = waits \ {t}
    /\ Dispatch(t)
    /\ UNCHANGED <<envVars, dockerVars, serverVars, busy, action, localVars>>

\* The lock is taken and the request does not wait for it.
AcquireFails(t) ==
    /\ pc[t] = "lock" /\ lock = 1 /\ t \notin waits /\ action[t] # "kill"
    /\ Finish(t)
    /\ UNCHANGED <<envVars, dockerVars, serverVars, busy, localVars>>

\* Faulty variant of TryAcquireTimeout: the error of TryAcquire is ignored.
TimeoutProceeds(t) ==
    /\ pc[t] = "lock" /\ t \in waits
    /\ Dispatch(t)
    /\ UNCHANGED <<envVars, dockerVars, serverVars, busy, lock, held, action, waits, localVars>>

\* The deadline of a waiting TryAcquire passes.
TryAcquireTimeout(t) ==
    /\ pc[t] = "lock" /\ t \in waits
    /\ Finish(t)
    /\ UNCHANGED <<envVars, dockerVars, serverVars, busy, localVars>>

\* Faulty variants of KillWithoutLock: the kill defers a Release all the same,
KillDefersRelease(t) ==
    /\ pc[t] = "lock" /\ lock = 1 /\ action[t] = "kill"
    /\ held' = held \cup {t}
    /\ Dispatch(t)
    /\ UNCHANGED <<envVars, dockerVars, serverVars, busy, lock, action, waits, localVars>>

\* Faulty variant of KillWithoutLock:
\* or it only goes on once the lock is free.
KillNeedsFreeLock(t) ==
    /\ pc[t] = "lock" /\ lock = 0 /\ action[t] = "kill"
    /\ Dispatch(t)
    /\ UNCHANGED <<envVars, dockerVars, serverVars, busy, lock, held, action, waits, localVars>>

\* A kill ignores a taken lock, and then has nothing to release.
KillWithoutLock(t) ==
    /\ pc[t] = "lock" /\ lock = 1 /\ action[t] = "kill"
    /\ Dispatch(t)
    /\ UNCHANGED <<envVars, dockerVars, serverVars, busy, lock, held, action, waits, localVars>>

\* PowerActionStart refuses a server that is not offline.
StartCheck(t) ==
    /\ pc[t] = "startCheck"
    /\ IF envState # "offline" THEN Finish(t)
       ELSE Continue(t, "preboot")
    /\ UNCHANGED <<envVars, dockerVars, serverVars, busy, localVars>>

\* onBeforeStart: the sync with the Panel, the suspension check, the disk space
\* check and the chown may each end the action with an error.
OnBeforeStart(t) ==
    /\ pc[t] = "preboot"
    /\ \/ Continue(t, "inspect")
       \/ Finish(t)
    /\ UNCHANGED <<envVars, dockerVars, serverVars, busy, localVars>>

-----------------------------------------------------------------------------
(* environment/docker/power.go: Start.                                     *)

StartInspect(t) ==
    /\ pc[t] = "inspect"
    /\ \/ Continue(t, IF container = "running" THEN "markRunning" ELSE "markStarting")
       \/ Finish(t)       \* inspect or the truncation of the log fails
    /\ UNCHANGED <<envVars, dockerVars, serverVars, busy, localVars>>

StartMarkRunning(t) ==
    /\ pc[t] = "markRunning"
    /\ SetState("running")
    /\ Goto(t, "attachRunning")
    /\ UNCHANGED <<dockerVars, serverVars, busy, taskVars, localVars>>

StartMarkStarting(t) ==
    /\ pc[t] = "markStarting"
    /\ SetState("starting")
    /\ Goto(t, "remove")
    /\ UNCHANGED <<dockerVars, serverVars, busy, taskVars, localVars>>

\* OnBeforeStart of the environment removes the old container, without force,
\* so a running one is an error.
RemoveContainer(t) ==
    /\ pc[t] = "remove"
    /\ \/ /\ container # "running"
          /\ container' = "absent"
          /\ reader' = EndStreams(reader)
          /\ Goto(t, "create")
       \/ /\ Goto(t, "failStopping")
          /\ UNCHANGED <<container, reader>>
    /\ UNCHANGED <<envVars, stream, serverVars, busy, taskVars, localVars>>

\* Create: an existing container is left alone.
CreateContainer(t) ==
    /\ pc[t] = "create"
    /\ \/ /\ container' = IF container = "absent" THEN "created" ELSE container
          /\ Goto(t, "attach")
       \/ /\ Goto(t, "failStopping")
          /\ UNCHANGED container
    /\ UNCHANGED <<envVars, stream, reader, serverVars, busy, taskVars, localVars>>

\* Attach: does nothing when a stream is set, else opens one and starts a reader.
AttachStream ==
    IF stream = "open"
    THEN UNCHANGED <<stream, reader>>
    ELSE /\ container # "absent"
         /\ \E r \in Readers :
              /\ reader[r] = "idle"
              /\ reader' = [reader EXCEPT ![r] =
                              IF container \in Exited THEN "eof" ELSE "live"]
         /\ stream' = "open"

\* The end of Start for a container that was running already.
AttachRunning(t) ==
    /\ pc[t] = "attachRunning"
    /\ AttachStream \/ UNCHANGED <<stream, reader>>
    /\ Finish(t)
    /\ UNCHANGED <<envVars, container, serverVars, busy, localVars>>

Attach(t) ==
    /\ pc[t] = "attach"
    /\ \/ AttachStream /\ Goto(t, "boot")
       \/ stream = "nil" /\ Goto(t, "failStopping") /\ UNCHANGED <<stream, reader>>
    /\ UNCHANGED <<envVars, container, serverVars, busy, taskVars, localVars>>

\* ContainerStart; starting a container that runs already is not an error.
Boot(t) ==
    /\ pc[t] = "boot"
    /\ \/ /\ container # "absent"
          /\ container' = "running"
          /\ Finish(t)
       \/ /\ Continue(t, "failStopping")
          /\ UNCHANGED container
    /\ UNCHANGED <<envVars, stream, reader, serverVars, busy, localVars>>

\* The deferred function of Start after an error: stopping, then offline.
StartFailStopping(t) ==
    /\ pc[t] = "failStopping"
    /\ SetState("stopping")
    /\ Goto(t, "failOffline")
    /\ UNCHANGED <<dockerVars, serverVars, busy, taskVars, localVars>>

StartFailOffline(t) ==
    /\ pc[t] = "failOffline"
    /\ SetState("offline")
    /\ Finish(t)
    /\ UNCHANGED <<dockerVars, serverVars, busy, localVars>>

-----------------------------------------------------------------------------
(* environment/docker/power.go: WaitForStop and Stop.                      *)

\* WaitForStop returns nil: a restart goes on to start, a transfer to archive.
Stopped(t) ==
    IF action[t] \in {"restart", "transfer"}
    THEN Continue(t, IF action[t] = "restart" THEN "preboot" ELSE "archive")
    ELSE Finish(t)

\* WaitForStop returns an error; the transfer handler takes back its flag.
StopFails(t) ==
    /\ Finish(t)
    /\ busy' = IF action[t] = "transfer" THEN busy \ {"transferring"} ELSE busy

\* The deadline of WaitForStop passes: terminate, unless called without it.
StopDeadline(t) ==
    IF action[t] = "transfer"
    THEN StopFails(t)
    ELSE /\ Goto(t, "sigInspect")
         /\ via' = [via EXCEPT ![t] = "term"]
         /\ UNCHANGED <<busy, lock, held, action, waits>>

\* Stop: mark the server as stopping unless offline, then pick the way to stop.
StopMark(t) ==
    /\ pc[t] = "stopMark"
    /\ IF envState # "offline" THEN SetState("stopping") ELSE UNCHANGED envVars
    /\ \E ty \in StopTypes :
         Goto(t, CASE ty = "signal" -> "sigInspect"
                   [] ty = "command" /\ stream = "open" -> "stopSend"
                   [] OTHER -> "stopNative")
    /\ via' = [via EXCEPT ![t] = "stop"]
    /\ UNCHANGED <<dockerVars, serverVars, busy, lock, held, action, waits, localVars>>

\* SendCommand with the stop command; the process may exit at some later time.
StopSend(t) ==
    /\ pc[t] = "stopSend"
    /\ \/ /\ stream = "open"
          /\ SetState("stopping")
          /\ Goto(t, "await")
          /\ UNCHANGED <<busy, taskVars>>
       \/ /\ IF stream = "open" THEN SetState("stopping") ELSE UNCHANGED envVars
          /\ StopFails(t)
    /\ UNCHANGED <<dockerVars, serverVars, localVars>>

\* ContainerStop without a timeout blocks until the process has exited.
StopNative(t) ==
    /\ pc[t] = "stopNative"
    /\ \/ /\ container = "absent"
          /\ stream' = "nil"
          /\ SetState("offline")
          /\ Goto(t, "await")
          /\ UNCHANGED <<busy, taskVars>>
       \/ /\ container \in Down
          /\ Goto(t, "await")
          /\ UNCHANGED <<envVars, stream, busy, taskVars>>
       \/ /\ container # "absent"
          /\ StopDeadline(t) \/ StopFails(t)
          /\ UNCHANGED <<envVars, stream>>
    /\ UNCHANGED <<container, reader, serverVars, localVars>>

\* Faulty variants of Await: it returns whatever the container does,
AwaitReturnsEarly(t) ==
    /\ pc[t] = "await"
    /\ \/ Stopped(t) /\ UNCHANGED busy
       \/ StopDeadline(t)
    /\ UNCHANGED <<envVars, dockerVars, serverVars, localVars>>

\* Faulty variant of Await:
\* or it has no deadline.
AwaitForever(t) ==
    /\ pc[t] = "await"
    /\ container # "running" /\ Stopped(t) /\ UNCHANGED busy
    /\ UNCHANGED <<envVars, dockerVars, serverVars, localVars>>

\* ContainerWait: the process is gone, or the deadline passed or the call failed.
Await(t) ==
    /\ pc[t] = "await"
    /\ \/ container # "running" /\ Stopped(t) /\ UNCHANGED busy
       \/ StopDeadline(t)
    /\ UNCHANGED <<envVars, dockerVars, serverVars, localVars>>

-----------------------------------------------------------------------------
(* environment/docker/power.go: SignalContainer and Terminate.             *)

\* SignalContainer returns nil to Stop or to Terminate.
Signalled(t) == Goto(t, IF via[t] = "term" THEN "termOffline" ELSE "await")

\* SignalContainer returns an error; Stop has called it with a deadline.
SignalFails(t) == StopFails(t) \/ (via[t] = "stop" /\ StopDeadline(t))

SignalInspect(t) ==
    /\ pc[t] = "sigInspect"
    /\ \/ /\ \/ container = "absent" /\ Signalled(t)
             \/ container \in Down /\ Goto(t, "sigDead")
             \/ container = "running" /\ Goto(t, "sigStopping")
          /\ UNCHANGED <<busy, taskVars>>
       \/ SignalFails(t)
    /\ UNCHANGED <<envVars, dockerVars, serverVars, localVars>>

\* The container is not running: stopping, then offline, unless offline already.
SignalDead(t) ==
    /\ pc[t] = "sigDead"
    /\ IF envState = "offline"
       THEN Signalled(t) /\ UNCHANGED envVars
       ELSE SetState("stopping") /\ Goto(t, "sigDeadOffline")
    /\ UNCHANGED <<dockerVars, serverVars, busy, taskVars, localVars>>

SignalDeadOffline(t) ==
    /\ pc[t] = "sigDeadOffline"
    /\ SetState("offline")
    /\ Signalled(t)
    /\ UNCHANGED <<dockerVars, serverVars, busy, taskVars, localVars>>

SignalStopping(t) ==
    /\ pc[t] = "sigStopping"
    /\ SetState("stopping")
    /\ Goto(t, "sigKill")
    /\ UNCHANGED <<dockerVars, serverVars, busy, taskVars, localVars>>

\* Faulty variant of SignalKill: Terminate sends a signal the process may ignore.
SignalIgnored(t) ==
    /\ pc[t] = "sigKill"
    /\ \/ Signalled(t) /\ UNCHANGED <<busy, taskVars>>
       \/ SignalFails(t)
    /\ UNCHANGED <<envVars, dockerVars, serverVars, localVars>>

\* ContainerKill.  SIGKILL ends the process before the call returns; any other
\* signal leaves it to the process.
SignalKill(t) ==
    /\ pc[t] = "sigKill"
    /\ \/ /\ IF via[t] = "term" /\ container = "running"
             THEN container' = "failed" /\ reader' = EndStreams(reader)
             ELSE UNCHANGED <<container, reader>>
          /\ Signalled(t)
          /\ UNCHANGED <<busy, taskVars>>
       \/ /\ SignalFails(t)
          /\ UNCHANGED <<container, reader>>
    /\ UNCHANGED <<envVars, stream, serverVars, localVars>>

\* The last step of Terminate marks the server as dead.
TerminateOffline(t) ==
    /\ pc[t] = "termOffline"
    /\ SetState("offline")
    /\ Stopped(t)
    /\ UNCHANGED <<dockerVars, serverVars, busy, localVars>>

-----------------------------------------------------------------------------
(* router/router_server_transfer.go: postServerTransfer on the source node. *)

TransferCheck(t) ==
    /\ pc[t] = "transferCheck"
    /\ IF "transferring" \in busy THEN Finish(t) ELSE Continue(t, "transferSet")
    /\ UNCHANGED <<envVars, dockerVars, serverVars, busy, localVars>>

TransferSet(t) ==
    /\ pc[t] = "transferSet"
    /\ busy' = busy \cup {"transferring"}
    /\ Goto(t, IF envState = "offline" THEN "archive" ELSE "stopMark")
    /\ UNCHANGED <<envVars, dockerVars, serverVars, taskVars, localVars>>

\* The archive is pushed; on failure the server may be started again.
TransferEnd(t) ==
    /\ pc[t] = "archive"
    /\ busy' \in {busy, busy \ {"transferring"}}
    /\ Finish(t)
    /\ UNCHANGED <<envVars, dockerVars, serverVars, localVars>>

-----------------------------------------------------------------------------
(* server/listeners.go and server/server.go: a goroutine per state event.  *)

HandleEvent(t) ==
    /\ t \in Handlers /\ pc[t] = "idle" /\ events > 0
    /\ events' = events - 1
    /\ Goto(t, "loadPrev")
    /\ UNCHANGED <<envState, dockerVars, serverVars, busy, taskVars, localVars>>

\* OnStateChange reads the tracked state, then the environment's, stores the
\* latter, and reads the environment once more to detect a crash.
LoadPrev(t) ==
    /\ pc[t] = "loadPrev"
    /\ prev' = [prev EXCEPT ![t] = resState]
    /\ Goto(t, "loadState")
    /\ UNCHANGED <<envVars, dockerVars, serverVars, busy, taskVars, seen>>

LoadState(t) ==
    /\ pc[t] = "loadState"
    /\ seen' = [seen EXCEPT ![t] = envState]
    /\ Goto(t, "storeState")
    /\ UNCHANGED <<envVars, dockerVars, serverVars, busy, taskVars, prev>>

StoreState(t) ==
    /\ pc[t] = "storeState"
    /\ resState' = seen[t]
    /\ seen' = [seen EXCEPT ![t] = "offline"]
    /\ Goto(t, "detect")
    /\ UNCHANGED <<envVars, dockerVars, console, lastCrash, busy, taskVars, prev>>

CrashDetected(t) == prev[t] \in Online /\ envState = "offline"

Detect(t) ==
    /\ pc[t] = "detect"
    /\ Goto(t, IF CrashDetected(t) THEN "crash" ELSE "idle")
    /\ prev' = [prev EXCEPT ![t] = "offline"]
    /\ UNCHANGED <<envVars, dockerVars, serverVars, busy, taskVars, seen>>

-----------------------------------------------------------------------------
(* server/crash.go: handleServerCrash, in a goroutine of its own that takes *)
(* over the slot of the event handler that started it.                     *)

CrashCheck(t) ==
    /\ pc[t] = "crash"
    /\ Goto(t, IF envState = "offline" /\ CrashDetection THEN "crashExit" ELSE "idle")
    /\ UNCHANGED <<envVars, dockerVars, serverVars, busy, taskVars, localVars>>

\* ExitState: a missing container counts as exit code 1, a running one reports 0.
ExitIsCrash ==
    \/ DetectCleanExit
    \/ container = "absent"
    \/ container = "failed"

CrashExitState(t) ==
    /\ pc[t] = "crashExit"
    /\ \/ Goto(t, IF ExitIsCrash THEN "crashTime" ELSE "idle")
       \/ Goto(t, "idle")      \* the inspection fails
    /\ UNCHANGED <<envVars, dockerVars, serverVars, busy, taskVars, localVars>>

CrashTime(t) ==
    /\ pc[t] = "crashTime"
    /\ Goto(t, IF lastCrash = "recent" THEN "idle" ELSE "crashSet")
    /\ UNCHANGED <<envVars, dockerVars, serverVars, busy, taskVars, localVars>>

\* SetLastCrash(now), then HandlePowerAction(start) without waiting.
CrashSet(t) ==
    /\ pc[t] = "crashSet"
    /\ lastCrash' = "recent"
    /\ action' = [action EXCEPT ![t] = "start"]
    /\ waits' = waits \ {t}
    /\ Goto(t, "flags")
    /\ UNCHANGED <<envVars, dockerVars, resState, console, busy, lock, held, via, localVars>>

\* The crash timeout passes.
CrashForgotten ==
    /\ lastCrash = "recent"
    /\ lastCrash' = "old"
    /\ UNCHANGED <<envVars, dockerVars, resState, console, busy, pc, taskVars, localVars>>

-----------------------------------------------------------------------------
(* The container's process, its console stream and its output.             *)

ContainerExit ==
    /\ container = "running"
    /\ container' \in Exited
    /\ reader' = EndStreams(reader)
    /\ UNCHANGED <<envVars, stream, serverVars, busy, pc, taskVars, localVars>>

\* The reader reaches the end of its stream: SetState(offline) first,
ReaderOffline(r) ==
    /\ reader[r] = "eof"
    /\ SetState("offline")
    /\ reader' = [reader EXCEPT ![r] = "closing"]
    /\ UNCHANGED <<container, stream, serverVars, busy, pc, taskVars, localVars>>

\* and only then SetStream(nil), whichever stream is set by now.
ReaderDetach(r) ==
    /\ reader[r] = "closing"
    /\ stream' = "nil"
    /\ reader' = [reader EXCEPT ![r] = "idle"]
    /\ UNCHANGED <<envVars, container, serverVars, busy, pc, taskVars, localVars>>

\* There is output to read: of a running process, or left in an ended stream.
HasOutput == \E r \in Readers : \/ reader[r] = "live" /\ container = "running"
                                \/ reader[r] = "eof"

\* onConsoleOutput, in a goroutine per line: the state is read,
ConsoleDone ==
    /\ HasOutput /\ envState = "starting" /\ console = "idle"
    /\ console' = "matched"
    /\ UNCHANGED <<envVars, dockerVars, resState, lastCrash, busy, pc, taskVars, localVars>>

\* and set later.
ConsoleRunning ==
    /\ console = "matched"
    /\ console' = "idle"
    /\ SetState("running")
    /\ UNCHANGED <<dockerVars, resState, lastCrash, busy, pc, taskVars, localVars>>

\* A line that echoes the stop command is seen while the server is online,
ConsoleEcho ==
    /\ "command" \in StopTypes
    /\ HasOutput /\ envState \in Online /\ console = "idle"
    /\ console' = "echoed"
    /\ UNCHANGED <<envVars, dockerVars, resState, lastCrash, busy, pc, taskVars, localVars>>

\* and the server is set to offline later.
ConsoleStop ==
    /\ console = "echoed"
    /\ console' = "idle"
    /\ SetState("offline")
    /\ UNCHANGED <<dockerVars, resState, lastCrash, busy, pc, taskVars, localVars>>

\* SendCommand from the websocket or the API with the egg's stop command.
SendStopCommand ==
    /\ "command" \in StopTypes /\ stream = "open"
    /\ SetState("stopping")
    /\ UNCHANGED <<dockerVars, serverVars, busy, pc, taskVars, localVars>>

-----------------------------------------------------------------------------
PowerStep(t) ==
    \/ CheckFlags(t) \/ Acquire(t) \/ AcquireFails(t) \/ TryAcquireTimeout(t)
    \/ KillWithoutLock(t) \/ StartCheck(t) \/ OnBeforeStart(t)
StartStep(t) ==
    \/ StartInspect(t) \/ StartMarkRunning(t) \/ StartMarkStarting(t)
    \/ RemoveContainer(t) \/ CreateContainer(t) \/ AttachRunning(t) \/ Attach(t)
    \/ Boot(t) \/ StartFailStopping(t) \/ StartFailOffline(t)
StopStep(t) ==
    \/ StopMark(t) \/ StopSend(t) \/ StopNative(t) \/ Await(t)
SignalStep(t) ==
    \/ SignalInspect(t) \/ SignalDead(t) \/ SignalDeadOffline(t)
    \/ SignalStopping(t) \/ SignalKill(t) \/ TerminateOffline(t)
TransferStep(t) == TransferCheck(t) \/ TransferSet(t) \/ TransferEnd(t)
HandlerStep(t) ==
    \/ HandleEvent(t) \/ LoadPrev(t) \/ LoadState(t) \/ StoreState(t) \/ Detect(t)
    \/ CrashCheck(t) \/ CrashExitState(t) \/ CrashTime(t) \/ CrashSet(t)
ThreadStep(t) ==
    \/ PowerStep(t) \/ StartStep(t) \/ StopStep(t) \/ SignalStep(t)
    \/ TransferStep(t) \/ HandlerStep(t)
ReaderStep(r) == ReaderOffline(r) \/ ReaderDetach(r)
ConsoleStep ==
    ConsoleDone \/ ConsoleRunning \/ ConsoleEcho \/ ConsoleStop \/ SendStopCommand

Next ==
    \/ \E t \in Reqs : Request(t)
    \/ \E t \in Threads : ThreadStep(t)
    \/ \E r \in Readers : ReaderStep(r)
    \/ ContainerExit \/ ConsoleStep \/ CrashForgotten

Spec == Init /\ [][Next]_vars

\* The Go scheduler runs every goroutine that can run, and every wait in a power
\* action has a deadline of its own; nothing is assumed of the container.
Scheduled ==
    /\ \A t \in Threads : WF_vars(ThreadStep(t))
    /\ \A r \in Readers : WF_vars(ReaderStep(r))
    /\ WF_vars(ConsoleRunning \/ ConsoleStop)

\* Only the requests that kill are scheduled; every other goroutine may hang.
KillFairSpec == Spec /\ \A t \in Reqs : WF_vars(action[t] = "kill" /\ ThreadStep(t))

-----------------------------------------------------------------------------
(* Properties.                                                             *)

\* HandlePowerAction and Locker: the channel holds a value exactly while one
\* thread has the deferred Release that will drain it, and never two threads,
\* although Release takes the value out whoever put it there.
PowerLockExclusive ==
    /\ lock = 1 <=> held # {}
    /\ \A s, t \in held : s = t

\* HandlePowerAction "guards against someone calling Start() twice at the same
\* time": no two threads, crash handlers included, are in the start path at once.
StartExclusive ==
    \A s, t \in Threads : pc[s] \in StartPCs /\ pc[t] \in StartPCs => s = t

\* The container that Start found down, or that a restart has stopped, is still
\* down until that same Start boots it: whatever kills, background stops and crash
\* handlers run beside it, ContainerRemove and ContainerStart never meet a process
\* started by somebody else.
BootsFromDown ==
    \A t \in Threads :
        (\/ pc[t] \in {"markStarting", "remove", "create", "attach", "boot"}
         \/ action[t] = "restart" /\ pc[t] \in {"preboot", "inspect"})
            => container # "running"

\* Terminate under the lock marks a server as dead only if its process is dead,
\* from the moment SignalContainer has found it dead or killed it.
LockedTerminateKills ==
    \A t \in held :
        pc[t] \in {"sigDead", "sigDeadOffline", "termOffline"} => container # "running"

\* How the program counters, the actions and the deferred Releases go together:
\* the start path is only ever entered with the lock, a stop or restart keeps it
\* throughout, and no Release is left behind when a thread returns.
PhaseInv ==
    \A t \in Threads :
        /\ pc[t] \in StartPCs => t \in held /\ action[t] \in {"start", "restart"}
        /\ pc[t] \in WaitPCs \cup SignalPCs =>
             action[t] # "start" /\ (action[t] \in {"stop", "restart"} => t \in held)
        /\ pc[t] = "startCheck" => action[t] = "start"
        /\ t \in held => /\ pc[t] \in StartPCs \cup WaitPCs \cup SignalPCs
                         /\ action[t] \in PowerActions
        /\ pc[t] \in TransferPCs => action[t] = "transfer"
        /\ pc[t] \in {"flags", "lock"} => action[t] \in PowerActions

\* The inductive invariant of the power lock and of what it protects.
PowerInv ==
    TypeOK /\ PowerLockExclusive /\ PhaseInv /\ LockedTerminateKills /\ BootsFromDown

\* The lock implements the one-action-at-a-time service the daemon relies on.
Serial == INSTANCE PowerSerial
            WITH owner <- held,
                 booting <- {t \in Threads : pc[t] \in StartPCs \ {"startCheck"}}

\* HandlePowerAction serves power actions one at a time, and only the action being
\* served boots the server.
ServesOneAtATime == Serial!GuardSpec

\* Every power action, background stop and crash handler returns: no wait for
\* the lock, for Docker or for the container lasts for ever.
RequestsReturn == Scheduled => \A t \in Threads : Working(t) ~> ~Working(t)

\* A kill gets through even if the action that holds the lock is stuck.
KillReturns == \A t \in Reqs : action[t] = "kill" /\ Working(t) ~> pc[t] = "done"
=============================================================================
