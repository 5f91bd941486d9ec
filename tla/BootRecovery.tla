---------------------------- MODULE BootRecovery ----------------------------
(* Booting the daemon and restoring servers to their last state (cmd/root.go *)
(* and server/manager.go).  The daemon may crash at any step, alone or with  *)
(* the machine; containers survive the first.  The states of the servers are *)
(* written to a file every minute, which truncates it first.                 *)
EXTENDS Integers, FiniteSets

CONSTANTS
    Servers,        \* the servers of the node
    MaxCrashes,     \* crashes of the daemon or the machine (a bound)
    MaxFaults       \* failing calls to the Panel, Docker or the system (a bound)

ASSUME BootAssumption == MaxCrashes \in Nat /\ MaxFaults \in Nat

VARIABLES
    daemon,     \* where the daemon is: down, loading, restoring or up
    container,  \* servers whose container runs
    loaded,     \* Manager.servers
    state,      \* the environment's state of each server
    attached,   \* servers with a stream to their container
    step,       \* where the server's function of the pool, or its Start, is
    restored,   \* servers that the boot is done with
    known,      \* the states that were read at boot
    file,       \* the states file: its content, or torn
    writing,    \* what PersistStates is about to write
    crashes, faults,
    \* history
    recorded,   \* the states of the last complete write by a daemon that was up
    unsure,     \* a later write was torn, or was made while servers were being restored
    \* history of this run of the daemon
    faulty,     \* servers that a call to the Panel, Docker or the system has failed for
    refused,    \* servers whose start was refused
    slipped     \* servers whose container ended after it was seen to run, before the attach

bootVars == <<daemon, container, loaded, state, attached, step, restored, known, file, writing,
              crashes, faults, recorded, unsure, faulty, refused, slipped>>

\* What the steps of a server leave alone.
daemonVars == <<daemon, loaded, known, file, writing, crashes, recorded, unsure>>

States == {"offline", "starting", "running", "stopping"}
UpStates == {"starting", "running"}
Steps == {"idle", "mark_running", "mark_offline", "attach", "start", "boot"}
AllOffline == [s \in Servers |-> "offline"]
AllIdle == [s \in Servers |-> "idle"]
Torn == <<>>
Nothing == <<>>

BootTypeOK ==
    /\ daemon \in {"down", "load", "restore", "up"}
    /\ container \subseteq Servers /\ loaded \subseteq Servers
    /\ state \in [Servers -> States] /\ known \in [Servers -> States]
    /\ step \in [Servers -> Steps]
    /\ attached \subseteq Servers /\ restored \subseteq loaded
    /\ file \in [Servers -> States] \cup {Torn}
    /\ writing \in [Servers -> States] \cup {Nothing}
    /\ crashes \in 0..MaxCrashes /\ faults \in 0..MaxFaults
    /\ recorded \in [Servers -> States] /\ unsure \in BOOLEAN
    /\ faulty \subseteq Servers /\ refused \subseteq Servers /\ slipped \subseteq Servers

BootInit(active) ==
    /\ daemon = IF active THEN "up" ELSE "down"
    /\ container = {} /\ loaded = Servers /\ state = AllOffline /\ attached = {} /\ step = AllIdle
    /\ restored = Servers /\ known = AllOffline /\ file = AllOffline /\ writing = Nothing
    /\ crashes = IF active THEN 0 ELSE MaxCrashes
    /\ faults = 0 /\ recorded = AllOffline /\ unsure = FALSE
    /\ faulty = {} /\ refused = {} /\ slipped = {}

Fault == faults < MaxFaults /\ faults' = faults + 1

\* A call for s fails.
Failed(s) == Fault /\ faulty' = faulty \cup {s}
NoFault == UNCHANGED <<faults, faulty>>

\* The server's function moves on, or it returns.
GoesTo(s, l) == step' = [step EXCEPT ![s] = l] /\ UNCHANGED restored
Returns(s) == step' = [step EXCEPT ![s] = "idle"] /\ restored' = restored \cup {s}

-----------------------------------------------------------------------------
(* Boot.                                                                    *)

\* NewManager: a page of the Panel's list that fails ends the boot; a server whose
\* configuration cannot be read is left out.  Then ReadStates.
Load ==
    /\ daemon = "load"
    /\ \/ Fault /\ daemon' = "down" /\ UNCHANGED <<loaded, known, faulty>>
       \/ /\ \/ loaded' = Servers /\ NoFault
             \/ \E s \in Servers : Failed(s) /\ loaded' = Servers \ {s}
          /\ daemon' = "restore"
          /\ known' = [s \in Servers |-> IF file = Torn \/ s \notin loaded' THEN "offline" ELSE file[s]]
    /\ UNCHANGED <<container, state, attached, step, restored, file, writing, crashes, recorded, unsure,
                   refused, slipped>>

\* The server's data directory cannot be ensured: nothing is done for it.
SkipServer(s) ==
    /\ daemon = "restore" /\ s \in loaded \ restored /\ step[s] = "idle"
    /\ Failed(s) /\ Returns(s)
    /\ UNCHANGED <<daemonVars, container, state, attached, refused, slipped>>

\* Faulty variant of CheckRunning.
CheckRunningOnly(s) ==
    /\ daemon = "restore" /\ s \in loaded \ restored /\ step[s] = "idle"
    /\ GoesTo(s, IF s \in container THEN "mark_running"
                 ELSE IF known[s] = "running" THEN "start" ELSE "mark_offline")
    /\ NoFault /\ UNCHANGED <<daemonVars, container, state, attached, refused, slipped>>

\* The function of the pool asks Docker whether the container runs; a check that fails
\* counts as no.  A server that was running is then started, one whose container runs is
\* attached to, any other is offline.
CheckRunning(s) ==
    /\ daemon = "restore" /\ s \in loaded \ restored /\ step[s] = "idle"
    /\ \E running \in BOOLEAN :
         /\ running => s \in container
         /\ IF running = (s \in container) THEN NoFault ELSE Failed(s)
         /\ GoesTo(s, IF ~running /\ known[s] \in UpStates THEN "start"
                      ELSE IF running \/ state[s] \in UpStates THEN "mark_running" ELSE "mark_offline")
    /\ UNCHANGED <<daemonVars, container, state, attached, refused, slipped>>

MarkOffline(s) ==
    /\ step[s] = "mark_offline" /\ state' = [state EXCEPT ![s] = "offline"] /\ Returns(s)
    /\ NoFault /\ UNCHANGED <<daemonVars, container, attached, refused, slipped>>

MarkRunning(s) ==
    /\ step[s] = "mark_running" /\ state' = [state EXCEPT ![s] = "running"] /\ GoesTo(s, "attach")
    /\ NoFault /\ UNCHANGED <<daemonVars, container, attached, refused, slipped>>

\* Environment.Attach, at boot or from Start.  An attach to a container that has ended may
\* succeed, with a stream that does not end, or fail; the state stays running.
Attach(s) ==
    /\ step[s] = "attach" /\ Returns(s)
    /\ \/ attached' = attached \cup {s} /\ NoFault
       \/ Failed(s) /\ UNCHANGED attached
       \/ s \notin container /\ NoFault /\ UNCHANGED attached
    /\ UNCHANGED <<daemonVars, container, state, refused, slipped>>

\* HandlePowerAction(start) up to Environment.Start's call of OnBeforeStart: the
\* configuration is read from the Panel; a suspended server, or one without disk space, is
\* not started; a container that runs after all is attached to.
BeginStart(s) ==
    /\ step[s] = "start"
    /\ \/ /\ s \in container /\ state' = [state EXCEPT ![s] = "running"]
          /\ GoesTo(s, "attach") /\ NoFault /\ UNCHANGED refused
       \/ /\ s \notin container /\ state' = [state EXCEPT ![s] = "starting"]
          /\ GoesTo(s, "boot") /\ NoFault /\ UNCHANGED refused
       \/ refused' = refused \cup {s} /\ Returns(s) /\ NoFault /\ UNCHANGED state
       \/ Failed(s) /\ Returns(s) /\ UNCHANGED <<state, refused>>
    /\ UNCHANGED <<daemonVars, container, attached, slipped>>

\* The rest of Environment.Start: the container is made, attached to and started.  An
\* error sets the state to offline, whether Docker has started the container or not.
BootContainer(s) ==
    /\ step[s] = "boot" /\ Returns(s)
    /\ \/ /\ container' = container \cup {s} /\ attached' = attached \cup {s}
          /\ NoFault /\ UNCHANGED state
       \/ /\ container' \in {container, container \cup {s}} /\ state' = [state EXCEPT ![s] = "offline"]
          /\ attached' \in {attached, attached \cup {s}} /\ Failed(s)
    /\ UNCHANGED <<daemonVars, refused, slipped>>

\* The pool has stopped: the SFTP and HTTP servers start.
Booted ==
    /\ daemon = "restore" /\ restored = loaded
    /\ daemon' = "up"
    /\ UNCHANGED <<container, loaded, state, attached, step, restored, known, file, writing, crashes, faults,
                   recorded, unsure, faulty, refused, slipped>>

-----------------------------------------------------------------------------
(* The file.                                                                *)

\* The ticker, which runs from before the first server is restored.
PersistStates ==
    /\ daemon \in {"restore", "up"} /\ writing = Nothing
    /\ writing' = [s \in Servers |-> IF s \in loaded THEN state[s] ELSE "offline"]
    /\ UNCHANGED <<daemon, container, loaded, state, attached, step, restored, known, file, crashes, faults,
                   recorded, unsure, faulty, refused, slipped>>

\* os.WriteFile truncates the file before it writes.
Truncate ==
    /\ writing # Nothing /\ file # Torn
    /\ file' = Torn
    /\ UNCHANGED <<daemon, container, loaded, state, attached, step, restored, known, writing, crashes,
                   faults, recorded, unsure, faulty, refused, slipped>>

WriteFile ==
    /\ writing # Nothing /\ file = Torn
    /\ file' = writing /\ writing' = Nothing
    /\ IF daemon = "up" /\ loaded = Servers
       THEN recorded' = writing /\ unsure' = FALSE
       ELSE unsure' = TRUE /\ UNCHANGED recorded
    /\ UNCHANGED <<daemon, container, loaded, state, attached, step, restored, known, crashes, faults, faulty,
                   refused, slipped>>

-----------------------------------------------------------------------------
(* Servers and crashes.                                                     *)

\* A user, or the crash handler, starts a server that the boot is done with.
PowerStart(s) ==
    /\ daemon \in {"restore", "up"} /\ s \in restored /\ step[s] = "idle" /\ state[s] = "offline"
    /\ GoesTo(s, "start")
    /\ NoFault /\ UNCHANGED <<daemonVars, container, state, attached, refused, slipped>>

\* A user, or the synchronisation of a suspended server, stops one.
PowerStop(s) ==
    /\ daemon \in {"restore", "up"} /\ s \in restored \cap attached
    /\ step[s] = "idle" /\ state[s] \in UpStates
    /\ state' = [state EXCEPT ![s] = "stopping"]
    /\ NoFault /\ UNCHANGED <<daemonVars, container, attached, step, restored, refused, slipped>>

\* The server's output says that it has started.
Started(s) ==
    /\ daemon \in {"restore", "up"} /\ s \in attached /\ state[s] = "starting"
    /\ state' = [state EXCEPT ![s] = "running"]
    /\ NoFault /\ UNCHANGED <<daemonVars, container, attached, step, restored, refused, slipped>>

\* A container ends.
ContainerEnds(s) ==
    /\ s \in container /\ container' = container \ {s}
    /\ slipped' = IF step[s] \in {"mark_running", "attach"} THEN slipped \cup {s} ELSE slipped
    /\ NoFault /\ UNCHANGED <<daemonVars, state, attached, step, restored, refused>>

\* Later the stream to it ends: Attach's goroutine sets the state.
StreamEnds(s) ==
    /\ daemon \in {"restore", "up"}
    /\ s \in attached \ (container \cup slipped) /\ step[s] = "idle"
    /\ attached' = attached \ {s} /\ state' = [state EXCEPT ![s] = "offline"]
    /\ NoFault /\ UNCHANGED <<daemonVars, container, step, restored, refused, slipped>>

\* The daemon ends, or the machine.  A write that is under way leaves the file torn.
Crash ==
    /\ daemon # "down" /\ crashes < MaxCrashes
    /\ crashes' = crashes + 1
    /\ container' \in {container, {}}
    /\ daemon' = "down" /\ attached' = {} /\ restored' = {} /\ loaded' = {} /\ writing' = Nothing
    /\ state' = AllOffline /\ known' = AllOffline /\ step' = AllIdle
    /\ unsure' = (unsure \/ file = Torn)
    /\ faulty' = {} /\ refused' = {} /\ slipped' = {}
    /\ UNCHANGED <<file, faults, recorded>>

StartDaemon ==
    /\ daemon = "down" /\ crashes > 0 /\ loaded = {}
    /\ daemon' = "load"
    /\ UNCHANGED <<container, loaded, state, attached, step, restored, known, file, writing, crashes, faults,
                   recorded, unsure, faulty, refused, slipped>>

-----------------------------------------------------------------------------
RestoreStep(s) ==
    \/ SkipServer(s) \/ CheckRunning(s) \/ MarkOffline(s) \/ MarkRunning(s)
    \/ Attach(s) \/ BeginStart(s) \/ BootContainer(s)

ServerStep(s) == PowerStart(s) \/ PowerStop(s) \/ Started(s) \/ ContainerEnds(s) \/ StreamEnds(s)

BootNext ==
    \/ Load \/ Booted \/ PersistStates \/ Truncate \/ WriteFile \/ Crash \/ StartDaemon
    \/ \E s \in Servers : RestoreStep(s) \/ ServerStep(s)

-----------------------------------------------------------------------------
(* Properties.                                                              *)

\* The daemon's view of a server that is restored and not being started: a container that
\* runs is attached to and not offline, and a server that is not offline is attached to, so
\* that the end of its container is seen.
ViewRight ==
    \A s \in restored \ (faulty \cup slipped) :
        step[s] = "idle" =>
            /\ s \in container => state[s] # "offline"
            /\ state[s] # "offline" => s \in attached

\* A server that the last complete record has as running or starting runs when its restore
\* returns.
RunsAgain ==
    \A s \in Servers :
        /\ s \in restored' \ restored /\ ~unsure /\ recorded[s] \in UpStates
        /\ s \notin faulty' \cup refused' \cup slipped'
        => s \in container'

\* Once a server is restored, the daemon's view of it is right however often the daemon
\* and the machine have crashed.  And a server that the last complete record has as running
\* or starting runs again, whether its container has survived or not, unless the record was
\* torn or made while servers were being restored, or the start was refused (suspended, no
\* disk space).  Excepted is a server that Docker, the Panel or the system has failed for in
\* this run of the daemon, and one whose container ended between the check of it and the
\* attach: that one is left running without a container (cmd/root.go).
RestoredAsRecorded == []ViewRight /\ [][RunsAgain]_bootVars
=============================================================================
