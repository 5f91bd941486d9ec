------------------------- MODULE ServerPowerProofs -------------------------
(***************************************************************************)
(* Proofs about ServerPower for any number of requests, handlers and        *)
(* readers, any event buffer and any stop configuration.                    *)
(***************************************************************************)
EXTENDS ServerPower, TLAPS

USE ThreadsDisjoint, BufferAssumption, FlagAssumption

(* What the helpers do to the types. *)

LEMMA SetStateTyped ==
    ASSUME EnvOK, NEW s \in States, SetState(s) PROVE EnvOK'
  BY DEF EnvOK, SetState, Publish, envVars

LEMMA FinishTyped ==
    ASSUME TaskOK, NEW t \in Threads, Finish(t) PROVE TaskOK'
  BY DEF TaskOK, Finish, Goto, PCs, HandlerPCs, AllActions, PowerActions

LEMMA ContinueTyped ==
    ASSUME TaskOK, NEW t \in Threads, NEW l \in PCs, Continue(t, l) PROVE TaskOK'
  BY DEF TaskOK, Continue, Goto, taskVars

LEMMA StopFailsTyped ==
    ASSUME TaskOK, busy \subseteq Flags, NEW t \in Threads, StopFails(t)
    PROVE  TaskOK' /\ busy' \subseteq Flags
  BY FinishTyped DEF StopFails

LEMMA StoppedTyped ==
    ASSUME TaskOK, NEW t \in Threads, Stopped(t) PROVE TaskOK'
  BY FinishTyped, ContinueTyped DEF Stopped, PCs, StartPCs, TransferPCs

LEMMA StopDeadlineTyped ==
    ASSUME TaskOK, busy \subseteq Flags, NEW t \in Threads, StopDeadline(t)
    PROVE  TaskOK' /\ busy' \subseteq Flags
  BY StopFailsTyped DEF StopDeadline, TaskOK, Goto, PCs, SignalPCs

LEMMA EndStreamsTyped ==
    ASSUME DockerOK
    PROVE  EndStreams(reader) \in [Readers -> {"idle", "live", "eof", "closing"}]
  BY DEF DockerOK, EndStreams

\* The states the daemon's start leaves a server in have their types.
LEMMA InitTyped == Init => TypeOK
<1> SUFFICES ASSUME Init PROVE TypeOK
  OBVIOUS
<1>1. EnvOK
  BY DEF Init, Bootstrapped, EnvOK, States
<1>2. DockerOK
  BY FoundAssumption DEF Init, Bootstrapped, DockerOK, Containers
<1>3. ServerOK /\ TaskOK /\ LocalOK
  BY DEF Init, Threads, ServerOK, TaskOK, LocalOK, States, AllActions, PowerActions, PCs, HandlerPCs
<1> QED
  BY <1>1, <1>2, <1>3 DEF TypeOK

\* Type correctness holds in every reachable state: no step of HandlePowerAction,
\* of the Docker environment or of the listeners takes a thread out of the modelled
\* code or a variable out of its values.
THEOREM TypeCorrect == Spec => []TypeOK
<1>1. Init => TypeOK
  BY InitTyped
<1>2. ASSUME TypeOK, [Next]_vars PROVE TypeOK'
  <2> USE <1>2
  <2>1. ASSUME NEW t \in Reqs, Request(t) PROVE TypeOK'
    <3>1. EnvOK'
      BY <2>1 DEF Request, TypeOK, EnvOK, States, envVars
    <3>2. DockerOK'
      BY <2>1 DEF Request, TypeOK, DockerOK, Containers, Down, Exited, dockerVars
    <3>3. TaskOK' /\ busy' \subseteq Flags
      BY <2>1, ActionsAssumption DEF
         Request, Goto, TypeOK, TaskOK, ServerOK, PCs, WaitPCs, SignalPCs,
         TransferPCs, taskVars, Threads
    <3>4. ServerOK' /\ LocalOK'
      BY <2>1, <3>3 DEF Request, TypeOK, ServerOK, LocalOK, serverVars, localVars
    <3> QED
      BY <3>1, <3>2, <3>3, <3>4 DEF TypeOK
  <2>2. ASSUME NEW t \in Threads, PowerStep(t) PROVE TypeOK'
    <3>1. CASE CheckFlags(t)
      BY <3>1, FinishTyped, ContinueTyped DEF
         CheckFlags, TypeOK, EnvOK, DockerOK, ServerOK, TaskOK, LocalOK, States,
         Containers, Down, Exited, Flags, PCs, HandlerPCs, StartPCs, WaitPCs, SignalPCs,
         TransferPCs, AllActions, PowerActions, envVars, dockerVars, serverVars,
         taskVars, localVars
    <3>2. CASE Acquire(t)
      BY <3>2 DEF
         Acquire, Dispatch, Goto, TypeOK, EnvOK, DockerOK, ServerOK, TaskOK,
         LocalOK, States, Containers, Down, Exited, Flags, PCs, HandlerPCs, StartPCs, WaitPCs,
         SignalPCs, TransferPCs, AllActions, PowerActions, envVars, dockerVars,
         serverVars, taskVars, localVars
    <3>3. CASE AcquireFails(t)
      BY <3>3, FinishTyped DEF
         AcquireFails, TypeOK, EnvOK, DockerOK, ServerOK, TaskOK, LocalOK, States,
         Containers, Down, Exited, Flags, PCs, HandlerPCs, StartPCs, WaitPCs, SignalPCs,
         TransferPCs, AllActions, PowerActions, envVars, dockerVars, serverVars,
         taskVars, localVars
    <3>4. CASE TryAcquireTimeout(t)
      BY <3>4, FinishTyped DEF
         TryAcquireTimeout, TypeOK, EnvOK, DockerOK, ServerOK, TaskOK, LocalOK,
         States, Containers, Down, Exited, Flags, PCs, HandlerPCs, StartPCs, WaitPCs,
         SignalPCs, TransferPCs, AllActions, PowerActions, envVars, dockerVars,
         serverVars, taskVars, localVars
    <3>5. CASE KillWithoutLock(t)
      BY <3>5 DEF
         KillWithoutLock, Dispatch, Goto, TypeOK, EnvOK, DockerOK, ServerOK,
         TaskOK, LocalOK, States, Containers, Down, Exited, Flags, PCs, HandlerPCs, StartPCs,
         WaitPCs, SignalPCs, TransferPCs, AllActions, PowerActions, envVars,
         dockerVars, serverVars, taskVars, localVars
    <3>6. CASE StartCheck(t)
      BY <3>6, FinishTyped, ContinueTyped DEF
         StartCheck, TypeOK, EnvOK, DockerOK, ServerOK, TaskOK, LocalOK, States,
         Containers, Down, Exited, Flags, PCs, HandlerPCs, StartPCs, WaitPCs, SignalPCs,
         TransferPCs, AllActions, PowerActions, envVars, dockerVars, serverVars,
         taskVars, localVars
    <3>7. CASE OnBeforeStart(t)
      BY <3>7, FinishTyped, ContinueTyped DEF
         OnBeforeStart, TypeOK, EnvOK, DockerOK, ServerOK, TaskOK, LocalOK, States,
         Containers, Down, Exited, Flags, PCs, HandlerPCs, StartPCs, WaitPCs, SignalPCs,
         TransferPCs, AllActions, PowerActions, envVars, dockerVars, serverVars,
         taskVars, localVars
    <3> QED
      BY <2>2, <3>1, <3>2, <3>3, <3>4, <3>5, <3>6, <3>7 DEF PowerStep
  <2>3. ASSUME NEW t \in Threads, StartStep(t) PROVE TypeOK'
    <3>1. CASE StartInspect(t)
      BY <3>1, FinishTyped, ContinueTyped DEF
         StartInspect, TypeOK, EnvOK, DockerOK, ServerOK, TaskOK, LocalOK, States,
         Containers, Down, Exited, Flags, PCs, HandlerPCs, StartPCs, WaitPCs, SignalPCs,
         TransferPCs, AllActions, PowerActions, envVars, dockerVars, serverVars,
         taskVars, localVars
    <3>2. CASE StartMarkRunning(t)
      BY <3>2, SetStateTyped DEF
         StartMarkRunning, Goto, TypeOK, EnvOK, DockerOK, ServerOK, TaskOK,
         LocalOK, States, Containers, Down, Exited, Flags, PCs, HandlerPCs, StartPCs, WaitPCs,
         SignalPCs, TransferPCs, AllActions, PowerActions, envVars, dockerVars,
         serverVars, taskVars, localVars
    <3>3. CASE StartMarkStarting(t)
      BY <3>3, SetStateTyped DEF
         StartMarkStarting, Goto, TypeOK, EnvOK, DockerOK, ServerOK, TaskOK,
         LocalOK, States, Containers, Down, Exited, Flags, PCs, HandlerPCs, StartPCs, WaitPCs,
         SignalPCs, TransferPCs, AllActions, PowerActions, envVars, dockerVars,
         serverVars, taskVars, localVars
    <3>4. CASE RemoveContainer(t)
      BY <3>4, EndStreamsTyped DEF
         RemoveContainer, Goto, TypeOK, EnvOK, DockerOK, ServerOK, TaskOK, LocalOK,
         States, Containers, Down, Exited, Flags, PCs, HandlerPCs, StartPCs, WaitPCs,
         SignalPCs, TransferPCs, AllActions, PowerActions, envVars, dockerVars,
         serverVars, taskVars, localVars
    <3>5. CASE CreateContainer(t)
      BY <3>5 DEF
         CreateContainer, Goto, TypeOK, EnvOK, DockerOK, ServerOK, TaskOK, LocalOK,
         States, Containers, Down, Exited, Flags, PCs, HandlerPCs, StartPCs, WaitPCs,
         SignalPCs, TransferPCs, AllActions, PowerActions, envVars, dockerVars,
         serverVars, taskVars, localVars
    <3>6. CASE AttachRunning(t)
      BY <3>6, FinishTyped DEF
         AttachRunning, AttachStream, TypeOK, EnvOK, DockerOK, ServerOK, TaskOK,
         LocalOK, States, Containers, Down, Exited, Flags, PCs, HandlerPCs, StartPCs, WaitPCs,
         SignalPCs, TransferPCs, AllActions, PowerActions, envVars, dockerVars,
         serverVars, taskVars, localVars
    <3>7. CASE Attach(t)
      BY <3>7 DEF
         Attach, AttachStream, Goto, TypeOK, EnvOK, DockerOK, ServerOK, TaskOK,
         LocalOK, States, Containers, Down, Exited, Flags, PCs, HandlerPCs, StartPCs, WaitPCs,
         SignalPCs, TransferPCs, AllActions, PowerActions, envVars, dockerVars,
         serverVars, taskVars, localVars
    <3>8. CASE Boot(t)
      BY <3>8, FinishTyped, ContinueTyped DEF
         Boot, TypeOK, EnvOK, DockerOK, ServerOK, TaskOK, LocalOK, States, Containers, Down,
         Exited, Flags, PCs, HandlerPCs, StartPCs, WaitPCs, SignalPCs, TransferPCs,
         AllActions, PowerActions, envVars, dockerVars, serverVars, taskVars,
         localVars
    <3>9. CASE StartFailStopping(t)
      BY <3>9, SetStateTyped DEF
         StartFailStopping, Goto, TypeOK, EnvOK, DockerOK, ServerOK, TaskOK,
         LocalOK, States, Containers, Down, Exited, Flags, PCs, HandlerPCs, StartPCs, WaitPCs,
         SignalPCs, TransferPCs, AllActions, PowerActions, envVars, dockerVars,
         serverVars, taskVars, localVars
    <3>10. CASE StartFailOffline(t)
      BY <3>10, SetStateTyped, FinishTyped DEF
         StartFailOffline, TypeOK, EnvOK, DockerOK, ServerOK, TaskOK, LocalOK,
         States, Containers, Down, Exited, Flags, PCs, HandlerPCs, StartPCs, WaitPCs,
         SignalPCs, TransferPCs, AllActions, PowerActions, envVars, dockerVars,
         serverVars, taskVars, localVars
    <3> QED
      BY <2>3, <3>1, <3>2, <3>3, <3>4, <3>5, <3>6, <3>7, <3>8, <3>9, <3>10 DEF StartStep
  <2>4. ASSUME NEW t \in Threads, StopStep(t) PROVE TypeOK'
    <3>1. CASE StopMark(t)
      BY <3>1, SetStateTyped DEF
         StopMark, Goto, TypeOK, EnvOK, DockerOK, ServerOK, TaskOK, LocalOK,
         States, Containers, Down, Exited, Flags, PCs, HandlerPCs, StartPCs, WaitPCs,
         SignalPCs, TransferPCs, AllActions, PowerActions, envVars, dockerVars,
         serverVars, taskVars, localVars
    <3>2. CASE StopSend(t)
      <4>1. EnvOK'
        BY <3>2, SetStateTyped DEF StopSend, TypeOK, EnvOK, States, envVars
      <4>2. DockerOK'
        BY <3>2 DEF StopSend, TypeOK, DockerOK, Containers, Down, Exited, dockerVars
      <4>3. TaskOK' /\ busy' \subseteq Flags
        BY <3>2, StopFailsTyped DEF
           StopSend, Goto, TypeOK, TaskOK, ServerOK, PCs, WaitPCs, SignalPCs,
           TransferPCs, taskVars
      <4>4. ServerOK' /\ LocalOK'
        BY <3>2, <4>3 DEF StopSend, TypeOK, ServerOK, LocalOK, serverVars, localVars
      <4> QED
        BY <4>1, <4>2, <4>3, <4>4 DEF TypeOK
    <3>3. CASE StopNative(t)
      <4>1. EnvOK'
        BY <3>3, SetStateTyped DEF StopNative, TypeOK, EnvOK, States, envVars
      <4>2. DockerOK'
        BY <3>3 DEF StopNative, TypeOK, DockerOK, Containers, Down, Exited, dockerVars
      <4>3. TaskOK' /\ busy' \subseteq Flags
        BY <3>3, StopFailsTyped, StopDeadlineTyped DEF
           StopNative, Goto, TypeOK, TaskOK, ServerOK, PCs, WaitPCs, SignalPCs,
           TransferPCs, taskVars
      <4>4. ServerOK' /\ LocalOK'
        BY <3>3, <4>3 DEF StopNative, TypeOK, ServerOK, LocalOK, serverVars, localVars
      <4> QED
        BY <4>1, <4>2, <4>3, <4>4 DEF TypeOK
    <3>4. CASE Await(t)
      <4>1. EnvOK'
        BY <3>4 DEF Await, TypeOK, EnvOK, States, envVars
      <4>2. DockerOK'
        BY <3>4 DEF Await, TypeOK, DockerOK, Containers, Down, Exited, dockerVars
      <4>3. TaskOK' /\ busy' \subseteq Flags
        BY <3>4, StoppedTyped, StopDeadlineTyped DEF
           Await, TypeOK, TaskOK, ServerOK, PCs, WaitPCs, SignalPCs, TransferPCs,
           taskVars
      <4>4. ServerOK' /\ LocalOK'
        BY <3>4, <4>3 DEF Await, TypeOK, ServerOK, LocalOK, serverVars, localVars
      <4> QED
        BY <4>1, <4>2, <4>3, <4>4 DEF TypeOK
    <3> QED
      BY <2>4, <3>1, <3>2, <3>3, <3>4 DEF StopStep
  <2>5. ASSUME NEW t \in Threads, SignalStep(t) PROVE TypeOK'
    <3>1. CASE SignalInspect(t)
      <4>1. EnvOK'
        BY <3>1 DEF SignalInspect, TypeOK, EnvOK, States, envVars
      <4>2. DockerOK'
        BY <3>1 DEF SignalInspect, TypeOK, DockerOK, Containers, Down, Exited, dockerVars
      <4>3. TaskOK' /\ busy' \subseteq Flags
        BY <3>1, StopFailsTyped, StopDeadlineTyped DEF
           SignalInspect, SignalFails, Signalled, Goto, TypeOK, TaskOK, ServerOK, PCs, WaitPCs,
           SignalPCs, TransferPCs, taskVars
      <4>4. ServerOK' /\ LocalOK'
        BY <3>1, <4>3 DEF SignalInspect, TypeOK, ServerOK, LocalOK, serverVars, localVars
      <4> QED
        BY <4>1, <4>2, <4>3, <4>4 DEF TypeOK
    <3>2. CASE SignalDead(t)
      BY <3>2, SetStateTyped DEF
         SignalDead, Signalled, Goto, TypeOK, EnvOK, DockerOK, ServerOK, TaskOK,
         LocalOK, States, Containers, Down, Exited, Flags, PCs, HandlerPCs, StartPCs, WaitPCs,
         SignalPCs, TransferPCs, AllActions, PowerActions, envVars, dockerVars,
         serverVars, taskVars, localVars
    <3>3. CASE SignalDeadOffline(t)
      BY <3>3, SetStateTyped DEF
         SignalDeadOffline, Signalled, Goto, TypeOK, EnvOK, DockerOK, ServerOK,
         TaskOK, LocalOK, States, Containers, Down, Exited, Flags, PCs, HandlerPCs, StartPCs,
         WaitPCs, SignalPCs, TransferPCs, AllActions, PowerActions, envVars,
         dockerVars, serverVars, taskVars, localVars
    <3>4. CASE SignalStopping(t)
      BY <3>4, SetStateTyped DEF
         SignalStopping, Goto, TypeOK, EnvOK, DockerOK, ServerOK, TaskOK, LocalOK,
         States, Containers, Down, Exited, Flags, PCs, HandlerPCs, StartPCs, WaitPCs,
         SignalPCs, TransferPCs, AllActions, PowerActions, envVars, dockerVars,
         serverVars, taskVars, localVars
    <3>5. CASE SignalKill(t)
      <4>1. EnvOK'
        BY <3>5 DEF SignalKill, TypeOK, EnvOK, States, envVars
      <4>2. DockerOK'
        BY <3>5, EndStreamsTyped DEF SignalKill, TypeOK, DockerOK, Containers, Down, Exited,
           dockerVars
      <4>3. TaskOK' /\ busy' \subseteq Flags
        BY <3>5, StopFailsTyped, StopDeadlineTyped DEF
           SignalKill, SignalFails, Signalled, Goto, TypeOK, TaskOK, ServerOK, PCs, WaitPCs,
           SignalPCs, TransferPCs, taskVars
      <4>4. ServerOK' /\ LocalOK'
        BY <3>5, <4>3 DEF SignalKill, TypeOK, ServerOK, LocalOK, serverVars, localVars
      <4> QED
        BY <4>1, <4>2, <4>3, <4>4 DEF TypeOK
    <3>6. CASE TerminateOffline(t)
      BY <3>6, SetStateTyped, StoppedTyped DEF
         TerminateOffline, TypeOK, EnvOK, DockerOK, ServerOK, TaskOK, LocalOK,
         States, Containers, Down, Exited, Flags, PCs, HandlerPCs, StartPCs, WaitPCs,
         SignalPCs, TransferPCs, AllActions, PowerActions, envVars, dockerVars,
         serverVars, taskVars, localVars
    <3> QED
      BY <2>5, <3>1, <3>2, <3>3, <3>4, <3>5, <3>6 DEF SignalStep
  <2>6. ASSUME NEW t \in Threads, TransferStep(t) PROVE TypeOK'
    <3>1. CASE TransferCheck(t)
      BY <3>1, FinishTyped, ContinueTyped DEF
         TransferCheck, TypeOK, EnvOK, DockerOK, ServerOK, TaskOK, LocalOK, States,
         Containers, Down, Exited, Flags, PCs, HandlerPCs, StartPCs, WaitPCs, SignalPCs,
         TransferPCs, AllActions, PowerActions, envVars, dockerVars, serverVars,
         taskVars, localVars
    <3>2. CASE TransferSet(t)
      BY <3>2 DEF
         TransferSet, Goto, TypeOK, EnvOK, DockerOK, ServerOK, TaskOK, LocalOK,
         States, Containers, Down, Exited, Flags, PCs, HandlerPCs, StartPCs, WaitPCs,
         SignalPCs, TransferPCs, AllActions, PowerActions, envVars, dockerVars,
         serverVars, taskVars, localVars
    <3>3. CASE TransferEnd(t)
      BY <3>3, FinishTyped DEF
         TransferEnd, TypeOK, EnvOK, DockerOK, ServerOK, TaskOK, LocalOK, States,
         Containers, Down, Exited, Flags, PCs, HandlerPCs, StartPCs, WaitPCs, SignalPCs,
         TransferPCs, AllActions, PowerActions, envVars, dockerVars, serverVars,
         taskVars, localVars
    <3> QED
      BY <2>6, <3>1, <3>2, <3>3 DEF TransferStep
  <2>7. ASSUME NEW t \in Threads, HandlerStep(t) PROVE TypeOK'
    <3>1. CASE HandleEvent(t)
      BY <3>1 DEF
         HandleEvent, Goto, TypeOK, EnvOK, DockerOK, ServerOK, TaskOK, LocalOK,
         States, Containers, Down, Exited, Flags, PCs, HandlerPCs, StartPCs, WaitPCs,
         SignalPCs, TransferPCs, AllActions, PowerActions, envVars, dockerVars,
         serverVars, taskVars, localVars
    <3>2. CASE LoadPrev(t)
      BY <3>2 DEF
         LoadPrev, Goto, TypeOK, EnvOK, DockerOK, ServerOK, TaskOK, LocalOK,
         States, Containers, Down, Exited, Flags, PCs, HandlerPCs, StartPCs, WaitPCs,
         SignalPCs, TransferPCs, AllActions, PowerActions, envVars, dockerVars,
         serverVars, taskVars, localVars
    <3>3. CASE LoadState(t)
      BY <3>3 DEF
         LoadState, Goto, TypeOK, EnvOK, DockerOK, ServerOK, TaskOK, LocalOK,
         States, Containers, Down, Exited, Flags, PCs, HandlerPCs, StartPCs, WaitPCs,
         SignalPCs, TransferPCs, AllActions, PowerActions, envVars, dockerVars,
         serverVars, taskVars, localVars
    <3>4. CASE StoreState(t)
      BY <3>4 DEF
         StoreState, Goto, TypeOK, EnvOK, DockerOK, ServerOK, TaskOK, LocalOK,
         States, Containers, Down, Exited, Flags, PCs, HandlerPCs, StartPCs, WaitPCs,
         SignalPCs, TransferPCs, AllActions, PowerActions, envVars, dockerVars,
         serverVars, taskVars, localVars
    <3>5. CASE Detect(t)
      BY <3>5 DEF
         Detect, Goto, CrashDetected, TypeOK, EnvOK, DockerOK, ServerOK, TaskOK,
         LocalOK, States, Containers, Down, Exited, Flags, PCs, HandlerPCs, StartPCs, WaitPCs,
         SignalPCs, TransferPCs, AllActions, PowerActions, envVars, dockerVars,
         serverVars, taskVars, localVars
    <3>6. CASE CrashCheck(t)
      BY <3>6 DEF
         CrashCheck, Goto, TypeOK, EnvOK, DockerOK, ServerOK, TaskOK, LocalOK,
         States, Containers, Down, Exited, Flags, PCs, HandlerPCs, StartPCs, WaitPCs,
         SignalPCs, TransferPCs, AllActions, PowerActions, envVars, dockerVars,
         serverVars, taskVars, localVars
    <3>7. CASE CrashExitState(t)
      BY <3>7 DEF
         CrashExitState, Goto, ExitIsCrash, TypeOK, EnvOK, DockerOK, ServerOK,
         TaskOK, LocalOK, States, Containers, Down, Exited, Flags, PCs, HandlerPCs, StartPCs,
         WaitPCs, SignalPCs, TransferPCs, AllActions, PowerActions, envVars,
         dockerVars, serverVars, taskVars, localVars
    <3>8. CASE CrashTime(t)
      BY <3>8 DEF
         CrashTime, Goto, TypeOK, EnvOK, DockerOK, ServerOK, TaskOK, LocalOK,
         States, Containers, Down, Exited, Flags, PCs, HandlerPCs, StartPCs, WaitPCs,
         SignalPCs, TransferPCs, AllActions, PowerActions, envVars, dockerVars,
         serverVars, taskVars, localVars
    <3>9. CASE CrashSet(t)
      BY <3>9 DEF
         CrashSet, Goto, TypeOK, EnvOK, DockerOK, ServerOK, TaskOK, LocalOK,
         States, Containers, Down, Exited, Flags, PCs, HandlerPCs, StartPCs, WaitPCs,
         SignalPCs, TransferPCs, AllActions, PowerActions, envVars, dockerVars,
         serverVars, taskVars, localVars
    <3> QED
      BY <2>7, <3>1, <3>2, <3>3, <3>4, <3>5, <3>6, <3>7, <3>8, <3>9 DEF HandlerStep
  <2>8. ASSUME NEW r \in Readers, ReaderStep(r) PROVE TypeOK'
    <3>1. CASE ReaderOffline(r)
      BY <3>1, SetStateTyped DEF
         ReaderOffline, TypeOK, EnvOK, DockerOK, ServerOK, TaskOK, LocalOK, States,
         Containers, Down, Exited, Flags, PCs, HandlerPCs, StartPCs, WaitPCs, SignalPCs,
         TransferPCs, AllActions, PowerActions, envVars, dockerVars, serverVars,
         taskVars, localVars
    <3>2. CASE ReaderDetach(r)
      BY <3>2 DEF
         ReaderDetach, TypeOK, EnvOK, DockerOK, ServerOK, TaskOK, LocalOK, States,
         Containers, Down, Exited, Flags, PCs, HandlerPCs, StartPCs, WaitPCs, SignalPCs,
         TransferPCs, AllActions, PowerActions, envVars, dockerVars, serverVars,
         taskVars, localVars
    <3> QED
      BY <2>8, <3>1, <3>2 DEF ReaderStep
  <2>9. CASE ContainerExit
    BY <2>9, EndStreamsTyped DEF
       ContainerExit, TypeOK, EnvOK, DockerOK, ServerOK, TaskOK, LocalOK, States,
       Containers, Down, Exited, Flags, PCs, HandlerPCs, StartPCs, WaitPCs, SignalPCs,
       TransferPCs, AllActions, PowerActions, envVars, dockerVars, serverVars,
       taskVars, localVars
  <2>10. CASE ConsoleDone
    BY <2>10 DEF
       ConsoleDone, HasOutput, TypeOK, EnvOK, DockerOK, ServerOK, TaskOK, LocalOK,
       States, Containers, Down, Exited, Flags, PCs, HandlerPCs, StartPCs, WaitPCs, SignalPCs,
       TransferPCs, AllActions, PowerActions, envVars, dockerVars, serverVars,
       taskVars, localVars
  <2>11. CASE ConsoleRunning
    BY <2>11, SetStateTyped DEF
       ConsoleRunning, TypeOK, EnvOK, DockerOK, ServerOK, TaskOK, LocalOK, States,
       Containers, Down, Exited, Flags, PCs, HandlerPCs, StartPCs, WaitPCs, SignalPCs,
       TransferPCs, AllActions, PowerActions, envVars, dockerVars, serverVars,
       taskVars, localVars
  <2>12. CASE ConsoleEcho
    BY <2>12 DEF
       ConsoleEcho, HasOutput, TypeOK, EnvOK, DockerOK, ServerOK, TaskOK, LocalOK,
       States, Containers, Down, Exited, Flags, PCs, HandlerPCs, StartPCs, WaitPCs, SignalPCs,
       TransferPCs, AllActions, PowerActions, envVars, dockerVars, serverVars,
       taskVars, localVars
  <2>15. CASE ConsoleStop
    BY <2>15, SetStateTyped DEF
       ConsoleStop, TypeOK, EnvOK, DockerOK, ServerOK, TaskOK, LocalOK,
       States, Containers, Down, Exited, Flags, PCs, HandlerPCs, StartPCs, WaitPCs, SignalPCs,
       TransferPCs, AllActions, PowerActions, envVars, dockerVars, serverVars,
       taskVars, localVars
  <2>16. CASE SendStopCommand
    BY <2>16, SetStateTyped DEF
       SendStopCommand, TypeOK, EnvOK, DockerOK, ServerOK, TaskOK, LocalOK,
       States, Containers, Down, Exited, Flags, PCs, HandlerPCs, StartPCs, WaitPCs, SignalPCs,
       TransferPCs, AllActions, PowerActions, envVars, dockerVars, serverVars,
       taskVars, localVars
  <2>13. CASE CrashForgotten
    BY <2>13 DEF
       CrashForgotten, TypeOK, EnvOK, DockerOK, ServerOK, TaskOK, LocalOK, States,
       Containers, Down, Exited, Flags, PCs, HandlerPCs, StartPCs, WaitPCs, SignalPCs,
       TransferPCs, AllActions, PowerActions, envVars, dockerVars, serverVars,
       taskVars, localVars
  <2>14. CASE UNCHANGED vars
    BY <2>14 DEF vars, 
       TypeOK, EnvOK, DockerOK, ServerOK, TaskOK, LocalOK, States, Down, Exited,
       Flags, PCs, HandlerPCs, StartPCs, WaitPCs, SignalPCs, TransferPCs,
       AllActions, PowerActions, envVars, dockerVars, serverVars, taskVars,
       localVars
  <2> QED
    BY <2>1, <2>2, <2>3, <2>4, <2>5, <2>6, <2>7, <2>8, <2>9, <2>10, <2>11, <2>12, <2>13, <2>14,
       <2>15, <2>16 DEF Next, ThreadStep, ConsoleStep
<1> QED
  BY <1>1, <1>2, PTL DEF Spec

(* The lock and what it protects. *)

\* The power lock of a server is exclusive and no two threads are in its start path:
\* PowerInv is inductive, whichever requests, kills, background stops and crash
\* handlers interleave.
THEOREM PowerInvariant == Spec => []PowerInv
<1>1. Init => PowerInv
  BY InitTyped DEF Init, PowerInv, PowerLockExclusive, PhaseInv, LockedTerminateKills,
     BootsFromDown, Threads, StartPCs, WaitPCs, SignalPCs, TransferPCs
<1>2. ASSUME PowerInv, TypeOK', [Next]_vars PROVE PowerInv'
  <2> USE <1>2
  <2>1. ASSUME NEW t \in Reqs, Request(t) PROVE PowerInv'
    <3>1. (PowerLockExclusive /\ PhaseInv)'
      BY <2>1, ActionsAssumption DEF
         Request, Goto, PowerInv, PowerLockExclusive, PhaseInv, TypeOK, TaskOK,
         Threads, StartPCs, WaitPCs, SignalPCs, TransferPCs, HandlerPCs,
         PowerActions, AllActions
    <3>2. (LockedTerminateKills /\ BootsFromDown)'
      BY <2>1 DEF
         Request, Goto, PowerInv, PowerLockExclusive, PhaseInv,
         LockedTerminateKills, BootsFromDown, TypeOK, TaskOK, Threads, StartPCs,
         dockerVars
    <3> QED
      BY <3>1, <3>2 DEF PowerInv
  <2>2. ASSUME NEW t \in Threads, PowerStep(t) PROVE PowerInv'
    <3>1. CASE CheckFlags(t)
      <4>1. (PowerLockExclusive /\ PhaseInv)'
        BY <3>1 DEF
           CheckFlags, Continue, Finish, Goto, PowerInv, PowerLockExclusive,
           PhaseInv, TypeOK, TaskOK, StartPCs, WaitPCs, SignalPCs, TransferPCs,
           HandlerPCs, PowerActions, AllActions, taskVars
      <4>2. (LockedTerminateKills /\ BootsFromDown)'
        BY <3>1 DEF
           CheckFlags, Continue, Finish, Goto, PowerInv, PowerLockExclusive,
           PhaseInv, LockedTerminateKills, BootsFromDown, TypeOK, TaskOK, StartPCs,
           taskVars, dockerVars
      <4> QED
        BY <4>1, <4>2 DEF PowerInv
    <3>2. CASE Acquire(t)
      <4>1. (PowerLockExclusive /\ PhaseInv)'
        BY <3>2 DEF
           Acquire, Dispatch, Goto, PowerInv, PowerLockExclusive, PhaseInv, TypeOK,
           TaskOK, StartPCs, WaitPCs, SignalPCs, TransferPCs, HandlerPCs,
           PowerActions, AllActions
      <4>2. (LockedTerminateKills /\ BootsFromDown)'
        BY <3>2 DEF
           Acquire, Dispatch, Goto, PowerInv, PowerLockExclusive, PhaseInv,
           LockedTerminateKills, BootsFromDown, TypeOK, TaskOK, StartPCs,
           dockerVars
      <4> QED
        BY <4>1, <4>2 DEF PowerInv
    <3>3. CASE AcquireFails(t)
      <4>1. (PowerLockExclusive /\ PhaseInv)'
        BY <3>3 DEF
           AcquireFails, Finish, Goto, PowerInv, PowerLockExclusive, PhaseInv,
           TypeOK, TaskOK, StartPCs, WaitPCs, SignalPCs, TransferPCs, HandlerPCs,
           PowerActions, AllActions
      <4>2. (LockedTerminateKills /\ BootsFromDown)'
        BY <3>3 DEF
           AcquireFails, Finish, Goto, PowerInv, PowerLockExclusive, PhaseInv,
           LockedTerminateKills, BootsFromDown, TypeOK, TaskOK, StartPCs,
           dockerVars
      <4> QED
        BY <4>1, <4>2 DEF PowerInv
    <3>4. CASE TryAcquireTimeout(t)
      <4>1. (PowerLockExclusive /\ PhaseInv)'
        BY <3>4 DEF
           TryAcquireTimeout, Finish, Goto, PowerInv, PowerLockExclusive, PhaseInv,
           TypeOK, TaskOK, StartPCs, WaitPCs, SignalPCs, TransferPCs, HandlerPCs,
           PowerActions, AllActions
      <4>2. (LockedTerminateKills /\ BootsFromDown)'
        BY <3>4 DEF
           TryAcquireTimeout, Finish, Goto, PowerInv, PowerLockExclusive, PhaseInv,
           LockedTerminateKills, BootsFromDown, TypeOK, TaskOK, StartPCs,
           dockerVars
      <4> QED
        BY <4>1, <4>2 DEF PowerInv
    <3>5. CASE KillWithoutLock(t)
      <4>1. (PowerLockExclusive /\ PhaseInv)'
        BY <3>5 DEF
           KillWithoutLock, Dispatch, Goto, PowerInv, PowerLockExclusive, PhaseInv,
           TypeOK, TaskOK, StartPCs, WaitPCs, SignalPCs, TransferPCs, HandlerPCs,
           PowerActions, AllActions
      <4>2. (LockedTerminateKills /\ BootsFromDown)'
        BY <3>5 DEF
           KillWithoutLock, Dispatch, Goto, PowerInv, PowerLockExclusive, PhaseInv,
           LockedTerminateKills, BootsFromDown, TypeOK, TaskOK, StartPCs,
           dockerVars
      <4> QED
        BY <4>1, <4>2 DEF PowerInv
    <3>6. CASE StartCheck(t)
      <4>1. (PowerLockExclusive /\ PhaseInv)'
        BY <3>6 DEF
           StartCheck, Continue, Finish, Goto, PowerInv, PowerLockExclusive,
           PhaseInv, TypeOK, TaskOK, StartPCs, WaitPCs, SignalPCs, TransferPCs,
           HandlerPCs, PowerActions, AllActions, taskVars
      <4>2. (LockedTerminateKills /\ BootsFromDown)'
        BY <3>6 DEF
           StartCheck, Continue, Finish, Goto, PowerInv, PowerLockExclusive,
           PhaseInv, LockedTerminateKills, BootsFromDown, TypeOK, TaskOK, StartPCs,
           taskVars, dockerVars
      <4> QED
        BY <4>1, <4>2 DEF PowerInv
    <3>7. CASE OnBeforeStart(t)
      <4>1. (PowerLockExclusive /\ PhaseInv)'
        BY <3>7 DEF
           OnBeforeStart, Continue, Finish, Goto, PowerInv, PowerLockExclusive,
           PhaseInv, TypeOK, TaskOK, StartPCs, WaitPCs, SignalPCs, TransferPCs,
           HandlerPCs, PowerActions, AllActions, taskVars
      <4>2. (LockedTerminateKills /\ BootsFromDown)'
        BY <3>7 DEF
           OnBeforeStart, Continue, Finish, Goto, PowerInv, PowerLockExclusive,
           PhaseInv, LockedTerminateKills, BootsFromDown, TypeOK, TaskOK, StartPCs,
           taskVars, dockerVars
      <4> QED
        BY <4>1, <4>2 DEF PowerInv
    <3> QED
      BY <2>2, <3>1, <3>2, <3>3, <3>4, <3>5, <3>6, <3>7 DEF PowerStep
  <2>3. ASSUME NEW t \in Threads, StartStep(t) PROVE PowerInv'
    <3>1. CASE StartInspect(t)
      <4>1. (PowerLockExclusive /\ PhaseInv)'
        BY <3>1 DEF
           StartInspect, Continue, Finish, Goto, PowerInv, PowerLockExclusive,
           PhaseInv, TypeOK, TaskOK, StartPCs, WaitPCs, SignalPCs, TransferPCs,
           HandlerPCs, PowerActions, AllActions, taskVars
      <4>2. (LockedTerminateKills /\ BootsFromDown)'
        BY <3>1 DEF
           StartInspect, Continue, Finish, Goto, PowerInv, PowerLockExclusive,
           PhaseInv, LockedTerminateKills, BootsFromDown, TypeOK, TaskOK, StartPCs,
           taskVars, dockerVars
      <4> QED
        BY <4>1, <4>2 DEF PowerInv
    <3>2. CASE StartMarkRunning(t)
      <4>1. (PowerLockExclusive /\ PhaseInv)'
        BY <3>2 DEF
           StartMarkRunning, Goto, PowerInv, PowerLockExclusive, PhaseInv, TypeOK,
           TaskOK, StartPCs, WaitPCs, SignalPCs, TransferPCs, HandlerPCs,
           PowerActions, AllActions, taskVars
      <4>2. (LockedTerminateKills /\ BootsFromDown)'
        BY <3>2 DEF
           StartMarkRunning, Goto, PowerInv, PowerLockExclusive, PhaseInv,
           LockedTerminateKills, BootsFromDown, TypeOK, TaskOK, StartPCs, taskVars,
           dockerVars
      <4> QED
        BY <4>1, <4>2 DEF PowerInv
    <3>3. CASE StartMarkStarting(t)
      <4>1. (PowerLockExclusive /\ PhaseInv)'
        BY <3>3 DEF
           StartMarkStarting, Goto, PowerInv, PowerLockExclusive, PhaseInv, TypeOK,
           TaskOK, StartPCs, WaitPCs, SignalPCs, TransferPCs, HandlerPCs,
           PowerActions, AllActions, taskVars
      <4>2. (LockedTerminateKills /\ BootsFromDown)'
        BY <3>3 DEF
           StartMarkStarting, Goto, PowerInv, PowerLockExclusive, PhaseInv,
           LockedTerminateKills, BootsFromDown, TypeOK, TaskOK, StartPCs, taskVars,
           dockerVars
      <4> QED
        BY <4>1, <4>2 DEF PowerInv
    <3>4. CASE RemoveContainer(t)
      <4>1. (PowerLockExclusive /\ PhaseInv)'
        BY <3>4 DEF
           RemoveContainer, Goto, PowerInv, PowerLockExclusive, PhaseInv, TypeOK,
           TaskOK, StartPCs, WaitPCs, SignalPCs, TransferPCs, HandlerPCs,
           PowerActions, AllActions, taskVars
      <4>2. (LockedTerminateKills /\ BootsFromDown)'
        BY <3>4 DEF
           RemoveContainer, Goto, PowerInv, PowerLockExclusive, PhaseInv,
           LockedTerminateKills, BootsFromDown, TypeOK, TaskOK, StartPCs, taskVars
      <4> QED
        BY <4>1, <4>2 DEF PowerInv
    <3>5. CASE CreateContainer(t)
      <4>1. (PowerLockExclusive /\ PhaseInv)'
        BY <3>5 DEF
           CreateContainer, Goto, PowerInv, PowerLockExclusive, PhaseInv, TypeOK,
           TaskOK, StartPCs, WaitPCs, SignalPCs, TransferPCs, HandlerPCs,
           PowerActions, AllActions, taskVars
      <4>2. (LockedTerminateKills /\ BootsFromDown)'
        BY <3>5 DEF
           CreateContainer, Goto, PowerInv, PowerLockExclusive, PhaseInv,
           LockedTerminateKills, BootsFromDown, TypeOK, TaskOK, StartPCs, taskVars
      <4> QED
        BY <4>1, <4>2 DEF PowerInv
    <3>6. CASE AttachRunning(t)
      <4>1. (PowerLockExclusive /\ PhaseInv)'
        BY <3>6 DEF
           AttachRunning, Finish, Goto, PowerInv, PowerLockExclusive, PhaseInv,
           TypeOK, TaskOK, StartPCs, WaitPCs, SignalPCs, TransferPCs, HandlerPCs,
           PowerActions, AllActions
      <4>2. (LockedTerminateKills /\ BootsFromDown)'
        BY <3>6 DEF
           AttachRunning, Finish, Goto, PowerInv, PowerLockExclusive, PhaseInv,
           LockedTerminateKills, BootsFromDown, TypeOK, TaskOK, StartPCs
      <4> QED
        BY <4>1, <4>2 DEF PowerInv
    <3>7. CASE Attach(t)
      <4>1. (PowerLockExclusive /\ PhaseInv)'
        BY <3>7 DEF
           Attach, Goto, PowerInv, PowerLockExclusive, PhaseInv, TypeOK, TaskOK,
           StartPCs, WaitPCs, SignalPCs, TransferPCs, HandlerPCs, PowerActions,
           AllActions, taskVars
      <4>2. (LockedTerminateKills /\ BootsFromDown)'
        BY <3>7 DEF
           Attach, Goto, PowerInv, PowerLockExclusive, PhaseInv,
           LockedTerminateKills, BootsFromDown, TypeOK, TaskOK, StartPCs, taskVars
      <4> QED
        BY <4>1, <4>2 DEF PowerInv
    <3>8. CASE Boot(t)
      <4>1. (PowerLockExclusive /\ PhaseInv)'
        BY <3>8 DEF
           Boot, Continue, Finish, Goto, PowerInv, PowerLockExclusive, PhaseInv,
           TypeOK, TaskOK, StartPCs, WaitPCs, SignalPCs, TransferPCs, HandlerPCs,
           PowerActions, AllActions, taskVars
      <4>2. (LockedTerminateKills /\ BootsFromDown)'
        BY <3>8 DEF
           Boot, Continue, Finish, Goto, PowerInv, PowerLockExclusive, PhaseInv,
           LockedTerminateKills, BootsFromDown, TypeOK, TaskOK, StartPCs, taskVars
      <4> QED
        BY <4>1, <4>2 DEF PowerInv
    <3>9. CASE StartFailStopping(t)
      <4>1. (PowerLockExclusive /\ PhaseInv)'
        BY <3>9 DEF
           StartFailStopping, Goto, PowerInv, PowerLockExclusive, PhaseInv, TypeOK,
           TaskOK, StartPCs, WaitPCs, SignalPCs, TransferPCs, HandlerPCs,
           PowerActions, AllActions, taskVars
      <4>2. (LockedTerminateKills /\ BootsFromDown)'
        BY <3>9 DEF
           StartFailStopping, Goto, PowerInv, PowerLockExclusive, PhaseInv,
           LockedTerminateKills, BootsFromDown, TypeOK, TaskOK, StartPCs, taskVars,
           dockerVars
      <4> QED
        BY <4>1, <4>2 DEF PowerInv
    <3>10. CASE StartFailOffline(t)
      <4>1. (PowerLockExclusive /\ PhaseInv)'
        BY <3>10 DEF
           StartFailOffline, Finish, Goto, PowerInv, PowerLockExclusive, PhaseInv,
           TypeOK, TaskOK, StartPCs, WaitPCs, SignalPCs, TransferPCs, HandlerPCs,
           PowerActions, AllActions
      <4>2. (LockedTerminateKills /\ BootsFromDown)'
        BY <3>10 DEF
           StartFailOffline, Finish, Goto, PowerInv, PowerLockExclusive, PhaseInv,
           LockedTerminateKills, BootsFromDown, TypeOK, TaskOK, StartPCs,
           dockerVars
      <4> QED
        BY <4>1, <4>2 DEF PowerInv
    <3> QED
      BY <2>3, <3>1, <3>2, <3>3, <3>4, <3>5, <3>6, <3>7, <3>8, <3>9, <3>10 DEF StartStep
  <2>4. ASSUME NEW t \in Threads, StopStep(t) PROVE PowerInv'
    <3>1. CASE StopMark(t)
      <4>1. (PowerLockExclusive /\ PhaseInv)'
        BY <3>1 DEF
           StopMark, Goto, PowerInv, PowerLockExclusive, PhaseInv, TypeOK, TaskOK,
           StartPCs, WaitPCs, SignalPCs, TransferPCs, HandlerPCs, PowerActions,
           AllActions
      <4>2. (LockedTerminateKills /\ BootsFromDown)'
        BY <3>1 DEF
           StopMark, Goto, PowerInv, PowerLockExclusive, PhaseInv,
           LockedTerminateKills, BootsFromDown, TypeOK, TaskOK, StartPCs,
           dockerVars
      <4> QED
        BY <4>1, <4>2 DEF PowerInv
    <3>2. CASE StopSend(t)
      <4>1. (PowerLockExclusive /\ PhaseInv)'
        BY <3>2 DEF
           StopSend, StopFails, Goto, Finish, PowerInv, PowerLockExclusive,
           PhaseInv, TypeOK, TaskOK, StartPCs, WaitPCs, SignalPCs, TransferPCs,
           HandlerPCs, PowerActions, AllActions, taskVars
      <4>2. (LockedTerminateKills /\ BootsFromDown)'
        BY <3>2 DEF
           StopSend, StopFails, Goto, Finish, PowerInv, PowerLockExclusive,
           PhaseInv, LockedTerminateKills, BootsFromDown, TypeOK, TaskOK, StartPCs,
           taskVars, dockerVars
      <4> QED
        BY <4>1, <4>2 DEF PowerInv
    <3>3. CASE StopNative(t)
      <4>1. (PowerLockExclusive /\ PhaseInv)'
        BY <3>3 DEF
           StopNative, StopFails, StopDeadline, Goto, Finish, PowerInv,
           PowerLockExclusive, PhaseInv, TypeOK, TaskOK, StartPCs, WaitPCs,
           SignalPCs, TransferPCs, HandlerPCs, PowerActions, AllActions, taskVars
      <4>2. (LockedTerminateKills /\ BootsFromDown)'
        BY <3>3 DEF
           StopNative, StopFails, StopDeadline, Goto, Finish, PowerInv,
           PowerLockExclusive, PhaseInv, LockedTerminateKills, BootsFromDown,
           TypeOK, TaskOK, StartPCs, Down, Exited, taskVars
      <4> QED
        BY <4>1, <4>2 DEF PowerInv
    <3>4. CASE Await(t)
      <4>1. (PowerLockExclusive /\ PhaseInv)'
        BY <3>4 DEF
           Await, Stopped, StopDeadline, Continue, Finish, StopFails, Goto,
           PowerInv, PowerLockExclusive, PhaseInv, TypeOK, TaskOK, StartPCs,
           WaitPCs, SignalPCs, TransferPCs, HandlerPCs, PowerActions, AllActions,
           taskVars
      <4>2. (LockedTerminateKills /\ BootsFromDown)'
        BY <3>4 DEF
           Await, Stopped, StopDeadline, Continue, Finish, StopFails, Goto,
           PowerInv, PowerLockExclusive, PhaseInv, LockedTerminateKills,
           BootsFromDown, TypeOK, TaskOK, StartPCs, taskVars, dockerVars
      <4> QED
        BY <4>1, <4>2 DEF PowerInv
    <3> QED
      BY <2>4, <3>1, <3>2, <3>3, <3>4 DEF StopStep
  <2>5. ASSUME NEW t \in Threads, SignalStep(t) PROVE PowerInv'
    <3>1. CASE SignalInspect(t)
      <4>1. (PowerLockExclusive /\ PhaseInv)'
        BY <3>1 DEF
           SignalInspect, SignalFails, StopDeadline, StopFails, Signalled, Goto, Finish, PowerInv,
           PowerLockExclusive, PhaseInv, TypeOK, TaskOK, StartPCs, WaitPCs,
           SignalPCs, TransferPCs, HandlerPCs, PowerActions, AllActions, taskVars
      <4>2. (LockedTerminateKills /\ BootsFromDown)'
        BY <3>1 DEF
           SignalInspect, SignalFails, StopDeadline, StopFails, Signalled, Goto, Finish, PowerInv,
           PowerLockExclusive, PhaseInv, LockedTerminateKills, BootsFromDown,
           TypeOK, TaskOK, StartPCs, Down, Exited, taskVars, dockerVars
      <4> QED
        BY <4>1, <4>2 DEF PowerInv
    <3>2. CASE SignalDead(t)
      <4>1. (PowerLockExclusive /\ PhaseInv)'
        BY <3>2 DEF
           SignalDead, Signalled, Goto, PowerInv, PowerLockExclusive, PhaseInv,
           TypeOK, TaskOK, StartPCs, WaitPCs, SignalPCs, TransferPCs, HandlerPCs,
           PowerActions, AllActions, taskVars
      <4>2. (LockedTerminateKills /\ BootsFromDown)'
        BY <3>2 DEF
           SignalDead, Signalled, Goto, PowerInv, PowerLockExclusive, PhaseInv,
           LockedTerminateKills, BootsFromDown, TypeOK, TaskOK, StartPCs, taskVars,
           dockerVars
      <4> QED
        BY <4>1, <4>2 DEF PowerInv
    <3>3. CASE SignalDeadOffline(t)
      <4>1. (PowerLockExclusive /\ PhaseInv)'
        BY <3>3 DEF
           SignalDeadOffline, Signalled, Goto, PowerInv, PowerLockExclusive,
           PhaseInv, TypeOK, TaskOK, StartPCs, WaitPCs, SignalPCs, TransferPCs,
           HandlerPCs, PowerActions, AllActions, taskVars
      <4>2. (LockedTerminateKills /\ BootsFromDown)'
        BY <3>3 DEF
           SignalDeadOffline, Signalled, Goto, PowerInv, PowerLockExclusive,
           PhaseInv, LockedTerminateKills, BootsFromDown, TypeOK, TaskOK, StartPCs,
           taskVars, dockerVars
      <4> QED
        BY <4>1, <4>2 DEF PowerInv
    <3>4. CASE SignalStopping(t)
      <4>1. (PowerLockExclusive /\ PhaseInv)'
        BY <3>4 DEF
           SignalStopping, Goto, PowerInv, PowerLockExclusive, PhaseInv, TypeOK,
           TaskOK, StartPCs, WaitPCs, SignalPCs, TransferPCs, HandlerPCs,
           PowerActions, AllActions, taskVars
      <4>2. (LockedTerminateKills /\ BootsFromDown)'
        BY <3>4 DEF
           SignalStopping, Goto, PowerInv, PowerLockExclusive, PhaseInv,
           LockedTerminateKills, BootsFromDown, TypeOK, TaskOK, StartPCs, taskVars,
           dockerVars
      <4> QED
        BY <4>1, <4>2 DEF PowerInv
    <3>5. CASE SignalKill(t)
      <4>1. (PowerLockExclusive /\ PhaseInv)'
        BY <3>5 DEF
           SignalKill, SignalFails, StopDeadline, StopFails, Signalled, Finish, Goto, PowerInv,
           PowerLockExclusive, PhaseInv, TypeOK, TaskOK, StartPCs, WaitPCs,
           SignalPCs, TransferPCs, HandlerPCs, PowerActions, AllActions, taskVars
      <4>2. (LockedTerminateKills /\ BootsFromDown)'
        BY <3>5 DEF
           SignalKill, SignalFails, StopDeadline, StopFails, Signalled, Finish, Goto, PowerInv,
           PowerLockExclusive, PhaseInv, LockedTerminateKills, BootsFromDown,
           TypeOK, TaskOK, StartPCs, taskVars
      <4> QED
        BY <4>1, <4>2 DEF PowerInv
    <3>6. CASE TerminateOffline(t)
      <4>1. (PowerLockExclusive /\ PhaseInv)'
        BY <3>6 DEF
           TerminateOffline, Stopped, Continue, Finish, Goto, PowerInv,
           PowerLockExclusive, PhaseInv, TypeOK, TaskOK, StartPCs, WaitPCs,
           SignalPCs, TransferPCs, HandlerPCs, PowerActions, AllActions, taskVars
      <4>2. (LockedTerminateKills /\ BootsFromDown)'
        BY <3>6 DEF
           TerminateOffline, Stopped, Continue, Finish, Goto, PowerInv,
           PowerLockExclusive, PhaseInv, LockedTerminateKills, BootsFromDown,
           TypeOK, TaskOK, StartPCs, SignalPCs, taskVars, dockerVars
      <4> QED
        BY <4>1, <4>2 DEF PowerInv
    <3> QED
      BY <2>5, <3>1, <3>2, <3>3, <3>4, <3>5, <3>6 DEF SignalStep
  <2>6. ASSUME NEW t \in Threads, TransferStep(t) PROVE PowerInv'
    <3>1. CASE TransferCheck(t)
      <4>1. (PowerLockExclusive /\ PhaseInv)'
        BY <3>1 DEF
           TransferCheck, Continue, Finish, Goto, PowerInv, PowerLockExclusive,
           PhaseInv, TypeOK, TaskOK, StartPCs, WaitPCs, SignalPCs, TransferPCs,
           HandlerPCs, PowerActions, AllActions, taskVars
      <4>2. (LockedTerminateKills /\ BootsFromDown)'
        BY <3>1 DEF
           TransferCheck, Continue, Finish, Goto, PowerInv, PowerLockExclusive,
           PhaseInv, LockedTerminateKills, BootsFromDown, TypeOK, TaskOK, StartPCs,
           taskVars, dockerVars
      <4> QED
        BY <4>1, <4>2 DEF PowerInv
    <3>2. CASE TransferSet(t)
      <4>1. (PowerLockExclusive /\ PhaseInv)'
        BY <3>2 DEF
           TransferSet, Goto, PowerInv, PowerLockExclusive, PhaseInv, TypeOK,
           TaskOK, StartPCs, WaitPCs, SignalPCs, TransferPCs, HandlerPCs,
           PowerActions, AllActions, taskVars
      <4>2. (LockedTerminateKills /\ BootsFromDown)'
        BY <3>2 DEF
           TransferSet, Goto, PowerInv, PowerLockExclusive, PhaseInv,
           LockedTerminateKills, BootsFromDown, TypeOK, TaskOK, StartPCs, taskVars,
           dockerVars
      <4> QED
        BY <4>1, <4>2 DEF PowerInv
    <3>3. CASE TransferEnd(t)
      <4>1. (PowerLockExclusive /\ PhaseInv)'
        BY <3>3 DEF
           TransferEnd, Finish, Goto, PowerInv, PowerLockExclusive, PhaseInv,
           TypeOK, TaskOK, StartPCs, WaitPCs, SignalPCs, TransferPCs, HandlerPCs,
           PowerActions, AllActions
      <4>2. (LockedTerminateKills /\ BootsFromDown)'
        BY <3>3 DEF
           TransferEnd, Finish, Goto, PowerInv, PowerLockExclusive, PhaseInv,
           LockedTerminateKills, BootsFromDown, TypeOK, TaskOK, StartPCs,
           dockerVars
      <4> QED
        BY <4>1, <4>2 DEF PowerInv
    <3> QED
      BY <2>6, <3>1, <3>2, <3>3 DEF TransferStep
  <2>7. ASSUME NEW t \in Threads, HandlerStep(t) PROVE PowerInv'
    <3>1. CASE HandleEvent(t)
      <4>1. (PowerLockExclusive /\ PhaseInv)'
        BY <3>1 DEF
           HandleEvent, Goto, PowerInv, PowerLockExclusive, PhaseInv, TypeOK,
           TaskOK, StartPCs, WaitPCs, SignalPCs, TransferPCs, HandlerPCs,
           PowerActions, AllActions, taskVars
      <4>2. (LockedTerminateKills /\ BootsFromDown)'
        BY <3>1 DEF
           HandleEvent, Goto, PowerInv, PowerLockExclusive, PhaseInv,
           LockedTerminateKills, BootsFromDown, TypeOK, TaskOK, StartPCs, taskVars,
           dockerVars
      <4> QED
        BY <4>1, <4>2 DEF PowerInv
    <3>2. CASE LoadPrev(t)
      <4>1. (PowerLockExclusive /\ PhaseInv)'
        BY <3>2 DEF
           LoadPrev, Goto, PowerInv, PowerLockExclusive, PhaseInv, TypeOK, TaskOK,
           StartPCs, WaitPCs, SignalPCs, TransferPCs, HandlerPCs, PowerActions,
           AllActions, taskVars
      <4>2. (LockedTerminateKills /\ BootsFromDown)'
        BY <3>2 DEF
           LoadPrev, Goto, PowerInv, PowerLockExclusive, PhaseInv,
           LockedTerminateKills, BootsFromDown, TypeOK, TaskOK, StartPCs, taskVars,
           dockerVars
      <4> QED
        BY <4>1, <4>2 DEF PowerInv
    <3>3. CASE LoadState(t)
      <4>1. (PowerLockExclusive /\ PhaseInv)'
        BY <3>3 DEF
           LoadState, Goto, PowerInv, PowerLockExclusive, PhaseInv, TypeOK, TaskOK,
           StartPCs, WaitPCs, SignalPCs, TransferPCs, HandlerPCs, PowerActions,
           AllActions, taskVars
      <4>2. (LockedTerminateKills /\ BootsFromDown)'
        BY <3>3 DEF
           LoadState, Goto, PowerInv, PowerLockExclusive, PhaseInv,
           LockedTerminateKills, BootsFromDown, TypeOK, TaskOK, StartPCs, taskVars,
           dockerVars
      <4> QED
        BY <4>1, <4>2 DEF PowerInv
    <3>4. CASE StoreState(t)
      <4>1. (PowerLockExclusive /\ PhaseInv)'
        BY <3>4 DEF
           StoreState, Goto, PowerInv, PowerLockExclusive, PhaseInv, TypeOK,
           TaskOK, StartPCs, WaitPCs, SignalPCs, TransferPCs, HandlerPCs,
           PowerActions, AllActions, taskVars
      <4>2. (LockedTerminateKills /\ BootsFromDown)'
        BY <3>4 DEF
           StoreState, Goto, PowerInv, PowerLockExclusive, PhaseInv,
           LockedTerminateKills, BootsFromDown, TypeOK, TaskOK, StartPCs, taskVars,
           dockerVars
      <4> QED
        BY <4>1, <4>2 DEF PowerInv
    <3>5. CASE Detect(t)
      <4>1. (PowerLockExclusive /\ PhaseInv)'
        BY <3>5 DEF
           Detect, Goto, CrashDetected, PowerInv, PowerLockExclusive, PhaseInv,
           TypeOK, TaskOK, StartPCs, WaitPCs, SignalPCs, TransferPCs, HandlerPCs,
           PowerActions, AllActions, taskVars
      <4>2. (LockedTerminateKills /\ BootsFromDown)'
        BY <3>5 DEF
           Detect, Goto, CrashDetected, PowerInv, PowerLockExclusive, PhaseInv,
           LockedTerminateKills, BootsFromDown, TypeOK, TaskOK, StartPCs, taskVars,
           dockerVars
      <4> QED
        BY <4>1, <4>2 DEF PowerInv
    <3>6. CASE CrashCheck(t)
      <4>1. (PowerLockExclusive /\ PhaseInv)'
        BY <3>6 DEF
           CrashCheck, Goto, PowerInv, PowerLockExclusive, PhaseInv, TypeOK,
           TaskOK, StartPCs, WaitPCs, SignalPCs, TransferPCs, HandlerPCs,
           PowerActions, AllActions, taskVars
      <4>2. (LockedTerminateKills /\ BootsFromDown)'
        BY <3>6 DEF
           CrashCheck, Goto, PowerInv, PowerLockExclusive, PhaseInv,
           LockedTerminateKills, BootsFromDown, TypeOK, TaskOK, StartPCs, taskVars,
           dockerVars
      <4> QED
        BY <4>1, <4>2 DEF PowerInv
    <3>7. CASE CrashExitState(t)
      <4>1. (PowerLockExclusive /\ PhaseInv)'
        BY <3>7 DEF
           CrashExitState, Goto, ExitIsCrash, PowerInv, PowerLockExclusive,
           PhaseInv, TypeOK, TaskOK, StartPCs, WaitPCs, SignalPCs, TransferPCs,
           HandlerPCs, PowerActions, AllActions, taskVars
      <4>2. (LockedTerminateKills /\ BootsFromDown)'
        BY <3>7 DEF
           CrashExitState, Goto, ExitIsCrash, PowerInv, PowerLockExclusive,
           PhaseInv, LockedTerminateKills, BootsFromDown, TypeOK, TaskOK, StartPCs,
           taskVars, dockerVars
      <4> QED
        BY <4>1, <4>2 DEF PowerInv
    <3>8. CASE CrashTime(t)
      <4>1. (PowerLockExclusive /\ PhaseInv)'
        BY <3>8 DEF
           CrashTime, Goto, PowerInv, PowerLockExclusive, PhaseInv, TypeOK, TaskOK,
           StartPCs, WaitPCs, SignalPCs, TransferPCs, HandlerPCs, PowerActions,
           AllActions, taskVars
      <4>2. (LockedTerminateKills /\ BootsFromDown)'
        BY <3>8 DEF
           CrashTime, Goto, PowerInv, PowerLockExclusive, PhaseInv,
           LockedTerminateKills, BootsFromDown, TypeOK, TaskOK, StartPCs, taskVars,
           dockerVars
      <4> QED
        BY <4>1, <4>2 DEF PowerInv
    <3>9. CASE CrashSet(t)
      <4>1. (PowerLockExclusive /\ PhaseInv)'
        BY <3>9 DEF
           CrashSet, Goto, PowerInv, PowerLockExclusive, PhaseInv, TypeOK, TaskOK,
           StartPCs, WaitPCs, SignalPCs, TransferPCs, HandlerPCs, PowerActions,
           AllActions
      <4>2. (LockedTerminateKills /\ BootsFromDown)'
        BY <3>9 DEF
           CrashSet, Goto, PowerInv, PowerLockExclusive, PhaseInv,
           LockedTerminateKills, BootsFromDown, TypeOK, TaskOK, StartPCs,
           dockerVars
      <4> QED
        BY <4>1, <4>2 DEF PowerInv
    <3> QED
      BY <2>7, <3>1, <3>2, <3>3, <3>4, <3>5, <3>6, <3>7, <3>8, <3>9 DEF HandlerStep
  <2>8. ASSUME UNCHANGED <<pc, taskVars>>, container' = "running" => container = "running"
       PROVE PowerInv'
    BY <2>8 DEF PowerInv, PowerLockExclusive, PhaseInv, LockedTerminateKills,
       BootsFromDown, taskVars
  <2>9. ASSUME NEW r \in Readers, ReaderStep(r) PROVE PowerInv'
    BY <2>9, <2>8 DEF ReaderStep, ReaderOffline, ReaderDetach
  <2>10. CASE ContainerExit
    BY <2>10, <2>8 DEF ContainerExit, Exited
  <2>11. CASE ConsoleStep
    BY <2>11, <2>8 DEF ConsoleStep, ConsoleDone, ConsoleRunning, ConsoleEcho,
       ConsoleStop, SendStopCommand, dockerVars
  <2>12. CASE CrashForgotten
    BY <2>12, <2>8 DEF CrashForgotten, dockerVars
  <2>13. CASE UNCHANGED vars
    BY <2>13, <2>8 DEF vars, dockerVars
  <2> QED
    BY <2>1, <2>2, <2>3, <2>4, <2>5, <2>6, <2>7, <2>9, <2>10, <2>11, <2>12, <2>13 DEF Next,
       ThreadStep
<1> QED
  BY <1>1, <1>2, TypeCorrect, PTL DEF Spec

\* The power lock's channel holds a value exactly while one thread has the deferred
\* Release that drains it: two power actions never run at the same time.
THEOREM LockExclusive == Spec => []PowerLockExclusive
  BY PowerInvariant, PTL DEF PowerInv

\* Environment.Start, with the checks before it, is never run by two threads at the
\* same time, crash handlers included.
THEOREM StartPathExclusive == Spec => []StartExclusive
<1>1. PowerInv => StartExclusive
  BY DEF PowerInv, PowerLockExclusive, PhaseInv, StartExclusive
<1> QED
  BY <1>1, PowerInvariant, PTL

\* Between finding the container down (or stopping it for a restart) and starting it,
\* Start never meets a process that somebody else has started.
THEOREM BootSafety == Spec => []BootsFromDown
  BY PowerInvariant, PTL DEF PowerInv

\* Terminate under the lock marks a server as dead only when its process is.
THEOREM TerminateSafety == Spec => []LockedTerminateKills
  BY PowerInvariant, PTL DEF PowerInv

-----------------------------------------------------------------------------
(* The power lock implements PowerSerial. *)

BootPCs == StartPCs \ {"startCheck"}

\* How a step of a thread may move it and the lock: on with what it holds, out of
\* everything with a Release, or into the lock.
ThreadMoves(t) ==
    /\ pc' = [pc EXCEPT ![t] = pc'[t]]
    /\ \/ held' = held /\ (pc[t] \in BootPCs => pc'[t] \in BootPCs)
       \/ held' = held \ {t} /\ pc'[t] \notin BootPCs
       \/ /\ held = {} /\ held' = {t}
          /\ pc[t] \notin BootPCs /\ pc'[t] \notin BootPCs

LEMMA StepMoves ==
    ASSUME PowerInv, NEW t \in Threads, ThreadStep(t) PROVE ThreadMoves(t)
<1>1. CASE PowerStep(t)
  <2>1. CASE CheckFlags(t)
    BY <2>1 DEF
       CheckFlags, Continue, Finish, Goto, ThreadMoves, BootPCs, StartPCs,
       PowerInv, TypeOK, TaskOK, taskVars
  <2>2. CASE Acquire(t)
    BY <2>2 DEF
       Acquire, Dispatch, Goto, ThreadMoves, BootPCs, StartPCs, PowerInv,
       PowerLockExclusive, TypeOK, TaskOK
  <2>3. CASE AcquireFails(t)
    BY <2>3 DEF
       AcquireFails, Finish, Goto, ThreadMoves, BootPCs, StartPCs, PowerInv,
       TypeOK, TaskOK
  <2>4. CASE TryAcquireTimeout(t)
    BY <2>4 DEF
       TryAcquireTimeout, Finish, Goto, ThreadMoves, BootPCs, StartPCs, PowerInv,
       TypeOK, TaskOK
  <2>5. CASE KillWithoutLock(t)
    BY <2>5 DEF
       KillWithoutLock, Dispatch, Goto, ThreadMoves, BootPCs, StartPCs, PowerInv,
       TypeOK, TaskOK
  <2>6. CASE StartCheck(t)
    BY <2>6 DEF
       StartCheck, Continue, Finish, Goto, ThreadMoves, BootPCs, StartPCs,
       PowerInv, TypeOK, TaskOK, taskVars
  <2>7. CASE OnBeforeStart(t)
    BY <2>7 DEF
       OnBeforeStart, Continue, Finish, Goto, ThreadMoves, BootPCs, StartPCs,
       PowerInv, TypeOK, TaskOK, taskVars
  <2> QED
    BY <1>1, <2>1, <2>2, <2>3, <2>4, <2>5, <2>6, <2>7 DEF PowerStep
<1>2. CASE StartStep(t)
  <2>1. CASE StartInspect(t)
    BY <2>1 DEF
       StartInspect, Continue, Finish, Goto, ThreadMoves, BootPCs, StartPCs,
       PowerInv, TypeOK, TaskOK, taskVars
  <2>2. CASE StartMarkRunning(t)
    BY <2>2 DEF
       StartMarkRunning, Goto, ThreadMoves, BootPCs, StartPCs, PowerInv, TypeOK,
       TaskOK, taskVars
  <2>3. CASE StartMarkStarting(t)
    BY <2>3 DEF
       StartMarkStarting, Goto, ThreadMoves, BootPCs, StartPCs, PowerInv, TypeOK,
       TaskOK, taskVars
  <2>4. CASE RemoveContainer(t)
    BY <2>4 DEF
       RemoveContainer, Goto, ThreadMoves, BootPCs, StartPCs, PowerInv, TypeOK,
       TaskOK, taskVars
  <2>5. CASE CreateContainer(t)
    BY <2>5 DEF
       CreateContainer, Goto, ThreadMoves, BootPCs, StartPCs, PowerInv, TypeOK,
       TaskOK, taskVars
  <2>6. CASE AttachRunning(t)
    BY <2>6 DEF
       AttachRunning, Finish, Goto, ThreadMoves, BootPCs, StartPCs, PowerInv,
       TypeOK, TaskOK
  <2>7. CASE Attach(t)
    BY <2>7 DEF
       Attach, Goto, ThreadMoves, BootPCs, StartPCs, PowerInv, TypeOK, TaskOK,
       taskVars
  <2>8. CASE Boot(t)
    BY <2>8 DEF
       Boot, Continue, Finish, Goto, ThreadMoves, BootPCs, StartPCs, PowerInv,
       TypeOK, TaskOK, taskVars
  <2>9. CASE StartFailStopping(t)
    BY <2>9 DEF
       StartFailStopping, Goto, ThreadMoves, BootPCs, StartPCs, PowerInv, TypeOK,
       TaskOK, taskVars
  <2>10. CASE StartFailOffline(t)
    BY <2>10 DEF
       StartFailOffline, Finish, Goto, ThreadMoves, BootPCs, StartPCs, PowerInv,
       TypeOK, TaskOK
  <2> QED
    BY <1>2, <2>1, <2>2, <2>3, <2>4, <2>5, <2>6, <2>7, <2>8, <2>9, <2>10 DEF StartStep
<1>3. CASE StopStep(t)
  <2>1. CASE StopMark(t)
    BY <2>1 DEF
       StopMark, Goto, ThreadMoves, BootPCs, StartPCs, PowerInv, TypeOK, TaskOK
  <2>2. CASE StopSend(t)
    BY <2>2 DEF
       StopSend, StopFails, Goto, Finish, ThreadMoves, BootPCs, StartPCs, PowerInv,
       TypeOK, TaskOK, taskVars
  <2>3. CASE StopNative(t)
    BY <2>3 DEF
       StopNative, StopFails, StopDeadline, Goto, Finish, ThreadMoves, BootPCs,
       StartPCs, PowerInv, TypeOK, TaskOK, taskVars
  <2>4. CASE Await(t)
    BY <2>4 DEF
       Await, Stopped, StopDeadline, Continue, Finish, StopFails, Goto,
       ThreadMoves, BootPCs, StartPCs, PowerInv, TypeOK, TaskOK, taskVars
  <2> QED
    BY <1>3, <2>1, <2>2, <2>3, <2>4 DEF StopStep
<1>4. CASE SignalStep(t)
  <2>1. CASE SignalInspect(t)
    BY <2>1 DEF
       SignalInspect, SignalFails, StopDeadline, StopFails, Signalled, Goto, Finish, ThreadMoves, BootPCs,
       StartPCs, PowerInv, TypeOK, TaskOK, taskVars
  <2>2. CASE SignalDead(t)
    BY <2>2 DEF
       SignalDead, Signalled, Goto, ThreadMoves, BootPCs, StartPCs, PowerInv,
       TypeOK, TaskOK, taskVars
  <2>3. CASE SignalDeadOffline(t)
    BY <2>3 DEF
       SignalDeadOffline, Signalled, Goto, ThreadMoves, BootPCs, StartPCs,
       PowerInv, TypeOK, TaskOK, taskVars
  <2>4. CASE SignalStopping(t)
    BY <2>4 DEF
       SignalStopping, Goto, ThreadMoves, BootPCs, StartPCs, PowerInv, TypeOK,
       TaskOK, taskVars
  <2>5. CASE SignalKill(t)
    BY <2>5 DEF
       SignalKill, SignalFails, StopDeadline, StopFails, Signalled, Finish, Goto, ThreadMoves, BootPCs,
       StartPCs, PowerInv, TypeOK, TaskOK, taskVars
  <2>6. CASE TerminateOffline(t)
    BY <2>6 DEF
       TerminateOffline, Stopped, Continue, Finish, Goto, ThreadMoves, BootPCs,
       StartPCs, PowerInv, TypeOK, TaskOK, taskVars
  <2> QED
    BY <1>4, <2>1, <2>2, <2>3, <2>4, <2>5, <2>6 DEF SignalStep
<1>5. CASE TransferStep(t)
  <2>1. CASE TransferCheck(t)
    BY <2>1 DEF
       TransferCheck, Continue, Finish, Goto, ThreadMoves, BootPCs, StartPCs,
       PowerInv, TypeOK, TaskOK, taskVars
  <2>2. CASE TransferSet(t)
    BY <2>2 DEF
       TransferSet, Goto, ThreadMoves, BootPCs, StartPCs, PowerInv, TypeOK, TaskOK,
       taskVars
  <2>3. CASE TransferEnd(t)
    BY <2>3 DEF
       TransferEnd, Finish, Goto, ThreadMoves, BootPCs, StartPCs, PowerInv, TypeOK,
       TaskOK
  <2> QED
    BY <1>5, <2>1, <2>2, <2>3 DEF TransferStep
<1>6. CASE HandlerStep(t)
  <2>1. CASE HandleEvent(t)
    BY <2>1 DEF
       HandleEvent, Goto, ThreadMoves, BootPCs, StartPCs, PowerInv, TypeOK, TaskOK,
       taskVars
  <2>2. CASE LoadPrev(t)
    BY <2>2 DEF
       LoadPrev, Goto, ThreadMoves, BootPCs, StartPCs, PowerInv, TypeOK, TaskOK,
       taskVars
  <2>3. CASE LoadState(t)
    BY <2>3 DEF
       LoadState, Goto, ThreadMoves, BootPCs, StartPCs, PowerInv, TypeOK, TaskOK,
       taskVars
  <2>4. CASE StoreState(t)
    BY <2>4 DEF
       StoreState, Goto, ThreadMoves, BootPCs, StartPCs, PowerInv, TypeOK, TaskOK,
       taskVars
  <2>5. CASE Detect(t)
    BY <2>5 DEF
       Detect, Goto, CrashDetected, ThreadMoves, BootPCs, StartPCs, PowerInv,
       TypeOK, TaskOK, taskVars
  <2>6. CASE CrashCheck(t)
    BY <2>6 DEF
       CrashCheck, Goto, ThreadMoves, BootPCs, StartPCs, PowerInv, TypeOK, TaskOK,
       taskVars
  <2>7. CASE CrashExitState(t)
    BY <2>7 DEF
       CrashExitState, Goto, ExitIsCrash, ThreadMoves, BootPCs, StartPCs, PowerInv,
       TypeOK, TaskOK, taskVars
  <2>8. CASE CrashTime(t)
    BY <2>8 DEF
       CrashTime, Goto, ThreadMoves, BootPCs, StartPCs, PowerInv, TypeOK, TaskOK,
       taskVars
  <2>9. CASE CrashSet(t)
    BY <2>9 DEF
       CrashSet, Goto, ThreadMoves, BootPCs, StartPCs, PowerInv, TypeOK, TaskOK
  <2> QED
    BY <1>6, <2>1, <2>2, <2>3, <2>4, <2>5, <2>6, <2>7, <2>8, <2>9 DEF HandlerStep
<1> QED
  BY <1>1, <1>2, <1>3, <1>4, <1>5, <1>6 DEF ThreadStep

LEMMA MovesRefine ==
    ASSUME PowerInv, PowerInv', NEW t \in Threads, ThreadMoves(t)
    PROVE  [Serial!GuardNext]_(Serial!guard)
<1> DEFINE Booting == {s \in Threads : pc[s] \in BootPCs}
<1>1. /\ \A s \in Threads \ {t} : pc'[s] = pc[s]
      /\ held \subseteq Threads
  BY DEF ThreadMoves, PowerInv, TypeOK, TaskOK
<1>2. Booting \subseteq held /\ Booting' \subseteq held'
  BY DEF PowerInv, PhaseInv, BootPCs
<1>3. (\A s, u \in held : s = u) /\ (\A s, u \in held' : s = u)
  BY DEF PowerInv, PowerLockExclusive
<1>4. CASE held' = held /\ (pc[t] \in BootPCs => pc'[t] \in BootPCs)
  <2>1. CASE pc'[t] \in BootPCs
    <3>1. held = {t} /\ Booting' = {t}
      BY <1>1, <1>2, <1>3, <1>4, <2>1
    <3> QED
      BY <3>1, <1>4 DEF Serial!GuardNext, Serial!BeginBoot, BootPCs
  <2>2. CASE pc'[t] \notin BootPCs
    <3>1. Booting' = Booting
      BY <1>1, <1>4, <2>2
    <3> QED
      BY <3>1, <1>4 DEF Serial!guard, BootPCs
  <2> QED
    BY <2>1, <2>2
<1>5. CASE held' = held \ {t} /\ pc'[t] \notin BootPCs
  <2>1. CASE t \in held
    <3>1. held = {t} /\ held' = {} /\ Booting' = {}
      BY <1>1, <1>2, <1>3, <1>5, <2>1
    <3> QED
      BY <3>1 DEF Serial!GuardNext, Serial!Leave, BootPCs
  <2>2. CASE t \notin held
    <3>1. held' = held /\ Booting' = Booting
      BY <1>1, <1>2, <1>5, <2>2
    <3> QED
      BY <3>1 DEF Serial!guard, BootPCs
  <2> QED
    BY <2>1, <2>2
<1>6. CASE /\ held = {} /\ held' = {t}
           /\ pc[t] \notin BootPCs /\ pc'[t] \notin BootPCs
  <2>1. Booting' = Booting
    BY <1>1, <1>6
  <2> QED
    BY <2>1, <1>6 DEF Serial!GuardNext, Serial!Enter, BootPCs
<1> QED
  BY <1>4, <1>5, <1>6 DEF ThreadMoves

\* HandlePowerAction with the Locker implements PowerSerial: power actions are served
\* one at a time, and only the action being served boots the server.
THEOREM PowerRefinesSerial == Spec => ServesOneAtATime
<1>1. Init => Serial!GuardInit
  BY DEF Init, Threads, Serial!GuardInit, StartPCs
<1>2. ASSUME PowerInv, PowerInv', [Next]_vars PROVE [Serial!GuardNext]_(Serial!guard)
  <2> USE <1>2
  <2>1. ASSUME NEW t \in Reqs, Request(t) PROVE [Serial!GuardNext]_(Serial!guard)
    <3>1. t \in Threads /\ ThreadMoves(t)
      BY <2>1 DEF Request, Goto, ThreadMoves, BootPCs, StartPCs, PowerInv, TypeOK,
         TaskOK, Threads
    <3> QED
      BY <3>1, MovesRefine
  <2>2. ASSUME NEW t \in Threads, ThreadStep(t) PROVE [Serial!GuardNext]_(Serial!guard)
    BY <2>2, StepMoves, MovesRefine
  <2>3. ASSUME UNCHANGED <<pc, held>> PROVE [Serial!GuardNext]_(Serial!guard)
    BY <2>3 DEF Serial!guard
  <2>4. ASSUME NEW r \in Readers, ReaderStep(r) PROVE [Serial!GuardNext]_(Serial!guard)
    BY <2>3, <2>4 DEF ReaderStep, ReaderOffline, ReaderDetach, taskVars
  <2>5. CASE ContainerExit \/ ConsoleStep \/ CrashForgotten
    BY <2>3, <2>5 DEF ContainerExit, ConsoleStep, ConsoleDone, ConsoleRunning,
       ConsoleEcho, ConsoleStop, SendStopCommand, CrashForgotten, taskVars
  <2>6. CASE UNCHANGED vars
    BY <2>3, <2>6 DEF vars, taskVars
  <2> QED
    BY <2>1, <2>2, <2>4, <2>5, <2>6 DEF Next
<1> QED
  BY <1>1, <1>2, PowerInvariant, PTL DEF Spec, ServesOneAtATime, Serial!GuardSpec
=============================================================================
