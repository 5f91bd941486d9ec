----------------------- MODULE ServerLifecycleProofs -----------------------
(***************************************************************************)
(* What holds of the life of a server for any number of requests and any   *)
(* number of failing calls: the three invariants of ServerLifecycle.       *)
(***************************************************************************)
EXTENDS ServerLifecycle, FiniteSetTheorems, TLAPS

Pcs == {"ended", "environment", "fetch", "stop", "suspend", "check", "apply",
        "script", "notify", "swap", "before", "execute", "wait", "after", "remove_failed",
        "acquire", "state", "suspended", "recreate", "build", "boot", "restore_stop",
        "restore_write", "restore_end", "cancel", "lock", "destroy", "remove"}

Goroutines == [op : Ops \cup {"none"}, pc : Pcs, fetched : BOOLEAN, good : BOOLEAN]

\* The steps that belong to some operations only.
Suits(op, pc) ==
  /\ op = "none" <=> pc = "ended"
  /\ pc \in {"fetch", "apply"} => op \in {"sync", "install", "reinstall", "start"}
  /\ pc = "stop" => op = "reinstall"
  /\ pc \in {"check", "acquire", "state", "suspended", "recreate", "build", "boot"} => op = "start"

ThreadsOK == th \in [Threads -> Goroutines] /\ \A t \in Threads : Suits(th[t].op, th[t].pc)

\* One goroutine at most is between the swap of the flag and its release, and it is the one
\* that accounts for the container of the installation.
InstallInv ==
  /\ installing \in BOOLEAN
  /\ \A t, u \in Threads : Installing(t) /\ Installing(u) => t = u
  /\ installing <=> \E t \in Threads : Installing(t)
  /\ installer = "running" =>
       leaked \/ \E t \in Threads : th[t].pc \in {"wait", "remove_failed"}

\* The context is cancelled for good before the lock and the container are destroyed.
DeleteInv ==
  /\ ~registered => cancelled /\ container # "up"
  /\ \A t \in Threads :
       /\ th[t].pc \in {"lock", "destroy", "remove"} => cancelled
       /\ th[t].pc = "remove" => container # "up"

\* A start that was told of the suspension finds the flag set, or it was overwritten.
SuspendInv ==
  /\ suspended \in BOOLEAN /\ panelSuspended \in BOOLEAN
  /\ \A t \in Threads : th[t].op = "start" /\ th[t].fetched =>
       /\ th[t].pc = "suspended" => suspended \/ t \in overwritten
       /\ th[t].pc \in {"recreate", "build", "boot"} => t \in overwritten

LifeInv == ThreadsOK /\ InstallInv /\ DeleteInv /\ SuspendInv

\* One goroutine moves: th changes at t only, to a value of the type.
Moves(t) == ThreadsOK /\ ThreadsOK' /\ \A u \in Threads \ {t} : th'[u] = th[u]

-----------------------------------------------------------------------------
\* A new request: the goroutine was free.
LEMMA RequestInv ==
  ASSUME LifeInv, NEW t \in Threads, NEW op \in Ops, Request(t, op) PROVE LifeInv'
<1>1. /\ FirstStep[op] \in {"environment", "fetch", "stop", "suspend", "check"} /\ FirstStep[op] \in Pcs
      /\ Suits(op, FirstStep[op])
  BY DEF FirstStep, Ops, Pcs, Suits
<1>2. th'[t].op = op /\ th'[t].pc = FirstStep[op] /\ th'[t].fetched = FALSE /\ th'[t].good = TRUE
  BY DEF LifeInv, ThreadsOK, Goroutines, Request, Ended
<1>3. ThreadsOK'
  BY <1>1, <1>2 DEF LifeInv, ThreadsOK, Goroutines, Request, Ended
<1>4. \A u \in Threads \ {t} : th'[u] = th[u]
  BY DEF LifeInv, ThreadsOK, Request
<1>5. th[t].pc = "ended" /\ overwritten' = overwritten \ {t}
  BY DEF Request, At
<1>6. UNCHANGED <<suspended, panelSuspended, installing, locks, docker, server, faults>>
  BY DEF Request
<1>7. InstallInv'
  BY <1>1, <1>2, <1>4, <1>5, <1>6 DEF LifeInv, InstallInv, Installing, docker
<1>8. DeleteInv'
  BY <1>1, <1>2, <1>4, <1>5, <1>6 DEF LifeInv, DeleteInv, docker, server
<1>9. SuspendInv'
  BY <1>1, <1>2, <1>4, <1>5, <1>6 DEF LifeInv, SuspendInv
<1> QED
  BY <1>3, <1>7, <1>8, <1>9 DEF LifeInv
\* What a step leaves alone that has no part in an installation...
LEMMA InstallKept ==
  ASSUME InstallInv, NEW t \in Threads, Moves(t), ~Installing(t), ~Installing(t)',
         UNCHANGED <<installing, installer, leaked>>
  PROVE  InstallInv'
BY DEF InstallInv, Installing, Moves

\* ... one that has no part in a deletion: it may boot the server, but not with a cancelled context ...
LEMMA DeleteKept ==
  ASSUME DeleteInv, NEW t \in Threads, Moves(t), UNCHANGED <<registered, cancelled>>,
         container' = "up" => container = "up" \/ ~cancelled,
         th'[t].pc \notin {"lock", "destroy", "remove"}
  PROVE  DeleteInv'
BY DEF DeleteInv, Moves

\* ... and one that does not touch the flags, nor takes a start past the reading of them.
LEMMA SuspendKept ==
  ASSUME SuspendInv, NEW t \in Threads, Moves(t), UNCHANGED <<suspended, panelSuspended, overwritten>>,
         \/ th'[t].pc \notin {"suspended", "recreate", "build", "boot"}
         \/ /\ th'[t].op = th[t].op /\ th'[t].fetched = th[t].fetched
            /\ \/ th[t].pc \in {"recreate", "build", "boot"}
               \/ th[t].pc = "suspended" /\ ~suspended
  PROVE  SuspendInv'
BY DEF SuspendInv, Moves

\* How a goroutine moves: on to another step, to the report of its installation, or to its end.
LEMMA GotoMoves ==
  ASSUME ThreadsOK, NEW t \in Threads, NEW pc \in Pcs, Goto(t, pc),
         Suits(th[t].op, pc)
  PROVE  Moves(t) /\ th'[t].pc = pc /\ th'[t].op = th[t].op /\ th'[t].fetched = th[t].fetched
<1>1. th'[t] = [th[t] EXCEPT !.pc = pc] /\ \A u \in Threads \ {t} : th'[u] = th[u]
  BY DEF ThreadsOK, Goto
<1>2. th[t] \in Goroutines
  BY DEF ThreadsOK
<1>3. /\ th'[t] \in Goroutines
      /\ th'[t].pc = pc /\ th'[t].op = th[t].op /\ th'[t].fetched = th[t].fetched
  BY <1>1, <1>2 DEF Goroutines
<1>4. th' \in [Threads -> Goroutines]
  BY <1>3 DEF ThreadsOK, Goto
<1> QED
  BY <1>1, <1>3, <1>4 DEF ThreadsOK, Moves

LEMMA SetMoves ==
  ASSUME ThreadsOK, NEW t \in Threads, NEW r \in Goroutines, th' = [th EXCEPT ![t] = r], Suits(r.op, r.pc)
  PROVE  Moves(t) /\ th'[t] = r
<1>1. th'[t] = r /\ \A u \in Threads \ {t} : th'[u] = th[u]
  BY DEF ThreadsOK
<1>2. th' \in [Threads -> Goroutines]
  BY DEF ThreadsOK
<1> QED
  BY <1>1, <1>2 DEF ThreadsOK, Moves

LEMMA NotifyMoves ==
  ASSUME ThreadsOK, NEW t \in Threads, NEW good \in BOOLEAN, Suits(th[t].op, "notify"),
         th' = [th EXCEPT ![t] = [@ EXCEPT !.pc = "notify", !.good = good]]
  PROVE  Moves(t) /\ th'[t].pc = "notify"
<1>a. PICK q \in Goroutines : q = th[t]
  BY DEF ThreadsOK
<1> DEFINE r == [q EXCEPT !.pc = "notify", !.good = good]
<1>1. th' = [th EXCEPT ![t] = r]
  BY <1>a
<1>2. r \in Goroutines /\ r.op = th[t].op /\ r.pc = "notify"
  <2>1. r \in Goroutines /\ r.op = q.op /\ r.pc = "notify"
    BY DEF Goroutines, Pcs
  <2> QED
    BY <1>a, <2>1
<1> HIDE DEF r
<1> QED
  BY <1>1, <1>2, SetMoves

LEMMA EndMoves ==
  ASSUME ThreadsOK, NEW t \in Threads, End(t) PROVE Moves(t) /\ th'[t].pc = "ended"
<1>1. th'[t] = Ended /\ \A u \in Threads \ {t} : th'[u] = th[u]
  BY DEF ThreadsOK, End
<1>2. /\ Ended \in Goroutines
      /\ Ended.pc = "ended" /\ Ended.op = "none"
  BY DEF Ended, Pcs, Goroutines
<1>3. th' \in [Threads -> Goroutines]
  BY <1>1, <1>2 DEF ThreadsOK, End
<1> QED
  BY <1>1, <1>2, <1>3 DEF ThreadsOK, Moves, Suits

\* Sync.
LEMMA SyncSteps ==
  ASSUME LifeInv, NEW t \in Threads,
         \/ SyncFetch(t)
         \/ SyncApply(t)
         \/ ReinstallStop(t)
  PROVE  LifeInv'
<1>1. CASE SyncFetch(t)
  <2>1. Moves(t) /\ th'[t].pc \in {"apply", "ended"}
    <3>1. panelSuspended \in BOOLEAN /\ Suits(th[t].op, "apply")
      BY <1>1 DEF LifeInv, ThreadsOK, SuspendInv, Suits, SyncFetch, At
    <3>a. PICK q \in Goroutines : q = th[t]
      BY DEF LifeInv, ThreadsOK
    <3> DEFINE r == [q EXCEPT !.pc = "apply", !.fetched = panelSuspended]
    <3>2. r \in Goroutines /\ r.op = th[t].op /\ r.pc = "apply"
      <4>1. r \in Goroutines /\ r.op = q.op /\ r.pc = "apply"
        BY <3>1 DEF Goroutines, Pcs
      <4> QED
        BY <3>a, <4>1
    <3>3. th' = [th EXCEPT ![t] = r] \/ End(t)
      BY <1>1, <3>a DEF SyncFetch, Return
    <3> HIDE DEF r
    <3> QED
      BY <3>1, <3>2, <3>3, SetMoves, EndMoves DEF LifeInv
  <2>2. InstallInv'
    BY <1>1, <2>1, InstallKept DEF LifeInv, Installing, flags, docker, SyncFetch, At, locks
  <2>3. DeleteInv'
    BY <1>1, <2>1, DeleteKept DEF LifeInv, docker, server, SyncFetch, At, locks
  <2>4. SuspendInv'
    BY <1>1, <2>1, SuspendKept DEF LifeInv, flags, SyncFetch, At, locks
  <2> QED
    BY <2>1, <2>2, <2>3, <2>4 DEF LifeInv, Moves
<1>2. CASE SyncApply(t)
  <2>1. Moves(t) /\ th'[t].pc \in {"ended", "script", "suspended"}
        /\ (th'[t].pc # "ended" => th'[t].op = th[t].op /\ th'[t].fetched = th[t].fetched)
    <3>1. th[t].op \in {"sync", "install", "reinstall", "start"} /\ th[t].pc = "apply"
      BY <1>2 DEF LifeInv, ThreadsOK, Suits, SyncApply, At
    <3>2. \/ End(t)
          \/ th[t].op # "start" /\ Goto(t, "script")
          \/ th[t].op = "start" /\ Goto(t, "suspended")
      BY <1>2, <3>1 DEF SyncApply, AfterSync
    <3> QED
      BY <3>1, <3>2, GotoMoves, EndMoves DEF LifeInv, Suits, Pcs
  <2>2. InstallInv'
    BY <1>2, <2>1, InstallKept DEF LifeInv, Installing, flags, docker, SyncApply, At, SetSuspended
  <2>3. DeleteInv'
    BY <1>2, <2>1, DeleteKept DEF LifeInv, docker, server, SyncApply, At, SetSuspended
  <2>4. SuspendInv'
    <3>1. /\ th[t].fetched \in BOOLEAN /\ suspended' = th[t].fetched /\ UNCHANGED panelSuspended
          /\ \/ suspended' = TRUE /\ overwritten' = overwritten
             \/ /\ suspended' = FALSE
                /\ overwritten' = overwritten \cup
                     {u \in Threads \ {t} : th[u].op = "start" /\ th[u].pc = "suspended"}
      BY <1>2 DEF LifeInv, ThreadsOK, Goroutines, SyncApply, SetSuspended
    <3>2. ASSUME NEW u \in Threads \ {t}, th[u].op = "start", th[u].fetched
          PROVE  /\ th[u].pc = "suspended" => suspended' \/ u \in overwritten'
                 /\ th[u].pc \in {"recreate", "build", "boot"} => u \in overwritten'
      BY <3>1, <3>2 DEF LifeInv, SuspendInv
    <3>3. th'[t].op = "start" /\ th'[t].fetched /\ th'[t].pc = "suspended" => suspended'
      BY <2>1, <3>1
    <3>4. \A u \in Threads \ {t} : th'[u] = th[u]
      BY <2>1 DEF Moves
    <3> QED
      BY <2>1, <3>1, <3>2, <3>3, <3>4 DEF LifeInv, SuspendInv
  <2> QED
    BY <2>1, <2>2, <2>3, <2>4 DEF LifeInv, Moves
<1>3. CASE ReinstallStop(t)
  <2>1. Moves(t) /\ th'[t].pc \in {"ended", "fetch"}
    BY <1>3, GotoMoves, NotifyMoves, EndMoves DEF LifeInv, ThreadsOK, Suits, Pcs, ReinstallStop,
       At, Stopped
  <2>2. InstallInv'
    BY <1>3, <2>1, InstallKept DEF LifeInv, Installing, flags, docker, ReinstallStop, At, Stopped
  <2>3. DeleteInv'
    BY <1>3, <2>1, DeleteKept DEF LifeInv, docker, server, ReinstallStop, At, Stopped
  <2>4. SuspendInv'
    BY <1>3, <2>1, SuspendKept DEF LifeInv, flags, ReinstallStop, At, Stopped
  <2> QED
    BY <2>1, <2>2, <2>3, <2>4 DEF LifeInv, Moves
<1> QED
  BY <1>1, <1>2, <1>3

\* The installation.
LEMMA InstallSteps ==
  ASSUME LifeInv, NEW t \in Threads,
         \/ CreateEnvironment(t)
         \/ GetInstallationScript(t)
         \/ SwapInstalling(t)
         \/ BeforeExecute(t)
         \/ ExecuteStart(t)
         \/ ExecuteWait(t)
         \/ RemoveContainer(t)
         \/ SyncInstallState(t)
  PROVE  LifeInv'
<1>1. CASE CreateEnvironment(t)
  <2>1. Moves(t) /\ th'[t].pc \in {"ended", "script"}
    BY <1>1, GotoMoves, NotifyMoves, EndMoves DEF LifeInv, ThreadsOK, Suits, Pcs,
       CreateEnvironment, At
  <2>2. InstallInv'
    BY <1>1, <2>1, InstallKept DEF LifeInv, Installing, flags, docker, CreateEnvironment, At
  <2>3. DeleteInv'
    BY <1>1, <2>1, DeleteKept DEF LifeInv, docker, server, CreateEnvironment, At
  <2>4. SuspendInv'
    BY <1>1, <2>1, SuspendKept DEF LifeInv, flags, CreateEnvironment, At
  <2> QED
    BY <2>1, <2>2, <2>3, <2>4 DEF LifeInv, Moves
<1>2. CASE GetInstallationScript(t)
  <2>1. Moves(t) /\ th'[t].pc \in {"notify", "swap"}
    BY <1>2, GotoMoves, NotifyMoves, EndMoves DEF LifeInv, ThreadsOK, Suits, Pcs,
       GetInstallationScript, At
  <2>2. InstallInv'
    BY <1>2, <2>1, InstallKept DEF LifeInv, Installing, flags, docker, GetInstallationScript, At
  <2>3. DeleteInv'
    BY <1>2, <2>1, DeleteKept DEF LifeInv, docker, server, GetInstallationScript, At
  <2>4. SuspendInv'
    BY <1>2, <2>1, SuspendKept DEF LifeInv, flags, GetInstallationScript, At
  <2> QED
    BY <2>1, <2>2, <2>3, <2>4 DEF LifeInv, Moves
<1>3. CASE SwapInstalling(t)
  <2>1. Moves(t) /\ th'[t].pc \in {"notify", "before"}
    BY <1>3, GotoMoves, NotifyMoves, EndMoves DEF LifeInv, ThreadsOK, Suits, Pcs, SwapInstalling, At
  <2>2. InstallInv'
    <3>1. UNCHANGED <<installer, leaked>> /\ th[t].pc = "swap" /\ \A u \in Threads \ {t} : th'[u] = th[u]
      BY <1>3, <2>1 DEF docker, SwapInstalling, At, Moves
    <3>2. CASE installing
      <4>1. installing' = installing /\ th'[t].pc = "notify"
        BY <1>3, <3>2, NotifyMoves DEF LifeInv, ThreadsOK, Suits, SwapInstalling, At
      <4> QED
        BY <2>1, <3>1, <4>1, InstallKept DEF LifeInv, Installing
    <3>3. CASE ~installing
      <4>1. installing' = TRUE /\ th'[t].pc = "before"
        BY <1>3, <3>3, GotoMoves DEF LifeInv, ThreadsOK, Suits, Pcs, SwapInstalling, At
      <4>2. \A u \in Threads : ~Installing(u)
        BY <3>3 DEF LifeInv, InstallInv
      <4>3. \A u \in Threads : Installing(u)' <=> u = t
        BY <3>1, <4>1, <4>2 DEF Installing
      <4> QED
        BY <3>1, <4>1, <4>2, <4>3 DEF LifeInv, InstallInv, Installing
    <3> QED
      BY <3>2, <3>3
  <2>3. DeleteInv'
    BY <1>3, <2>1, DeleteKept DEF LifeInv, docker, server, SwapInstalling, At
  <2>4. SuspendInv'
    BY <1>3, <2>1, SuspendKept DEF LifeInv, flags, SwapInstalling, At
  <2> QED
    BY <2>1, <2>2, <2>3, <2>4 DEF LifeInv, Moves
<1>4. CASE BeforeExecute(t)
  <2>1. Moves(t) /\ th'[t].pc \in {"notify", "execute"}
    BY <1>4, GotoMoves, NotifyMoves, EndMoves DEF LifeInv, ThreadsOK, Suits, Pcs, BeforeExecute,
       At, EndInstall
  <2>2. InstallInv'
    <3>1. /\ th[t].pc = "before" /\ Installing(t) /\ \A u \in Threads \ {t} : th'[u] = th[u] /\ ~Installing(u)
      BY <1>4, <2>1 DEF LifeInv, InstallInv, Installing, BeforeExecute, At, Moves
    <3>2. installer = "running" => leaked
      BY <3>1 DEF LifeInv, InstallInv, Installing
    <3>3. \/ installing' = FALSE /\ th'[t].pc = "notify" /\ UNCHANGED <<installer, leaked>>
          \/ UNCHANGED installing /\ th'[t].pc = "execute" /\ installer' = "none"
      BY <1>4, GotoMoves, NotifyMoves DEF LifeInv, ThreadsOK, Suits, Pcs, BeforeExecute,
         EndInstall, flags, docker, At
    <3> QED
      BY <3>1, <3>2, <3>3 DEF LifeInv, InstallInv, Installing
  <2>3. DeleteInv'
    BY <1>4, <2>1, DeleteKept DEF LifeInv, docker, server, BeforeExecute, At, EndInstall
  <2>4. SuspendInv'
    BY <1>4, <2>1, SuspendKept DEF LifeInv, flags, BeforeExecute, At, EndInstall
  <2> QED
    BY <2>1, <2>2, <2>3, <2>4 DEF LifeInv, Moves
<1>5. CASE ExecuteStart(t)
  <2>1. Moves(t) /\ th'[t].pc \in {"wait", "remove_failed"}
    BY <1>5, GotoMoves, NotifyMoves, EndMoves DEF LifeInv, ThreadsOK, Suits, Pcs, ExecuteStart, At
  <2>2. InstallInv'
    BY <1>5, <2>1 DEF LifeInv, Moves, InstallInv, Installing, flags, docker, ExecuteStart, At
  <2>3. DeleteInv'
    BY <1>5, <2>1, DeleteKept DEF LifeInv, docker, server, ExecuteStart, At
  <2>4. SuspendInv'
    BY <1>5, <2>1, SuspendKept DEF LifeInv, flags, ExecuteStart, At
  <2> QED
    BY <2>1, <2>2, <2>3, <2>4 DEF LifeInv, Moves
<1>6. CASE ExecuteWait(t)
  <2>1. Moves(t) /\ th'[t].pc \in {"after", "remove_failed"}
    BY <1>6, GotoMoves, NotifyMoves, EndMoves DEF LifeInv, ThreadsOK, Suits, Pcs, ExecuteWait, At
  <2>2. InstallInv'
    <3>1. /\ th[t].pc = "wait" /\ \A u \in Threads \ {t} : th'[u] = th[u]
          /\ UNCHANGED <<installing, installer, leaked>>
      BY <1>6, <2>1 DEF ExecuteWait, At, Moves, flags, docker
    <3>2. installer # "running" \/ th'[t].pc = "remove_failed"
      BY <1>6, GotoMoves DEF LifeInv, ThreadsOK, Suits, Pcs, ExecuteWait, At
    <3>3. \A u \in Threads : Installing(u)' <=> Installing(u)
      BY <2>1, <3>1 DEF Installing
    <3>4. installer = "running" => leaked \/ \E u \in Threads : th'[u].pc \in {"wait", "remove_failed"}
      BY <3>1, <3>2 DEF LifeInv, InstallInv
    <3> QED
      BY <3>1, <3>3, <3>4 DEF LifeInv, InstallInv
  <2>3. DeleteInv'
    BY <1>6, <2>1, DeleteKept DEF LifeInv, docker, server, ExecuteWait, At
  <2>4. SuspendInv'
    BY <1>6, <2>1, SuspendKept DEF LifeInv, flags, ExecuteWait, At
  <2> QED
    BY <2>1, <2>2, <2>3, <2>4 DEF LifeInv, Moves
<1>7. CASE RemoveContainer(t)
  <2>1. Moves(t) /\ th'[t].pc \in {"notify"}
    BY <1>7, GotoMoves, NotifyMoves, EndMoves DEF LifeInv, ThreadsOK, Suits, Pcs,
       RemoveContainer, At, EndInstall
  <2>2. InstallInv'
    BY <1>7, <2>1 DEF LifeInv, Moves, InstallInv, Installing, flags, docker, RemoveContainer,
       At, EndInstall
  <2>3. DeleteInv'
    BY <1>7, <2>1, DeleteKept DEF LifeInv, docker, server, RemoveContainer, At, EndInstall
  <2>4. SuspendInv'
    BY <1>7, <2>1, SuspendKept DEF LifeInv, flags, RemoveContainer, At, EndInstall
  <2> QED
    BY <2>1, <2>2, <2>3, <2>4 DEF LifeInv, Moves
<1>8. CASE SyncInstallState(t)
  <2>1. Moves(t) /\ th'[t].pc \in {"ended", "check"}
    <3> DEFINE r == [th[t] EXCEPT !.op = "start", !.pc = "check"]
    <3>1. th[t] \in Goroutines
      BY DEF LifeInv, ThreadsOK
    <3>2. r \in Goroutines /\ r.op = "start" /\ r.pc = "check"
      BY <3>1 DEF Goroutines, Ops, Pcs
    <3>3. th' = [th EXCEPT ![t] = r] \/ End(t)
      BY <1>8 DEF SyncInstallState
    <3> HIDE DEF r
    <3> QED
      BY <3>2, <3>3, SetMoves, EndMoves DEF LifeInv, Suits
  <2>2. InstallInv'
    BY <1>8, <2>1, InstallKept DEF LifeInv, Installing, flags, docker, SyncInstallState, At
  <2>3. DeleteInv'
    BY <1>8, <2>1, DeleteKept DEF LifeInv, docker, server, SyncInstallState, At
  <2>4. SuspendInv'
    BY <1>8, <2>1, SuspendKept DEF LifeInv, flags, SyncInstallState, At
  <2> QED
    BY <2>1, <2>2, <2>3, <2>4 DEF LifeInv, Moves
<1> QED
  BY <1>1, <1>2, <1>3, <1>4, <1>5, <1>6, <1>7, <1>8

\* A start.
LEMMA StartSteps ==
  ASSUME LifeInv, NEW t \in Threads,
         \/ StartCheck(t)
         \/ Acquire(t)
         \/ StartState(t)
         \/ StartUnlessSuspended(t)
         \/ RemoveOld(t)
         \/ CreateContainer(t)
         \/ Boot(t)
  PROVE  LifeInv'
<1>1. CASE StartCheck(t)
  <2>1. Moves(t) /\ th'[t].pc \in {"ended", "acquire"}
    BY <1>1, GotoMoves, NotifyMoves, EndMoves DEF LifeInv, ThreadsOK, Suits, Pcs, StartCheck, At
  <2>2. InstallInv'
    BY <1>1, <2>1, InstallKept DEF LifeInv, Installing, flags, docker, StartCheck, At
  <2>3. DeleteInv'
    BY <1>1, <2>1, DeleteKept DEF LifeInv, docker, server, StartCheck, At
  <2>4. SuspendInv'
    BY <1>1, <2>1, SuspendKept DEF LifeInv, flags, StartCheck, At
  <2> QED
    BY <2>1, <2>2, <2>3, <2>4 DEF LifeInv, Moves
<1>2. CASE Acquire(t)
  <2>1. Moves(t) /\ th'[t].pc \in {"ended", "acquire", "state"}
    <3>1. CASE UNCHANGED th
      BY <1>2, <3>1 DEF LifeInv, ThreadsOK, Moves, Acquire, At
    <3>2. CASE Goto(t, "state") \/ End(t)
      BY <1>2, <3>2, GotoMoves, EndMoves DEF LifeInv, ThreadsOK, Suits, Pcs, Acquire, At
    <3> QED
      BY <1>2, <3>1, <3>2 DEF Acquire
  <2>2. InstallInv'
    BY <1>2, <2>1, InstallKept DEF LifeInv, Installing, flags, docker, Acquire, At
  <2>3. DeleteInv'
    BY <1>2, <2>1, DeleteKept DEF LifeInv, docker, server, Acquire, At
  <2>4. SuspendInv'
    BY <1>2, <2>1, SuspendKept DEF LifeInv, flags, Acquire, At
  <2> QED
    BY <2>1, <2>2, <2>3, <2>4 DEF LifeInv, Moves
<1>3. CASE StartState(t)
  <2>1. Moves(t) /\ th'[t].pc \in {"ended", "fetch"}
    BY <1>3, GotoMoves, NotifyMoves, EndMoves DEF LifeInv, ThreadsOK, Suits, Pcs, StartState,
       At, Return
  <2>2. InstallInv'
    BY <1>3, <2>1, InstallKept DEF LifeInv, Installing, flags, docker, StartState, At, Return
  <2>3. DeleteInv'
    BY <1>3, <2>1, DeleteKept DEF LifeInv, docker, server, StartState, At, Return
  <2>4. SuspendInv'
    BY <1>3, <2>1, SuspendKept DEF LifeInv, flags, StartState, At, Return
  <2> QED
    BY <2>1, <2>2, <2>3, <2>4 DEF LifeInv, Moves
<1>4. CASE StartUnlessSuspended(t)
  <2>1. Moves(t) /\ th'[t].pc \in {"ended", "recreate"}
        /\ (th'[t].pc # "ended" => th'[t].op = th[t].op /\ th'[t].fetched = th[t].fetched)
    BY <1>4, GotoMoves, NotifyMoves, EndMoves DEF LifeInv, ThreadsOK, Suits, Pcs,
       StartUnlessSuspended, At, Return
  <2>2. InstallInv'
    BY <1>4, <2>1, InstallKept DEF LifeInv, Installing, flags, docker, StartUnlessSuspended, At,
       Return
  <2>3. DeleteInv'
    BY <1>4, <2>1, DeleteKept DEF LifeInv, docker, server, StartUnlessSuspended, At, Return
  <2>4. SuspendInv'
    <3>1. th[t].pc = "suspended" /\ UNCHANGED <<suspended, panelSuspended, overwritten>>
      BY <1>4 DEF StartUnlessSuspended, At, flags
    <3>2. th'[t].pc = "ended" \/ ~suspended
      BY <1>4, EndMoves DEF LifeInv, StartUnlessSuspended, Return
    <3> QED
      BY <2>1, <3>1, <3>2, SuspendKept DEF LifeInv
  <2> QED
    BY <2>1, <2>2, <2>3, <2>4 DEF LifeInv, Moves
<1>5. CASE RemoveOld(t)
  <2>1. Moves(t) /\ th'[t].pc \in {"ended", "build"}
        /\ (th'[t].pc # "ended" => th'[t].op = th[t].op /\ th'[t].fetched = th[t].fetched)
    BY <1>5, GotoMoves, NotifyMoves, EndMoves DEF LifeInv, ThreadsOK, Suits, Pcs, RemoveOld, At,
       Return
  <2>2. InstallInv'
    BY <1>5, <2>1, InstallKept DEF LifeInv, Installing, flags, docker, RemoveOld, At, Return
  <2>3. DeleteInv'
    BY <1>5, <2>1, DeleteKept DEF LifeInv, docker, server, RemoveOld, At, Return
  <2>4. SuspendInv'
    BY <1>5, <2>1, SuspendKept DEF LifeInv, flags, RemoveOld, At, Return
  <2> QED
    BY <2>1, <2>2, <2>3, <2>4 DEF LifeInv, Moves
<1>6. CASE CreateContainer(t)
  <2>1. Moves(t) /\ th'[t].pc \in {"ended", "boot"}
        /\ (th'[t].pc # "ended" => th'[t].op = th[t].op /\ th'[t].fetched = th[t].fetched)
    BY <1>6, GotoMoves, NotifyMoves, EndMoves DEF LifeInv, ThreadsOK, Suits, Pcs,
       CreateContainer, At, Return
  <2>2. InstallInv'
    BY <1>6, <2>1, InstallKept DEF LifeInv, Installing, flags, docker, CreateContainer, At, Return
  <2>3. DeleteInv'
    BY <1>6, <2>1, DeleteKept DEF LifeInv, docker, server, CreateContainer, At, Return
  <2>4. SuspendInv'
    BY <1>6, <2>1, SuspendKept DEF LifeInv, flags, CreateContainer, At, Return
  <2> QED
    BY <2>1, <2>2, <2>3, <2>4 DEF LifeInv, Moves
<1>7. CASE Boot(t)
  <2>1. Moves(t) /\ th'[t].pc \in {"ended"}
    BY <1>7, GotoMoves, NotifyMoves, EndMoves DEF LifeInv, ThreadsOK, Suits, Pcs, Boot, At, Return
  <2>2. InstallInv'
    BY <1>7, <2>1, InstallKept DEF LifeInv, Installing, flags, docker, Boot, At, Return
  <2>3. DeleteInv'
    BY <1>7, <2>1, DeleteKept DEF LifeInv, docker, server, Boot, At, Return
  <2>4. SuspendInv'
    BY <1>7, <2>1, SuspendKept DEF LifeInv, flags, Boot, At, Return
  <2> QED
    BY <2>1, <2>2, <2>3, <2>4 DEF LifeInv, Moves
<1> QED
  BY <1>1, <1>2, <1>3, <1>4, <1>5, <1>6, <1>7

\* A restore.
LEMMA RestoreSteps ==
  ASSUME LifeInv, NEW t \in Threads,
         \/ RestoreBegin(t)
         \/ RestoreStop(t)
         \/ RestoreWrite(t)
         \/ RestoreEnd(t)
  PROVE  LifeInv'
<1>1. CASE RestoreBegin(t)
  <2>1. Moves(t) /\ th'[t].pc \in {"restore_stop"}
    BY <1>1, GotoMoves, NotifyMoves, EndMoves DEF LifeInv, ThreadsOK, Suits, Pcs, RestoreBegin,
       At, SetSuspended
  <2>2. InstallInv'
    BY <1>1, <2>1, InstallKept DEF LifeInv, Installing, flags, docker, RestoreBegin, At,
       SetSuspended
  <2>3. DeleteInv'
    BY <1>1, <2>1, DeleteKept DEF LifeInv, docker, server, RestoreBegin, At, SetSuspended
  <2>4. SuspendInv'
    BY <1>1, <2>1 DEF LifeInv, Moves, SuspendInv, flags, RestoreBegin, At, SetSuspended
  <2> QED
    BY <2>1, <2>2, <2>3, <2>4 DEF LifeInv, Moves
<1>2. CASE RestoreStop(t)
  <2>1. Moves(t) /\ th'[t].pc \in {"restore_write", "restore_end"}
    BY <1>2, GotoMoves, NotifyMoves, EndMoves DEF LifeInv, ThreadsOK, Suits, Pcs, RestoreStop,
       At, Stopped
  <2>2. InstallInv'
    BY <1>2, <2>1, InstallKept DEF LifeInv, Installing, flags, docker, RestoreStop, At, Stopped
  <2>3. DeleteInv'
    BY <1>2, <2>1, DeleteKept DEF LifeInv, docker, server, RestoreStop, At, Stopped
  <2>4. SuspendInv'
    BY <1>2, <2>1, SuspendKept DEF LifeInv, flags, RestoreStop, At, Stopped
  <2> QED
    BY <2>1, <2>2, <2>3, <2>4 DEF LifeInv, Moves
<1>3. CASE RestoreWrite(t)
  <2>1. Moves(t) /\ th'[t].pc \in {"restore_end"}
    BY <1>3, GotoMoves, NotifyMoves, EndMoves DEF LifeInv, ThreadsOK, Suits, Pcs, RestoreWrite, At
  <2>2. InstallInv'
    BY <1>3, <2>1, InstallKept DEF LifeInv, Installing, flags, docker, RestoreWrite, At
  <2>3. DeleteInv'
    BY <1>3, <2>1, DeleteKept DEF LifeInv, docker, server, RestoreWrite, At
  <2>4. SuspendInv'
    BY <1>3, <2>1, SuspendKept DEF LifeInv, flags, RestoreWrite, At
  <2> QED
    BY <2>1, <2>2, <2>3, <2>4 DEF LifeInv, Moves
<1>4. CASE RestoreEnd(t)
  <2>1. Moves(t) /\ th'[t].pc \in {"ended"}
    BY <1>4, GotoMoves, NotifyMoves, EndMoves DEF LifeInv, ThreadsOK, Suits, Pcs, RestoreEnd,
       At, SetSuspended
  <2>2. InstallInv'
    BY <1>4, <2>1, InstallKept DEF LifeInv, Installing, flags, docker, RestoreEnd, At, SetSuspended
  <2>3. DeleteInv'
    BY <1>4, <2>1, DeleteKept DEF LifeInv, docker, server, RestoreEnd, At, SetSuspended
  <2>4. SuspendInv'
    BY <1>4, <2>1 DEF LifeInv, Moves, SuspendInv, flags, RestoreEnd, At, SetSuspended
  <2> QED
    BY <2>1, <2>2, <2>3, <2>4 DEF LifeInv, Moves
<1> QED
  BY <1>1, <1>2, <1>3, <1>4

\* A deletion.
LEMMA DeleteSteps ==
  ASSUME LifeInv, NEW t \in Threads,
         \/ DeleteSuspend(t)
         \/ CtxCancel(t)
         \/ DestroyLock(t)
         \/ DestroyEnvironment(t)
         \/ RemoveServer(t)
  PROVE  LifeInv'
<1>1. CASE DeleteSuspend(t)
  <2>1. Moves(t) /\ th'[t].pc \in {"cancel"}
    BY <1>1, GotoMoves, NotifyMoves, EndMoves DEF LifeInv, ThreadsOK, Suits, Pcs, DeleteSuspend,
       At, SetSuspended
  <2>2. InstallInv'
    BY <1>1, <2>1, InstallKept DEF LifeInv, Installing, flags, docker, DeleteSuspend, At,
       SetSuspended
  <2>3. DeleteInv'
    BY <1>1, <2>1, DeleteKept DEF LifeInv, docker, server, DeleteSuspend, At, SetSuspended
  <2>4. SuspendInv'
    BY <1>1, <2>1 DEF LifeInv, Moves, SuspendInv, flags, DeleteSuspend, At, SetSuspended
  <2> QED
    BY <2>1, <2>2, <2>3, <2>4 DEF LifeInv, Moves
<1>2. CASE CtxCancel(t)
  <2>1. Moves(t) /\ th'[t].pc \in {"lock"}
    BY <1>2, GotoMoves, NotifyMoves, EndMoves DEF LifeInv, ThreadsOK, Suits, Pcs, CtxCancel, At
  <2>2. InstallInv'
    BY <1>2, <2>1, InstallKept DEF LifeInv, Installing, flags, docker, CtxCancel, At
  <2>3. DeleteInv'
    BY <1>2, <2>1 DEF LifeInv, Moves, DeleteInv, docker, server, CtxCancel, At
  <2>4. SuspendInv'
    BY <1>2, <2>1, SuspendKept DEF LifeInv, flags, CtxCancel, At
  <2> QED
    BY <2>1, <2>2, <2>3, <2>4 DEF LifeInv, Moves
<1>3. CASE DestroyLock(t)
  <2>1. Moves(t) /\ th'[t].pc \in {"destroy", "ended"}
    BY <1>3, GotoMoves, NotifyMoves, EndMoves DEF LifeInv, ThreadsOK, Suits, Pcs, DestroyLock, At
  <2>2. InstallInv'
    BY <1>3, <2>1, InstallKept DEF LifeInv, Installing, flags, docker, DestroyLock, At
  <2>3. DeleteInv'
    BY <1>3, <2>1 DEF LifeInv, Moves, DeleteInv, docker, server, DestroyLock, At
  <2>4. SuspendInv'
    BY <1>3, <2>1, SuspendKept DEF LifeInv, flags, DestroyLock, At
  <2> QED
    BY <2>1, <2>2, <2>3, <2>4 DEF LifeInv, Moves
<1>4. CASE DestroyEnvironment(t)
  <2>1. Moves(t) /\ th'[t].pc \in {"remove", "ended"}
    BY <1>4, GotoMoves, NotifyMoves, EndMoves DEF LifeInv, ThreadsOK, Suits, Pcs,
       DestroyEnvironment, At
  <2>2. InstallInv'
    BY <1>4, <2>1, InstallKept DEF LifeInv, Installing, flags, docker, DestroyEnvironment, At
  <2>3. DeleteInv'
    <3>1. \/ container' = "none"
          \/ th'[t].pc = "ended" /\ container' = container
      BY <1>4, EndMoves DEF LifeInv, DestroyEnvironment
    <3>2. th[t].pc = "destroy" /\ UNCHANGED <<registered, cancelled>> /\ \A u \in Threads \ {t} : th'[u] = th[u]
      BY <1>4, <2>1 DEF DestroyEnvironment, At, server, Moves
    <3> QED
      BY <2>1, <3>1, <3>2 DEF LifeInv, DeleteInv
  <2>4. SuspendInv'
    BY <1>4, <2>1, SuspendKept DEF LifeInv, flags, DestroyEnvironment, At
  <2> QED
    BY <2>1, <2>2, <2>3, <2>4 DEF LifeInv, Moves
<1>5. CASE RemoveServer(t)
  <2>1. Moves(t) /\ th'[t].pc \in {"ended"}
    BY <1>5, GotoMoves, NotifyMoves, EndMoves DEF LifeInv, ThreadsOK, Suits, Pcs, RemoveServer, At
  <2>2. InstallInv'
    BY <1>5, <2>1, InstallKept DEF LifeInv, Installing, flags, docker, RemoveServer, At
  <2>3. DeleteInv'
    BY <1>5, <2>1 DEF LifeInv, Moves, DeleteInv, docker, server, RemoveServer, At
  <2>4. SuspendInv'
    BY <1>5, <2>1, SuspendKept DEF LifeInv, flags, RemoveServer, At
  <2> QED
    BY <2>1, <2>2, <2>3, <2>4 DEF LifeInv, Moves
<1> QED
  BY <1>1, <1>2, <1>3, <1>4, <1>5

-----------------------------------------------------------------------------
LEMMA LifeInit == Init => LifeInv
<1> SUFFICES ASSUME Init PROVE LifeInv
  OBVIOUS
<1>1. Ended \in Goroutines /\ Ended.pc = "ended" /\ Ended.op = "none"
  BY DEF Ended, Goroutines, Pcs
<1>2. \A t \in Threads : th[t] = Ended
  BY DEF Init
<1>3. ThreadsOK
  BY <1>1, <1>2 DEF Init, ThreadsOK, Suits
<1>4. InstallInv
  BY <1>1, <1>2 DEF Init, InstallInv, Installing
<1>5. DeleteInv /\ SuspendInv
  BY <1>1, <1>2 DEF Init, DeleteInv, SuspendInv
<1> QED
  BY <1>3, <1>4, <1>5 DEF LifeInv

LEMMA LifeStep == LifeInv /\ [Next]_vars => LifeInv'
<1> SUFFICES ASSUME LifeInv, [Next]_vars PROVE LifeInv'
  OBVIOUS
<1>1. ASSUME NEW t \in Threads, Step(t) PROVE LifeInv'
  BY <1>1, SyncSteps, InstallSteps, StartSteps, RestoreSteps, DeleteSteps DEF Step
<1>2. ASSUME NEW t \in Threads, RequestReinstall(t) \/ \E op \in Ops \ {"reinstall"} : Request(t, op) PROVE LifeInv'
  BY <1>2, RequestInv DEF RequestReinstall, Ops
<1>3. CASE PanelSuspends
  BY <1>3 DEF PanelSuspends, LifeInv, ThreadsOK, InstallInv, Installing, DeleteInv, SuspendInv,
     docker, server
<1>4. CASE InstallerExits
  BY <1>4 DEF InstallerExits, LifeInv, ThreadsOK, InstallInv, Installing, DeleteInv, SuspendInv,
     flags, server
<1>5. CASE ContainerExits
  BY <1>5 DEF ContainerExits, LifeInv, ThreadsOK, InstallInv, Installing, DeleteInv, SuspendInv,
     flags, server
<1>6. CASE StopSuspended
  BY <1>6 DEF StopSuspended, Stopped, LifeInv, ThreadsOK, InstallInv, Installing, DeleteInv, SuspendInv,
     flags, docker
<1>7. CASE UNCHANGED vars
  BY <1>7 DEF vars, LifeInv, ThreadsOK, InstallInv, Installing, DeleteInv, SuspendInv, flags,
     docker, server
<1> QED
  BY <1>1, <1>2, <1>3, <1>4, <1>5, <1>6, <1>7 DEF Next

\* The flag of the installer counts the installations that run.
LEMMA OneInstallation ==
  ASSUME InstallInv PROVE InstallExclusive
<1> DEFINE S == {t \in Threads : Installing(t)}
<1>1. CASE installing
  <2>1. PICK t \in Threads : Installing(t)
    BY <1>1 DEF InstallInv
  <2>2. S = {t}
    BY <2>1 DEF InstallInv
  <2>3. Cardinality(S) = 1
    BY <2>2, FS_Singleton
  <2> QED
    BY <1>1, <2>3 DEF InstallInv, InstallExclusive
<1>2. CASE ~installing
  <2>1. S = {}
    BY <1>2 DEF InstallInv
  <2>2. Cardinality(S) = 0
    BY <2>1, FS_EmptySet
  <2> QED
    BY <1>2, <2>2 DEF InstallInv, InstallExclusive
<1> QED
  BY <1>1, <1>2

\* However many installations, reinstallations and creations meet, and wherever one fails, the
\* flag of the installer is set exactly while one of them runs, and its container is accounted for.
THEOREM InstallIsExclusive == Spec => []InstallExclusive
<1>1. LifeInv => InstallExclusive
  BY OneInstallation DEF LifeInv
<1> QED
  BY <1>1, LifeInit, LifeStep, PTL DEF Spec

\* A server that was deleted does not run, whatever starts, installations and other deletions
\* were under way.
THEOREM DeletedStaysDown == Spec => []NoBootAfterDelete
<1>1. LifeInv => NoBootAfterDelete
  BY DEF LifeInv, DeleteInv, NoBootAfterDelete
<1> QED
  BY <1>1, LifeInit, LifeStep, PTL DEF Spec

\* A start that the Panel told of the suspension is refused, unless the flag was overwritten by
\* another goroutine between its synchronisation and its check.
THEOREM SuspensionHolds == Spec => []SuspendedRefused
<1>1. LifeInv => SuspendedRefused
  BY DEF LifeInv, SuspendInv, SuspendedRefused
<1> QED
  BY <1>1, LifeInit, LifeStep, PTL DEF Spec

=============================================================================
