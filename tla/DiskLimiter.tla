---------------------------- MODULE DiskLimiter ----------------------------
(* The limiter that stops a server which exceeds its disk limit             *)
(* (server/listeners.go).  Every event of the environment is handled in a    *)
(* goroutine of its own; Trigger acts once until Reset, which replaces the   *)
(* sync.Once under a mutex that Trigger does not take.                       *)
EXTENDS Integers, FiniteSets

CONSTANTS
    Handlers,       \* goroutines that handle resource events at once (a bound)
    MaxStarts       \* start events that are not handled yet (a bound)

ASSUME LimiterAssumption == MaxStarts \in Nat \ {0}

VARIABLES
    proc,       \* the server's process
    over,       \* the cached usage is beyond the limit
    booted,     \* start events that are not handled yet
    once,       \* the sync.Once: its done flag and its mutex
    handler,    \* where each handler of a resource event is
    failed,     \* WaitForStop has failed since the last Reset
    fatal       \* the runtime has ended the daemon

limiterVars == <<proc, over, booted, once, handler, failed, fatal>>

LimiterTypeOK ==
    /\ proc \in {"offline", "running"}
    /\ over \in BOOLEAN /\ failed \in BOOLEAN /\ fatal \in BOOLEAN
    /\ booted \in 0..MaxStarts
    /\ once \in [done : BOOLEAN, locked : BOOLEAN]
    /\ handler \in [Handlers -> {"idle", "space", "do", "stop", "unlock"}]

NewOnce == [done |-> FALSE, locked |-> FALSE]

LimiterInit(alive) ==
    /\ proc = "offline" /\ over = FALSE /\ booted = 0 /\ once = NewOnce
    /\ handler = [h \in Handlers |-> "idle"]
    /\ failed = FALSE /\ fatal = ~alive

Be(h, pc) == handler' = [handler EXCEPT ![h] = pc]

-----------------------------------------------------------------------------
\* The usage goes beyond the limit or back.
DiskChanges ==
    /\ ~fatal /\ over' = ~over
    /\ UNCHANGED <<proc, booted, once, handler, failed, fatal>>

\* A start, which onBeforeStart refuses to a server beyond its limit, and the event of
\* the state "starting".
StartServer ==
    /\ ~fatal /\ proc = "offline" /\ ~over /\ booted < MaxStarts
    /\ proc' = "running" /\ booted' = booted + 1
    /\ UNCHANGED <<over, once, handler, failed, fatal>>

\* The process ends by itself or is stopped by a user.
ProcessExits ==
    /\ ~fatal /\ proc = "running" /\ proc' = "offline"
    /\ UNCHANGED <<over, booted, once, handler, failed, fatal>>

\* Faulty variant of Reset.
NoReset ==
    /\ ~fatal /\ booted > 0
    /\ booted' = booted - 1
    /\ UNCHANGED <<proc, over, once, handler, failed, fatal>>

\* Reset puts a new Once in place of the old one, whether or not it is in use.  A
\* goroutine that waits for the mutex of the old one may wait for good: its place is
\* that of a new goroutine.
Reset ==
    /\ ~fatal /\ booted > 0
    /\ booted' = booted - 1
    /\ once' = NewOnce /\ failed' = FALSE
    /\ \E lost \in SUBSET {h \in Handlers : handler[h] = "do" /\ once.locked} :
         handler' = [h \in Handlers |-> IF h \in lost THEN "idle" ELSE handler[h]]
    /\ UNCHANGED <<proc, over, fatal>>

\* The event about the resources of a running server.
ResourceEvent(h) ==
    /\ ~fatal /\ proc = "running" /\ handler[h] = "idle"
    /\ Be(h, "space")
    /\ UNCHANGED <<proc, over, booted, once, failed, fatal>>

\* HasSpaceAvailable(true).
CheckSpace(h) ==
    /\ ~fatal /\ handler[h] = "space"
    /\ Be(h, IF over THEN "do" ELSE "idle")
    /\ UNCHANGED <<proc, over, booted, once, failed, fatal>>

\* Trigger: Once.Do returns if it is done, and otherwise waits for the mutex.
Do(h) ==
    /\ ~fatal /\ handler[h] = "do"
    /\ \/ once.done /\ Be(h, "idle") /\ UNCHANGED once
       \/ ~once.done /\ ~once.locked /\ Be(h, "stop") /\ once' = [once EXCEPT !.locked = TRUE]
    /\ UNCHANGED <<proc, over, booted, failed, fatal>>

\* WaitForStop, which kills the process after a minute; Docker may fail.
WaitForStop(h) ==
    /\ ~fatal /\ handler[h] = "stop"
    /\ \/ proc' = "offline" /\ UNCHANGED failed
       \/ proc = "running" /\ failed' = TRUE /\ UNCHANGED proc
    /\ Be(h, "unlock")
    /\ UNCHANGED <<over, booted, once, fatal>>

\* The end of Do: the flag is set and the mutex unlocked, of whichever Once is there
\* now.  Unlocking a mutex that is not locked is a fatal error.
EndDo(h) ==
    /\ ~fatal /\ handler[h] = "unlock"
    /\ once' = [done |-> TRUE, locked |-> FALSE]
    /\ fatal' = ~once.locked
    /\ Be(h, "idle")
    /\ UNCHANGED <<proc, over, booted, failed>>

-----------------------------------------------------------------------------
LimiterStep(h) == CheckSpace(h) \/ Do(h) \/ WaitForStop(h) \/ EndDo(h)

LimiterNext ==
    \/ DiskChanges \/ StartServer \/ ProcessExits \/ Reset
    \/ \E h \in Handlers : ResourceEvent(h) \/ LimiterStep(h)

\* Goroutines run, and a running server's resources are sampled every second.
LimiterFairness ==
    /\ WF_limiterVars(Reset)
    /\ WF_limiterVars(\E h \in Handlers : ResourceEvent(h))
    /\ \A h \in Handlers : WF_limiterVars(LimiterStep(h))

-----------------------------------------------------------------------------
(* Properties.                                                              *)

\* A running server that stays beyond its limit is stopped, in every run of its process
\* and however the events of one run and the next are interleaved, unless Docker has
\* failed to stop it or the daemon has ended.
LimiterStops ==
    over /\ proc = "running" ~> ~over \/ proc = "offline" \/ failed \/ fatal
=============================================================================
