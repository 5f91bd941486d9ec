---------------------------- MODULE MCServices ----------------------------
(* The services around a server that share no state with each other.  A     *)
(* behaviour is one of: requests to pull files, the disk limiter, a sink     *)
(* pool with a buffered or an unbuffered listener, a websocket whose user is *)
(* deauthorised or whose server is suspended or deleted, two SFTP sessions,  *)
(* the daemon's crashes and boots.  The others rest.                         *)
EXTENDS RemoteDownloads, DiskLimiter, SinkPool, Connections, BootRecovery

MCCapacity == [log |-> 1, events |-> 0]

vars == <<pullVars, limiterVars, sinkVars, connVars, bootVars>>

NoPulls == PullInit({})
NoLimiter == LimiterInit(FALSE)
NoSinks == SinkInit({})
NoConns == ConnInit({}, {}, {})
NoBoot == BootInit(FALSE)

Init ==
  \/ PullInit(Pulls) /\ NoLimiter /\ NoSinks /\ NoConns /\ NoBoot
  \/ LimiterInit(TRUE) /\ NoPulls /\ NoSinks /\ NoConns /\ NoBoot
  \/ (\E l \in Listeners : SinkInit({l})) /\ NoPulls /\ NoLimiter /\ NoConns /\ NoBoot
  \/ /\ \/ ConnInit(Conns, {}, {"deny"})
        \/ ConnInit(Conns, {}, {"sync", "delete"})
        \/ ConnInit({}, Sessions, {"deny", "sync"})
     /\ NoPulls /\ NoLimiter /\ NoSinks /\ NoBoot
  \/ BootInit(TRUE) /\ NoPulls /\ NoLimiter /\ NoSinks /\ NoConns

Next ==
  \/ PullNext /\ UNCHANGED <<limiterVars, sinkVars, connVars, bootVars>>
  \/ LimiterNext /\ UNCHANGED <<pullVars, sinkVars, connVars, bootVars>>
  \/ SinkNext /\ UNCHANGED <<pullVars, limiterVars, connVars, bootVars>>
  \/ ConnNext /\ UNCHANGED <<pullVars, limiterVars, sinkVars, bootVars>>
  \/ BootNext /\ UNCHANGED <<pullVars, limiterVars, sinkVars, connVars>>

Spec ==
  /\ Init /\ [][Next]_vars
  /\ PullFairness /\ LimiterFairness /\ SinkFairness /\ ConnFairness
=============================================================================
