----------------------------- MODULE SinkPool -----------------------------
(* The sink pool (system/sink_pool.go) that carries console output and, as  *)
(* the event bus, the events of a server to its listeners.  A push holds     *)
(* the read lock of the pool until each of its goroutines, one per sink, has *)
(* sent or given up; registration, removal and destruction take the write    *)
(* lock.  Each listener has one sink.                                        *)
EXTENDS Integers, Sequences, FiniteSets, Functions

CONSTANTS
    Publishers,     \* goroutines that push
    Listeners,      \* goroutines that listen, each with a channel of its own
    Capacity,       \* the buffer of each listener's channel; 0 for none
    MaxPushes       \* pushes per publisher (a bound)

ASSUME SinkAssumption == Capacity \in [Listeners -> Nat] /\ MaxPushes \in Nat

VARIABLES
    push,       \* where each publisher is
    pushes,     \* the number of each publisher's last message
    sends,      \* the goroutines of the pushes
    sinks,      \* SinkPool.sinks
    closed,     \* channels that are closed
    chan,       \* the buffer of each channel
    listener,   \* where each listener is
    destroyer,  \* where the caller of Destroy is
    \* history
    got,        \* the last message each listener has received from each publisher
    broken      \* a goroutine has sent to a closed channel or closed one twice

sinkVars == <<push, pushes, sends, sinks, closed, chan, listener, destroyer, got, broken>>

Sends == [by : Publishers, n : 1..MaxPushes, to : Listeners, pc : {"send", "drop", "resend"}]
Messages == Publishers \X (1..MaxPushes)

SinkTypeOK ==
    /\ push \in [Publishers -> {"idle", "rlock", "wait"}]
    /\ pushes \in [Publishers -> 0..MaxPushes]
    /\ sends \subseteq Sends
    /\ sinks \subseteq Listeners /\ closed \subseteq Listeners
    /\ chan \in [Listeners -> Seq(Messages)] /\ \A l \in Listeners : Len(chan[l]) <= Capacity[l]
    /\ listener \in [Listeners -> {"on", "select", "handle", "off", "gone"}]
    /\ destroyer \in {"idle", "lock", "done"}
    /\ got \in [Listeners -> [Publishers -> 0..MaxPushes]]
    /\ broken \in BOOLEAN

\* A pool that has yet to serve the listeners of a set; without any it rests.
SinkInit(listening) ==
    /\ push = [p \in Publishers |-> "idle"]
    /\ pushes = [p \in Publishers |-> IF listening = {} THEN MaxPushes ELSE 0]
    /\ sends = {} /\ sinks = {} /\ closed = {}
    /\ chan = [l \in Listeners |-> <<>>]
    /\ listener = [l \in Listeners |-> IF l \in listening THEN "on" ELSE "gone"]
    /\ destroyer = IF listening = {} THEN "done" ELSE "idle"
    /\ got = [l \in Listeners |-> [p \in Publishers |-> 0]]
    /\ broken = FALSE

\* The RWMutex: a writer that waits holds up new readers.
Readers == {p \in Publishers : push[p] = "wait" \/ \E g \in sends : g.by = p}
WriterWaits == destroyer = "lock" \/ \E l \in Listeners : listener[l] \in {"on", "off"}

-----------------------------------------------------------------------------
(* Push.                                                                    *)

\* Faulty variant of Publish.
PublishAsync(p) ==
    /\ push[p] \in {"idle", "wait"} /\ pushes[p] < MaxPushes
    /\ push' = [push EXCEPT ![p] = "rlock"]
    /\ pushes' = [pushes EXCEPT ![p] = @ + 1]
    /\ UNCHANGED <<sends, sinks, closed, chan, listener, destroyer, got, broken>>

Publish(p) ==
    /\ push[p] = "idle" /\ pushes[p] < MaxPushes
    /\ push' = [push EXCEPT ![p] = "rlock"]
    /\ pushes' = [pushes EXCEPT ![p] = @ + 1]
    /\ UNCHANGED <<sends, sinks, closed, chan, listener, destroyer, got, broken>>

\* RLock, and one goroutine for each sink.
Push(p) ==
    /\ push[p] = "rlock" /\ ~WriterWaits
    /\ push' = [push EXCEPT ![p] = "wait"]
    /\ sends' = sends \cup {[by |-> p, n |-> pushes[p], to |-> l, pc |-> "send"] : l \in sinks}
    /\ UNCHANGED <<pushes, sinks, closed, chan, listener, destroyer, got, broken>>

\* A channel takes a message into its buffer or hands it to a listener that waits in
\* its select.
Deliver(l, by, n) ==
    \/ /\ Len(chan[l]) < Capacity[l]
       /\ chan' = [chan EXCEPT ![l] = Append(@, <<by, n>>)]
       /\ UNCHANGED <<listener, got>>
    \/ /\ Capacity[l] = 0 /\ listener[l] = "select"
       /\ listener' = [listener EXCEPT ![l] = "handle"]
       /\ got' = [got EXCEPT ![l][by] = n]
       /\ UNCHANGED chan

Send(g) ==
    /\ g \in sends /\ g.pc = "send"
    /\ sends' = sends \ {g}
    /\ IF g.to \in closed
       THEN broken' = TRUE /\ UNCHANGED <<chan, listener, got>>
       ELSE Deliver(g.to, g.by, g.n) /\ UNCHANGED broken
    /\ UNCHANGED <<push, pushes, sinks, closed, destroyer>>

\* Faulty variant of Timeout.
SendOnly(g) == FALSE

\* Ten milliseconds have passed.
Timeout(g) ==
    /\ g \in sends /\ g.pc = "send"
    /\ sends' = (sends \ {g}) \cup {[g EXCEPT !.pc = "drop"]}
    /\ UNCHANGED <<push, pushes, sinks, closed, chan, listener, destroyer, got, broken>>

\* Makes room by receiving the oldest message, which for a channel without a buffer is
\* that of another push; without any it gives up.
DropOldest(g) ==
    /\ g \in sends /\ g.pc = "drop"
    /\ \/ /\ chan[g.to] # <<>>
          /\ chan' = [chan EXCEPT ![g.to] = Tail(@)]
          /\ sends' = (sends \ {g}) \cup {[g EXCEPT !.pc = "resend"]}
       \/ \E q \in sends :
            /\ q # g /\ q.to = g.to /\ q.pc = "send" /\ Capacity[g.to] = 0
            /\ sends' = (sends \ {g, q}) \cup {[g EXCEPT !.pc = "resend"]}
            /\ UNCHANGED chan
       \/ chan[g.to] = <<>> /\ sends' = sends \ {g} /\ UNCHANGED chan
    /\ UNCHANGED <<push, pushes, sinks, closed, listener, destroyer, got, broken>>

\* The second attempt does not wait.
Resend(g) ==
    /\ g \in sends /\ g.pc = "resend"
    /\ sends' = sends \ {g}
    /\ \/ g.to \in closed /\ broken' = TRUE /\ UNCHANGED <<chan, listener, got>>
       \/ g.to \notin closed /\ Deliver(g.to, g.by, g.n) /\ UNCHANGED broken
       \/ /\ g.to \notin closed /\ (Capacity[g.to] = 0 \/ Len(chan[g.to]) = Capacity[g.to])
          /\ UNCHANGED <<chan, listener, got, broken>>
    /\ UNCHANGED <<push, pushes, sinks, closed, destroyer>>

\* wg.Wait and RUnlock.
PushReturn(p) ==
    /\ push[p] = "wait" /\ ~\E g \in sends : g.by = p
    /\ push' = [push EXCEPT ![p] = "idle"]
    /\ UNCHANGED <<pushes, sends, sinks, closed, chan, listener, destroyer, got, broken>>

-----------------------------------------------------------------------------
(* The write side.                                                          *)

On(l) ==
    /\ listener[l] = "on" /\ Readers = {}
    /\ sinks' = sinks \cup {l}
    /\ listener' = [listener EXCEPT ![l] = "select"]
    /\ UNCHANGED <<push, pushes, sends, closed, chan, destroyer, got, broken>>

\* Faulty variant of Off.
OffUnlocked(l) ==
    /\ listener[l] = "off"
    /\ sinks' = sinks \ {l}
    /\ closed' = IF l \in sinks THEN closed \cup {l} ELSE closed
    /\ broken' = (broken \/ (l \in sinks /\ l \in closed))
    /\ listener' = [listener EXCEPT ![l] = "gone"]
    /\ UNCHANGED <<push, pushes, sends, chan, destroyer, got>>

\* Only a channel that is still in the pool is closed.
Off(l) ==
    /\ listener[l] = "off" /\ Readers = {}
    /\ sinks' = sinks \ {l}
    /\ closed' = IF l \in sinks THEN closed \cup {l} ELSE closed
    /\ broken' = (broken \/ (l \in sinks /\ l \in closed))
    /\ listener' = [listener EXCEPT ![l] = "gone"]
    /\ UNCHANGED <<push, pushes, sends, chan, destroyer, got>>

\* The server is deleted.
CallDestroy ==
    /\ destroyer = "idle" /\ destroyer' = "lock"
    /\ UNCHANGED <<push, pushes, sends, sinks, closed, chan, listener, got, broken>>

Destroy ==
    /\ destroyer = "lock" /\ Readers = {}
    /\ broken' = (broken \/ sinks \cap closed # {})
    /\ closed' = closed \cup sinks /\ sinks' = {}
    /\ destroyer' = "done"
    /\ UNCHANGED <<push, pushes, sends, chan, listener, got>>

-----------------------------------------------------------------------------
(* A listener, such as listenForServerEvents of a websocket.                 *)

Receive(l) ==
    /\ listener[l] = "select" /\ chan[l] # <<>>
    /\ got' = [got EXCEPT ![l][Head(chan[l])[1]] = Head(chan[l])[2]]
    /\ chan' = [chan EXCEPT ![l] = Tail(@)]
    /\ listener' = [listener EXCEPT ![l] = "handle"]
    /\ UNCHANGED <<push, pushes, sends, sinks, closed, destroyer, broken>>

\* The message is written to the client, which may never read it.
Handled(l) ==
    /\ listener[l] = "handle"
    /\ \E pc \in {"select", "off"} : listener' = [listener EXCEPT ![l] = pc]
    /\ UNCHANGED <<push, pushes, sends, sinks, closed, chan, destroyer, got, broken>>

\* The listener's context is cancelled.
Leave(l) ==
    /\ listener[l] = "select"
    /\ listener' = [listener EXCEPT ![l] = "off"]
    /\ UNCHANGED <<push, pushes, sends, sinks, closed, chan, destroyer, got, broken>>

-----------------------------------------------------------------------------
SendStep(g) == Send(g) \/ Timeout(g) \/ DropOldest(g) \/ Resend(g)

SinkNext ==
    \/ \E p \in Publishers : Publish(p) \/ Push(p) \/ PushReturn(p)
    \/ \E g \in sends : SendStep(g)
    \/ \E l \in Listeners : On(l) \/ Off(l) \/ Receive(l) \/ Handled(l) \/ Leave(l)
    \/ CallDestroy \/ Destroy

\* Goroutines that are not blocked run.  Nothing is assumed of the listeners except that
\* one that has left its loop removes its sink.
SinkFairness ==
    /\ \A p \in Publishers : WF_sinkVars(Push(p) \/ PushReturn(p))
    /\ WF_sinkVars(\E g \in sends : SendStep(g))
    /\ \A l \in Listeners : WF_sinkVars(On(l) \/ Off(l))
    /\ WF_sinkVars(Destroy)

-----------------------------------------------------------------------------
(* Properties.                                                              *)

\* However pushes, removals and the destruction of the pool meet, no goroutine sends to
\* a closed channel and no channel is closed twice; either would end the daemon.
NoClosedSend == ~broken

\* A listener receives what one publisher pushes in its order: messages may be missing,
\* but what it has received, what its buffer holds and what is being sent follow each
\* other, also when the oldest message is dropped to make room.
InOrder ==
    \A l \in Listeners : LET buffer == chan[l] IN
        /\ \A i \in 1..Len(buffer) :
             /\ buffer[i][2] > got[l][buffer[i][1]]
             /\ \A j \in 1..Len(buffer) : i < j /\ buffer[i][1] = buffer[j][1] => buffer[i][2] < buffer[j][2]
        /\ \A g \in sends : g.to = l =>
             /\ g.n > got[l][g.by]
             /\ \A i \in 1..Len(buffer) : buffer[i][1] = g.by => g.n > buffer[i][2]

\* A push returns and a removal ends, though every listener may have stopped reading: a
\* client that does not read its websocket never holds up the server's output.
PushReturns ==
    /\ \A p \in Publishers : push[p] = "rlock" ~> push[p] = "idle"
    /\ \A l \in Listeners : listener[l] = "off" ~> listener[l] = "gone"
=============================================================================
