--------------------------- MODULE ServicesProofs ---------------------------
(***************************************************************************)
(* The services of MCServices one by one, each for any number of requests, *)
(* publishers, listeners, connections and servers: the limit on downloads, *)
(* the sink pool, the revocation of tokens, and the restoration of states  *)
(* at boot.                                                                *)
(***************************************************************************)
EXTENDS RemoteDownloads, SinkPool, Connections, BootRecovery, TLAPS, FiniteSetTheorems

-----------------------------------------------------------------------------
(* Remote downloads.                                                        *)

PullSpec == (\E requested \in SUBSET Pulls : PullInit(requested)) /\ [][PullNext]_pullVars

\* As long as no two requests raced past the check and none was cancelled too early,
\* every download that can still write is registered, and a request that has passed the
\* check is alone and finds a place.
PullInv ==
    /\ PullTypeOK
    /\ IsFiniteSet(tracked)
    /\ \A p \in Pulls : pull[p] \in {"fetch", "write", "cancel", "remove"} => p \in armed
    /\ ~racing /\ ~escaped =>
         /\ Active \subseteq tracked
         /\ Cardinality(tracked) <= Simultaneous
         /\ \A p \in Pulls : pull[p] = "track" => Cardinality(tracked) < Simultaneous
         /\ \A p, q \in Pulls : pull[p] = "track" /\ pull[q] = "track" => p = q

\* Registering a download takes at most one place; removing one takes none.
LEMMA TrackedCount ==
    ASSUME NEW S, IsFiniteSet(S), NEW x
    PROVE  /\ IsFiniteSet(S \cup {x}) /\ Cardinality(S \cup {x}) <= Cardinality(S) + 1
           /\ IsFiniteSet(S \ {x}) /\ Cardinality(S \ {x}) <= Cardinality(S)
           /\ Cardinality(S) \in Nat /\ Cardinality(S \cup {x}) \in Nat /\ Cardinality(S \ {x}) \in Nat
<1>1. /\ IsFiniteSet(S \cup {x})
      /\ Cardinality(S \cup {x}) = IF x \in S THEN Cardinality(S) ELSE Cardinality(S) + 1
  BY FS_AddElement
<1>2. /\ IsFiniteSet(S \ {x})
      /\ Cardinality(S \ {x}) = IF x \in S THEN Cardinality(S) - 1 ELSE Cardinality(S)
  BY FS_RemoveElement
<1>3. Cardinality(S) \in Nat /\ Cardinality(S \cup {x}) \in Nat /\ Cardinality(S \ {x}) \in Nat
  BY <1>1, <1>2, FS_CardinalityType
<1> QED
  BY <1>1, <1>2, <1>3

\* Every step of a request, a download or a cancellation preserves the invariant.
LEMMA PullStepInv == PullInv /\ [PullNext]_pullVars => PullInv'
<1> SUFFICES ASSUME PullInv, [PullNext]_pullVars PROVE PullInv'
  OBVIOUS
<1> USE DownloadsAssumption DEF PullInv, PullTypeOK, Active, To
<1>0. CASE UNCHANGED pullVars
  BY <1>0 DEF pullVars
<1>1. ASSUME NEW p \in Pulls, PullRequest(p) PROVE PullInv'
  BY <1>1 DEF PullRequest
<1>2. ASSUME NEW p \in Pulls, CheckLimit(p) PROVE PullInv'
  <2> DEFINE full == Cardinality(tracked) >= Simultaneous
  <2>1. /\ pull[p] = "check" /\ pull' = [pull EXCEPT ![p] = IF full THEN "done" ELSE "track"]
        /\ racing' \in BOOLEAN /\ UNCHANGED <<tracked, armed, stopped, escaped>>
        /\ ~racing' => ~racing /\ \A q \in Pulls \ {p} : pull[q] # "track"
    BY <1>2 DEF CheckLimit
  <2>2. Cardinality(tracked) \in Nat
    BY FS_CardinalityType
  <2>3. PullTypeOK' /\ Active' \subseteq Active
    BY <2>1
  <2>4. ASSUME ~full PROVE Cardinality(tracked) < Simultaneous
    BY <2>2, <2>4
  <2>5. \A q \in Pulls : pull'[q] = "track" => (q # p /\ pull[q] = "track") \/ (q = p /\ ~full)
    BY <2>1
  <2> QED
    BY <2>1, <2>3, <2>4, <2>5
<1>3. ASSUME NEW p \in Pulls, Track(p) PROVE PullInv'
  <2>1. IsFiniteSet(tracked') /\ Cardinality(tracked') <= Cardinality(tracked) + 1
        /\ Cardinality(tracked) \in Nat /\ Cardinality(tracked') \in Nat
    BY <1>3, TrackedCount DEF Track
  <2>2. PullTypeOK' /\ Active' \subseteq Active \cup {p}
    BY <1>3 DEF Track
  <2>3. \A q \in Pulls : pull'[q] = "track" => q # p /\ pull[q] = "track"
    BY <1>3 DEF Track
  <2>4. ~racing /\ ~escaped => Cardinality(tracked') <= Simultaneous
    BY <1>3, <2>1 DEF Track
  <2> QED
    BY <1>3, <2>1, <2>2, <2>3, <2>4 DEF Track
<1>4. ASSUME NEW p \in Pulls, Execute(p) PROVE PullInv'
  BY <1>4 DEF Execute
<1>5. ASSUME NEW p \in Pulls, Fetch(p) PROVE PullInv'
  BY <1>5 DEF Fetch
<1>6. ASSUME NEW p \in Pulls, WriteEnds(p) PROVE PullInv'
  BY <1>6 DEF WriteEnds
<1>7. ASSUME NEW p \in Pulls, DeferredCancel(p) PROVE PullInv'
  BY <1>7 DEF DeferredCancel
<1>8. ASSUME NEW p \in Pulls, RemoveDownload(p) PROVE PullInv'
  <2>1. IsFiniteSet(tracked') /\ Cardinality(tracked') <= Cardinality(tracked)
        /\ Cardinality(tracked) \in Nat /\ Cardinality(tracked') \in Nat
    BY <1>8, TrackedCount DEF RemoveDownload
  <2>2. PullTypeOK' /\ (~escaped' => ~escaped /\ Active' \subseteq Active \ {p})
    BY <1>8 DEF RemoveDownload
  <2>3. \A q \in Pulls : pull'[q] = "track" => pull[q] = "track"
    BY <1>8 DEF RemoveDownload
  <2>4. ~racing /\ ~escaped => /\ Cardinality(tracked') <= Simultaneous
                              /\ \A q \in Pulls : pull[q] = "track" => Cardinality(tracked') < Simultaneous
    BY <2>1
  <2> QED
    BY <1>8, <2>1, <2>2, <2>3, <2>4 DEF RemoveDownload
<1>9. ASSUME NEW p \in Pulls, CancelPull(p) PROVE PullInv'
  <2>1. IsFiniteSet(tracked') /\ Cardinality(tracked') <= Cardinality(tracked)
        /\ Cardinality(tracked) \in Nat /\ Cardinality(tracked') \in Nat
    BY <1>9, TrackedCount DEF CancelPull
  <2>2. PullTypeOK' /\ (~escaped' => ~escaped /\ Active' \subseteq Active \ {p})
    BY <1>9 DEF CancelPull
  <2>3. \A q \in Pulls : pull'[q] = "track" => pull[q] = "track"
    BY <1>9 DEF CancelPull
  <2>4. ~racing /\ ~escaped => /\ Cardinality(tracked') <= Simultaneous
                              /\ \A q \in Pulls : pull[q] = "track" => Cardinality(tracked') < Simultaneous
    BY <2>1
  <2> QED
    BY <1>9, <2>1, <2>2, <2>3, <2>4 DEF CancelPull
<1> QED
  BY <1>0, <1>1, <1>2, <1>3, <1>4, <1>5, <1>6, <1>7, <1>8, <1>9 DEF PullNext, PullStep

\* The limit on simultaneous downloads (router_server_files.go, postServerPullRemoteFile)
\* holds for any number of requests and any limit.
THEOREM DownloadLimit == PullSpec => []LimitHeld
<1>1. (\E requested \in SUBSET Pulls : PullInit(requested)) => PullInv
  <2> SUFFICES ASSUME NEW requested \in SUBSET Pulls, PullInit(requested) PROVE PullInv
    OBVIOUS
  <2>1. IsFiniteSet(tracked) /\ Cardinality(tracked) = 0
    BY FS_EmptySet DEF PullInit
  <2>2. pull \in [Pulls -> {"idle", "done"}] /\ Active = {}
    BY DEF PullInit, Active
  <2>3. PullTypeOK
    BY <2>2 DEF PullInit, PullTypeOK
  <2> QED
    BY <2>1, <2>2, <2>3, DownloadsAssumption DEF PullInv
<1>2. PullInv => LimitHeld
  BY FS_Subset, FS_CardinalityType, DownloadsAssumption DEF PullInv, PullTypeOK, LimitHeld
<1> QED
  BY <1>1, <1>2, PullStepInv, PTL DEF PullSpec

-----------------------------------------------------------------------------
(* The sink pool.                                                           *)

SinkSpec == (\E listening \in SUBSET Listeners : SinkInit(listening)) /\ [][SinkNext]_sinkVars

\* The read lock is held for every goroutine of a push, so that its sink stays in the pool
\* and open, and a publisher has one message on its way at a time.
SinkLockInv ==
    /\ ~broken /\ sinks \cap closed = {}
    /\ \A l \in Listeners : listener[l] = "on" => l \notin sinks \cup closed
    /\ \A g \in sends : push[g.by] = "wait" /\ g.n = pushes[g.by] /\ g.to \in sinks
    /\ \A g, h \in sends : g.by = h.by /\ g.to = h.to => g = h

\* Nothing is ahead of its publisher, and the message it is about to push is new.
NumbersInv ==
    \A l \in Listeners :
        /\ \A p \in Publishers : got[l][p] <= pushes[p] /\ (push[p] = "rlock" => got[l][p] < pushes[p])
        /\ \A i \in 1..Len(chan[l]) :
             /\ chan[l][i][2] <= pushes[chan[l][i][1]]
             /\ push[chan[l][i][1]] = "rlock" => chan[l][i][2] < pushes[chan[l][i][1]]

SinkInv == SinkTypeOK /\ SinkLockInv /\ NumbersInv /\ InOrder

\* What sending to a buffer and taking from it do to its messages.
LEMMA BufferFacts ==
    ASSUME NEW s \in Seq(Messages)
    PROVE  /\ Len(s) \in Nat
           /\ \A i \in 1..Len(s) : s[i] \in Messages /\ s[i][1] \in Publishers /\ s[i][2] \in 1..MaxPushes
           /\ \A m \in Messages :
                /\ Append(s, m) \in Seq(Messages) /\ Len(Append(s, m)) = Len(s) + 1
                /\ Append(s, m)[Len(s) + 1] = m /\ \A i \in 1..Len(s) : Append(s, m)[i] = s[i]
           /\ s # <<>> =>
                /\ Tail(s) \in Seq(Messages) /\ Len(Tail(s)) = Len(s) - 1 /\ Len(s) > 0 /\ Head(s) = s[1]
                /\ \A i \in 1..Len(Tail(s)) : Tail(s)[i] = s[i + 1]
<1>1. Len(s) \in Nat /\ \A i \in 1..Len(s) : s[i] \in Messages
  OBVIOUS
<1>2. \A m \in Messages : m[1] \in Publishers /\ m[2] \in 1..MaxPushes
  BY DEF Messages
<1> HIDE DEF Messages
<1> QED
  BY <1>1, <1>2

\* A channel takes the message of a goroutine, which ends.
LEMMA DeliverInv ==
    ASSUME SinkInv, NEW g \in sends, Deliver(g.to, g.by, g.n), sends' = sends \ {g},
           UNCHANGED <<push, pushes, sinks, closed, destroyer, broken>>
    PROVE  SinkInv'
<1> USE SinkAssumption
<1> DEFINE l == g.to  p == g.by  n == g.n
<1>1. l \in Listeners /\ p \in Publishers /\ n \in 1..MaxPushes /\ n = pushes[p] /\ push[p] = "wait"
  BY DEF SinkInv, SinkTypeOK, SinkLockInv, Sends
<1>2. CASE /\ Len(chan[l]) < Capacity[l]
           /\ chan' = [chan EXCEPT ![l] = Append(@, <<p, n>>)]
           /\ UNCHANGED <<listener, got>>
  <2>1. <<p, n>> \in Messages
    BY <1>1 DEF Messages
  <2>2. chan[l] \in Seq(Messages) /\ Capacity[l] \in Nat
    BY <1>1 DEF SinkInv, SinkTypeOK
  <2>3. chan'[l] = Append(chan[l], <<p, n>>) /\ \A k \in Listeners \ {l} : chan'[k] = chan[k]
    BY <1>1, <1>2 DEF SinkInv, SinkTypeOK
  <2>4. /\ Len(chan[l]) \in Nat /\ Len(chan'[l]) = Len(chan[l]) + 1 /\ chan'[l] \in Seq(Messages)
        /\ chan'[l][Len(chan[l]) + 1] = <<p, n>> /\ \A i \in 1..Len(chan[l]) : chan'[l][i] = chan[l][i]
    BY <2>1, <2>2, <2>3, BufferFacts
  <2>a. chan'[l][Len(chan[l]) + 1][1] = p /\ chan'[l][Len(chan[l]) + 1][2] = n
    BY <2>4
  <2>5. SinkTypeOK'
    BY <1>2, <2>2, <2>3, <2>4 DEF SinkInv, SinkTypeOK
  <2>6. SinkLockInv'
    BY <1>2 DEF SinkInv, SinkLockInv
  <2>7. NumbersInv'
    <3>1. ASSUME NEW k \in Listeners, NEW i \in 1..Len(chan'[k])
          PROVE  (i \in 1..Len(chan[k]) /\ chan'[k][i] = chan[k][i]) \/ chan'[k][i] = <<p, n>>
      <4>1. CASE k = l
        <5>1. i \in 1..Len(chan[l]) \/ i = Len(chan[l]) + 1
          BY <2>4, <4>1
        <5> QED
          BY <2>4, <4>1, <5>1
      <4>2. CASE k # l
        BY <2>3, <4>2
      <4> QED
        BY <4>1, <4>2
    <3>2. ASSUME NEW k \in Listeners, NEW i \in 1..Len(chan'[k])
          PROVE  /\ chan'[k][i][2] <= pushes[chan'[k][i][1]]
                 /\ push[chan'[k][i][1]] = "rlock" => chan'[k][i][2] < pushes[chan'[k][i][1]]
      <4>1. CASE i \in 1..Len(chan[k]) /\ chan'[k][i] = chan[k][i]
        BY <4>1 DEF SinkInv, NumbersInv
      <4>2. CASE chan'[k][i] = <<p, n>>
        BY <1>1, <4>2
      <4> QED
        BY <3>1, <4>1, <4>2
    <3>3. \A k \in Listeners, q \in Publishers :
            got[k][q] <= pushes[q] /\ (push[q] = "rlock" => got[k][q] < pushes[q])
      BY DEF SinkInv, NumbersInv
    <3> QED
      BY <1>2, <3>2, <3>3 DEF NumbersInv
  <2>8. InOrder'
    <3> SUFFICES ASSUME NEW k \in Listeners
                 PROVE  /\ \A i \in 1..Len(chan'[k]) :
                             /\ chan'[k][i][2] > got[k][chan'[k][i][1]]
                             /\ \A j \in 1..Len(chan'[k]) :
                                  i < j /\ chan'[k][i][1] = chan'[k][j][1] => chan'[k][i][2] < chan'[k][j][2]
                        /\ \A h \in sends \ {g} : h.to = k =>
                             /\ h.n > got[k][h.by]
                             /\ \A i \in 1..Len(chan'[k]) : chan'[k][i][1] = h.by => h.n > chan'[k][i][2]
      BY <1>2 DEF InOrder
    <3>1. CASE k # l
      BY <2>3, <3>1 DEF SinkInv, InOrder
    <3>2. CASE k = l
      <4>1. \A i \in 1..Len(chan'[l]) : i \in 1..Len(chan[l]) \/ i = Len(chan[l]) + 1
        BY <2>4
      <4>2. \A h \in sends \ {g} : h.to = l => h.by # p
        BY DEF SinkInv, SinkLockInv
      <4>3. /\ \A i \in 1..Len(chan[l]) :
                 /\ chan[l][i][2] > got[l][chan[l][i][1]]
                 /\ \A j \in 1..Len(chan[l]) :
                      i < j /\ chan[l][i][1] = chan[l][j][1] => chan[l][i][2] < chan[l][j][2]
            /\ \A h \in sends : h.to = l =>
                 /\ h.n > got[l][h.by]
                 /\ \A i \in 1..Len(chan[l]) : chan[l][i][1] = h.by => h.n > chan[l][i][2]
        BY <1>1 DEF SinkInv, InOrder
      <4>4. n > got[l][p] /\ \A i \in 1..Len(chan[l]) : chan[l][i][1] = p => chan[l][i][2] < n
        <5>1. \A i \in 1..Len(chan[l]) : chan[l][i][2] \in Int
          BY <2>2, BufferFacts
        <5> QED
          BY <1>1, <4>3, <5>1
      <4>5. ASSUME NEW i \in 1..Len(chan'[l]) PROVE chan'[l][i][2] > got[l][chan'[l][i][1]]
        <5>1. CASE i \in 1..Len(chan[l])
          BY <2>4, <4>3, <5>1
        <5>2. CASE i = Len(chan[l]) + 1
          BY <2>a, <4>4, <5>2
        <5> QED
          BY <4>1, <5>1, <5>2
      <4>6. ASSUME NEW i \in 1..Len(chan'[l]), NEW j \in 1..Len(chan'[l]), i < j, chan'[l][i][1] = chan'[l][j][1]
            PROVE  chan'[l][i][2] < chan'[l][j][2]
        <5>1. i \in 1..Len(chan[l])
          BY <2>4, <4>6
        <5>2. CASE j \in 1..Len(chan[l])
          BY <2>4, <4>3, <4>6, <5>1, <5>2
        <5>3. CASE j = Len(chan[l]) + 1
          BY <2>4, <2>a, <4>4, <4>6, <5>1, <5>3
        <5> QED
          BY <4>1, <5>2, <5>3
      <4>7. ASSUME NEW h \in sends \ {g}, h.to = l, NEW i \in 1..Len(chan'[l]), chan'[l][i][1] = h.by
            PROVE  h.n > chan'[l][i][2]
        <5>1. CASE i \in 1..Len(chan[l])
          BY <2>4, <4>3, <4>7, <5>1
        <5>2. CASE i = Len(chan[l]) + 1
          BY <2>4, <4>2, <4>7, <5>2
        <5> QED
          BY <4>1, <5>1, <5>2
      <4> QED
        BY <3>2, <4>3, <4>5, <4>6, <4>7
    <3> QED
      BY <3>1, <3>2
  <2> QED
    BY <2>5, <2>6, <2>7, <2>8 DEF SinkInv
<1>3. CASE /\ Capacity[l] = 0 /\ listener[l] = "select"
           /\ listener' = [listener EXCEPT ![l] = "handle"]
           /\ got' = [got EXCEPT ![l][p] = n]
           /\ UNCHANGED chan
  <2>1. Len(chan[l]) = 0
    BY <1>1, <1>3 DEF SinkInv, SinkTypeOK
  <2>2. SinkTypeOK'
    BY <1>1, <1>3 DEF SinkInv, SinkTypeOK
  <2>3. SinkLockInv'
    BY <1>3 DEF SinkInv, SinkLockInv, SinkTypeOK
  <2>4. \A k \in Listeners, q \in Publishers : got'[k][q] = IF k = l /\ q = p THEN n ELSE got[k][q]
    BY <1>1, <1>3 DEF SinkInv, SinkTypeOK
  <2>5. NumbersInv'
    BY <1>1, <1>3, <2>1, <2>4 DEF SinkInv, SinkTypeOK, NumbersInv
  <2>6. InOrder'
    <3>1. \A h \in sends \ {g} : h.to = l => h.by # p
      BY DEF SinkInv, SinkLockInv
    <3>2. \A k \in Listeners : \A i \in 1..Len(chan[k]) : k # l /\ chan[k][i][1] \in Publishers
      <4>1. \A k \in Listeners : chan[k] \in Seq(Messages)
        BY DEF SinkInv, SinkTypeOK
      <4> QED
        BY <2>1, <4>1, BufferFacts
    <3>3. \A h \in sends : h.to \in Listeners /\ h.by \in Publishers
      BY DEF SinkInv, SinkTypeOK, Sends
    <3>4. \A h \in sends \ {g} : got'[h.to][h.by] = got[h.to][h.by]
      BY <2>4, <3>1, <3>3
    <3>5. \A k \in Listeners : \A i \in 1..Len(chan[k]) : got'[k][chan[k][i][1]] = got[k][chan[k][i][1]]
      BY <2>4, <3>2
    <3> QED
      BY <1>3, <3>4, <3>5 DEF SinkInv, InOrder
  <2> QED
    BY <2>2, <2>3, <2>5, <2>6 DEF SinkInv
<1> QED
  BY <1>2, <1>3 DEF Deliver

\* Taking the oldest message out of a buffer keeps the order of the others.
LEMMA TailOrdered ==
    ASSUME SinkInv, NEW l \in Listeners, chan[l] # <<>>, chan' = [chan EXCEPT ![l] = Tail(@)]
    PROVE  /\ chan' \in [Listeners -> Seq(Messages)] /\ \A k \in Listeners : Len(chan'[k]) <= Capacity[k]
           /\ \A k \in Listeners : \A i \in 1..Len(chan'[k]) : \E d \in {0, 1} :
                /\ i + d \in 1..Len(chan[k]) /\ chan'[k][i] = chan[k][i + d] /\ (d = 1 <=> k = l)
<1>a. \A k \in Listeners : chan[k] \in Seq(Messages) /\ Capacity[k] \in Nat
  BY SinkAssumption DEF SinkInv, SinkTypeOK
<1>1. chan[l] \in Seq(Messages) /\ \A k \in Listeners : Capacity[k] \in Nat /\ Len(chan[k]) \in Nat
  BY <1>a, BufferFacts
<1>2. chan'[l] = Tail(chan[l]) /\ \A k \in Listeners \ {l} : chan'[k] = chan[k]
  BY DEF SinkInv, SinkTypeOK
<1>3. /\ chan'[l] \in Seq(Messages) /\ Len(chan'[l]) = Len(chan[l]) - 1
      /\ \A i \in 1..Len(chan'[l]) : chan'[l][i] = chan[l][i + 1] /\ i + 1 \in 1..Len(chan[l])
  <2>1. /\ Tail(chan[l]) \in Seq(Messages) /\ Len(Tail(chan[l])) = Len(chan[l]) - 1
        /\ \A i \in 1..Len(Tail(chan[l])) : Tail(chan[l])[i] = chan[l][i + 1]
    BY <1>1, BufferFacts
  <2>2. \A i \in 1..Len(Tail(chan[l])) : i + 1 \in 1..Len(chan[l])
    BY <1>1, <2>1
  <2> QED
    BY <1>2, <2>1, <2>2
<1>4. chan' \in [Listeners -> Seq(Messages)]
  BY <1>1, <1>2, <1>3 DEF SinkInv, SinkTypeOK
<1>5. \A k \in Listeners : Len(chan'[k]) <= Capacity[k]
  BY <1>1, <1>2, <1>3 DEF SinkInv, SinkTypeOK
<1>6. ASSUME NEW k \in Listeners, NEW i \in 1..Len(chan'[k])
      PROVE \E d \in {0, 1} : i + d \in 1..Len(chan[k]) /\ chan'[k][i] = chan[k][i + d] /\ (d = 1 <=> k = l)
  <2>1. CASE k = l
    BY <1>3, <2>1
  <2>2. CASE k # l
    BY <1>2, <2>2
  <2> QED
    BY <2>1, <2>2
<1> QED
  BY <1>4, <1>5, <1>6

\* A message that is dropped: nothing is received, and the goroutines that are left are ones
\* that were there, in another state.
LEMMA DropInv ==
    ASSUME SinkInv, UNCHANGED <<push, pushes, sinks, closed, listener, destroyer, got, broken>>,
           sends' \subseteq Sends,
           \A h \in sends' : \E g \in sends : h.by = g.by /\ h.to = g.to /\ h.n = g.n,
           \A g, h \in sends' : g.by = h.by /\ g.to = h.to => g = h,
           \/ UNCHANGED chan
           \/ \E l \in Listeners : chan[l] # <<>> /\ chan' = [chan EXCEPT ![l] = Tail(@)]
    PROVE  SinkInv'
<1>1. SinkLockInv'
  BY DEF SinkInv, SinkLockInv
<1>2. CASE UNCHANGED chan
  <2>1. SinkTypeOK' /\ NumbersInv'
    BY <1>2 DEF SinkInv, SinkTypeOK, NumbersInv
  <2>2. InOrder'
    BY <1>2 DEF SinkInv, InOrder
  <2> QED
    BY <1>1, <2>1, <2>2 DEF SinkInv
<1>3. ASSUME NEW l \in Listeners, chan[l] # <<>>, chan' = [chan EXCEPT ![l] = Tail(@)] PROVE SinkInv'
  <2>1. /\ chan' \in [Listeners -> Seq(Messages)] /\ \A k \in Listeners : Len(chan'[k]) <= Capacity[k]
        /\ \A k \in Listeners : \A i \in 1..Len(chan'[k]) : \E d \in {0, 1} :
             /\ i + d \in 1..Len(chan[k]) /\ chan'[k][i] = chan[k][i + d] /\ (d = 1 <=> k = l)
    BY <1>3, TailOrdered
  <2>2. SinkTypeOK'
    BY <2>1 DEF SinkInv, SinkTypeOK
  <2>3. NumbersInv'
    <3> SUFFICES ASSUME NEW k \in Listeners, NEW i \in 1..Len(chan'[k])
                 PROVE  /\ chan'[k][i][2] <= pushes[chan'[k][i][1]]
                        /\ push[chan'[k][i][1]] = "rlock" => chan'[k][i][2] < pushes[chan'[k][i][1]]
      BY DEF SinkInv, NumbersInv
    <3>1. PICK d \in {0, 1} : i + d \in 1..Len(chan[k]) /\ chan'[k][i] = chan[k][i + d]
      BY <2>1
    <3> QED
      BY <3>1 DEF SinkInv, NumbersInv
  <2>4. \A k \in Listeners : \A i, j \in 1..Len(chan'[k]) :
          i < j /\ chan'[k][i][1] = chan'[k][j][1] => chan'[k][i][2] < chan'[k][j][2]
    <3> SUFFICES ASSUME NEW k \in Listeners, NEW i \in 1..Len(chan'[k]), NEW j \in 1..Len(chan'[k]),
                        i < j, chan'[k][i][1] = chan'[k][j][1]
                 PROVE  chan'[k][i][2] < chan'[k][j][2]
      OBVIOUS
    <3>1. PICK d \in {0, 1} : i + d \in 1..Len(chan[k]) /\ chan'[k][i] = chan[k][i + d] /\ (d = 1 <=> k = l)
      BY <2>1
    <3>2. j + d \in 1..Len(chan[k]) /\ chan'[k][j] = chan[k][j + d]
      BY <2>1, <3>1
    <3>3. i + d < j + d
      BY <3>1
    <3> QED
      BY <3>1, <3>2, <3>3 DEF SinkInv, InOrder
  <2>5. \A k \in Listeners : \A i \in 1..Len(chan'[k]) : chan'[k][i][2] > got[k][chan'[k][i][1]]
    BY <2>1 DEF SinkInv, InOrder
  <2>6. \A h \in sends' : \A k \in Listeners : h.to = k =>
          /\ h.n > got[k][h.by]
          /\ \A i \in 1..Len(chan'[k]) : chan'[k][i][1] = h.by => h.n > chan'[k][i][2]
    <3> SUFFICES ASSUME NEW h \in sends', NEW k \in Listeners, h.to = k
                 PROVE  /\ h.n > got[k][h.by]
                        /\ \A i \in 1..Len(chan'[k]) : chan'[k][i][1] = h.by => h.n > chan'[k][i][2]
      OBVIOUS
    <3>1. PICK g \in sends : h.by = g.by /\ h.to = g.to /\ h.n = g.n
      OBVIOUS
    <3>2. g.n > got[k][g.by] /\ \A i \in 1..Len(chan[k]) : chan[k][i][1] = g.by => g.n > chan[k][i][2]
      BY <3>1 DEF SinkInv, InOrder
    <3>3. ASSUME NEW i \in 1..Len(chan'[k]), chan'[k][i][1] = h.by PROVE h.n > chan'[k][i][2]
      <4>1. PICK d \in {0, 1} : i + d \in 1..Len(chan[k]) /\ chan'[k][i] = chan[k][i + d]
        BY <2>1
      <4> QED
        BY <3>1, <3>2, <3>3, <4>1
    <3> QED
      BY <3>1, <3>2, <3>3
  <2> QED
    BY <1>1, <2>2, <2>3, <2>4, <2>5, <2>6 DEF SinkInv, InOrder
<1> QED
  BY <1>2, <1>3

\* A listener takes the oldest message.
LEMMA ReceiveInv ==
    ASSUME SinkInv, NEW l \in Listeners, Receive(l) PROVE SinkInv'
<1> DEFINE p == chan[l][1][1]  n == chan[l][1][2]
<1>1. chan[l] \in Seq(Messages) /\ chan[l] # <<>> /\ Head(chan[l]) = chan[l][1] /\ 1 \in 1..Len(chan[l])
      /\ p \in Publishers /\ n \in 1..MaxPushes
  <2>1. chan[l] \in Seq(Messages) /\ chan[l] # <<>>
    BY DEF SinkInv, SinkTypeOK, Receive
  <2> QED
    BY <2>1, BufferFacts
<1>2. /\ got' = [got EXCEPT ![l][p] = n] /\ chan' = [chan EXCEPT ![l] = Tail(@)]
      /\ listener' = [listener EXCEPT ![l] = "handle"]
      /\ UNCHANGED <<push, pushes, sends, sinks, closed, destroyer, broken>>
  BY <1>1 DEF Receive
<1>3. \A k \in Listeners, q \in Publishers : got'[k][q] = IF k = l /\ q = p THEN n ELSE got[k][q]
  BY <1>1, <1>2 DEF SinkInv, SinkTypeOK
<1>4. /\ chan' \in [Listeners -> Seq(Messages)] /\ \A k \in Listeners : Len(chan'[k]) <= Capacity[k]
      /\ \A k \in Listeners : \A i \in 1..Len(chan'[k]) : \E d \in {0, 1} :
           /\ i + d \in 1..Len(chan[k]) /\ chan'[k][i] = chan[k][i + d] /\ (d = 1 <=> k = l)
  BY <1>1, <1>2, TailOrdered
<1>5. SinkTypeOK'
  BY <1>1, <1>2, <1>4 DEF SinkInv, SinkTypeOK
<1>6. SinkLockInv'
  BY <1>2 DEF SinkInv, SinkLockInv, SinkTypeOK
<1>7. n <= pushes[p] /\ (push[p] = "rlock" => n < pushes[p])
  BY <1>1 DEF SinkInv, NumbersInv
<1>8. NumbersInv'
  <2>1. \A k \in Listeners, q \in Publishers :
          got'[k][q] <= pushes[q] /\ (push[q] = "rlock" => got'[k][q] < pushes[q])
    BY <1>3, <1>7 DEF SinkInv, NumbersInv
  <2>2. \A k \in Listeners : \A i \in 1..Len(chan'[k]) :
          /\ chan'[k][i][2] <= pushes[chan'[k][i][1]]
          /\ push[chan'[k][i][1]] = "rlock" => chan'[k][i][2] < pushes[chan'[k][i][1]]
    <3> SUFFICES ASSUME NEW k \in Listeners, NEW i \in 1..Len(chan'[k])
                 PROVE  /\ chan'[k][i][2] <= pushes[chan'[k][i][1]]
                        /\ push[chan'[k][i][1]] = "rlock" => chan'[k][i][2] < pushes[chan'[k][i][1]]
      OBVIOUS
    <3>1. PICK d \in {0, 1} : i + d \in 1..Len(chan[k]) /\ chan'[k][i] = chan[k][i + d]
      BY <1>4
    <3> QED
      BY <3>1 DEF SinkInv, NumbersInv
  <2> QED
    BY <1>2, <2>1, <2>2 DEF NumbersInv
<1>9. InOrder'
  <2>1. ASSUME NEW k \in Listeners, NEW i \in 1..Len(chan'[k]) PROVE chan'[k][i][2] > got'[k][chan'[k][i][1]]
    <3>1. PICK d \in {0, 1} : i + d \in 1..Len(chan[k]) /\ chan'[k][i] = chan[k][i + d] /\ (d = 1 <=> k = l)
      BY <1>4
    <3>2. chan'[k][i][1] \in Publishers
      <4>1. chan[k] \in Seq(Messages)
        BY DEF SinkInv, SinkTypeOK
      <4> QED
        BY <3>1, <4>1, BufferFacts
    <3>3. CASE k = l /\ chan'[k][i][1] = p
      <4>1. 1 < i + d /\ i + d \in 1..Len(chan[l]) /\ chan[l][1][1] = chan[l][i + d][1]
        BY <3>1, <3>3
      <4>2. chan[l][1][2] < chan[l][i + d][2]
        BY <1>1, <4>1 DEF SinkInv, InOrder
      <4>3. chan[l][i + d][2] \in Int
        BY <1>1, <4>1, BufferFacts
      <4> QED
        BY <1>1, <1>3, <3>1, <3>3, <4>2, <4>3
    <3>4. CASE ~(k = l /\ chan'[k][i][1] = p)
      <4>1. chan[k][i + d][2] > got[k][chan[k][i + d][1]]
        BY <3>1 DEF SinkInv, InOrder
      <4> QED
        BY <1>3, <3>1, <3>2, <3>4, <4>1
    <3> QED
      BY <3>3, <3>4
  <2>2. ASSUME NEW k \in Listeners, NEW i \in 1..Len(chan'[k]), NEW j \in 1..Len(chan'[k]),
               i < j, chan'[k][i][1] = chan'[k][j][1]
        PROVE  chan'[k][i][2] < chan'[k][j][2]
    <3>1. PICK d \in {0, 1} : i + d \in 1..Len(chan[k]) /\ chan'[k][i] = chan[k][i + d] /\ (d = 1 <=> k = l)
      BY <1>4
    <3>2. j + d \in 1..Len(chan[k]) /\ chan'[k][j] = chan[k][j + d] /\ i + d < j + d
      BY <1>4, <2>2, <3>1
    <3> QED
      BY <2>2, <3>1, <3>2 DEF SinkInv, InOrder
  <2>3. ASSUME NEW h \in sends, NEW k \in Listeners, h.to = k
        PROVE  /\ h.n > got'[k][h.by]
               /\ \A i \in 1..Len(chan'[k]) : chan'[k][i][1] = h.by => h.n > chan'[k][i][2]
    <3>1. h.n > got[k][h.by] /\ \A i \in 1..Len(chan[k]) : chan[k][i][1] = h.by => h.n > chan[k][i][2]
      BY <2>3 DEF SinkInv, InOrder
    <3>2. h.by \in Publishers
      BY DEF SinkInv, SinkTypeOK, Sends
    <3>3. h.n > got'[k][h.by]
      BY <1>1, <1>3, <3>1, <3>2
    <3> QED
      BY <1>4, <3>1, <3>3
  <2> QED
    BY <1>2, <2>1, <2>2, <2>3 DEF InOrder
<1> QED
  BY <1>5, <1>6, <1>8, <1>9 DEF SinkInv

\* A step that leaves messages, buffers and goroutines alone keeps their order.
LEMMA QuietInv ==
    ASSUME SinkInv, SinkTypeOK', SinkLockInv', UNCHANGED <<pushes, sends, chan, got>>,
           \A p \in Publishers : push'[p] = "rlock" => push[p] = "rlock"
    PROVE  SinkInv'
<1>1. InOrder'
  BY DEF SinkInv, InOrder
<1>2. \A k \in Listeners : \A i \in 1..Len(chan[k]) : chan[k][i][1] \in Publishers
  <2>1. \A k \in Listeners : chan[k] \in Seq(Messages)
    BY DEF SinkInv, SinkTypeOK
  <2> QED
    BY <2>1, BufferFacts
<1>3. NumbersInv'
  BY <1>2 DEF SinkInv, NumbersInv
<1> QED
  BY <1>1, <1>3 DEF SinkInv

\* The write lock is granted when no goroutine of a push is left.
LEMMA WriterAlone ==
    ASSUME SinkInv, Readers = {} PROVE sends = {}
BY DEF SinkInv, SinkTypeOK, Sends, Readers

\* A push: the message is newer than all that its publisher has sent.
LEMMA PublisherInv ==
    ASSUME SinkInv, NEW p \in Publishers, Publish(p) \/ Push(p) \/ PushReturn(p) PROVE SinkInv'
<1> USE SinkAssumption
<1>a. \A k \in Listeners : \A i \in 1..Len(chan[k]) : chan[k][i][1] \in Publishers /\ chan[k][i][2] \in Int
  <2>1. \A k \in Listeners : chan[k] \in Seq(Messages)
    BY DEF SinkInv, SinkTypeOK
  <2> QED
    BY <2>1, BufferFacts
<1>b. pushes \in [Publishers -> Int] /\ got \in [Listeners -> [Publishers -> Int]]
  BY DEF SinkInv, SinkTypeOK
<1>1. CASE Publish(p)
  <2>1. ~\E g \in sends : g.by = p
    BY <1>1 DEF SinkInv, SinkLockInv, Publish
  <2>2. SinkTypeOK'
    BY <1>1 DEF SinkInv, SinkTypeOK, Publish
  <2>3. SinkLockInv'
    BY <1>1, <2>1 DEF SinkInv, SinkTypeOK, SinkLockInv, Publish
  <2>4. InOrder'
    BY <1>1 DEF SinkInv, InOrder, Publish
  <2>5. \A q \in Publishers : /\ pushes[q] <= pushes'[q]
                              /\ push'[q] = "rlock" => pushes[q] < pushes'[q] \/ push[q] = "rlock"
    BY <1>1, <1>b DEF SinkInv, SinkTypeOK, Publish
  <2>6. pushes' \in [Publishers -> Int]
    BY <2>2 DEF SinkTypeOK
  <2>7. NumbersInv'
    <3>1. \A k \in Listeners, q \in Publishers :
            got[k][q] <= pushes'[q] /\ (push'[q] = "rlock" => got[k][q] < pushes'[q])
      BY <1>b, <2>5, <2>6 DEF SinkInv, NumbersInv
    <3>2. ASSUME NEW k \in Listeners, NEW i \in 1..Len(chan[k])
          PROVE  /\ chan[k][i][2] <= pushes'[chan[k][i][1]]
                 /\ push'[chan[k][i][1]] = "rlock" => chan[k][i][2] < pushes'[chan[k][i][1]]
      <4> DEFINE q == chan[k][i][1]  m == chan[k][i][2]
      <4>1. q \in Publishers /\ m \in Int
        BY <1>a
      <4>2. m <= pushes[q] /\ (push[q] = "rlock" => m < pushes[q])
        BY DEF SinkInv, NumbersInv
      <4>3. pushes[q] <= pushes'[q] /\ (push'[q] = "rlock" => pushes[q] < pushes'[q] \/ push[q] = "rlock")
        BY <2>5, <4>1
      <4>4. pushes[q] \in Int /\ pushes'[q] \in Int
        BY <1>b, <2>6, <4>1
      <4> HIDE DEF q, m
      <4>5. m <= pushes'[q] /\ (push'[q] = "rlock" => m < pushes'[q])
        BY <4>1, <4>2, <4>3, <4>4
      <4> QED
        BY <4>5 DEF q, m
    <3> QED
      BY <1>1, <3>1, <3>2 DEF NumbersInv, Publish
  <2> QED
    BY <2>2, <2>3, <2>4, <2>7 DEF SinkInv
<1>2. CASE Push(p)
  <2>1. ~\E g \in sends : g.by = p
    BY <1>2 DEF SinkInv, SinkLockInv, Push
  <2>2. pushes[p] \in 1..MaxPushes \/ Listeners = {}
    BY <1>2 DEF SinkInv, SinkTypeOK, NumbersInv, Push
  <2>3. SinkTypeOK'
    <3>1. \A l \in sinks : [by |-> p, n |-> pushes[p], to |-> l, pc |-> "send"] \in Sends
      BY <2>2 DEF SinkInv, SinkTypeOK, Sends
    <3> QED
      BY <1>2, <3>1 DEF SinkInv, SinkTypeOK, Push
  <2>4. SinkLockInv'
    <3>1. \A g \in sends' : g \in sends \/ (g.by = p /\ g.n = pushes[p] /\ g.to \in sinks /\ g.pc = "send")
      BY <1>2 DEF Push
    <3>2. \A g \in sends' : push'[g.by] = "wait" /\ g.n = pushes[g.by] /\ g.to \in sinks
      BY <1>2, <3>1 DEF SinkInv, SinkTypeOK, SinkLockInv, Push
    <3>3. \A g, h \in sends' : g.by = h.by /\ g.to = h.to => g = h
      <4> SUFFICES ASSUME NEW g \in sends', NEW h \in sends', g.by = h.by, g.to = h.to PROVE g = h
        OBVIOUS
      <4>1. CASE g.by = p
        <5>1. g \notin sends /\ h \notin sends
          BY <2>1, <4>1
        <5>2. PICK k \in sinks : g = [by |-> p, n |-> pushes[p], to |-> k, pc |-> "send"]
          BY <1>2, <5>1 DEF Push
        <5>3. PICK m \in sinks : h = [by |-> p, n |-> pushes[p], to |-> m, pc |-> "send"]
          BY <1>2, <5>1 DEF Push
        <5> QED
          BY <5>2, <5>3
      <4>2. CASE g.by # p
        BY <3>1, <4>2 DEF SinkInv, SinkLockInv
      <4> QED
        BY <4>1, <4>2
    <3> QED
      BY <1>2, <3>2, <3>3 DEF SinkInv, SinkLockInv, Push
  <2>5. NumbersInv'
    BY <1>2, <1>a DEF SinkInv, SinkTypeOK, NumbersInv, Push
  <2>6. InOrder'
    <3>1. ASSUME NEW l \in sinks
          PROVE  pushes[p] > got[l][p] /\ \A i \in 1..Len(chan[l]) : chan[l][i][1] = p => pushes[p] > chan[l][i][2]
      <4>1. l \in Listeners
        BY DEF SinkInv, SinkTypeOK
      <4>2. got[l][p] < pushes[p] /\ \A i \in 1..Len(chan[l]) : chan[l][i][1] = p => chan[l][i][2] < pushes[p]
        BY <1>2, <4>1 DEF SinkInv, NumbersInv, Push
      <4> QED
        BY <1>a, <1>b, <4>1, <4>2
    <3>2. ASSUME NEW g \in sends', NEW l \in Listeners, g.to = l
          PROVE  g.n > got[l][g.by] /\ \A i \in 1..Len(chan[l]) : chan[l][i][1] = g.by => g.n > chan[l][i][2]
      <4>1. CASE g \in sends
        BY <3>2, <4>1 DEF SinkInv, InOrder
      <4>2. CASE g \notin sends
        <5>1. g.by = p /\ g.n = pushes[p] /\ g.to \in sinks
          BY <1>2, <4>2 DEF Push
        <5> QED
          BY <3>1, <3>2, <5>1
      <4> QED
        BY <4>1, <4>2
    <3>3. UNCHANGED <<chan, got>>
      BY <1>2 DEF Push
    <3>4. \A l \in Listeners : \A i \in 1..Len(chan[l]) :
             /\ chan[l][i][2] > got[l][chan[l][i][1]]
             /\ \A j \in 1..Len(chan[l]) : i < j /\ chan[l][i][1] = chan[l][j][1] => chan[l][i][2] < chan[l][j][2]
      BY DEF SinkInv, InOrder
    <3> QED
      BY <3>2, <3>3, <3>4 DEF InOrder
  <2> QED
    BY <2>3, <2>4, <2>5, <2>6 DEF SinkInv
<1>3. CASE PushReturn(p)
  <2>1. SinkTypeOK'
    BY <1>3 DEF SinkInv, SinkTypeOK, PushReturn
  <2>2. SinkLockInv'
    BY <1>3 DEF SinkInv, SinkTypeOK, SinkLockInv, PushReturn
  <2> QED
    BY <1>3, <2>1, <2>2, QuietInv DEF SinkInv, SinkTypeOK, PushReturn
<1> QED
  BY <1>1, <1>2, <1>3

\* A goroutine of a push sends, waits, makes room or gives up.
LEMMA SendStepInv ==
    ASSUME SinkInv, NEW g \in sends, SendStep(g) PROVE SinkInv'
<1>1. /\ g \in Sends /\ sends \subseteq Sends /\ g.to \in Listeners
      /\ g.to \notin closed
      /\ \A h, q \in sends : h.by = q.by /\ h.to = q.to => h = q
  BY DEF SinkInv, SinkTypeOK, SinkLockInv, Sends
<1>2. CASE Send(g)
  BY <1>1, <1>2, DeliverInv DEF Send
<1>3. \A pc \in {"drop", "resend"} : LET h == [g EXCEPT !.pc = pc] IN
        h \in Sends /\ h.by = g.by /\ h.to = g.to /\ h.n = g.n
  BY <1>1 DEF Sends
<1>4. CASE Timeout(g)
  <2>1. /\ sends' = (sends \ {g}) \cup {[g EXCEPT !.pc = "drop"]}
        /\ UNCHANGED <<push, pushes, sinks, closed, chan, listener, destroyer, got, broken>>
    BY <1>4 DEF Timeout
  <2>2. sends' \subseteq Sends
    BY <1>1, <1>3, <2>1
  <2>3. \A h \in sends' : \E q \in sends : h.by = q.by /\ h.to = q.to /\ h.n = q.n
    BY <1>1, <1>3, <2>1
  <2>4. \A h, q \in sends' : h.by = q.by /\ h.to = q.to => h = q
    <3>1. \A h \in sends' : h = [g EXCEPT !.pc = "drop"] \/ (h \in sends /\ ~(h.by = g.by /\ h.to = g.to))
      BY <1>1, <2>1
    <3>2. [g EXCEPT !.pc = "drop"].by = g.by /\ [g EXCEPT !.pc = "drop"].to = g.to
      BY <1>3
    <3> QED
      BY <1>1, <3>1, <3>2
  <2> QED
    BY <2>1, <2>2, <2>3, <2>4, DropInv
<1>5. CASE DropOldest(g)
  <2>1. /\ UNCHANGED <<push, pushes, sinks, closed, listener, destroyer, got, broken>>
        /\ \/ UNCHANGED chan
           \/ chan[g.to] # <<>> /\ chan' = [chan EXCEPT ![g.to] = Tail(@)]
        /\ sends' \subseteq (sends \ {g}) \cup {[g EXCEPT !.pc = "resend"]}
    BY <1>5 DEF DropOldest
  <2>2. sends' \subseteq Sends
    BY <1>1, <1>3, <2>1
  <2>3. \A h \in sends' : \E q \in sends : h.by = q.by /\ h.to = q.to /\ h.n = q.n
    BY <1>1, <1>3, <2>1
  <2>4. \A h, q \in sends' : h.by = q.by /\ h.to = q.to => h = q
    <3>1. \A h \in sends' : h = [g EXCEPT !.pc = "resend"] \/ (h \in sends /\ ~(h.by = g.by /\ h.to = g.to))
      BY <1>1, <2>1
    <3>2. [g EXCEPT !.pc = "resend"].by = g.by /\ [g EXCEPT !.pc = "resend"].to = g.to
      BY <1>3
    <3> QED
      BY <1>1, <3>1, <3>2
  <2> QED
    BY <1>1, <2>1, <2>2, <2>3, <2>4, DropInv
<1>6. CASE Resend(g)
  <2>1. CASE Deliver(g.to, g.by, g.n) /\ UNCHANGED broken
    BY <1>1, <1>6, <2>1, DeliverInv DEF Resend
  <2>2. CASE UNCHANGED <<chan, listener, got, broken>>
    <3>1. sends' = sends \ {g} /\ UNCHANGED <<push, pushes, sinks, closed, destroyer>>
      BY <1>6 DEF Resend
    <3> QED
      BY <1>1, <2>2, <3>1, DropInv
  <2> QED
    BY <1>1, <1>6, <2>1, <2>2 DEF Resend
<1> QED
  BY <1>2, <1>4, <1>5, <1>6 DEF SendStep

\* Registration, removal, destruction and the listeners.
LEMMA ListenerInv ==
    ASSUME SinkInv,
           \/ \E l \in Listeners : On(l) \/ Off(l) \/ Receive(l) \/ Handled(l) \/ Leave(l)
           \/ CallDestroy \/ Destroy
    PROVE  SinkInv'
<1>1. ASSUME NEW l \in Listeners, On(l) PROVE SinkInv'
  <2>1. SinkTypeOK' /\ SinkLockInv'
    BY <1>1 DEF SinkInv, SinkTypeOK, SinkLockInv, On
  <2> QED
    BY <1>1, <2>1, QuietInv DEF On
<1>2. ASSUME NEW l \in Listeners, Off(l) PROVE SinkInv'
  <2>1. sends = {}
    BY <1>2, WriterAlone DEF Off
  <2>2. SinkTypeOK'
    BY <1>2 DEF SinkInv, SinkTypeOK, Off
  <2>3. SinkLockInv'
    BY <1>2, <2>1 DEF SinkInv, SinkTypeOK, SinkLockInv, Off
  <2> QED
    BY <1>2, <2>2, <2>3, QuietInv DEF Off
<1>3. ASSUME NEW l \in Listeners, Handled(l) \/ Leave(l) PROVE SinkInv'
  <2>a. PICK pc \in {"select", "off"} : listener' = [listener EXCEPT ![l] = pc]
    BY <1>3 DEF Handled, Leave
  <2>b. UNCHANGED <<push, pushes, sends, sinks, closed, chan, destroyer, got, broken>>
    BY <1>3 DEF Handled, Leave
  <2>1. SinkTypeOK' /\ SinkLockInv'
    <3>1. SinkTypeOK'
      BY <2>a, <2>b DEF SinkInv, SinkTypeOK
    <3>2. \A k \in Listeners : listener'[k] = "on" => listener[k] = "on"
      BY <2>a DEF SinkInv, SinkTypeOK
    <3>3. SinkLockInv'
      BY <2>b, <3>2 DEF SinkInv, SinkLockInv
    <3> QED
      BY <3>1, <3>3
  <2> QED
    BY <1>3, <2>1, QuietInv DEF Handled, Leave
<1>4. ASSUME CallDestroy PROVE SinkInv'
  <2>1. SinkTypeOK' /\ SinkLockInv'
    BY <1>4 DEF SinkInv, SinkTypeOK, SinkLockInv, CallDestroy
  <2> QED
    BY <1>4, <2>1, QuietInv DEF CallDestroy
<1>5. ASSUME Destroy PROVE SinkInv'
  <2>1. sends = {}
    BY <1>5, WriterAlone DEF Destroy
  <2>2. SinkTypeOK'
    BY <1>5 DEF SinkInv, SinkTypeOK, Destroy
  <2>3. SinkLockInv'
    BY <1>5, <2>1 DEF SinkInv, SinkTypeOK, SinkLockInv, Destroy
  <2> QED
    BY <1>5, <2>2, <2>3, QuietInv DEF Destroy
<1> QED
  BY <1>1, <1>2, <1>3, <1>4, <1>5, ReceiveInv

\* The invariant of the pool holds from the start and is kept by every step.
LEMMA SinkInvariant == SinkSpec => []SinkInv
<1>1. (\E listening \in SUBSET Listeners : SinkInit(listening)) => SinkInv
  <2> SUFFICES ASSUME NEW listening \in SUBSET Listeners, SinkInit(listening) PROVE SinkInv
    OBVIOUS
  <2> USE SinkAssumption
  <2>1. \A l \in Listeners : chan[l] \in Seq(Messages) /\ Len(chan[l]) = 0
    BY DEF SinkInit
  <2>a. chan \in [Listeners -> Seq(Messages)] /\ \A l \in Listeners : Len(chan[l]) <= Capacity[l]
    BY <2>1 DEF SinkInit
  <2>b. pushes \in [Publishers -> 0..MaxPushes] /\ got \in [Listeners -> [Publishers -> 0..MaxPushes]]
    BY DEF SinkInit
  <2>c. /\ push \in [Publishers -> {"idle", "rlock", "wait"}] /\ destroyer \in {"idle", "lock", "done"}
        /\ listener \in [Listeners -> {"on", "select", "handle", "off", "gone"}]
    BY DEF SinkInit
  <2>d. sends \subseteq Sends /\ sinks \subseteq Listeners /\ closed \subseteq Listeners /\ broken \in BOOLEAN
    BY DEF SinkInit
  <2>2. SinkTypeOK
    BY <2>a, <2>b, <2>c, <2>d DEF SinkTypeOK
  <2>3. SinkLockInv
    BY DEF SinkInit, SinkLockInv
  <2>4. NumbersInv /\ InOrder
    BY <2>1 DEF SinkInit, NumbersInv, InOrder
  <2> QED
    BY <2>2, <2>3, <2>4 DEF SinkInv
<1>2. SinkInv /\ [SinkNext]_sinkVars => SinkInv'
  <2> SUFFICES ASSUME SinkInv, [SinkNext]_sinkVars PROVE SinkInv'
    OBVIOUS
  <2>1. CASE UNCHANGED sinkVars
    <3>1. SinkTypeOK' /\ SinkLockInv'
      BY <2>1 DEF SinkInv, SinkTypeOK, SinkLockInv, sinkVars
    <3> QED
      BY <2>1, <3>1, QuietInv DEF sinkVars
  <2>2. CASE SinkNext
    BY <2>2, PublisherInv, SendStepInv, ListenerInv DEF SinkNext
  <2> QED
    BY <2>1, <2>2
<1> QED
  BY <1>1, <1>2, PTL DEF SinkSpec

\* However pushes, removals and the destruction of the pool meet, no goroutine sends to a
\* channel that Off or Destroy has closed, for any number of publishers and listeners: a
\* Push waits for its sends before it gives up the read lock.
THEOREM SinkNeverClosed == SinkSpec => []NoClosedSend
<1>1. SinkInv => NoClosedSend
  BY DEF SinkInv, SinkLockInv, NoClosedSend
<1> QED
  BY <1>1, SinkInvariant, PTL

\* Each listener gets what a publisher pushes in the order of the pushes, for any buffers
\* and whichever messages a full one drops.
THEOREM SinkKeepsOrder == SinkSpec => []InOrder
<1>1. SinkInv => InOrder
  BY DEF SinkInv
<1> QED
  BY <1>1, SinkInvariant, PTL

-----------------------------------------------------------------------------
(* Tokens of websockets.                                                    *)

ConnSpec ==
    /\ \E cs \in SUBSET Conns, ss \in SUBSET Sessions, asked \in SUBSET {"deny", "sync", "delete"} :
         ConnInit(cs, ss, asked)
    /\ [][ConnNext]_connVars

Moments == Times \cup {None}
Inbounds == [pc : {"idle", "valid", "act", "auth", "set"}, tok : Moments, first : BOOLEAN, after : Moments]

\* What a message that acts is measured against was answered, and what was answered is on
\* the denylist by then.
TokenInv ==
    /\ now \in Times /\ denied \in Moments /\ called \in Moments /\ answered \in Moments
    /\ jwt \in [Conns -> Moments] /\ msg \in [Conns -> [Inbound -> Inbounds]]
    /\ called <= denied /\ answered <= denied
    /\ deauth # "idle" => answered <= called
    /\ \A c \in Conns : \A i \in Inbound : msg[c][i].after <= answered
    /\ ~misused

\* A token that the denylist lets pass was not issued before the denial.
LEMMA DenylistCovers ==
    ASSUME NEW t \in Moments, NEW d \in Moments, denied \in Moments, d <= denied, ~Denylisted(t)
    PROVE  t >= d
  BY ConnectionsAssumption DEF Moments, Times, None, Denylisted

\* The steps of the Panel's requests.
LEMMA RevokersToken ==
    ASSUME TokenInv, Tick \/ Deny \/ DenyJTI \/ DenySockets \/ DenySessions \/ Sync \/ SyncSuspended \/ CleanupForDestroy
    PROVE  TokenInv'
<1> USE ConnectionsAssumption DEF Moments, Times, None, sockets, sftp
<1>1. UNCHANGED <<jwt, msg, misused>>
  BY DEF Tick, Deny, DenyJTI, DenySockets, DenySessions, Sync, SyncSuspended, CleanupForDestroy,
     CancelAll
<1>2. /\ now' \in Times /\ denied' \in Moments /\ called' \in Moments /\ answered' \in Moments
      /\ called' <= denied' /\ answered' <= denied' /\ answered <= answered'
      /\ deauth' # "idle" => answered' <= called'
  <2> USE DEF TokenInv
  <2>1. CASE Tick
    BY <2>1 DEF Tick
  <2>2. CASE Deny
    BY <2>2 DEF Deny
  <2>3. CASE DenyJTI
    BY <2>3 DEF DenyJTI
  <2>4. CASE DenySessions
    BY <2>4 DEF DenySessions
  <2>5. CASE DenySockets \/ Sync \/ SyncSuspended \/ CleanupForDestroy
    BY <2>5 DEF DenySockets, Sync, SyncSuspended, CleanupForDestroy
  <2> QED
    BY <2>1, <2>2, <2>3, <2>4, <2>5
<1>3. ASSUME NEW c \in Conns, NEW i \in Inbound PROVE msg[c][i].after <= answered'
  <2>1. msg[c][i].after <= answered /\ msg[c][i].after \in Int /\ answered \in Int
    BY DEF TokenInv, Inbounds
  <2> QED
    BY <1>2, <2>1
<1> QED
  BY <1>1, <1>2, <1>3 DEF TokenInv

\* A message is replaced by one that is measured against an answer.
LEMMA MessageToken ==
    ASSUME TokenInv, UNCHANGED <<now, denied, called, answered, deauth>>, jwt' \in [Conns -> Moments], ~misused',
           NEW c \in Conns, NEW i \in Inbound, NEW m \in Inbounds, m.after <= answered,
           msg' = [msg EXCEPT ![c][i] = m]
    PROVE  TokenInv'
<1>1. msg' \in [Conns -> [Inbound -> Inbounds]]
  BY DEF TokenInv
<1>2. \A d \in Conns : \A j \in Inbound : msg'[d][j].after <= answered
  BY DEF TokenInv
<1> QED
  BY <1>1, <1>2 DEF TokenInv

\* The steps of a connection and of its messages.
LEMMA SocketToken ==
    ASSUME TokenInv, NEW c \in Conns, SocketStep(c), UNCHANGED revokers
    PROVE  TokenInv'
<1> USE ConnectionsAssumption
<1>0. UNCHANGED <<now, denied, called, answered, deauth>>
  BY DEF revokers
<1>a. Idle \in Inbounds /\ Idle.after <= answered
  BY DEF TokenInv, Inbounds, Moments, Idle, Times, None
<1>b. ASSUME NEW i \in Inbound PROVE msg[c][i] \in Inbounds /\ msg[c][i].after <= answered
  BY DEF TokenInv
<1>1. CASE UNCHANGED <<jwt, msg, misused>>
  BY <1>0, <1>1 DEF TokenInv
<1>2. CASE ReadMessage(c)
  <2>1. PICK i \in Inbound :
          \/ \E t \in 0..now : msg' = [msg EXCEPT ![c][i] = [Idle EXCEPT !.pc = "auth", !.tok = t]]
          \/ msg' = [msg EXCEPT ![c][i] = [Idle EXCEPT !.pc = "valid", !.after = answered]]
    BY <1>2 DEF ReadMessage
  <2>2. ~misused' /\ jwt' \in [Conns -> Moments]
    BY <1>2 DEF ReadMessage, TokenInv
  <2>3. ASSUME NEW t \in 0..now PROVE [Idle EXCEPT !.pc = "auth", !.tok = t] \in Inbounds
                                      /\ [Idle EXCEPT !.pc = "auth", !.tok = t].after <= answered
    <3>1. t \in Moments
      BY <2>3 DEF TokenInv, Moments, Times
    <3>2. [Idle EXCEPT !.pc = "auth", !.tok = t].after = Idle.after
      BY DEF Idle
    <3> QED
      BY <1>a, <3>1, <3>2 DEF Inbounds
  <2>4. [Idle EXCEPT !.pc = "valid", !.after = answered] \in Inbounds
        /\ [Idle EXCEPT !.pc = "valid", !.after = answered].after <= answered
    <3>1. answered \in Moments /\ answered <= answered
      BY DEF TokenInv, Moments, Times, None
    <3>2. [Idle EXCEPT !.pc = "valid", !.after = answered].after = answered
      BY DEF Idle
    <3> QED
      BY <1>a, <3>1, <3>2 DEF Inbounds
  <2> QED
    BY <1>0, <2>1, <2>2, <2>3, <2>4, MessageToken
<1>3. ASSUME NEW i \in Inbound, TokenValid(c, i) PROVE TokenInv'
  <2> DEFINE m == [msg[c][i] EXCEPT !.pc = "act"]
  <2>1. m \in Inbounds /\ m.after <= answered
    BY <1>b DEF Inbounds
  <2>2. ~misused' /\ jwt' \in [Conns -> Moments]
    BY <1>3 DEF TokenValid, TokenInv
  <2>3. msg' = [msg EXCEPT ![c][i] = Idle] \/ msg' = [msg EXCEPT ![c][i] = m]
    BY <1>3 DEF TokenValid, Finish, TokenInv
  <2> HIDE DEF m
  <2> QED
    BY <1>0, <1>a, <2>1, <2>2, <2>3, MessageToken
<1>4. ASSUME NEW i \in Inbound, Act(c, i) PROVE TokenInv'
  <2>1. ~Denylisted(jwt[c]) => ~(jwt[c] < msg[c][i].after)
    <3>1. msg[c][i].after \in Moments /\ jwt[c] \in Moments /\ msg[c][i].after <= denied /\ denied \in Moments
      BY <1>b DEF TokenInv, Inbounds, Moments, Times, None
    <3>2. ~Denylisted(jwt[c]) => jwt[c] >= msg[c][i].after
      BY <3>1, DenylistCovers
    <3> QED
      BY <3>1, <3>2 DEF Moments, Times, None
  <2>2. ~misused'
    BY <1>4, <2>1 DEF Act, TokenInv
  <2>3. jwt' \in [Conns -> Moments] /\ msg' = [msg EXCEPT ![c][i] = Idle]
    BY <1>4 DEF Act, Finish, TokenInv
  <2> QED
    BY <1>0, <1>a, <2>2, <2>3, MessageToken
<1>5. ASSUME NEW i \in Inbound, Authenticate(c, i) PROVE TokenInv'
  <2> DEFINE m == [msg[c][i] EXCEPT !.pc = "set", !.first = (jwt[c] = None)]
  <2>1. m \in Inbounds /\ m.after <= answered
    BY <1>b DEF Inbounds
  <2>2. ~misused' /\ jwt' \in [Conns -> Moments]
    BY <1>5 DEF Authenticate, TokenInv
  <2>3. msg' = [msg EXCEPT ![c][i] = Idle] \/ msg' = [msg EXCEPT ![c][i] = m]
    BY <1>5 DEF Authenticate, Finish, TokenInv
  <2> HIDE DEF m
  <2> QED
    BY <1>0, <1>a, <2>1, <2>2, <2>3, MessageToken
<1>6. ASSUME NEW i \in Inbound, SetJwt(c, i) PROVE TokenInv'
  <2>1. ~misused' /\ msg' = [msg EXCEPT ![c][i] = Idle]
    BY <1>6 DEF SetJwt, Finish, TokenInv
  <2>2. jwt' \in [Conns -> Moments]
    BY <1>6, <1>b DEF SetJwt, TokenInv, Inbounds
  <2> QED
    BY <1>0, <1>a, <2>1, <2>2, MessageToken
<1> QED
  BY <1>1, <1>2, <1>3, <1>4, <1>5, <1>6
     DEF SocketStep, HandleInbound, Serve, Open, ClientCloses, PushConn, CheckSuspended, ReadFails, Return,
         CloseConnection, WatchServer, ListenerEnds

\* Once a deauthorisation has been answered, no message that arrives acts on a token issued
\* before it (router/websocket, TokenValid, HasPermission and Denylisted), for any number of
\* connections and messages handled at once.
THEOREM RevokedTokens == ConnSpec => []RevokedNeverActs
<1>1. (\E cs \in SUBSET Conns, ss \in SUBSET Sessions, asked \in SUBSET {"deny", "sync", "delete"} :
         ConnInit(cs, ss, asked)) => TokenInv
  BY ConnectionsAssumption DEF ConnInit, TokenInv, Inbounds, Moments, Times, None, Idle
<1>2. TokenInv /\ [ConnNext]_connVars => TokenInv'
  <2> SUFFICES ASSUME TokenInv, [ConnNext]_connVars PROVE TokenInv'
    OBVIOUS
  <2>1. CASE UNCHANGED <<revokers, sockets>>
    BY <2>1 DEF revokers, sockets, TokenInv
  <2> QED
    BY <2>1, RevokersToken, SocketToken DEF ConnNext, connVars
<1>3. TokenInv => RevokedNeverActs
  BY DEF TokenInv, RevokedNeverActs
<1> QED
  BY <1>1, <1>2, <1>3, PTL DEF ConnSpec

-----------------------------------------------------------------------------
(* The boot of the daemon.                                                  *)

BootSpec == (\E active \in BOOLEAN : BootInit(active)) /\ [][BootNext]_bootVars

\* The file has the last complete record unless it is being written, and so does what was
\* read from it.
RecordInv ==
    /\ daemon \in {"down", "load"} => writing = Nothing
    /\ daemon = "load" => loaded = {}
    /\ ~unsure => file = recorded \/ (file = Torn /\ writing # Nothing)
    /\ daemon = "restore" /\ ~unsure => \A s \in loaded : known[s] = recorded[s]

\* Where a server's restore or start is says what its state and its container are.
StepInv ==
    /\ daemon \in {"down", "load"} => step = AllIdle /\ state = AllOffline
    /\ \A s \in Servers :
        /\ s \in loaded \ restored /\ step[s] = "idle" => state[s] = "offline"
        /\ step[s] = "start" => state[s] = "offline"
        /\ step[s] \in {"boot", "attach"} => state[s] # "offline"
        /\ step[s] \in {"start", "boot", "mark_offline"} =>
             s \notin container \/ s \in faulty \cup slipped
        /\ step[s] \in {"mark_running", "attach"} => s \in container \cup slipped
        /\ step[s] = "mark_offline" => known[s] \notin UpStates \/ s \in faulty
        /\ step[s] # "idle" => s \in loaded
        /\ step[s] # "idle" /\ s \notin restored => daemon = "restore"

BootInv == BootTypeOK /\ ViewRight /\ RecordInv /\ StepInv

\* A step of one server's restore or start changes nothing of the others.
LEMMA RestoreStepInv ==
    ASSUME BootInv, NEW s \in Servers, RestoreStep(s)
    PROVE  BootInv'
<1> USE BootAssumption DEF BootInv, BootTypeOK, ViewRight, RecordInv, StepInv, States, UpStates, Steps,
        Fault, Failed, NoFault, GoesTo, Returns, daemonVars
<1>1. CASE SkipServer(s)
  BY <1>1 DEF SkipServer
<1>2. CASE CheckRunning(s)
  BY <1>2 DEF CheckRunning
<1>3. CASE MarkOffline(s)
  <2>1. s \in loaded /\ daemon \notin {"down", "load"}
    BY <1>3 DEF MarkOffline, AllIdle
  <2>2. BootTypeOK'
    BY <1>3, <2>1 DEF MarkOffline
  <2>3. ViewRight'
    BY <1>3, <2>1 DEF MarkOffline
  <2>4. RecordInv' /\ StepInv'
    BY <1>3, <2>1 DEF MarkOffline
  <2> QED
    BY <2>2, <2>3, <2>4
<1>4. CASE MarkRunning(s)
  <2>1. s \in loaded /\ daemon \notin {"down", "load"}
    BY <1>4 DEF MarkRunning, AllIdle
  <2>2. BootTypeOK'
    BY <1>4, <2>1 DEF MarkRunning
  <2>3. ViewRight'
    BY <1>4, <2>1 DEF MarkRunning
  <2>4. RecordInv' /\ StepInv'
    BY <1>4, <2>1 DEF MarkRunning
  <2> QED
    BY <2>2, <2>3, <2>4
<1>5. CASE Attach(s)
  <2>1. s \in loaded /\ daemon \notin {"down", "load"}
    BY <1>5 DEF Attach, AllIdle
  <2>2. BootTypeOK'
    BY <1>5, <2>1 DEF Attach
  <2>3. ViewRight'
    BY <1>5, <2>1 DEF Attach
  <2>4. RecordInv' /\ StepInv'
    BY <1>5, <2>1 DEF Attach
  <2> QED
    BY <2>2, <2>3, <2>4
<1>6. CASE BeginStart(s)
  <2>1. s \in loaded /\ daemon \notin {"down", "load"}
    BY <1>6 DEF BeginStart, AllIdle
  <2>2. BootTypeOK'
    BY <1>6, <2>1 DEF BeginStart
  <2>3. ViewRight'
    BY <1>6, <2>1 DEF BeginStart
  <2>4. RecordInv' /\ StepInv'
    BY <1>6, <2>1 DEF BeginStart
  <2> QED
    BY <2>2, <2>3, <2>4
<1>7. CASE BootContainer(s)
  <2>1. s \in loaded /\ daemon \notin {"down", "load"}
    BY <1>7 DEF BootContainer, AllIdle
  <2>2. BootTypeOK'
    BY <1>7, <2>1 DEF BootContainer
  <2>3. ViewRight'
    BY <1>7, <2>1 DEF BootContainer
  <2>4. RecordInv' /\ StepInv'
    BY <1>7, <2>1 DEF BootContainer
  <2> QED
    BY <2>2, <2>3, <2>4
<1> QED
  BY <1>1, <1>2, <1>3, <1>4, <1>5, <1>6, <1>7, RestoreStep(s) DEF RestoreStep

\* Power actions, and the end of a container and of the stream to it.
LEMMA ServerStepInv ==
    ASSUME BootInv, NEW s \in Servers, ServerStep(s)
    PROVE  BootInv'
<1> USE BootAssumption DEF BootInv, BootTypeOK, ViewRight, RecordInv, StepInv, States, UpStates, Steps,
        NoFault, GoesTo, daemonVars
<1>1. CASE PowerStart(s)
  BY <1>1 DEF PowerStart
<1>2. CASE PowerStop(s)
  BY <1>2 DEF PowerStop
<1>3. CASE Started(s)
  BY <1>3 DEF Started
<1>4. CASE ContainerEnds(s)
  BY <1>4 DEF ContainerEnds
<1>5. CASE StreamEnds(s)
  BY <1>5 DEF StreamEnds
<1> QED
  BY <1>1, <1>2, <1>3, <1>4, <1>5, ServerStep(s) DEF ServerStep

\* Every step of the boot, of the ticker and of the servers, and every crash.
LEMMA BootStepInv == BootInv /\ [BootNext]_bootVars => BootInv'
<1> SUFFICES ASSUME BootInv, [BootNext]_bootVars PROVE BootInv'
  OBVIOUS
<1> USE BootAssumption DEF BootInv, BootTypeOK, ViewRight, RecordInv, StepInv, States, Steps,
        AllOffline, AllIdle, Fault, Failed, NoFault
<1>0. CASE UNCHANGED bootVars
  BY <1>0 DEF bootVars
<1>1. CASE Load
  <2>1. restored = {} /\ writing = Nothing
    BY <1>1 DEF Load
  <2>2. CASE daemon' = "down"
    BY <1>1, <2>1, <2>2 DEF Load
  <2>3. CASE daemon' = "restore"
    <3>1. loaded' \subseteq Servers /\ faulty' \subseteq Servers /\ faults' \in 0..MaxFaults
      BY <1>1, <2>3 DEF Load
    <3>2. known' = [s \in Servers |-> IF file = Torn \/ s \notin loaded' THEN "offline" ELSE file[s]]
      BY <1>1, <2>3 DEF Load
    <3>3. known' \in [Servers -> States]
      BY <3>2
    <3>4. ~unsure => \A s \in loaded' : known'[s] = recorded[s]
      <4>1. ASSUME ~unsure, NEW s \in loaded' PROVE file = recorded /\ file # Torn
        <5>1. DOMAIN recorded = Servers /\ DOMAIN Torn = {}
          BY DEF Torn
        <5> QED
          BY <2>1, <3>1, <4>1, <5>1
      <4> QED
        BY <3>1, <3>2, <4>1
    <3>5. step = AllIdle /\ state = AllOffline /\ state' = state /\ step' = step /\ restored' = {}
      BY <1>1, <2>1 DEF Load
    <3>6. BootTypeOK' /\ RecordInv'
      BY <1>1, <2>1, <2>3, <3>1, <3>3, <3>4 DEF Load
    <3>7. ViewRight' /\ StepInv'
      BY <1>1, <2>1, <2>3, <3>1, <3>5 DEF Load
    <3> QED
      BY <3>6, <3>7
  <2> QED
    BY <1>1, <2>2, <2>3 DEF Load
<1>2. CASE Booted
  BY <1>2 DEF Booted
<1>3. CASE PersistStates
  BY <1>3 DEF PersistStates
<1>4. CASE Truncate
  BY <1>4 DEF Truncate
<1>5. CASE WriteFile
  BY <1>5 DEF WriteFile
<1>6. CASE Crash
  <2>1. BootTypeOK'
    BY <1>6 DEF Crash
  <2>2. ViewRight' /\ RecordInv' /\ StepInv'
    BY <1>6 DEF Crash
  <2> QED
    BY <2>1, <2>2
<1>7. CASE StartDaemon
  BY <1>7 DEF StartDaemon
<1>8. ASSUME NEW s \in Servers, RestoreStep(s) PROVE BootInv'
  BY <1>8, RestoreStepInv
<1>9. ASSUME NEW s \in Servers, ServerStep(s) PROVE BootInv'
  BY <1>9, ServerStepInv
<1> QED
  BY <1>0, <1>1, <1>2, <1>3, <1>4, <1>5, <1>6, <1>7, <1>8, <1>9 DEF BootNext

\* However often the daemon and the machine crash, a restored server is seen as it is, and
\* one that the last complete record has as running runs again (cmd/root.go).
THEOREM BootRestores == BootSpec => RestoredAsRecorded
<1>1. (\E active \in BOOLEAN : BootInit(active)) => BootInv
  <2> SUFFICES ASSUME NEW active \in BOOLEAN, BootInit(active) PROVE BootInv
    OBVIOUS
  <2>1. BootTypeOK
    <3>1. AllOffline \in [Servers -> States] /\ AllIdle \in [Servers -> Steps]
      BY DEF States, Steps, AllOffline, AllIdle
    <3>2. crashes \in 0..MaxCrashes /\ faults \in 0..MaxFaults
      BY BootAssumption DEF BootInit
    <3> QED
      BY <3>1, <3>2 DEF BootInit, BootTypeOK
  <2>2. ViewRight
    BY DEF BootInit, ViewRight, AllOffline
  <2>3. RecordInv /\ StepInv
    BY DEF BootInit, RecordInv, StepInv, AllIdle, AllOffline
  <2> QED
    BY <2>1, <2>2, <2>3 DEF BootInv
<1>2. BootInv => ViewRight
  BY DEF BootInv
<1>3. ASSUME BootInv, [BootNext]_bootVars PROVE [RunsAgain]_bootVars
  <2>1. ASSUME NEW s \in Servers, RestoreStep(s) PROVE RunsAgain
    <3>1. ASSUME s \notin restored, ~unsure, recorded[s] \in UpStates, s \in restored',
                 s \notin faulty' \cup refused' \cup slipped'
          PROVE  s \in container'
      <4>1. s \in loaded /\ daemon = "restore" /\ known[s] = recorded[s]
        BY <1>3, <2>1, <3>1 DEF RestoreStep, SkipServer, CheckRunning, MarkOffline, MarkRunning, Attach,
           BeginStart, BootContainer, BootInv, StepInv, RecordInv, GoesTo, Returns
      <4> QED
        BY <1>3, <2>1, <3>1, <4>1 DEF RestoreStep, SkipServer, CheckRunning, MarkOffline, MarkRunning,
           Attach, BeginStart, BootContainer, BootInv, StepInv, BootTypeOK, GoesTo, Returns, NoFault,
           Failed, daemonVars
    <3>2. restored' \subseteq restored \cup {s} /\ UNCHANGED <<unsure, recorded>>
      BY <1>3, <2>1 DEF RestoreStep, SkipServer, CheckRunning, MarkOffline, MarkRunning, Attach,
         BeginStart, BootContainer, GoesTo, Returns, daemonVars
    <3> QED
      BY <3>1, <3>2 DEF RunsAgain
  <2>2. CASE restored' \subseteq restored
    BY <2>2 DEF RunsAgain
  <2>3. ASSUME NEW s \in Servers, ServerStep(s) PROVE restored' = restored
    BY <2>3 DEF ServerStep, PowerStart, PowerStop, Started, ContainerEnds, StreamEnds, GoesTo
  <2> QED
    BY <1>3, <2>1, <2>2, <2>3 DEF BootNext, Load, Booted, PersistStates, Truncate, WriteFile, Crash,
       StartDaemon, bootVars
<1> QED
  BY <1>1, <1>2, <1>3, BootStepInv, PTL DEF BootSpec, RestoredAsRecorded
=============================================================================
