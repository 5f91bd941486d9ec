-------------------------- MODULE RemoteDownloads --------------------------
(* Pulling remote files to a server: the requests, the registry of the      *)
(* downloads and their cancellation.  What a download does to the files is   *)
(* the WriteFile of DiskQuota.                                               *)
EXTENDS Integers, FiniteSets

CONSTANTS
    Pulls,          \* requests to pull a file (a bound)
    Simultaneous    \* how many downloads a server may have at once

ASSUME DownloadsAssumption == Simultaneous \in Nat \ {0}

VARIABLES
    pull,       \* where each request is
    tracked,    \* Downloader.serverCache: the downloads that are registered
    armed,      \* downloads whose cancelFunc is set
    stopped,    \* downloads whose context is cancelled
    \* history
    racing,     \* a request was let in while another one was between its check and its entry
    escaped     \* a download was cancelled before it could be

pullVars == <<pull, tracked, armed, stopped, racing, escaped>>

PullTypeOK ==
    /\ pull \in [Pulls -> {"idle", "check", "track", "execute", "fetch", "write", "cancel", "remove", "done"}]
    /\ tracked \subseteq Pulls /\ armed \subseteq Pulls /\ stopped \subseteq armed
    /\ racing \in BOOLEAN /\ escaped \in BOOLEAN

PullInit(requested) ==
    /\ pull = [p \in Pulls |-> IF p \in requested THEN "idle" ELSE "done"]
    /\ tracked = {} /\ armed = {} /\ stopped = {}
    /\ racing = FALSE /\ escaped = FALSE

To(p, pc) == pull' = [pull EXCEPT ![p] = pc]

-----------------------------------------------------------------------------
\* postServerPullRemoteFile, past its checks of the body and of the disk space.
PullRequest(p) ==
    /\ pull[p] = "idle"
    /\ To(p, "check")
    /\ UNCHANGED <<tracked, armed, stopped, racing, escaped>>

\* Faulty variant of CheckLimit.
CheckOneMore(p) ==
    /\ pull[p] = "check"
    /\ To(p, IF Cardinality(tracked) > Simultaneous THEN "done" ELSE "track")
    /\ racing' = (racing \/ \E q \in Pulls \ {p} : pull[q] = "track")
    /\ UNCHANGED <<tracked, armed, stopped, escaped>>

\* "Do not allow more than three simultaneous remote file downloads at one time."
CheckLimit(p) ==
    /\ pull[p] = "check"
    /\ To(p, IF Cardinality(tracked) >= Simultaneous THEN "done" ELSE "track")
    /\ racing' = (racing \/ \E q \in Pulls \ {p} : pull[q] = "track")
    /\ UNCHANGED <<tracked, armed, stopped, escaped>>

\* downloader.New.
Track(p) ==
    /\ pull[p] = "track"
    /\ tracked' = tracked \cup {p}
    /\ To(p, "execute")
    /\ UNCHANGED <<armed, stopped, racing, escaped>>

\* Execute makes the context, which can be cancelled from now on.
Execute(p) ==
    /\ pull[p] = "execute"
    /\ armed' = armed \cup {p}
    /\ To(p, "fetch")
    /\ UNCHANGED <<tracked, stopped, racing, escaped>>

\* Faulty variant of Fetch.
FetchOrReturn(p) ==
    /\ pull[p] = "fetch"
    /\ \/ p \notin stopped /\ To(p, "write")
       \/ To(p, "done")
    /\ UNCHANGED <<tracked, armed, stopped, racing, escaped>>

\* The request to the remote server and the checks of its answer.
Fetch(p) ==
    /\ pull[p] = "fetch"
    /\ \/ p \notin stopped /\ To(p, "write")
       \/ To(p, "cancel")
    /\ UNCHANGED <<tracked, armed, stopped, racing, escaped>>

\* Filesystem.Write returns: at the end of the body, without space, or because the
\* context was cancelled or has timed out.
WriteEnds(p) ==
    /\ pull[p] = "write"
    /\ To(p, "cancel")
    /\ UNCHANGED <<tracked, armed, stopped, racing, escaped>>

\* The deferred Cancel: the context, and then the registry.
DeferredCancel(p) ==
    /\ pull[p] = "cancel"
    /\ stopped' = stopped \cup {p}
    /\ To(p, "remove")
    /\ UNCHANGED <<tracked, armed, racing, escaped>>

RemoveDownload(p) ==
    /\ pull[p] = "remove"
    /\ tracked' = tracked \ {p}
    /\ To(p, "done")
    /\ UNCHANGED <<armed, stopped, racing, escaped>>

\* deleteServerPullRemoteFile cancels a download that is found: one that has no
\* cancelFunc yet leaves the registry and runs on.
CancelPull(p) ==
    /\ p \in tracked
    /\ tracked' = tracked \ {p}
    /\ stopped' = IF p \in armed THEN stopped \cup {p} ELSE stopped
    /\ escaped' = (escaped \/ p \notin armed)
    /\ UNCHANGED <<pull, armed, racing>>

-----------------------------------------------------------------------------
PullStep(p) ==
    \/ CheckLimit(p) \/ Track(p) \/ Execute(p) \/ Fetch(p)
    \/ WriteEnds(p) \/ DeferredCancel(p) \/ RemoveDownload(p)

PullNext == \E p \in Pulls : PullRequest(p) \/ PullStep(p) \/ CancelPull(p)

\* A download ends after twelve hours at the latest.
PullFairness == \A p \in Pulls : WF_pullVars(PullStep(p))

-----------------------------------------------------------------------------
(* Properties.                                                              *)

\* Downloads that can still write; one whose context is cancelled cannot.
Active == {p \in Pulls : pull[p] \in {"execute", "fetch", "write"} /\ p \notin stopped}

\* A server has at most its number of downloads at once, unless two requests are
\* checked before either is registered or a download is cancelled before it can be.
LimitHeld == ~racing /\ ~escaped => Cardinality(Active) <= Simultaneous

\* A download that is registered leaves the registry, however it ends, and one that is
\* cancelled ends: no slot is lost.
DownloadsEnd == \A p \in Pulls : pull[p] = "execute" ~> pull[p] = "done" /\ p \notin tracked
=============================================================================
