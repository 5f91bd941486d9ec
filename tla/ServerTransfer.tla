--------------------------- MODULE ServerTransfer ---------------------------
(* The transfer of a server from one node to another: the source streams an  *)
(* archive of the files to the target in one HTTP request, the target        *)
(* extracts it, and both tell the Panel, which decides whose server it is.   *)
(* A user may cancel a transfer and start the next one at once, the          *)
(* connection may break and either end may be slow to notice.                *)
EXTENDS Integers, FiniteSets

CONSTANTS
    MaxTransfers,   \* how often the Panel starts a transfer (a bound)
    MaxFaults       \* how many calls fail in a behaviour (a bound)

ASSUME TransferAssumption == MaxTransfers \in Nat \ {0} /\ MaxFaults \in Nat

Transfers == 1..MaxTransfers
None == 0

VARIABLES
    panel,      \* whether the server is at the source, in a transfer, or moved
    started,    \* the number of transfers the Panel has started
    faults,     \* the number of calls that have failed
    mixed,      \* a transfer was started before the nodes were done with another
    \* the source node
    srcFlag,    \* its server's transferring flag
    outgoing,   \* the manager of outgoing transfers: the server's entry
    spc,        \* where postServerTransfer and its goroutine are
    status,     \* the status of each Transfer
    cancelled,  \* whether the context of each Transfer is cancelled
    stream,     \* what the goroutine that writes the body has written
    \* the request between the nodes
    link,       \* its connection
    damaged,    \* whether the archive was changed on its way
    \* the target node
    incoming,   \* the manager of incoming transfers: the server's entry
    servers,    \* the instances of the server its server manager has
    locked,     \* the instances with the transferring flag set
    dstFiles,   \* the files on the target
    tpc,        \* where each postTransfers is
    uses,       \* the transfer, and with it the instance, each postTransfers has
    read,       \* the parts it has read and verified
    successful, \* its variable of this name
    removing    \* goroutines that will delete the extracted files

panelVars == <<panel, started, mixed>>
sourceVars == <<srcFlag, outgoing, spc, status, cancelled, stream>>
linkVars == <<link, damaged>>
targetVars == <<incoming, servers, locked, dstFiles, tpc, uses, read, successful, removing>>
vars == <<panelVars, faults, sourceVars, linkVars, targetVars>>

SourcePCs == {"idle", "begin", "push", "body", "notify", "release", "done"}
Statuses == {"pending", "processing", "cancelling"}
TargetPCs == {"none", "get", "new", "read", "extract", "cleanup", "report", "done"}

TypeOK ==
    /\ panel \in {"source", "pending", "moved"}
    /\ started \in 0..MaxTransfers
    /\ faults \in 0..MaxFaults
    /\ mixed \in BOOLEAN /\ srcFlag \in BOOLEAN
    /\ outgoing \in Transfers \cup {None} /\ incoming \in Transfers \cup {None}
    /\ spc \in [Transfers -> SourcePCs]
    /\ status \in [Transfers -> Statuses]
    /\ cancelled \subseteq Transfers /\ damaged \subseteq Transfers
    /\ stream \in [Transfers -> {"none", "archive", "sent", "closed", "failed"}]
    /\ link \in [Transfers -> {"none", "up", "down"}]
    /\ servers \subseteq Transfers /\ locked \subseteq Transfers
    /\ dstFiles \in {"none", "partial", "full", "wrong"}
    /\ tpc \in [Transfers -> TargetPCs]
    /\ uses \in [Transfers -> Transfers \cup {None}]
    /\ read \in [Transfers -> {"nothing", "archive", "checksum"}]
    /\ successful \subseteq Transfers /\ removing \subseteq Transfers

Init ==
    /\ panel = "source" /\ started = 0 /\ faults = 0 /\ mixed = FALSE
    /\ srcFlag = FALSE /\ outgoing = None /\ incoming = None
    /\ spc = [k \in Transfers |-> "idle"]
    /\ status = [k \in Transfers |-> "pending"]
    /\ cancelled = {} /\ damaged = {} /\ servers = {} /\ locked = {}
    /\ stream = [k \in Transfers |-> "none"]
    /\ link = [k \in Transfers |-> "none"]
    /\ dstFiles = "none"
    /\ tpc = [k \in Transfers |-> "none"]
    /\ uses = [k \in Transfers |-> None]
    /\ read = [k \in Transfers |-> "nothing"]
    /\ successful = {} /\ removing = {}

Fault == faults < MaxFaults /\ faults' = faults + 1

-----------------------------------------------------------------------------
(* The Panel.                                                               *)

\* SetTransferStatus: the Panel takes a report for the transfer it has pending,
\* whichever that is; outside of a transfer it changes nothing, with or without
\* an error.  "answered" is what the caller sees: a call that is lost after the
\* Panel has carried it out is an error like one that never arrived.
SetTransferStatus(success, answered) ==
    /\ UNCHANGED <<started, mixed>>
    /\ LET decided == IF success THEN "moved" ELSE "source" IN
       panel' \in IF panel # "pending" THEN {panel} ELSE {decided} \cup (IF answered THEN {} ELSE {panel})
    /\ IF panel = "pending" /\ ~answered THEN Fault ELSE UNCHANGED faults

\* Both nodes are done with transfer k.
Over(k) == spc[k] \in {"idle", "done"} /\ tpc[k] \in {"none", "done"} /\ k \notin removing

\* A user starts a transfer of a server that is at the source and in no transfer;
\* nothing is left of the requests that are over.
StartTransfer(k) ==
    /\ panel = "source" /\ k = started + 1
    /\ panel' = "pending" /\ started' = k
    /\ mixed' = (mixed \/ \E j \in Transfers : ~Over(j))
    /\ spc' = [spc EXCEPT ![k] = "begin"]
    /\ stream' = [j \in Transfers |-> IF Over(j) THEN "none" ELSE stream[j]]
    /\ link' = [j \in Transfers |-> IF Over(j) THEN "none" ELSE link[j]]
    /\ damaged' = {j \in damaged : ~Over(j)}
    /\ UNCHANGED <<faults, srcFlag, outgoing, status, cancelled, targetVars>>

-----------------------------------------------------------------------------
(* The source node.                                                         *)

GoSource(k, to) == spc' = [spc EXCEPT ![k] = to]

\* postServerTransfer with its WaitForStop, and the new Transfer in the manager of
\* outgoing transfers; a Panel whose request is refused has no transfer.
Begin(k) ==
    /\ spc[k] = "begin"
    /\ \/ /\ ~srcFlag
          /\ srcFlag' = TRUE /\ outgoing' = k
          /\ GoSource(k, "push") /\ UNCHANGED <<panel, faults>>
       \/ /\ IF srcFlag THEN UNCHANGED faults ELSE Fault
          /\ GoSource(k, "done") /\ panel' = "source" /\ UNCHANGED <<srcFlag, outgoing>>
    /\ UNCHANGED <<started, mixed, status, cancelled, stream, linkVars, targetVars>>

\* PushArchiveToTarget up to the request: the status is set whatever it was, the disk
\* usage may fail, and client.Do opens the connection unless the context is cancelled.
Push(k) ==
    /\ spc[k] = "push"
    /\ status' = [status EXCEPT ![k] = "processing"]
    /\ \/ /\ k \notin cancelled
          /\ GoSource(k, "body")
          /\ link' = [link EXCEPT ![k] = "up"]
          /\ stream' = [stream EXCEPT ![k] = "archive"]
          /\ tpc' = [tpc EXCEPT ![k] = "get"]
          /\ UNCHANGED faults
       \/ /\ IF k \in cancelled THEN UNCHANGED faults ELSE Fault
          /\ GoSource(k, "notify") /\ UNCHANGED <<link, stream, tpc>>
    /\ UNCHANGED <<panelVars, srcFlag, outgoing, cancelled, damaged,
                   incoming, servers, locked, dstFiles, uses, read, successful, removing>>

Writing(k, at) == spc[k] = "body" /\ link[k] = "up" /\ k \notin cancelled /\ stream[k] = at

\* The goroutine that writes the body streams the archive, which may be damaged on
\* its way.
WriteArchive(k) ==
    /\ Writing(k, "archive")
    /\ \/ UNCHANGED <<damaged, faults>>
       \/ Fault /\ damaged' = damaged \cup {k}
    /\ stream' = [stream EXCEPT ![k] = "sent"]
    /\ UNCHANGED <<panelVars, srcFlag, outgoing, spc, status, cancelled, link, targetVars>>

\* A file that cannot be archived, as one that vanishes after its header is written,
\* ends the stream with an error.  The goroutine sends it to errChan, which is read
\* only after the response: it waits with the body open.
ArchiveFails(k) ==
    /\ Writing(k, "archive") /\ Fault
    /\ stream' = [stream EXCEPT ![k] = "failed"]
    /\ UNCHANGED <<panelVars, srcFlag, outgoing, spc, status, cancelled, linkVars, targetVars>>

\* The checksum and the end of the body.
WriteChecksum(k) ==
    /\ Writing(k, "sent")
    /\ stream' = [stream EXCEPT ![k] = "closed"]
    /\ UNCHANGED <<panelVars, faults, srcFlag, outgoing, spc, status, cancelled, linkVars, targetVars>>

\* deleteServerTransfer, with Transfer.Cancel.
Cancel(k) ==
    /\ srcFlag /\ outgoing = k
    /\ status[k] # "cancelling"
    /\ status' = [status EXCEPT ![k] = "cancelling"]
    /\ cancelled' = cancelled \cup {k}
    /\ UNCHANGED <<panelVars, faults, srcFlag, outgoing, spc, stream, linkVars, targetVars>>

\* Faulty variant of Receive:
\* A source that waits for the response and for nothing else.
ReceiveOnly(k) ==
    /\ spc[k] = "body" /\ tpc[k] = "done"
    /\ link[k] = "up" \/ k \in cancelled
    /\ GoSource(k, IF k \in successful THEN "release" ELSE "notify")
    /\ link' = [link EXCEPT ![k] = "down"]
    /\ UNCHANGED <<panelVars, faults, srcFlag, outgoing, status, cancelled, stream, damaged, targetVars>>

\* client.Do returns: with the response of a target that is done, or with an error
\* once the context is cancelled or the connection is found broken.  A 200 ends the
\* transfer unless the context is done as well, between which and errChan the
\* select chooses.
Receive(k) ==
    /\ spc[k] = "body"
    /\ \/ /\ link[k] = "up" /\ tpc[k] = "done" /\ k \in successful
          /\ stream[k] = "closed" /\ GoSource(k, "release")
       \/ /\ \/ link[k] = "up" /\ tpc[k] = "done" /\ k \notin successful
             \/ link[k] = "down" \/ k \in cancelled
          /\ GoSource(k, "notify")
    /\ link' = [link EXCEPT ![k] = "down"]
    /\ UNCHANGED <<panelVars, faults, srcFlag, outgoing, status, cancelled, stream, damaged, targetVars>>

\* notifyPanelOfFailure.
NotifyPanelOfFailure(k) ==
    /\ spc[k] = "notify"
    /\ \E answered \in BOOLEAN : SetTransferStatus(FALSE, answered)
    /\ srcFlag' = FALSE
    /\ GoSource(k, "release")
    /\ UNCHANGED <<outgoing, status, cancelled, stream, linkVars, targetVars>>

\* The deferred Remove deletes the server's entry, whosever transfer it is; the one
\* that has ended is forgotten.
RemoveOutgoing(k) ==
    /\ spc[k] = "release"
    /\ outgoing' = None
    /\ GoSource(k, "done")
    /\ status' = [status EXCEPT ![k] = "pending"] /\ cancelled' = cancelled \ {k}
    /\ UNCHANGED <<panelVars, faults, srcFlag, stream, linkVars, targetVars>>

-----------------------------------------------------------------------------
(* The connection.                                                          *)

\* It breaks, which either end may be slow to notice.
Break(k) ==
    /\ link[k] = "up" /\ Fault
    /\ link' = [link EXCEPT ![k] = "down"]
    /\ UNCHANGED <<panelVars, sourceVars, damaged, targetVars>>

-----------------------------------------------------------------------------
(* The target node.  A request that has ended at the source is noticed when  *)
(* the next part is read, after what had already arrived.                    *)

GoTarget(k, to) == tpc' = [tpc EXCEPT ![k] = to]

\* postTransfers looks for a transfer of the server, whose request it joins.
GetIncoming(k) ==
    /\ tpc[k] = "get"
    /\ IF incoming = None THEN GoTarget(k, "new") /\ UNCHANGED uses
       ELSE GoTarget(k, "read") /\ uses' = [uses EXCEPT ![k] = uses[incoming]]
    /\ UNCHANGED <<panelVars, faults, sourceVars, linkVars, incoming, servers, locked, dstFiles, read, successful, removing>>

\* Otherwise it makes an instance of the server from the Panel's configuration and
\* registers both; without the configuration it dereferences a nil server, and the
\* recovered panic answers with an error.
NewIncoming(k) ==
    /\ tpc[k] = "new"
    /\ \/ /\ GoTarget(k, "read")
          /\ uses' = [uses EXCEPT ![k] = k]
          /\ locked' = locked \cup {k} /\ servers' = servers \cup {k}
          /\ incoming' = k
          /\ UNCHANGED faults
       \/ /\ Fault /\ GoTarget(k, "done")
          /\ UNCHANGED <<uses, locked, servers, incoming>>
    /\ UNCHANGED <<panelVars, sourceVars, link, damaged, dstFiles, read, successful, removing>>

\* NextPart finds the archive, and the extraction begins.
ReadArchive(k) ==
    /\ tpc[k] = "read" /\ read[k] = "nothing"
    /\ dstFiles' = "partial"
    /\ GoTarget(k, "extract")
    /\ UNCHANGED <<panelVars, faults, sourceVars, linkVars, incoming, servers, locked, uses, read, successful, removing>>

\* ExtractStreamUnsafe reads to the end of the archive.
Extract(k) ==
    /\ tpc[k] = "extract" /\ stream[k] \in {"sent", "closed"}
    /\ dstFiles' = IF k \in damaged THEN "wrong" ELSE "full"
    /\ read' = [read EXCEPT ![k] = "archive"]
    /\ GoTarget(k, "read")
    /\ UNCHANGED <<panelVars, faults, sourceVars, linkVars, incoming, servers, locked, uses, successful, removing>>

\* Faulty variant of Verify.
VerifyNothing(k) ==
    /\ tpc[k] = "read" /\ read[k] = "archive" /\ stream[k] = "closed"
    /\ read' = [read EXCEPT ![k] = "checksum"]
    /\ successful' = successful \cup {k}
    /\ GoTarget(k, "cleanup")
    /\ UNCHANGED <<panelVars, faults, sourceVars, linkVars, incoming, servers, locked, dstFiles, uses, removing>>

\* The checksum is compared with that of the archive read, the end of the body leaves
\* the loop, and if both parts were there the environment is created.
Verify(k) ==
    /\ tpc[k] = "read" /\ read[k] = "archive" /\ stream[k] = "closed"
    /\ \/ /\ k \in damaged /\ UNCHANGED <<read, successful, faults>>
       \/ /\ k \notin damaged
          /\ read' = [read EXCEPT ![k] = "checksum"]
          /\ \/ successful' = successful \cup {k} /\ UNCHANGED faults
             \/ Fault /\ UNCHANGED successful
    /\ GoTarget(k, "cleanup")
    /\ UNCHANGED <<panelVars, sourceVars, linkVars, incoming, servers, locked, dstFiles, uses, removing>>

\* Reading a part fails because the connection is broken, or the extraction fails.
ReadFails(k) ==
    /\ tpc[k] \in {"read", "extract"}
    /\ \/ link[k] = "down" /\ UNCHANGED faults
       \/ link[k] = "up" /\ tpc[k] = "extract" /\ Fault
    /\ GoTarget(k, "cleanup")
    /\ UNCHANGED <<panelVars, sourceVars, linkVars, incoming, servers, locked, dstFiles, uses, read, successful, removing>>

\* Faulty variant of Cleanup.
CleanupAlways(k) ==
    /\ tpc[k] = "cleanup"
    /\ incoming' = None
    /\ servers' = {}
    /\ GoTarget(k, "report")
    /\ UNCHANGED <<panelVars, faults, sourceVars, linkVars, locked, dstFiles, uses, read, successful, removing>>

\* The deferred function: the entry of the server is removed, whosever transfer it
\* is, and after a failure every instance with the server's ID.
Cleanup(k) ==
    /\ tpc[k] = "cleanup"
    /\ incoming' = None
    /\ servers' = IF k \in successful THEN servers ELSE {}
    /\ GoTarget(k, "report")
    /\ UNCHANGED <<panelVars, faults, sourceVars, linkVars, locked, dstFiles, uses, read, successful, removing>>

\* It tells the Panel, after which the response is sent; the files are deleted only
\* if the transfer failed and so did the report.
Report(k) ==
    /\ tpc[k] = "report"
    /\ \E answered \in BOOLEAN :
         /\ SetTransferStatus(k \in successful, answered)
         /\ removing' = IF ~answered /\ k \notin successful THEN removing \cup {k} ELSE removing
         /\ locked' = IF answered THEN locked \ {uses[k]} ELSE locked
    /\ GoTarget(k, "done")
    /\ read' = [read EXCEPT ![k] = "nothing"] /\ uses' = [uses EXCEPT ![k] = None]
    /\ UNCHANGED <<sourceVars, link, damaged, incoming, servers, dstFiles, successful>>

\* RemoveAll in a goroutine of its own.
RemoveFiles(k) ==
    /\ k \in removing
    /\ removing' = removing \ {k} /\ dstFiles' = "none"
    /\ UNCHANGED <<panelVars, faults, sourceVars, linkVars, incoming, servers, locked, tpc, uses, read, successful>>

-----------------------------------------------------------------------------
SourceStep(k) ==
    \/ Begin(k) \/ Push(k) \/ Receive(k)
    \/ NotifyPanelOfFailure(k) \/ RemoveOutgoing(k)
WriteBody(k) == WriteArchive(k) \/ ArchiveFails(k) \/ WriteChecksum(k)
TargetStep(k) ==
    \/ GetIncoming(k) \/ NewIncoming(k) \/ ReadArchive(k) \/ Extract(k) \/ Verify(k)
    \/ ReadFails(k) \/ Cleanup(k) \/ Report(k)

Next ==
    \E k \in Transfers :
        \/ StartTransfer(k) \/ Cancel(k) \/ WriteBody(k) \/ Break(k)
        \/ SourceStep(k) \/ TargetStep(k) \/ RemoveFiles(k)

Spec == Init /\ [][Next]_vars

\* Every goroutine that can run does, and a broken connection is noticed in the end
\* (TCP keep-alive on both nodes); a user need not cancel, and the Panel need not
\* delete anything.
FairSpec ==
    /\ Spec
    /\ \A k \in Transfers :
         WF_vars(SourceStep(k)) /\ WF_vars(WriteBody(k)) /\ WF_vars(TargetStep(k))

-----------------------------------------------------------------------------
(* Properties.                                                              *)

\* Once the Panel has moved the server, and deletes it at the source, the target has
\* its files, whole and as they were archived: the server never moves on a damaged
\* or partial archive, nor are its files removed after that.  Neither node keeps two
\* transfers of a server apart, so this needs nodes that are done with one transfer when
\* the next is started.
FilesAtHome ==
    ~mixed /\ panel = "moved" => dstFiles = "full"

\* The files that postTransfers deletes are those of a transfer that "actually
\* failed, otherwise we could have unrecoverable data-loss".
NoDataLoss == panel = "moved" => dstFiles # "none"

\* When both nodes have returned from every transfer and the server has moved, the
\* target has it registered, in an instance that is unlocked unless a call failed; if it
\* is still at the source it is unlocked there, and the target has it registered only if
\* its success came too late.
TransferSettled ==
    (\A k \in Transfers : Over(k)) /\ ~mixed =>
        /\ panel = "moved" => \E k \in servers \cap successful : faults = 0 => k \notin locked
        /\ panel = "source" => ~srcFlag /\ servers \subseteq successful

\* A transfer ends on both nodes, whatever the connection does, unless the archive
\* cannot be written and nobody cancels: then the nodes wait for each other for good.
TransferEnds ==
    \A k \in Transfers :
        spc[k] = "begin" ~>
            \/ spc[k] = "done" /\ tpc[k] \in {"none", "done"}
            \/ [](stream[k] = "failed" /\ k \notin cancelled)

=============================================================================
