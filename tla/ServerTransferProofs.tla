----------------------- MODULE ServerTransferProofs -----------------------
(***************************************************************************)
(* What a transfer leaves behind, for any number of transfers and failing  *)
(* calls: the two invariants of ServerTransfer.                            *)
(***************************************************************************)
EXTENDS ServerTransfer, TLAPS

\* A transfer that was not started, and one whose request has yet to be registered.
FreshInv ==
    \A j \in Transfers :
        /\ j > started => spc[j] = "idle" /\ tpc[j] = "none"
        /\ tpc[j] \in {"none", "get", "new"} =>
             read[j] = "nothing" /\ j \notin successful \cup servers \cup removing
        /\ spc[j] \in {"idle", "begin", "push"} => tpc[j] = "none"

\* Nodes that are done with every transfer but the last: nothing else is registered or runs,
OthersOver ==
    /\ \A j \in Transfers : j # started => Over(j)
    /\ incoming # None => started \in Transfers /\ tpc[started] \in {"read", "extract", "cleanup"}
    /\ \A j \in servers \ successful : j = started /\ tpc[j] \in {"read", "extract", "cleanup"}
    /\ srcFlag => started \in Transfers

\* where the source is with it,
SourceInv(k) ==
    /\ spc[k] \in {"idle", "begin"} => ~srcFlag
    /\ spc[k] \in {"begin", "push", "body"} /\ panel = "source" => tpc[k] = "done" /\ k \notin successful
    /\ spc[k] \in {"release", "done"} /\ srcFlag => tpc[k] = "done" /\ panel # "source"

\* and where the target is.
TargetInv(k) ==
    /\ tpc[k] \in {"read", "extract", "cleanup", "report"} => uses[k] = k
    /\ tpc[k] \in {"read", "extract", "cleanup"} => k \in servers
    /\ tpc[k] = "read" /\ read[k] = "archive" =>
         stream[k] \in {"sent", "closed"} /\ dstFiles = (IF k \in damaged THEN "wrong" ELSE "full")
    /\ k \in successful =>
         tpc[k] \in {"cleanup", "report", "done"} /\ k \in servers /\ k \notin removing /\ dstFiles = "full"
    /\ k \in removing => tpc[k] = "done"

\* A server that has moved is that of a transfer that succeeded.
MovedInv(k) ==
    panel = "moved" => k \in successful /\ tpc[k] = "done" /\ (faults = 0 => k \notin locked)

CalmInv ==
    /\ OthersOver
    /\ \A k \in Transfers : k = started => SourceInv(k) /\ TargetInv(k)
    /\ MovedInv(started)

TransferInv == TypeOK /\ FreshInv /\ (~mixed => CalmInv)

-----------------------------------------------------------------------------
LEMMA FaultType ==
    ASSUME TypeOK, Fault \/ UNCHANGED faults
    PROVE  faults' \in 0..MaxFaults /\ (faults' = 0 => faults = 0) /\ (Fault => faults' # 0)
BY TransferAssumption DEF TypeOK, Fault

\* The values of the variables.
LEMMA TypeStep ==
    ASSUME TypeOK, NEW k \in Transfers,
           \/ StartTransfer(k) \/ Cancel(k) \/ WriteBody(k) \/ Break(k)
           \/ SourceStep(k) \/ TargetStep(k) \/ RemoveFiles(k)
    PROVE  TypeOK'
<1>1. CASE StartTransfer(k)
  <2>1. started' \in 0..MaxTransfers /\ panel' \in {"source", "pending", "moved"} /\ mixed' \in BOOLEAN
    BY <1>1, TransferAssumption DEF Transfers, StartTransfer
  <2>2. spc' \in [Transfers -> SourcePCs] /\ damaged' \subseteq Transfers
        /\ stream' \in [Transfers -> {"none", "archive", "sent", "closed", "failed"}]
        /\ link' \in [Transfers -> {"none", "up", "down"}]
    BY <1>1 DEF TypeOK, StartTransfer, SourcePCs
  <2> QED
    BY <1>1, <2>1, <2>2 DEF TypeOK, StartTransfer, targetVars
<1>2. CASE Begin(k)
  <2>1. faults' \in 0..MaxFaults
    BY <1>2, FaultType DEF Begin
  <2> QED
    BY <1>2, <2>1 DEF TypeOK, SourcePCs, TargetPCs, Statuses, panelVars, sourceVars, linkVars,
       targetVars, Begin, GoSource
<1>3. CASE Push(k)
  <2>1. faults' \in 0..MaxFaults
    BY <1>3, FaultType DEF Push
  <2> QED
    BY <1>3, <2>1 DEF TypeOK, SourcePCs, TargetPCs, Statuses, panelVars, sourceVars, linkVars,
       targetVars, Push, GoSource
<1>4. CASE WriteArchive(k)
  <2>1. faults' \in 0..MaxFaults
    BY <1>4, FaultType DEF WriteArchive
  <2> QED
    BY <1>4, <2>1 DEF TypeOK, SourcePCs, TargetPCs, Statuses, panelVars, sourceVars, linkVars,
       targetVars, WriteArchive, Writing
<1>5. CASE ArchiveFails(k)
  <2>1. faults' \in 0..MaxFaults
    BY <1>5, FaultType DEF ArchiveFails
  <2> QED
    BY <1>5, <2>1 DEF TypeOK, SourcePCs, TargetPCs, Statuses, panelVars, sourceVars, linkVars,
       targetVars, ArchiveFails, Writing
<1>6. CASE WriteChecksum(k)
  BY <1>6 DEF TypeOK, SourcePCs, TargetPCs, Statuses, panelVars, sourceVars, linkVars,
     targetVars, WriteChecksum, Writing
<1>7. CASE Cancel(k)
  BY <1>7 DEF TypeOK, SourcePCs, TargetPCs, Statuses, panelVars, sourceVars, linkVars,
     targetVars, Cancel
<1>8. CASE Receive(k)
  BY <1>8 DEF TypeOK, SourcePCs, TargetPCs, Statuses, panelVars, sourceVars, linkVars,
     targetVars, Receive, GoSource
<1>9. CASE NotifyPanelOfFailure(k)
  <2>1. PICK answered \in BOOLEAN : SetTransferStatus(FALSE, answered)
    BY <1>9 DEF NotifyPanelOfFailure
  <2>2. Fault \/ UNCHANGED faults
    BY <2>1 DEF SetTransferStatus
  <2>3. panel' \in {"source", "pending", "moved"} /\ UNCHANGED <<started, mixed>>
    BY <2>1 DEF TypeOK, SetTransferStatus
  <2>4. faults' \in 0..MaxFaults
    BY <2>2, FaultType
  <2> QED
    BY <1>9, <2>3, <2>4 DEF TypeOK, SourcePCs, TargetPCs, sourceVars, linkVars, targetVars,
       NotifyPanelOfFailure, GoSource, GoTarget
<1>10. CASE RemoveOutgoing(k)
  BY <1>10 DEF TypeOK, SourcePCs, TargetPCs, Statuses, panelVars, sourceVars, linkVars,
     targetVars, RemoveOutgoing, GoSource
<1>11. CASE Break(k)
  <2>1. faults' \in 0..MaxFaults
    BY <1>11, FaultType DEF Break
  <2> QED
    BY <1>11, <2>1 DEF TypeOK, SourcePCs, TargetPCs, Statuses, panelVars, sourceVars, linkVars,
       targetVars, Break
<1>12. CASE GetIncoming(k)
  BY <1>12 DEF TypeOK, SourcePCs, TargetPCs, Statuses, panelVars, sourceVars, linkVars,
     targetVars, GetIncoming, GoTarget
<1>13. CASE NewIncoming(k)
  <2>1. faults' \in 0..MaxFaults
    BY <1>13, FaultType DEF NewIncoming
  <2> QED
    BY <1>13, <2>1 DEF TypeOK, SourcePCs, TargetPCs, Statuses, panelVars, sourceVars, linkVars,
       targetVars, NewIncoming, GoTarget
<1>14. CASE ReadArchive(k)
  BY <1>14 DEF TypeOK, SourcePCs, TargetPCs, Statuses, panelVars, sourceVars, linkVars,
     targetVars, ReadArchive, GoTarget
<1>15. CASE Extract(k)
  BY <1>15 DEF TypeOK, SourcePCs, TargetPCs, Statuses, panelVars, sourceVars, linkVars,
     targetVars, Extract, GoTarget
<1>16. CASE Verify(k)
  <2>1. faults' \in 0..MaxFaults
    BY <1>16, FaultType DEF Verify
  <2> QED
    BY <1>16, <2>1 DEF TypeOK, SourcePCs, TargetPCs, Statuses, panelVars, sourceVars, linkVars,
       targetVars, Verify, GoTarget
<1>17. CASE ReadFails(k)
  <2>1. faults' \in 0..MaxFaults
    BY <1>17, FaultType DEF ReadFails
  <2> QED
    BY <1>17, <2>1 DEF TypeOK, SourcePCs, TargetPCs, Statuses, panelVars, sourceVars, linkVars,
       targetVars, ReadFails, GoTarget
<1>18. CASE Cleanup(k)
  BY <1>18 DEF TypeOK, SourcePCs, TargetPCs, Statuses, panelVars, sourceVars, linkVars,
     targetVars, Cleanup, GoTarget
<1>19. CASE Report(k)
  <2>1. PICK answered \in BOOLEAN : SetTransferStatus(k \in successful, answered)
    BY <1>19 DEF Report
  <2>2. Fault \/ UNCHANGED faults
    BY <2>1 DEF SetTransferStatus
  <2>3. panel' \in {"source", "pending", "moved"} /\ UNCHANGED <<started, mixed>>
    BY <2>1 DEF TypeOK, SetTransferStatus
  <2>4. faults' \in 0..MaxFaults
    BY <2>2, FaultType
  <2> QED
    BY <1>19, <2>3, <2>4 DEF TypeOK, SourcePCs, TargetPCs, sourceVars, linkVars, targetVars,
       Report, GoSource, GoTarget
<1>20. CASE RemoveFiles(k)
  BY <1>20 DEF TypeOK, SourcePCs, TargetPCs, Statuses, panelVars, sourceVars, linkVars,
     targetVars, RemoveFiles
<1> QED
  BY <1>1, <1>2, <1>3, <1>4, <1>5, <1>6, <1>7, <1>8, <1>9, <1>10, <1>11, <1>12, <1>13, <1>14,
     <1>15, <1>16, <1>17, <1>18, <1>19, <1>20 DEF WriteBody, SourceStep, TargetStep

\* A transfer that was not started, or not registered, has left no trace.
LEMMA FreshStep ==
    ASSUME TypeOK, FreshInv, NEW k \in Transfers,
           \/ StartTransfer(k) \/ Cancel(k) \/ WriteBody(k) \/ Break(k)
           \/ SourceStep(k) \/ TargetStep(k) \/ RemoveFiles(k)
    PROVE  FreshInv'
<1> USE TransferAssumption DEF Transfers, None
<1>1. CASE StartTransfer(k)
  BY <1>1 DEF TypeOK, FreshInv, panelVars, sourceVars, linkVars, targetVars, StartTransfer
<1>2. CASE Begin(k)
  BY <1>2 DEF TypeOK, FreshInv, panelVars, sourceVars, linkVars, targetVars, Begin, GoSource, Fault
<1>3. CASE Push(k)
  BY <1>3 DEF TypeOK, FreshInv, panelVars, sourceVars, linkVars, targetVars, Push, GoSource, Fault
<1>4. CASE WriteArchive(k)
  BY <1>4 DEF TypeOK, FreshInv, panelVars, sourceVars, linkVars, targetVars, WriteArchive,
     Writing, Fault
<1>5. CASE ArchiveFails(k)
  BY <1>5 DEF TypeOK, FreshInv, panelVars, sourceVars, linkVars, targetVars, ArchiveFails,
     Writing, Fault
<1>6. CASE WriteChecksum(k)
  BY <1>6 DEF TypeOK, FreshInv, panelVars, sourceVars, linkVars, targetVars, WriteChecksum, Writing
<1>7. CASE Cancel(k)
  BY <1>7 DEF TypeOK, FreshInv, panelVars, sourceVars, linkVars, targetVars, Cancel
<1>8. CASE Receive(k)
  BY <1>8 DEF TypeOK, FreshInv, panelVars, sourceVars, linkVars, targetVars, Receive, GoSource
<1>9. CASE NotifyPanelOfFailure(k)
  BY <1>9 DEF TypeOK, FreshInv, panelVars, sourceVars, linkVars, targetVars,
     NotifyPanelOfFailure, GoSource, SetTransferStatus, Fault
<1>10. CASE RemoveOutgoing(k)
  BY <1>10 DEF TypeOK, FreshInv, panelVars, sourceVars, linkVars, targetVars, RemoveOutgoing,
     GoSource
<1>11. CASE Break(k)
  BY <1>11 DEF TypeOK, FreshInv, panelVars, sourceVars, linkVars, targetVars, Break, Fault
<1>12. CASE GetIncoming(k)
  BY <1>12 DEF TypeOK, FreshInv, panelVars, sourceVars, linkVars, targetVars, GetIncoming, GoTarget
<1>13. CASE NewIncoming(k)
  BY <1>13 DEF TypeOK, FreshInv, panelVars, sourceVars, linkVars, targetVars, NewIncoming,
     GoTarget, Fault
<1>14. CASE ReadArchive(k)
  BY <1>14 DEF TypeOK, FreshInv, panelVars, sourceVars, linkVars, targetVars, ReadArchive, GoTarget
<1>15. CASE Extract(k)
  BY <1>15 DEF TypeOK, FreshInv, panelVars, sourceVars, linkVars, targetVars, Extract, GoTarget
<1>16. CASE Verify(k)
  BY <1>16 DEF TypeOK, FreshInv, panelVars, sourceVars, linkVars, targetVars, Verify, GoTarget,
     Fault
<1>17. CASE ReadFails(k)
  BY <1>17 DEF TypeOK, FreshInv, panelVars, sourceVars, linkVars, targetVars, ReadFails,
     GoTarget, Fault
<1>18. CASE Cleanup(k)
  BY <1>18 DEF TypeOK, FreshInv, panelVars, sourceVars, linkVars, targetVars, Cleanup, GoTarget
<1>19. CASE Report(k)
  BY <1>19 DEF TypeOK, FreshInv, panelVars, sourceVars, linkVars, targetVars, Report, GoTarget,
     SetTransferStatus, Fault
<1>20. CASE RemoveFiles(k)
  BY <1>20 DEF TypeOK, FreshInv, panelVars, sourceVars, linkVars, targetVars, RemoveFiles
<1> QED
  BY <1>1, <1>2, <1>3, <1>4, <1>5, <1>6, <1>7, <1>8, <1>9, <1>10, <1>11, <1>12, <1>13, <1>14,
     <1>15, <1>16, <1>17, <1>18, <1>19, <1>20 DEF WriteBody, SourceStep, TargetStep

\* A step of the transfer that the nodes are at.
CalmStep(k) ==
    /\ TypeOK' /\ UNCHANGED <<started, mixed>> /\ (faults' = 0 => faults = 0)
    /\ \A j \in Transfers \ {k} :
         /\ spc'[j] = spc[j] /\ tpc'[j] = tpc[j] /\ uses'[j] = uses[j] /\ read'[j] = read[j]
         /\ j \in removing' <=> j \in removing

\* What the target has registered after it.
RegisteredStep(k) ==
    /\ incoming' # None => tpc'[k] \in {"read", "extract", "cleanup"}
    /\ \A j \in servers' \ successful' : j \in servers \ successful \/ j = k
    /\ k \in servers' /\ k \notin successful' => tpc'[k] \in {"read", "extract", "cleanup"}

LEMMA CalmParts ==
    ASSUME TransferInv, ~mixed, NEW k \in Transfers, k = started, CalmStep(k),
           RegisteredStep(k), SourceInv(k)', TargetInv(k)', MovedInv(k)'
    PROVE  CalmInv'
<1>1. CalmInv
  BY DEF TransferInv
<1>2. OthersOver'
  BY <1>1 DEF CalmInv, MovedInv, OthersOver, CalmStep, RegisteredStep, Over
<1> QED
  BY <1>2 DEF CalmInv, MovedInv, MovedInv, CalmStep

\* Only the last transfer has steps left.
LEMMA OnlyLast ==
    ASSUME TransferInv, ~mixed, NEW k \in Transfers,
           spc[k] \notin {"idle", "done"} \/ tpc[k] \notin {"none", "done"} \/ k \in removing
    PROVE  k = started /\ CalmInv /\ SourceInv(k) /\ TargetInv(k)
BY DEF TransferInv, CalmInv, MovedInv, OthersOver, Over

LEMMA CalmSteps ==
    ASSUME TransferInv, ~mixed, NEW k \in Transfers, TypeOK',
           \/ Cancel(k) \/ WriteBody(k) \/ Break(k) \/ SourceStep(k) \/ TargetStep(k) \/ RemoveFiles(k)
    PROVE  CalmInv'
<1>1. CASE Begin(k)
  <2>1. k = started /\ CalmInv /\ SourceInv(k) /\ TargetInv(k)
    BY <1>1, OnlyLast DEF Begin
  <2>2. Fault \/ UNCHANGED faults
    BY <1>1 DEF Begin
  <2>3. CalmStep(k)
    BY <1>1, <2>2, FaultType DEF TransferInv, TypeOK, CalmStep, panelVars, sourceVars, linkVars,
       targetVars, Begin, GoSource
  <2>4. SourceInv(k)'
    BY <1>1, <2>1 DEF TransferInv, FreshInv, TypeOK, CalmInv, MovedInv, SourceInv, panelVars,
       sourceVars,
       linkVars, targetVars, Begin, GoSource
  <2>5. TargetInv(k)'
    BY <1>1, <2>1 DEF TransferInv, FreshInv, TypeOK, CalmInv, MovedInv, OthersOver, TargetInv,
       panelVars,
       sourceVars, linkVars, targetVars, Begin, GoSource
  <2>6. RegisteredStep(k)
    BY <1>1, <2>1 DEF RegisteredStep, TransferInv, FreshInv, TypeOK, CalmInv, MovedInv,
       OthersOver, TargetInv, panelVars,
       sourceVars, linkVars, targetVars, Begin, GoSource
  <2>7. MovedInv(k)'
    BY <1>1, <2>1, <2>2, FaultType DEF TransferInv, FreshInv, TypeOK, CalmInv, MovedInv, panelVars,
       sourceVars, linkVars, targetVars, Begin, GoSource
  <2> QED
    BY <2>1, <2>3, <2>4, <2>5, <2>6, <2>7, CalmParts
<1>2. CASE Push(k)
  <2>1. k = started /\ CalmInv /\ SourceInv(k) /\ TargetInv(k)
    BY <1>2, OnlyLast DEF Push
  <2>2. Fault \/ UNCHANGED faults
    BY <1>2 DEF Push
  <2>3. CalmStep(k)
    BY <1>2, <2>2, FaultType DEF TransferInv, TypeOK, CalmStep, panelVars, sourceVars, linkVars,
       targetVars, Push, GoSource
  <2>4. SourceInv(k)'
    BY <1>2, <2>1 DEF TransferInv, FreshInv, TypeOK, CalmInv, MovedInv, SourceInv, panelVars,
       sourceVars,
       linkVars, targetVars, Push, GoSource
  <2>5. TargetInv(k)'
    BY <1>2, <2>1 DEF TransferInv, FreshInv, TypeOK, CalmInv, MovedInv, OthersOver, TargetInv,
       panelVars,
       sourceVars, linkVars, targetVars, Push, GoSource
  <2>6. RegisteredStep(k)
    BY <1>2, <2>1 DEF RegisteredStep, TransferInv, FreshInv, TypeOK, CalmInv, MovedInv,
       OthersOver, TargetInv, panelVars,
       sourceVars, linkVars, targetVars, Push, GoSource
  <2>7. MovedInv(k)'
    BY <1>2, <2>1, <2>2, FaultType DEF TransferInv, FreshInv, TypeOK, CalmInv, MovedInv, panelVars,
       sourceVars, linkVars, targetVars, Push, GoSource
  <2> QED
    BY <2>1, <2>3, <2>4, <2>5, <2>6, <2>7, CalmParts
<1>3. CASE WriteArchive(k)
  <2>1. k = started /\ CalmInv /\ SourceInv(k) /\ TargetInv(k)
    BY <1>3, OnlyLast DEF WriteArchive, Writing
  <2>2. Fault \/ UNCHANGED faults
    BY <1>3 DEF WriteArchive
  <2>3. CalmStep(k)
    BY <1>3, <2>2, FaultType DEF TransferInv, TypeOK, CalmStep, panelVars, sourceVars, linkVars,
       targetVars, WriteArchive
  <2>4. SourceInv(k)'
    BY <1>3, <2>1 DEF TransferInv, FreshInv, TypeOK, CalmInv, MovedInv, SourceInv, panelVars,
       sourceVars,
       linkVars, targetVars, WriteArchive, Writing
  <2>5. TargetInv(k)'
    BY <1>3, <2>1 DEF TransferInv, FreshInv, TypeOK, CalmInv, MovedInv, OthersOver, TargetInv,
       panelVars,
       sourceVars, linkVars, targetVars, WriteArchive, Writing
  <2>6. RegisteredStep(k)
    BY <1>3, <2>1 DEF RegisteredStep, TransferInv, FreshInv, TypeOK, CalmInv, MovedInv,
       OthersOver, TargetInv, panelVars,
       sourceVars, linkVars, targetVars, WriteArchive, Writing
  <2>7. MovedInv(k)'
    BY <1>3, <2>1, <2>2, FaultType DEF TransferInv, FreshInv, TypeOK, CalmInv, MovedInv, panelVars,
       sourceVars, linkVars, targetVars, WriteArchive, Writing
  <2> QED
    BY <2>1, <2>3, <2>4, <2>5, <2>6, <2>7, CalmParts
<1>4. CASE ArchiveFails(k)
  <2>1. k = started /\ CalmInv /\ SourceInv(k) /\ TargetInv(k)
    BY <1>4, OnlyLast DEF ArchiveFails, Writing
  <2>2. Fault \/ UNCHANGED faults
    BY <1>4 DEF ArchiveFails
  <2>3. CalmStep(k)
    BY <1>4, <2>2, FaultType DEF TransferInv, TypeOK, CalmStep, panelVars, sourceVars, linkVars,
       targetVars, ArchiveFails
  <2>4. SourceInv(k)'
    BY <1>4, <2>1 DEF TransferInv, FreshInv, TypeOK, CalmInv, MovedInv, SourceInv, panelVars,
       sourceVars,
       linkVars, targetVars, ArchiveFails, Writing
  <2>5. TargetInv(k)'
    BY <1>4, <2>1 DEF TransferInv, FreshInv, TypeOK, CalmInv, MovedInv, OthersOver, TargetInv,
       panelVars,
       sourceVars, linkVars, targetVars, ArchiveFails, Writing
  <2>6. RegisteredStep(k)
    BY <1>4, <2>1 DEF RegisteredStep, TransferInv, FreshInv, TypeOK, CalmInv, MovedInv,
       OthersOver, TargetInv, panelVars,
       sourceVars, linkVars, targetVars, ArchiveFails, Writing
  <2>7. MovedInv(k)'
    BY <1>4, <2>1, <2>2, FaultType DEF TransferInv, FreshInv, TypeOK, CalmInv, MovedInv, panelVars,
       sourceVars, linkVars, targetVars, ArchiveFails, Writing
  <2> QED
    BY <2>1, <2>3, <2>4, <2>5, <2>6, <2>7, CalmParts
<1>5. CASE WriteChecksum(k)
  <2>1. k = started /\ CalmInv /\ SourceInv(k) /\ TargetInv(k)
    BY <1>5, OnlyLast DEF WriteChecksum, Writing
  <2>2. Fault \/ UNCHANGED faults
    BY <1>5 DEF WriteChecksum
  <2>3. CalmStep(k)
    BY <1>5, <2>2, FaultType DEF TransferInv, TypeOK, CalmStep, panelVars, sourceVars, linkVars,
       targetVars, WriteChecksum
  <2>4. SourceInv(k)'
    BY <1>5, <2>1 DEF TransferInv, FreshInv, TypeOK, CalmInv, MovedInv, SourceInv, panelVars,
       sourceVars,
       linkVars, targetVars, WriteChecksum, Writing
  <2>5. TargetInv(k)'
    BY <1>5, <2>1 DEF TransferInv, FreshInv, TypeOK, CalmInv, MovedInv, OthersOver, TargetInv,
       panelVars,
       sourceVars, linkVars, targetVars, WriteChecksum, Writing
  <2>6. RegisteredStep(k)
    BY <1>5, <2>1 DEF RegisteredStep, TransferInv, FreshInv, TypeOK, CalmInv, MovedInv,
       OthersOver, TargetInv, panelVars,
       sourceVars, linkVars, targetVars, WriteChecksum, Writing
  <2>7. MovedInv(k)'
    BY <1>5, <2>1, <2>2, FaultType DEF TransferInv, FreshInv, TypeOK, CalmInv, MovedInv, panelVars,
       sourceVars, linkVars, targetVars, WriteChecksum, Writing
  <2> QED
    BY <2>1, <2>3, <2>4, <2>5, <2>6, <2>7, CalmParts
<1>6. CASE Cancel(k)
  BY <1>6, FaultType DEF TransferInv, CalmInv, MovedInv, OthersOver, Over, SourceInv, TargetInv,
     panelVars, sourceVars, linkVars, targetVars, Cancel
<1>7. CASE Receive(k)
  <2>1. k = started /\ CalmInv /\ SourceInv(k) /\ TargetInv(k)
    BY <1>7, OnlyLast DEF Receive
  <2>2. Fault \/ UNCHANGED faults
    BY <1>7 DEF Receive
  <2>3. CalmStep(k)
    BY <1>7, <2>2, FaultType DEF TransferInv, TypeOK, CalmStep, panelVars, sourceVars, linkVars,
       targetVars, Receive, GoSource
  <2>4. SourceInv(k)'
    BY <1>7, <2>1 DEF TransferInv, FreshInv, TypeOK, CalmInv, MovedInv, SourceInv, panelVars,
       sourceVars,
       linkVars, targetVars, Receive, GoSource
  <2>5. TargetInv(k)'
    BY <1>7, <2>1 DEF TransferInv, FreshInv, TypeOK, CalmInv, MovedInv, OthersOver, TargetInv,
       panelVars,
       sourceVars, linkVars, targetVars, Receive, GoSource
  <2>6. RegisteredStep(k)
    BY <1>7, <2>1 DEF RegisteredStep, TransferInv, FreshInv, TypeOK, CalmInv, MovedInv,
       OthersOver, TargetInv, panelVars,
       sourceVars, linkVars, targetVars, Receive, GoSource
  <2>7. MovedInv(k)'
    BY <1>7, <2>1, <2>2, FaultType DEF TransferInv, FreshInv, TypeOK, CalmInv, MovedInv, panelVars,
       sourceVars, linkVars, targetVars, Receive, GoSource
  <2> QED
    BY <2>1, <2>3, <2>4, <2>5, <2>6, <2>7, CalmParts
<1>8. CASE NotifyPanelOfFailure(k)
  <2>1. k = started /\ CalmInv /\ SourceInv(k) /\ TargetInv(k)
    BY <1>8, OnlyLast DEF NotifyPanelOfFailure
  <2>2. Fault \/ UNCHANGED faults
    BY <1>8 DEF NotifyPanelOfFailure, SetTransferStatus
  <2>3. CalmStep(k)
    BY <1>8, <2>2, FaultType DEF TransferInv, TypeOK, CalmStep, panelVars, sourceVars, linkVars,
       targetVars, NotifyPanelOfFailure, GoSource, SetTransferStatus
  <2>4. SourceInv(k)'
    BY <1>8, <2>1 DEF TransferInv, FreshInv, TypeOK, CalmInv, MovedInv, SourceInv, panelVars,
       sourceVars,
       linkVars, targetVars, NotifyPanelOfFailure, GoSource, SetTransferStatus
  <2>5. TargetInv(k)'
    BY <1>8, <2>1 DEF TransferInv, FreshInv, TypeOK, CalmInv, MovedInv, OthersOver, TargetInv,
       panelVars,
       sourceVars, linkVars, targetVars, NotifyPanelOfFailure, GoSource, SetTransferStatus
  <2>6. RegisteredStep(k)
    BY <1>8, <2>1 DEF RegisteredStep, TransferInv, FreshInv, TypeOK, CalmInv, MovedInv,
       OthersOver, TargetInv, panelVars,
       sourceVars, linkVars, targetVars, NotifyPanelOfFailure, GoSource, SetTransferStatus
  <2>7. MovedInv(k)'
    BY <1>8, <2>1, <2>2, FaultType DEF TransferInv, FreshInv, TypeOK, CalmInv, MovedInv, panelVars,
       sourceVars, linkVars, targetVars, NotifyPanelOfFailure, GoSource, SetTransferStatus
  <2> QED
    BY <2>1, <2>3, <2>4, <2>5, <2>6, <2>7, CalmParts
<1>9. CASE RemoveOutgoing(k)
  <2>1. k = started /\ CalmInv /\ SourceInv(k) /\ TargetInv(k)
    BY <1>9, OnlyLast DEF RemoveOutgoing
  <2>2. Fault \/ UNCHANGED faults
    BY <1>9 DEF RemoveOutgoing
  <2>3. CalmStep(k)
    BY <1>9, <2>2, FaultType DEF TransferInv, TypeOK, CalmStep, panelVars, sourceVars, linkVars,
       targetVars, RemoveOutgoing, GoSource
  <2>4. SourceInv(k)'
    BY <1>9, <2>1 DEF TransferInv, FreshInv, TypeOK, CalmInv, MovedInv, SourceInv, panelVars,
       sourceVars,
       linkVars, targetVars, RemoveOutgoing, GoSource
  <2>5. TargetInv(k)'
    BY <1>9, <2>1 DEF TransferInv, FreshInv, TypeOK, CalmInv, MovedInv, OthersOver, TargetInv,
       panelVars,
       sourceVars, linkVars, targetVars, RemoveOutgoing, GoSource
  <2>6. RegisteredStep(k)
    BY <1>9, <2>1 DEF RegisteredStep, TransferInv, FreshInv, TypeOK, CalmInv, MovedInv,
       OthersOver, TargetInv, panelVars,
       sourceVars, linkVars, targetVars, RemoveOutgoing, GoSource
  <2>7. MovedInv(k)'
    BY <1>9, <2>1, <2>2, FaultType DEF TransferInv, FreshInv, TypeOK, CalmInv, MovedInv, panelVars,
       sourceVars, linkVars, targetVars, RemoveOutgoing, GoSource
  <2> QED
    BY <2>1, <2>3, <2>4, <2>5, <2>6, <2>7, CalmParts
<1>10. CASE Break(k)
  BY <1>10, FaultType DEF TransferInv, CalmInv, MovedInv, OthersOver, Over, SourceInv, TargetInv,
     panelVars, sourceVars, linkVars, targetVars, Break
<1>11. CASE GetIncoming(k)
  <2>1. k = started /\ CalmInv /\ SourceInv(k) /\ TargetInv(k)
    BY <1>11, OnlyLast DEF GetIncoming
  <2>2. Fault \/ UNCHANGED faults
    BY <1>11 DEF GetIncoming
  <2>3. CalmStep(k)
    BY <1>11, <2>2, FaultType DEF TransferInv, TypeOK, CalmStep, panelVars, sourceVars,
       linkVars, targetVars, GetIncoming, GoTarget
  <2>4. SourceInv(k)'
    BY <1>11, <2>1 DEF TransferInv, FreshInv, TypeOK, CalmInv, MovedInv, SourceInv, panelVars,
       sourceVars,
       linkVars, targetVars, GetIncoming, GoTarget
  <2>5. TargetInv(k)'
    BY <1>11, <2>1 DEF TransferInv, FreshInv, TypeOK, CalmInv, MovedInv, OthersOver, TargetInv,
       panelVars,
       sourceVars, linkVars, targetVars, GetIncoming, GoTarget
  <2>6. RegisteredStep(k)
    BY <1>11, <2>1 DEF RegisteredStep, TransferInv, FreshInv, TypeOK, CalmInv, MovedInv,
       OthersOver, TargetInv, panelVars,
       sourceVars, linkVars, targetVars, GetIncoming, GoTarget
  <2>7. MovedInv(k)'
    BY <1>11, <2>1, <2>2, FaultType DEF TransferInv, FreshInv, TypeOK, CalmInv, MovedInv, panelVars,
       sourceVars, linkVars, targetVars, GetIncoming, GoTarget
  <2> QED
    BY <2>1, <2>3, <2>4, <2>5, <2>6, <2>7, CalmParts
<1>12. CASE NewIncoming(k)
  <2>1. k = started /\ CalmInv /\ SourceInv(k) /\ TargetInv(k)
    BY <1>12, OnlyLast DEF NewIncoming
  <2>2. Fault \/ UNCHANGED faults
    BY <1>12 DEF NewIncoming
  <2>3. CalmStep(k)
    BY <1>12, <2>2, FaultType DEF TransferInv, TypeOK, CalmStep, panelVars, sourceVars,
       linkVars, targetVars, NewIncoming, GoTarget
  <2>4. SourceInv(k)'
    BY <1>12, <2>1 DEF TransferInv, FreshInv, TypeOK, CalmInv, MovedInv, SourceInv, panelVars,
       sourceVars,
       linkVars, targetVars, NewIncoming, GoTarget
  <2>5. TargetInv(k)'
    BY <1>12, <2>1 DEF TransferInv, FreshInv, TypeOK, CalmInv, MovedInv, OthersOver, TargetInv,
       panelVars,
       sourceVars, linkVars, targetVars, NewIncoming, GoTarget
  <2>6. RegisteredStep(k)
    BY <1>12, <2>1 DEF RegisteredStep, TransferInv, FreshInv, TypeOK, CalmInv, MovedInv,
       OthersOver, TargetInv, panelVars,
       sourceVars, linkVars, targetVars, NewIncoming, GoTarget
  <2>7. MovedInv(k)'
    BY <1>12, <2>1, <2>2, FaultType DEF TransferInv, FreshInv, TypeOK, CalmInv, MovedInv, panelVars,
       sourceVars, linkVars, targetVars, NewIncoming, GoTarget
  <2> QED
    BY <2>1, <2>3, <2>4, <2>5, <2>6, <2>7, CalmParts
<1>13. CASE ReadArchive(k)
  <2>1. k = started /\ CalmInv /\ SourceInv(k) /\ TargetInv(k)
    BY <1>13, OnlyLast DEF ReadArchive
  <2>2. Fault \/ UNCHANGED faults
    BY <1>13 DEF ReadArchive
  <2>3. CalmStep(k)
    BY <1>13, <2>2, FaultType DEF TransferInv, TypeOK, CalmStep, panelVars, sourceVars,
       linkVars, targetVars, ReadArchive, GoTarget
  <2>4. SourceInv(k)'
    BY <1>13, <2>1 DEF TransferInv, FreshInv, TypeOK, CalmInv, MovedInv, SourceInv, panelVars,
       sourceVars,
       linkVars, targetVars, ReadArchive, GoTarget
  <2>5. TargetInv(k)'
    BY <1>13, <2>1 DEF TransferInv, FreshInv, TypeOK, CalmInv, MovedInv, OthersOver, TargetInv,
       panelVars,
       sourceVars, linkVars, targetVars, ReadArchive, GoTarget
  <2>6. RegisteredStep(k)
    BY <1>13, <2>1 DEF RegisteredStep, TransferInv, FreshInv, TypeOK, CalmInv, MovedInv,
       OthersOver, TargetInv, panelVars,
       sourceVars, linkVars, targetVars, ReadArchive, GoTarget
  <2>7. MovedInv(k)'
    BY <1>13, <2>1, <2>2, FaultType DEF TransferInv, FreshInv, TypeOK, CalmInv, MovedInv, panelVars,
       sourceVars, linkVars, targetVars, ReadArchive, GoTarget
  <2> QED
    BY <2>1, <2>3, <2>4, <2>5, <2>6, <2>7, CalmParts
<1>14. CASE Extract(k)
  <2>1. k = started /\ CalmInv /\ SourceInv(k) /\ TargetInv(k)
    BY <1>14, OnlyLast DEF Extract
  <2>2. Fault \/ UNCHANGED faults
    BY <1>14 DEF Extract
  <2>3. CalmStep(k)
    BY <1>14, <2>2, FaultType DEF TransferInv, TypeOK, CalmStep, panelVars, sourceVars,
       linkVars, targetVars, Extract, GoTarget
  <2>4. SourceInv(k)'
    BY <1>14, <2>1 DEF TransferInv, FreshInv, TypeOK, CalmInv, MovedInv, SourceInv, panelVars,
       sourceVars,
       linkVars, targetVars, Extract, GoTarget
  <2>5. TargetInv(k)'
    BY <1>14, <2>1 DEF TransferInv, FreshInv, TypeOK, CalmInv, MovedInv, OthersOver, TargetInv,
       panelVars,
       sourceVars, linkVars, targetVars, Extract, GoTarget
  <2>6. RegisteredStep(k)
    BY <1>14, <2>1 DEF RegisteredStep, TransferInv, FreshInv, TypeOK, CalmInv, MovedInv,
       OthersOver, TargetInv, panelVars,
       sourceVars, linkVars, targetVars, Extract, GoTarget
  <2>7. MovedInv(k)'
    BY <1>14, <2>1, <2>2, FaultType DEF TransferInv, FreshInv, TypeOK, CalmInv, MovedInv, panelVars,
       sourceVars, linkVars, targetVars, Extract, GoTarget
  <2> QED
    BY <2>1, <2>3, <2>4, <2>5, <2>6, <2>7, CalmParts
<1>15. CASE Verify(k)
  <2>1. k = started /\ CalmInv /\ SourceInv(k) /\ TargetInv(k)
    BY <1>15, OnlyLast DEF Verify
  <2>2. Fault \/ UNCHANGED faults
    BY <1>15 DEF Verify
  <2>3. CalmStep(k)
    BY <1>15, <2>2, FaultType DEF TransferInv, TypeOK, CalmStep, panelVars, sourceVars,
       linkVars, targetVars, Verify, GoTarget
  <2>4. SourceInv(k)'
    BY <1>15, <2>1 DEF TransferInv, FreshInv, TypeOK, CalmInv, MovedInv, SourceInv, panelVars,
       sourceVars,
       linkVars, targetVars, Verify, GoTarget
  <2>5. TargetInv(k)'
    BY <1>15, <2>1 DEF TransferInv, FreshInv, TypeOK, CalmInv, MovedInv, OthersOver, TargetInv,
       panelVars,
       sourceVars, linkVars, targetVars, Verify, GoTarget
  <2>6. RegisteredStep(k)
    BY <1>15, <2>1 DEF RegisteredStep, TransferInv, FreshInv, TypeOK, CalmInv, MovedInv,
       OthersOver, TargetInv, panelVars,
       sourceVars, linkVars, targetVars, Verify, GoTarget
  <2>7. MovedInv(k)'
    BY <1>15, <2>1, <2>2, FaultType DEF TransferInv, FreshInv, TypeOK, CalmInv, MovedInv, panelVars,
       sourceVars, linkVars, targetVars, Verify, GoTarget
  <2> QED
    BY <2>1, <2>3, <2>4, <2>5, <2>6, <2>7, CalmParts
<1>16. CASE ReadFails(k)
  <2>1. k = started /\ CalmInv /\ SourceInv(k) /\ TargetInv(k)
    BY <1>16, OnlyLast DEF ReadFails
  <2>2. Fault \/ UNCHANGED faults
    BY <1>16 DEF ReadFails
  <2>3. CalmStep(k)
    BY <1>16, <2>2, FaultType DEF TransferInv, TypeOK, CalmStep, panelVars, sourceVars,
       linkVars, targetVars, ReadFails, GoTarget
  <2>4. SourceInv(k)'
    BY <1>16, <2>1 DEF TransferInv, FreshInv, TypeOK, CalmInv, MovedInv, SourceInv, panelVars,
       sourceVars,
       linkVars, targetVars, ReadFails, GoTarget
  <2>5. TargetInv(k)'
    BY <1>16, <2>1 DEF TransferInv, FreshInv, TypeOK, CalmInv, MovedInv, OthersOver, TargetInv,
       panelVars,
       sourceVars, linkVars, targetVars, ReadFails, GoTarget
  <2>6. RegisteredStep(k)
    BY <1>16, <2>1 DEF RegisteredStep, TransferInv, FreshInv, TypeOK, CalmInv, MovedInv,
       OthersOver, TargetInv, panelVars,
       sourceVars, linkVars, targetVars, ReadFails, GoTarget
  <2>7. MovedInv(k)'
    BY <1>16, <2>1, <2>2, FaultType DEF TransferInv, FreshInv, TypeOK, CalmInv, MovedInv, panelVars,
       sourceVars, linkVars, targetVars, ReadFails, GoTarget
  <2> QED
    BY <2>1, <2>3, <2>4, <2>5, <2>6, <2>7, CalmParts
<1>17. CASE Cleanup(k)
  <2>1. k = started /\ CalmInv /\ SourceInv(k) /\ TargetInv(k)
    BY <1>17, OnlyLast DEF Cleanup
  <2>2. Fault \/ UNCHANGED faults
    BY <1>17 DEF Cleanup
  <2>3. CalmStep(k)
    BY <1>17, <2>2, FaultType DEF TransferInv, TypeOK, CalmStep, panelVars, sourceVars,
       linkVars, targetVars, Cleanup, GoTarget
  <2>4. SourceInv(k)'
    BY <1>17, <2>1 DEF TransferInv, FreshInv, TypeOK, CalmInv, MovedInv, SourceInv, panelVars,
       sourceVars,
       linkVars, targetVars, Cleanup, GoTarget
  <2>5. TargetInv(k)'
    BY <1>17, <2>1 DEF TransferInv, FreshInv, TypeOK, CalmInv, MovedInv, OthersOver, TargetInv,
       panelVars,
       sourceVars, linkVars, targetVars, Cleanup, GoTarget
  <2>6. RegisteredStep(k)
    BY <1>17, <2>1 DEF RegisteredStep, TransferInv, FreshInv, TypeOK, CalmInv, MovedInv,
       OthersOver, TargetInv, panelVars,
       sourceVars, linkVars, targetVars, Cleanup, GoTarget
  <2>7. MovedInv(k)'
    BY <1>17, <2>1, <2>2, FaultType DEF TransferInv, FreshInv, TypeOK, CalmInv, MovedInv, panelVars,
       sourceVars, linkVars, targetVars, Cleanup, GoTarget
  <2> QED
    BY <2>1, <2>3, <2>4, <2>5, <2>6, <2>7, CalmParts
<1>18. CASE Report(k)
  <2>1. k = started /\ CalmInv /\ SourceInv(k) /\ TargetInv(k)
    BY <1>18, OnlyLast DEF Report
  <2>2. Fault \/ UNCHANGED faults
    BY <1>18 DEF Report, SetTransferStatus
  <2>3. CalmStep(k)
    BY <1>18, <2>2, FaultType DEF TransferInv, TypeOK, CalmStep, panelVars, sourceVars,
       linkVars, targetVars, Report, GoTarget, SetTransferStatus
  <2>4. SourceInv(k)'
    BY <1>18, <2>1 DEF TransferInv, FreshInv, TypeOK, CalmInv, MovedInv, SourceInv, panelVars,
       sourceVars,
       linkVars, targetVars, Report, GoTarget, SetTransferStatus
  <2>5. TargetInv(k)'
    BY <1>18, <2>1 DEF TransferInv, FreshInv, TypeOK, CalmInv, MovedInv, OthersOver, TargetInv,
       panelVars,
       sourceVars, linkVars, targetVars, Report, GoTarget, SetTransferStatus
  <2>6. RegisteredStep(k)
    BY <1>18, <2>1 DEF RegisteredStep, TransferInv, FreshInv, TypeOK, CalmInv, MovedInv,
       OthersOver, TargetInv, panelVars,
       sourceVars, linkVars, targetVars, Report, GoTarget, SetTransferStatus
  <2>7. MovedInv(k)'
    <3>1. PICK answered \in BOOLEAN :
            /\ SetTransferStatus(k \in successful, answered)
            /\ locked' = IF answered THEN locked \ {uses[k]} ELSE locked
      BY <1>18 DEF Report
    <3>2. tpc[k] = "report" /\ tpc'[k] = "done" /\ successful' = successful /\ uses[k] = k
      BY <1>18, <2>1 DEF TransferInv, TypeOK, TargetInv, Report, GoTarget
    <3>3. panel # "moved"
      BY <2>1, <3>2 DEF CalmInv, MovedInv
    <3>4. panel' = "moved" => panel = "pending" /\ k \in successful
      BY <3>1, <3>3 DEF SetTransferStatus
    <3>5. panel = "pending" /\ ~answered => faults' # 0
      BY <2>2, <3>1, FaultType DEF SetTransferStatus, TransferInv
    <3> QED
      BY <3>1, <3>2, <3>4, <3>5 DEF MovedInv
  <2> QED
    BY <2>1, <2>3, <2>4, <2>5, <2>6, <2>7, CalmParts
<1>19. CASE RemoveFiles(k)
  <2>1. k = started /\ CalmInv /\ SourceInv(k) /\ TargetInv(k)
    BY <1>19, OnlyLast DEF RemoveFiles
  <2>2. Fault \/ UNCHANGED faults
    BY <1>19 DEF RemoveFiles
  <2>3. CalmStep(k)
    BY <1>19, <2>2, FaultType DEF TransferInv, TypeOK, CalmStep, panelVars, sourceVars,
       linkVars, targetVars, RemoveFiles
  <2>4. SourceInv(k)'
    BY <1>19, <2>1 DEF TransferInv, FreshInv, TypeOK, CalmInv, MovedInv, SourceInv, panelVars,
       sourceVars,
       linkVars, targetVars, RemoveFiles
  <2>5. TargetInv(k)'
    BY <1>19, <2>1 DEF TransferInv, FreshInv, TypeOK, CalmInv, MovedInv, OthersOver, TargetInv,
       panelVars,
       sourceVars, linkVars, targetVars, RemoveFiles
  <2>6. RegisteredStep(k)
    BY <1>19, <2>1 DEF RegisteredStep, TransferInv, FreshInv, TypeOK, CalmInv, MovedInv,
       OthersOver, TargetInv, panelVars,
       sourceVars, linkVars, targetVars, RemoveFiles
  <2>7. MovedInv(k)'
    BY <1>19, <2>1, <2>2, FaultType DEF TransferInv, FreshInv, TypeOK, CalmInv, MovedInv, panelVars,
       sourceVars, linkVars, targetVars, RemoveFiles
  <2> QED
    BY <2>1, <2>3, <2>4, <2>5, <2>6, <2>7, CalmParts
<1> QED
  BY <1>1, <1>2, <1>3, <1>4, <1>5, <1>6, <1>7, <1>8, <1>9, <1>10, <1>11, <1>12, <1>13, <1>14,
     <1>15, <1>16, <1>17, <1>18, <1>19 DEF WriteBody, SourceStep, TargetStep

\* A transfer that starts when the nodes are done with all others.
LEMMA CalmStart ==
    ASSUME TransferInv, NEW k \in Transfers, StartTransfer(k), ~mixed'
    PROVE  CalmInv'
<1>1. ~mixed /\ CalmInv /\ \A j \in Transfers : Over(j)
  BY DEF StartTransfer, TransferInv
<1>2. k > started /\ k # started /\ started' = k
  BY TransferAssumption DEF TransferInv, TypeOK, StartTransfer, Transfers
<1>3. spc[k] = "idle" /\ tpc[k] = "none" /\ k \notin successful \cup servers \cup removing
  BY <1>2 DEF TransferInv, FreshInv
<1>4. /\ UNCHANGED <<srcFlag, incoming, servers, dstFiles, tpc, uses, read, successful, removing>>
      /\ spc' = [spc EXCEPT ![k] = "begin"] /\ panel = "source" /\ panel' = "pending"
  BY DEF StartTransfer, targetVars
<1>5. incoming = None /\ servers \subseteq successful
  BY <1>1, <1>3 DEF TransferInv, TypeOK, CalmInv, MovedInv, OthersOver, Over
<1>6. ~srcFlag
  <2>1. CASE started \in Transfers
    BY <1>1, <1>4, <2>1 DEF CalmInv, MovedInv, SourceInv, Over
  <2>2. CASE started \notin Transfers
    BY <1>1, <2>2 DEF CalmInv, MovedInv, OthersOver
  <2> QED
    BY <2>1, <2>2
<1>7. OthersOver'
  <2>1. \A j \in Transfers : j # k => Over(j)'
    BY <1>1, <1>4 DEF Over, TransferInv, TypeOK
  <2> QED
    BY <1>2, <1>4, <1>5, <1>6, <2>1 DEF OthersOver
<1>8. SourceInv(k)' /\ TargetInv(k)'
  BY <1>3, <1>4, <1>6 DEF SourceInv, TargetInv, TransferInv, TypeOK
<1> QED
  BY <1>2, <1>4, <1>7, <1>8 DEF CalmInv, MovedInv

LEMMA TransferStep ==
    ASSUME TransferInv, [Next]_vars
    PROVE  TransferInv'
<1>1. CASE UNCHANGED vars
  BY <1>1 DEF TransferInv, TypeOK, FreshInv, CalmInv, MovedInv, OthersOver, Over, SourceInv,
     TargetInv,
              vars, panelVars, sourceVars, linkVars, targetVars
<1>2. CASE Next
  <2>1. PICK k \in Transfers :
          \/ StartTransfer(k) \/ Cancel(k) \/ WriteBody(k) \/ Break(k)
          \/ SourceStep(k) \/ TargetStep(k) \/ RemoveFiles(k)
    BY <1>2 DEF Next
  <2>2. TypeOK'
    BY <2>1, TypeStep DEF TransferInv
  <2>3. FreshInv'
    BY <2>1, <2>2, FreshStep DEF TransferInv
  <2>4. ASSUME ~mixed' PROVE CalmInv'
    <3>1. CASE StartTransfer(k)
      BY <2>4, <3>1, CalmStart
    <3>2. CASE ~StartTransfer(k)
      <4>1. ~mixed
        BY <2>1, <2>4, <3>2 DEF WriteBody, SourceStep, TargetStep, panelVars, Cancel, Break,
           RemoveFiles,
             WriteArchive, ArchiveFails, WriteChecksum, Begin, Push, Receive, NotifyPanelOfFailure,
             RemoveOutgoing, GetIncoming, NewIncoming, ReadArchive, Extract, Verify, ReadFails, Cleanup,
             Report, SetTransferStatus
      <4> QED
        BY <2>1, <2>2, <3>2, <4>1, CalmSteps DEF TransferInv
    <3> QED
      BY <3>1, <3>2
  <2> QED
    BY <2>2, <2>3, <2>4 DEF TransferInv
<1> QED
  BY <1>1, <1>2

LEMMA TransferInit ==
    ASSUME Init
    PROVE  TransferInv
<1>1. TypeOK
  <2>1. started \in 0..MaxTransfers /\ faults \in 0..MaxFaults
    BY TransferAssumption DEF Init
  <2> QED
    BY <2>1 DEF Init, TypeOK, SourcePCs, TargetPCs, Statuses
<1>2. FreshInv
  BY DEF Init, FreshInv
<1>3. CalmInv
  BY DEF Init, CalmInv, MovedInv, OthersOver, Over, SourceInv, TargetInv, Transfers
<1> QED
  BY <1>1, <1>2, <1>3 DEF TransferInv

-----------------------------------------------------------------------------
\* However many transfers there are and whatever fails, when the nodes are done with one
\* before the next is started, a server that the Panel has moved has all of its files on
\* the target: postTransfers never reports a partial or damaged archive as a success, and
\* its deletion of the extracted files never follows a success the Panel took.
THEOREM FilesAreHome == Spec => []FilesAtHome
<1>1. TransferInv => FilesAtHome
  <2> SUFFICES ASSUME TransferInv, ~mixed, panel = "moved" PROVE dstFiles = "full"
    BY DEF FilesAtHome
  <2>1. started \in Transfers /\ started \in successful
    BY DEF TransferInv, TypeOK, CalmInv, MovedInv
  <2> QED
    BY <2>1 DEF TransferInv, CalmInv, MovedInv, TargetInv
<1> QED
  BY <1>1, TransferInit, TransferStep, PTL DEF Spec

\* When both nodes are done with every transfer, a server that has moved is registered on
\* the target and, unless a call failed, unlocked there; one that stayed is unlocked at
\* the source, and the target keeps no instance of a transfer that failed.
THEOREM TransferIsSettled == Spec => []TransferSettled
<1>1. TransferInv => TransferSettled
  <2> SUFFICES ASSUME TransferInv, ~mixed, \A k \in Transfers : Over(k)
               PROVE  /\ panel = "moved" => \E k \in servers \cap successful : faults = 0 => k \notin locked
                      /\ panel = "source" => ~srcFlag /\ servers \subseteq successful
    BY DEF TransferSettled
  <2>1. ASSUME panel = "moved"
        PROVE  \E k \in servers \cap successful : faults = 0 => k \notin locked
    <3>1. started \in Transfers /\ started \in successful /\ (faults = 0 => started \notin locked)
      BY <2>1 DEF TransferInv, TypeOK, CalmInv, MovedInv
    <3>2. started \in servers
      BY <3>1 DEF TransferInv, CalmInv, MovedInv, TargetInv
    <3> QED
      BY <3>1, <3>2
  <2>2. servers \subseteq successful
    BY DEF TransferInv, TypeOK, CalmInv, MovedInv, OthersOver, Over
  <2>3. ASSUME panel = "source" PROVE ~srcFlag
    <3>1. CASE started \in Transfers
      BY <2>3, <3>1 DEF TransferInv, CalmInv, MovedInv, SourceInv, Over
    <3>2. CASE started \notin Transfers
      BY <3>2 DEF TransferInv, CalmInv, MovedInv, OthersOver
    <3> QED
      BY <3>1, <3>2
  <2> QED
    BY <2>1, <2>2, <2>3
<1> QED
  BY <1>1, TransferInit, TransferStep, PTL DEF Spec

=============================================================================
