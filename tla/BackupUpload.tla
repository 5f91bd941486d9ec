---------------------------- MODULE BackupUpload ----------------------------
(***************************************************************************)
(* The job of one archive backup (local or S3): the archive is written to  *)
(* the node's disk and uploaded in parts if it is for S3. An upload of a   *)
(* part is repeated with the same request, whose body is a reader that     *)
(* earlier attempts may already have read from. Progress and the end of    *)
(* the job are reported to the Panel by goroutines nobody waits for.       *)
(***************************************************************************)
EXTENDS PanelClient, FiniteSetsExt

CONSTANTS
  MaxSize,        \* bound: bytes of an archive
  PartSize        \* bytes of a part, as the Panel says

ASSUME UploadAssumption == MaxSize \in Nat \ {0} /\ PartSize \in Nat \ {0}

VARIABLES
  adapter,        \* "local" or "s3"
  size,           \* bytes of the archive
  up,             \* control: pc, part, tried
  file,           \* the archive on the node's disk
  pos, left,      \* bytes read from the file; bytes left for the part's body
  stored,         \* the range of bytes that S3 has for each part
  result,         \* what Execute returned
  reports,        \* the reports to the Panel that are under way
  status          \* history: the status the Panel was told last

uploadVars == <<adapter, size, up, file, pos, left, stored, result, reports, status>>

Nothing == <<0, 0>>
MaxParts == (MaxSize + PartSize - 1) \div PartSize

\* A report that a goroutine has been started for. The ones before the archive is made
\* say the same and are one.
NewReport(at, st) == [at |-> at, status |-> st, tried |-> 0]

UploadInit(pc) ==
  /\ adapter \in {"local", "s3"}
  /\ size \in 1..MaxSize
  /\ up = [pc |-> pc, part |-> 0, tried |-> 0]
  /\ file = "absent"
  /\ pos = 0 /\ left = 0
  /\ stored = [i \in 1..MaxParts |-> Nothing]
  /\ result = "none"
  /\ reports = IF pc = "done" THEN {} ELSE {NewReport("create", "running")}
  /\ status = "pending"

-----------------------------------------------------------------------------
\* The Panel hands out one URL per part (external).
Parts == (size + PartSize - 1) \div PartSize

\* generateRemoteRequest: the last part has what is left of the archive.
PartBytes(i) == IF i < Parts THEN PartSize ELSE size - (i - 1) * PartSize

Goto(pc) == up' = [up EXCEPT !.pc = pc, !.tried = 0]

\* Execute returns to executeJob, which reports the job's last status.
Ends(res) ==
  /\ Goto("done") /\ result' = res
  /\ reports' = reports \cup {NewReport("done", IF res = "ok" THEN "completed" ELSE "failed")}

\* The deferred calls of S3Backup.Generate, once the archive was created.
Cleanup == file' = IF adapter = "s3" THEN "absent" ELSE file

\* Archive.Create writes the file; if it fails, what it wrote stays.
CreateArchive ==
  /\ up.pc = "create"
  /\ \/ /\ file' = "whole" /\ Goto(IF adapter = "s3" THEN "urls" ELSE "details")
        /\ UNCHANGED <<result, reports>>
     \/ file' \in {"absent", "partial"} /\ Ends("error")
  /\ UNCHANGED <<adapter, size, pos, left, stored, status>>

\* The file cannot be opened, or its size read, or Details fails.
ReadFails ==
  /\ up.pc \in {"urls", "details"} /\ up.tried = 0
  /\ Cleanup
  /\ Ends("error")
  /\ UNCHANGED <<adapter, size, pos, left, stored, status>>

\* uploadPart makes the request of part i, with a limited reader as its body.
BeginPart(i) ==
  IF i > Parts
  THEN up' = [pc |-> "details", part |-> i, tried |-> 0] /\ UNCHANGED left
  ELSE up' = [pc |-> "part", part |-> i, tried |-> 0] /\ left' = PartBytes(i)

\* GetBackupRemoteUploadURLs.
GetUploadURLs(a) ==
  LET outcome == Outcome(a.answer, up.tried) IN
  /\ up.pc = "urls"
  /\ CASE outcome = "success" -> BeginPart(1) /\ UNCHANGED <<file, result, reports>>
       [] outcome = "retry" -> /\ up' = [up EXCEPT !.tried = @ + 1]
                               /\ UNCHANGED <<left, file, result, reports>>
       [] outcome = "failure" -> Ends("error") /\ Cleanup /\ UNCHANGED left
  /\ UNCHANGED <<adapter, size, pos, stored, status>>

\* Faulty variant of BodyComplete:
\* The length is not set, and S3 takes what the body still has.
BodyUnchecked(read) == read = left

\* The transport refuses a body that is shorter than the Content-Length of
\* the request, which is set once to the size of the part.
BodyComplete(read) == read = PartBytes(up.part)

\* One attempt at a part: read bytes of the body are sent. S3 acts on it only
\* if the body is complete; without an answer or after a 5xx the same request
\* is tried again, after a 4xx or the client's timeout it is not.
UploadPart(a, read) ==
  LET outcome == Outcome(a.answer, up.tried) IN
  /\ up.pc = "part"
  /\ read \in 0..left
  /\ a.acted => BodyComplete(read)
  /\ left < PartBytes(up.part) => a.answer \in {"network", "timeout"} \/ BodyComplete(read)
  /\ pos' = pos + read
  /\ stored' = IF a.acted THEN [stored EXCEPT ![up.part] = <<pos, pos + read>>] ELSE stored
  /\ CASE outcome = "success" -> BeginPart(up.part + 1) /\ UNCHANGED <<file, result, reports>>
       [] outcome = "retry" -> /\ up' = [up EXCEPT !.tried = @ + 1]
                               /\ left' = left - read /\ UNCHANGED <<file, result, reports>>
       [] outcome = "failure" -> Ends("error") /\ Cleanup /\ UNCHANGED left
  /\ UNCHANGED <<adapter, size, status>>

\* Checksum and size of the archive; then Generate returns, and performBackupWithProgress
\* reports that it finalizes.
Details ==
  /\ up.pc = "details"
  /\ Cleanup
  /\ Goto("finalize")
  /\ reports' = reports \cup {NewReport("finalize", "running")}
  /\ UNCHANGED <<adapter, size, pos, left, stored, result, status>>

\* The job returns its result. Nothing is removed, however its report fares.
Finalize ==
  /\ up.pc = "finalize"
  /\ Ends("ok")
  /\ UNCHANGED <<adapter, size, file, pos, left, stored, status>>

\* One attempt of a report's goroutine: ReportJobCompletion. A report that fails is only
\* logged, and reports may overtake each other.
ReportProgress(r, a) ==
  /\ r \in reports
  /\ status' = IF a.acted THEN r.status ELSE status
  /\ reports' = (reports \ {r}) \cup
       IF Outcome(a.answer, r.tried) = "retry" THEN {[r EXCEPT !.tried = @ + 1]} ELSE {}
  /\ UNCHANGED <<adapter, size, up, file, pos, left, stored, result>>

UploadNext ==
  \/ CreateArchive \/ ReadFails \/ Details \/ Finalize
  \/ \E a \in Attempts :
       \/ GetUploadURLs(a)
       \/ \E read \in 0..left : UploadPart(a, read)
       \/ \E r \in reports : ReportProgress(r, a)

-----------------------------------------------------------------------------
UploadTypeOK ==
  /\ up.pc \in {"create", "urls", "part", "details", "finalize", "done"}
  /\ up.tried \in 0..(MaxAttempts - 1) /\ up.part \in 0..(Parts + 1)
  /\ file \in {"absent", "partial", "whole"}
  /\ pos \in 0..size /\ left \in 0..PartSize
  /\ stored \in [1..MaxParts -> (0..size) \X (0..size)]
  /\ result \in {"none", "ok", "error"}
  /\ reports \subseteq [at : {"create", "finalize", "done"}, status : {"running", "completed", "failed"},
                        tried : 0..(MaxAttempts - 1)]
  /\ status \in {"pending", "running", "completed", "failed"}

\* The whole backup is there: on the disk, or in S3 as parts that put together are the
\* archive, byte for byte.
IsStored ==
  /\ adapter = "local" => file = "whole"
  /\ adapter = "s3" =>
       \A i \in 1..Parts : stored[i] = <<(i - 1) * PartSize, Min({i * PartSize, size})>>

\* A backup whose job succeeded, or that the Panel was ever told to be completed, is
\* stored, however often the body of a part was read in vain (a retry never stores what
\* is left of a body) and however the reports are repeated, fail or overtake each other.
\* And an archive made for S3 does not stay on the node's disk, however the job ended.
BackupStored ==
  /\ result = "ok" \/ status = "completed" => IsStored
  /\ up.pc = "done" /\ adapter = "s3" => file # "whole"
=============================================================================
