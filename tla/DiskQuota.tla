----------------------------- MODULE DiskQuota -----------------------------
(* The files of a server and the account the daemon keeps of their size.    *)
(* Request handlers change files and adjust the cached usage in separate     *)
(* steps and without a lock; the server's own process and SFTP clients       *)
(* change files and adjust nothing; a lookup walks the directory and         *)
(* replaces the usage by what it has found.                                  *)
EXTENDS Integers, FiniteSets, FiniteSetsExt

CONSTANTS
    Names,          \* the names of files in the server's directory
    MaxSize,        \* the largest size of a file (a bound)
    Limits,         \* disk limits the Panel may set; 0 is unlimited
    Tasks,          \* requests that are handled at the same time (a bound)
    MaxRequests     \* how many changes of files a behaviour has (a bound)

Absent == -1
Gone == "gone"      \* the file behind a handle whose name has been removed

ASSUME QuotaAssumption ==
    /\ IsFiniteSet(Names) /\ Gone \notin Names
    /\ MaxSize \in Nat \ {0} /\ MaxRequests \in Nat
    /\ Limits \subseteq Nat

VARIABLES
    size,       \* the size of each file, or Absent
    usage,      \* Quota.usage
    limit,      \* Quota.limit
    task,       \* the handlers, each with its local variables
    walk,       \* the lookup, of which the mutex allows one
    requests,   \* the number of changes so far
    \* history
    clean,      \* nothing has changed since the lookup began
    exact,      \* since a clean lookup, every change was accounted for and no two
                \* handlers used one name at once
    trusted     \* and the limit was kept then, and handlers ran one at a time

vars == <<size, usage, limit, task, walk, requests, clean, exact, trusted>>

Sizes == 0..MaxSize
NoTask == [op |-> "none", pc |-> "idle", file |-> Gone, rest |-> {}, cur |-> 0, new |-> 0, delta |-> 0, below |-> FALSE]

TaskType ==
    [op : {"none", "write", "copy", "gunzip", "compress", "remove", "removeAll", "rename"},
     pc : {"idle", "check", "stat", "touch", "copy", "load", "store", "chunk", "stream",
           "fit", "unlink", "lstat", "renameat"},
     file : Names \cup {Gone}, rest : SUBSET Names, cur : Sizes, new : Sizes,
     delta : -MaxSize..MaxSize, below : BOOLEAN]

TypeOK ==
    /\ size \in [Names -> Sizes \cup {Absent}]
    /\ usage \in Int /\ limit \in Limits
    /\ task \in [Tasks -> TaskType]
    /\ walk \in [on : BOOLEAN, todo : SUBSET Names, sum : Nat]
    /\ requests \in 0..MaxRequests
    /\ clean \in BOOLEAN /\ exact \in BOOLEAN /\ trusted \in BOOLEAN

\* A new Quota has a usage of 0, whatever the directory holds.
Init ==
    /\ size \in [Names -> {Absent, 1}]
    /\ usage = 0 /\ limit \in Limits
    /\ task = [t \in Tasks |-> NoTask]
    /\ walk = [on |-> FALSE, todo |-> {}, sum |-> 0]
    /\ requests = 0
    /\ clean = FALSE /\ exact = FALSE /\ trusted = FALSE

Size(f) == IF size[f] = Absent THEN 0 ELSE size[f]
\* The bytes of the files are pairs of a name and a position.
Total == Cardinality({b \in Names \X (1..MaxSize) : b[2] <= size[b[1]]})
Existing == {f \in Names : size[f] # Absent}

Idle(t) == task[t].pc = "idle"
Quiet == \A t \in Tasks : Idle(t)
Uses(t) == {task[t].file} \cup task[t].rest

\* The handler has its file open, and writes to it wherever it has been moved.
HasHandle(t) ==
    \/ task[t].op = "write" /\ task[t].pc = "copy"
    \/ task[t].op = "gunzip"
    \/ task[t].op = "compress" /\ task[t].pc \in {"stream", "fit"}

-----------------------------------------------------------------------------
(* Quota (fs_quota.go).                                                     *)

CanFit(n) ==
    /\ limit # -1
    /\ limit = 0 \/ usage = -1 \/ usage + n <= limit

\* HasSpaceAvailable with a stale value; the lookup it may start is LookupStart.
HasSpaceAvailable == limit = 0 \/ usage <= limit

Go(t, changes) == task' = [task EXCEPT ![t] = changes]
At(t, pc) == [task[t] EXCEPT !.pc = pc]
Adding(t, n) ==
    [task[t] EXCEPT !.pc = "load", !.delta = n,
                    !.cur = IF task[t].op = "gunzip" THEN @ ELSE 0,
                    !.new = IF task[t].op = "gunzip" \/ task[t].rest # {} THEN @ ELSE 0]

\* The handlers that have a file open, whose name is to[f] from now on.
Reopened(to) ==
    [t \in Tasks |-> IF HasHandle(t) /\ task[t].file \in DOMAIN to
                     THEN [task[t] EXCEPT !.file = to[task[t].file]] ELSE task[t]]
Unlinked(fs) == Reopened([f \in fs |-> Gone])

\* Quota.Add reads the usage to see whether the sum would be below 0 ...
AddLoad(t) ==
    /\ task[t].pc = "load"
    /\ Go(t, [At(t, "store") EXCEPT !.below = usage + task[t].delta < 0])
    /\ UNCHANGED <<size, usage, limit, walk, requests, clean, exact, trusted>>

Continue(t) ==
    LET next == CASE task[t].op = "write" /\ task[t].rest # {} -> "stat"
                  [] task[t].op = "gunzip" -> "chunk"
                  [] task[t].op = "removeAll" -> "unlink"
                  [] OTHER -> "idle"
    IN IF next = "idle" THEN NoTask ELSE [At(t, next) EXCEPT !.delta = 0, !.below = FALSE]

\* ... and then stores 0 or adds to what it is by now.
AddStore(t) ==
    /\ task[t].pc = "store"
    /\ usage' = IF task[t].below THEN 0 ELSE usage + task[t].delta
    /\ Go(t, Continue(t))
    /\ UNCHANGED <<size, limit, walk, requests, clean, exact, trusted>>

\* SetDiskLimit, when the configuration is synchronised.
SetDiskLimit(l) ==
    /\ requests < MaxRequests /\ l # limit
    /\ requests' = requests + 1 /\ limit' = l /\ trusted' = FALSE
    /\ UNCHANGED <<size, usage, task, walk, clean, exact>>

-----------------------------------------------------------------------------
(* Handlers.  A handler that is refused changes nothing.                    *)

\* A handler begins that will change the files fs, as the local variables say.
Request(t, fs, locals) ==
    /\ Idle(t) /\ requests < MaxRequests
    /\ requests' = requests + 1
    /\ task' = [task EXCEPT ![t] = locals]
    /\ clean' = FALSE
    /\ exact' = (exact /\ \A u \in Tasks \ {t} : Idle(u) \/ Uses(u) \cap fs = {})
    /\ trusted' = (trusted /\ \A u \in Tasks \ {t} : Idle(u))
    /\ UNCHANGED <<usage, limit, walk>>

\* What is not accounted for.
Disturb == exact' = FALSE /\ trusted' = FALSE
Local == UNCHANGED <<usage, limit, walk, requests, clean>>
Accounted == UNCHANGED <<exact, trusted>>

\* postServerWriteFile and a remote download call Filesystem.Write.
WriteFile(t, f, n) ==
    /\ Request(t, {f}, [NoTask EXCEPT !.op = "write", !.pc = "stat", !.rest = {f}, !.new = n])
    /\ UNCHANGED size

\* postServerUploadFiles writes one file after another.
UploadFiles(t, fs, n) ==
    /\ Request(t, fs, [NoTask EXCEPT !.op = "write", !.pc = "stat", !.rest = fs, !.new = n])
    /\ UNCHANGED size

\* postServerDecompressFiles of an archive with the files fs.
DecompressFile(t, fs, n) ==
    /\ Request(t, fs, [NoTask EXCEPT !.op = "write", !.pc = "check", !.rest = fs, !.new = n])
    /\ UNCHANGED size

\* SpaceAvailableForDecompression.
SpaceAvailableForDecompression(t) ==
    /\ task[t].pc = "check"
    /\ Go(t, IF limit <= 0 \/ CanFit(task[t].new * Cardinality(task[t].rest)) THEN At(t, "stat") ELSE NoTask)
    /\ UNCHANGED size /\ Local /\ Accounted

\* Faulty variant of Stat.
StatOnly(t) ==
    /\ task[t].pc = "stat"
    /\ \E f \in task[t].rest :
         Go(t, IF HasSpaceAvailable
               THEN [At(t, "touch") EXCEPT !.file = f, !.rest = @ \ {f}, !.cur = Size(f)]
               ELSE NoTask)
    /\ UNCHANGED size /\ Local /\ Accounted

\* Write takes the size the file has and asks whether the difference fits ...
Stat(t) ==
    /\ task[t].pc = "stat"
    /\ \E f \in task[t].rest :
         Go(t, IF CanFit(task[t].new - Size(f))
               THEN [At(t, "touch") EXCEPT !.file = f, !.rest = @ \ {f}, !.cur = Size(f)]
               ELSE NoTask)
    /\ UNCHANGED size /\ Local /\ Accounted

\* ... creates or truncates the file ...
Touch(t) ==
    /\ task[t].pc = "touch"
    /\ size' = [size EXCEPT ![task[t].file] = 0]
    /\ Go(t, IF task[t].new = 0 THEN Adding(t, -task[t].cur) ELSE At(t, "copy"))
    /\ Local /\ Accounted

Grown(f, n) == IF f = Gone THEN size ELSE [size EXCEPT ![f] = Max({n, @})]

\* Faulty variant of CopyBody.
CopyBodyOver(t) ==
    /\ task[t].pc = "copy"
    /\ \E n \in 0..task[t].new :
         /\ size' = Grown(task[t].file, n)
         /\ Go(t, [Adding(t, n) EXCEPT !.rest = IF n < task[t].new THEN {} ELSE @])
    /\ Local /\ Accounted

\* ... and copies what it gets of the announced size.  An entry of an archive that is
\* cut short ends the extraction.
CopyBody(t) ==
    /\ task[t].pc = "copy"
    /\ \E n \in 0..task[t].new :
         /\ size' = Grown(task[t].file, n)
         /\ Go(t, [Adding(t, n - task[t].cur) EXCEPT !.rest = IF n < task[t].new THEN {} ELSE @])
    /\ Local /\ Accounted

\* A file that is compressed by itself is unpacked over what is there, which is not
\* truncated, in chunks that are accounted for one by one.
Gunzip(t, f, n) ==
    /\ Request(t, {f}, [NoTask EXCEPT !.op = "gunzip", !.pc = "chunk", !.file = f, !.new = n])
    /\ size' = Grown(f, 0)

\* The loop over the chunks; what was there before is accounted for twice.
Chunk(t) ==
    /\ task[t].pc = "chunk"
    /\ IF task[t].cur = task[t].new \/ ~CanFit(1) THEN Go(t, NoTask) /\ UNCHANGED size /\ Accounted
       ELSE /\ size' = Grown(task[t].file, task[t].cur + 1)
            /\ Go(t, [Adding(t, 1) EXCEPT !.cur = @ + 1])
            /\ IF size' = size THEN Disturb ELSE Accounted
    /\ Local

\* Copy of the file f, which finds the unused name g; the copy is opened later.
Copy(t, f, g) ==
    /\ f \in Existing /\ g \notin Existing /\ CanFit(size[f])
    /\ Request(t, {g}, [NoTask EXCEPT !.op = "copy", !.pc = "copy", !.file = g, !.new = size[f]])
    /\ UNCHANGED size

\* CompressFiles makes an archive with the unused name g ...
CompressFiles(t, g) ==
    /\ g \notin Existing /\ HasSpaceAvailable
    /\ Request(t, {g}, [NoTask EXCEPT !.op = "compress", !.pc = "stream", !.file = g])
    /\ size' = Grown(g, 0)

\* ... writes it, leaving what is written if that fails ...
Stream(t) ==
    /\ task[t].pc = "stream"
    /\ \E n \in Sizes :
         /\ size' = Grown(task[t].file, n)
         /\ \/ Go(t, [At(t, "fit") EXCEPT !.new = n]) /\ Accounted
            \/ Go(t, NoTask) /\ IF n > 0 THEN Disturb ELSE Accounted
    /\ Local

\* ... and only then asks whether it fits.  If not it is removed by Quota.Remove, which
\* subtracts a size that was never added.
Fit(t) ==
    /\ task[t].pc = "fit"
    /\ IF CanFit(task[t].new) THEN Go(t, Adding(t, task[t].new)) /\ UNCHANGED size /\ Accounted
       ELSE IF task[t].file = Gone THEN Go(t, NoTask) /\ UNCHANGED size /\ Disturb
       ELSE LET f == task[t].file IN
            /\ size' = [size EXCEPT ![f] = Absent]
            /\ task' = [Unlinked({f}) EXCEPT ![t] = Adding(t, -Size(f))]
            /\ Disturb
    /\ Local

\* Quota.Remove of a file: its size, its removal, and then the usage.
Remove(t, f) ==
    /\ f \in Existing
    /\ Request(t, {f}, [NoTask EXCEPT !.op = "remove", !.pc = "unlink", !.file = f, !.cur = size[f]])
    /\ UNCHANGED size

\* Quota.RemoveAll of the directory: the usage is lowered before a file is removed.
RemoveAll(t) ==
    /\ Existing # {}
    /\ Request(t, Existing, [NoTask EXCEPT !.op = "removeAll", !.pc = "lstat", !.rest = Existing])
    /\ UNCHANGED size

Lstat(t) ==
    /\ task[t].pc = "lstat"
    /\ IF task[t].rest = {} THEN Go(t, NoTask)
       ELSE \E f \in task[t].rest :
              LET next == [task[t] EXCEPT !.rest = @ \ {f}, !.file = f] IN
              Go(t, IF f \notin Existing THEN next
                    ELSE [next EXCEPT !.pc = "load", !.delta = -size[f]])
    /\ UNCHANGED size /\ Local /\ Accounted

Unlink(t) ==
    /\ task[t].pc = "unlink"
    /\ LET f == task[t].file
           next == IF task[t].op = "removeAll" THEN [At(t, "lstat") EXCEPT !.file = Gone]
                   ELSE IF f \in Existing THEN Adding(t, -task[t].cur) ELSE NoTask
       IN /\ size' = [size EXCEPT ![f] = Absent]
          /\ task' = [Unlinked({f}) EXCEPT ![t] = next]
    /\ Local /\ Accounted

\* Rename checks that the new name is unused before it renames.
Rename(t, f, g) ==
    /\ f \in Existing /\ g \notin Existing
    /\ Request(t, {f, g}, [NoTask EXCEPT !.op = "rename", !.pc = "renameat", !.file = f, !.rest = {g}])
    /\ UNCHANGED size

RenameAt(t) ==
    /\ task[t].pc = "renameat"
    /\ \E g \in task[t].rest :
         LET f == task[t].file IN
         IF f \notin Existing THEN Go(t, NoTask) /\ UNCHANGED size
         ELSE /\ size' = [size EXCEPT ![g] = size[f], ![f] = Absent]
              /\ task' = [Reopened([h \in {f, g} |-> IF h = f THEN g ELSE Gone]) EXCEPT ![t] = NoTask]
    /\ Local /\ Accounted

-----------------------------------------------------------------------------
(* Changes that no handler accounts for.                                    *)

Change(newSize, handlers) ==
    /\ requests < MaxRequests /\ requests' = requests + 1
    /\ size' = newSize /\ task' = handlers
    /\ clean' = FALSE
    /\ UNCHANGED <<limit, walk>>

\* The SFTP handler opens a file for writing, which truncates it.
Filewrite(f) ==
    /\ HasSpaceAvailable
    /\ Change([size EXCEPT ![f] = 0], task)
    /\ IF Size(f) = 0 THEN Accounted ELSE Disturb
    /\ UNCHANGED usage

\* What an SFTP client asks for is accounted for if it removes or renames.
Filecmd(t) ==
    \/ \E f, g \in Names : Rename(t, f, g)
    \/ \E f \in Names : Remove(t, f)
    \/ RemoveAll(t)

\* An SFTP client or the server's process writes or removes a file.
FileData(f, n) ==
    /\ n # size[f]
    /\ Change([size EXCEPT ![f] = n], IF n = Absent THEN Unlinked({f}) ELSE task)
    /\ Disturb /\ UNCHANGED usage

\* TruncateRootDirectory, before a restore, replaces the Quota by a new one.
TruncateRootDirectory ==
    /\ Existing # {}
    /\ Change([f \in Names |-> Absent], Unlinked(Names))
    /\ usage' = 0
    /\ exact' = Quiet /\ trusted' = Quiet

-----------------------------------------------------------------------------
(* The lookup (disk_space.go).                                              *)

\* DiskUsage, once the interval is over, with the mutex of updateCachedDiskUsage.
LookupStart ==
    /\ ~walk.on
    /\ walk' = [on |-> TRUE, todo |-> Existing, sum |-> 0]
    /\ clean' = Quiet
    /\ UNCHANGED <<size, usage, limit, task, requests, exact, trusted>>

\* The order of the directory.
NextFile == CHOOSE f \in walk.todo : TRUE

\* DirectorySize takes one file after another, and ends at one that has vanished.
WalkFile ==
    /\ walk.on /\ walk.todo # {}
    /\ LET f == NextFile IN
       walk' = IF f \in Existing THEN [walk EXCEPT !.todo = @ \ {f}, !.sum = @ + size[f]]
               ELSE [walk EXCEPT !.todo = {}]
    /\ UNCHANGED <<size, usage, limit, task, requests, clean, exact, trusted>>

\* Faulty variant of LookupEnd.
LookupEndOnce ==
    /\ walk.on /\ walk.todo = {}
    /\ walk' = [on |-> FALSE, todo |-> {}, sum |-> 0]
    /\ usage' = IF usage = 0 THEN walk.sum ELSE usage
    /\ exact' = FALSE /\ trusted' = FALSE
    /\ UNCHANGED <<size, limit, task, requests, clean>>

\* The sum is the usage from now on, even of a walk that ended with an error.
LookupEnd ==
    /\ walk.on /\ walk.todo = {}
    /\ walk' = [on |-> FALSE, todo |-> {}, sum |-> 0]
    /\ usage' = walk.sum
    /\ exact' = clean
    /\ trusted' = (clean /\ (limit = 0 \/ walk.sum <= limit))
    /\ clean' = FALSE
    /\ UNCHANGED <<size, limit, task, requests>>

-----------------------------------------------------------------------------
Handle(t) ==
    \/ \E f \in Names, n \in Sizes : WriteFile(t, f, n)
    \/ \E f \in Names, n \in Sizes \ {0} : Gunzip(t, f, n)
    \/ \E fs \in SUBSET Names, n \in Sizes : Cardinality(fs) > 1 /\ (DecompressFile(t, fs, n) \/ UploadFiles(t, fs, n))
    \/ \E f, g \in Names : Copy(t, f, g) \/ Rename(t, f, g)
    \/ \E f \in Names : CompressFiles(t, f) \/ Remove(t, f)
    \/ RemoveAll(t) \/ Filecmd(t)

Step(t) ==
    \/ AddLoad(t) \/ AddStore(t) \/ SpaceAvailableForDecompression(t)
    \/ Stat(t) \/ Touch(t) \/ CopyBody(t) \/ Chunk(t)
    \/ Stream(t) \/ Fit(t) \/ Lstat(t) \/ Unlink(t) \/ RenameAt(t)

Lookup == LookupStart \/ WalkFile \/ LookupEnd

Next ==
    \/ \E t \in Tasks : Handle(t) \/ Step(t)
    \/ \E f \in Names : Filewrite(f) \/ \E n \in Sizes \cup {Absent} : FileData(f, n)
    \/ \E l \in Limits : SetDiskLimit(l)
    \/ TruncateRootDirectory \/ Lookup

\* Handlers go on, and the usage is looked up again and again, as it is with every
\* event about the resources of a running server.
Fairness == WF_vars(Lookup) /\ \A t \in Tasks : WF_vars(Step(t))

Spec == Init /\ [][Next]_vars /\ Fairness

-----------------------------------------------------------------------------
(* Properties.                                                              *)

\* Once the usage has been looked up undisturbed, it is the size of the files whenever
\* no handler runs, although handlers interleave and Quota.Add is two steps, as long
\* as no two of them use one file and every change is one that is accounted for.
UsageExact == exact /\ Quiet => usage = Total

\* Handlers that run one at a time never take a server beyond its limit.
QuotaHeld == trusted /\ Quiet => limit = 0 \/ Total <= limit

\* Whatever has made it wrong, the usage is right again some time after the last change.
UsageRecovers == <>[](usage = Total)
=============================================================================
