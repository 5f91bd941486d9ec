-------------------------- MODULE ActivityDelivery --------------------------
(***************************************************************************)
(* Activity of users is saved in a local database and two cron jobs send   *)
(* it to the Panel and then delete it. The jobs may be started again while *)
(* they still run, rows are saved while they page through the table, and   *)
(* the daemon may crash between the request and the deletion.              *)
(***************************************************************************)
EXTENDS PanelClient, Sequences, FiniteSets, SequencesExt

CONSTANTS
  Rows,           \* the activity that may be saved; a row is its id
  Sftp,           \* the rows with an event of the SFTP server
  Invalid,        \* the rows whose IP address does not parse
  Event(_),       \* the rank of a row's event in the order of the table
  Key(_),         \* user, server, IP, event and minute of a row
  Runs,           \* the goroutines that the scheduler has for its jobs
  SendCount,            \* rows of a page and events of a request
  ChunkSize,      \* ids of one DELETE statement
  MaxFaults       \* bound: crashes and failures of the database

ASSUME ActivityAssumption ==
  /\ Rows \subseteq Nat /\ IsFiniteSet(Rows) /\ Sftp \subseteq Rows /\ Invalid \subseteq Rows
  /\ {SendCount, ChunkSize} \subseteq Nat \ {0} /\ MaxFaults \in Nat

VARIABLES
  todo,           \* activity that has not happened yet
  saved,          \* the rows that were ever in the table
  db,             \* the rows of the table
  running,        \* the flag of each cron job
  run,            \* the goroutines of the scheduler
  received,       \* how often the Panel received each row, up to two
  doubt,          \* the rows of a request that failed or whose deletion did
  faults

activityVars == <<todo, saved, db, running, run, received, doubt, faults>>

Crons == {"activity", "sftp"}
IsSftp(r) == r \in Sftp
OfCron(c) == {r \in Rows : IsSftp(r) <=> c = "sftp"}
Idle == [cron |-> "activity", pc |-> "idle", page |-> <<>>, offset |-> 0, slen |-> 0,
         em |-> [ids |-> <<>>, files |-> {}], bad |-> {}, tried |-> 0]

\* Each row of the table is recorded at most once.
ActivityInit(rows) ==
  /\ todo = rows /\ saved = {}
  /\ db = {}
  /\ running = [c \in Crons |-> FALSE]
  /\ run = [g \in Runs |-> Idle]
  /\ received = [r \in Rows |-> 0]
  /\ doubt = {}
  /\ faults = 0

-----------------------------------------------------------------------------
\* SQLite, from how the jobs use it: the order of the two queries, and that
\* a statement takes effect or fails as a whole.
Before(c, r, q) ==
  IF c = "activity" THEN r < q
  ELSE Event(r) > Event(q) \/ (Event(r) = Event(q) /\ r > q)
Orders(c) ==
  LET rows == db \cap OfCron(c)
      n == Cardinality(rows) IN
  {all \in [1..n -> rows] : \A j, k \in 1..n : j < k => Before(c, all[j], all[k])}

\* The rows of a query from an offset on, up to the limit.
Page(all, offset) ==
  LET last == IF Len(all) < offset + SendCount THEN Len(all) ELSE offset + SendCount
  IN SubSeq(all, offset + 1, last)

Unchanged == UNCHANGED <<todo, saved, db, running, received, doubt, faults>>

\* Faulty variant of EndRun:
\* The flag of the SFTP job is left set.
EndRunKeepsFlag(g) ==
  /\ run' = [run EXCEPT ![g] = Idle]
  /\ running' = [running EXCEPT !["activity"] = @ /\ run[g].cron # "activity"]

\* The deferred Store(false) and the end of the goroutine.
EndRun(g) ==
  /\ run' = [run EXCEPT ![g] = Idle]
  /\ running' = [running EXCEPT ![run[g].cron] = FALSE]

\* SaveActivity and MustLog: the row is stored. If that fails the error is
\* logged and there is no row, as if the activity had not happened.
SaveActivity(r) ==
  /\ r \in todo
  /\ todo' = todo \ {r}
  /\ saved' = saved \cup {r}
  /\ db' = db \cup {r}
  /\ UNCHANGED <<running, run, received, doubt, faults>>

\* The scheduler starts a job; SwapIf turns a second one away.
Tick(g, c) ==
  /\ run[g].pc = "idle"
  /\ ~running[c]
  /\ running' = [running EXCEPT ![c] = TRUE]
  /\ run' = [run EXCEPT ![g] = [Idle EXCEPT !.cron = c, !.pc = "fetch"]]
  /\ UNCHANGED <<todo, saved, db, received, doubt, faults>>

\* The query of the activity job: nothing to send, or the rows that are.
FetchActivity(g) ==
  /\ run[g].pc = "fetch" /\ run[g].cron = "activity"
  /\ \E all \in Orders("activity") :
       LET page == Page(all, 0) IN
       IF page = <<>>
       THEN EndRun(g) /\ UNCHANGED <<todo, saved, db, received, doubt, faults>>
       ELSE run' = [run EXCEPT ![g] = [@ EXCEPT !.pc = "push", !.page = page]] /\ Unchanged

\* Its loop over them: a row with an invalid IP is to be deleted, others are sent.
CheckRow(em, bad, r) ==
  IF r \in Invalid THEN [em |-> em, bad |-> bad \cup {r}]
  ELSE [em |-> [ids |-> Append(em.ids, r), files |-> em.files \cup {r}], bad |-> bad]

\* Rows with an invalid IP are deleted and not sent.
DropInvalid(g) ==
  /\ run[g].pc = "push" /\ run[g].cron = "activity" /\ run[g].page = <<>>
  /\ db' = db \ run[g].bad
  /\ IF run[g].em.ids = <<>>
     THEN EndRun(g)
     ELSE run' = [run EXCEPT ![g].pc = "send"] /\ UNCHANGED running
  /\ UNCHANGED <<todo, saved, received, doubt, faults>>

\* Faulty variant of Push:
\* The id of a row that is over the limit is kept too.
PushKeepsId(em, r) ==
  LET keys == {Key(q) : q \in em.files} IN
  [ids |-> Append(em.ids, r),
   files |-> IF Key(r) \in keys \/ Cardinality(keys) < SendCount
             THEN em.files \cup {r} ELSE em.files]

\* eventMap.Push: a row joins the event with its key, or starts a new one as
\* long as there are fewer than SendCount; otherwise it waits for the next run.
Push(em, r) ==
  LET keys == {Key(q) : q \in em.files} IN
  IF Key(r) \in keys \/ Cardinality(keys) < SendCount
  THEN [ids |-> Append(em.ids, r), files |-> em.files \cup {r}]
  ELSE em

\* The page of the SFTP job, from the offset reached so far.
FetchSftp(g) ==
  /\ run[g].pc = "fetch" /\ run[g].cron = "sftp"
  /\ \E all \in Orders("sftp") :
       LET page == Page(all, run[g].offset) IN
       run' = [run EXCEPT ![g] = [@ EXCEPT !.pc = "push", !.page = page,
                                           !.offset = run[g].offset + Len(page),
                                           !.slen = Len(run[g].em.ids)]]
  /\ Unchanged

\* One round of the loop over a page, of either job.
PushRow(g) ==
  LET r == Head(run[g].page)
      checked == IF run[g].cron = "sftp" THEN [em |-> Push(run[g].em, r), bad |-> {}]
                 ELSE CheckRow(run[g].em, run[g].bad, r) IN
  /\ run[g].pc = "push" /\ run[g].page # <<>>
  /\ run' = [run EXCEPT ![g] = [@ EXCEPT !.page = Tail(run[g].page), !.em = checked.em, !.bad = checked.bad]]
  /\ Unchanged

\* If a page added a row another one is fetched, otherwise the SFTP job sends what
\* it has.
EndPage(g) ==
  /\ run[g].pc = "push" /\ run[g].cron = "sftp" /\ run[g].page = <<>>
  /\ \/ /\ Len(run[g].em.ids) > run[g].slen
        /\ run' = [run EXCEPT ![g].pc = "fetch"] /\ Unchanged
     \/ /\ Len(run[g].em.ids) = run[g].slen /\ run[g].em.ids = <<>>
        /\ EndRun(g) /\ UNCHANGED <<todo, saved, db, received, doubt, faults>>
     \/ /\ Len(run[g].em.ids) = run[g].slen /\ run[g].em.ids # <<>>
        /\ run' = [run EXCEPT ![g].pc = "send"] /\ Unchanged

\* SendActivityLogs: one attempt of the request with the events of the run.
SendActivityLogs(g, a) ==
  LET body == Body(run[g].em.files, run[g].tried)
      outcome == Outcome(a.answer, run[g].tried) IN
  /\ run[g].pc = "send"
  /\ received' = [r \in Rows |->
       IF a.acted /\ r \in body /\ received[r] < 2 THEN received[r] + 1 ELSE received[r]]
  /\ doubt' = IF outcome = "success" THEN doubt ELSE doubt \cup run[g].em.files
  /\ CASE outcome = "success" ->
            run' = [run EXCEPT ![g].pc = "delete"] /\ UNCHANGED running
       [] outcome = "retry" ->
            run' = [run EXCEPT ![g].tried = @ + 1] /\ UNCHANGED running
       [] outcome = "failure" -> EndRun(g)
  /\ UNCHANGED <<todo, saved, db, faults>>

\* Faulty variant of DeleteChunk:
\* Only the first chunk is deleted.
DeleteFirstChunk(g) ==
  /\ run[g].pc = "delete"
  /\ db' = db \ ToSet(SubSeq(run[g].em.ids, 1, 1))
  /\ EndRun(g)
  /\ UNCHANGED <<todo, saved, received, doubt, faults>>

\* The ids are deleted in chunks, and the job ends after the last one.
DeleteChunk(g) ==
  LET ids == run[g].em.ids
      chunk == SubSeq(ids, 1, IF Len(ids) < ChunkSize THEN Len(ids) ELSE ChunkSize) IN
  /\ run[g].pc = "delete"
  /\ db' = db \ ToSet(chunk)
  /\ IF Len(chunk) = Len(ids)
     THEN EndRun(g)
     ELSE /\ run' = [run EXCEPT ![g].em = [@ EXCEPT !.ids = SubSeq(ids, ChunkSize + 1, Len(ids))]]
          /\ UNCHANGED running
  /\ UNCHANGED <<todo, saved, received, doubt, faults>>

\* A statement fails and the job returns its error.
StatementFails(g) ==
  /\ \/ run[g].pc \in {"fetch", "delete"}
     \/ run[g].pc = "push" /\ run[g].page = <<>> /\ run[g].bad # {}
  /\ faults < MaxFaults
  /\ faults' = faults + 1
  /\ EndRun(g)
  /\ doubt' = doubt \cup (IF run[g].pc = "delete" THEN ToSet(run[g].em.ids) ELSE {})
  /\ UNCHANGED <<todo, saved, db, received>>

\* The daemon stops and is started again: the table is all that is left.
Crash ==
  /\ faults < MaxFaults
  /\ faults' = faults + 1
  /\ run' = [g \in Runs |-> Idle]
  /\ running' = [c \in Crons |-> FALSE]
  /\ doubt' = doubt \cup UNION {ToSet(run[g].em.ids) :
                                  g \in {g \in Runs : run[g].pc \in {"send", "delete"}}}
  /\ UNCHANGED <<todo, saved, db, received>>

Step(g) ==
  \/ FetchActivity(g) \/ DropInvalid(g) \/ FetchSftp(g) \/ PushRow(g) \/ EndPage(g)
  \/ DeleteChunk(g)
  \/ \E a \in Attempts : SendActivityLogs(g, a)

ActivityNext ==
  \/ \E r \in Rows : SaveActivity(r)
  \/ \E g \in Runs, c \in Crons : Tick(g, c)
  \/ \E g \in Runs : Step(g) \/ StatementFails(g)
  \/ Crash

\* Goroutines are scheduled, the interval of each job comes again and again,
\* and a request that is repeated for ever is answered at some time.
Accepted(g) == SendActivityLogs(g, [acted |-> TRUE, answer |-> "ok"])
ActivityFairness ==
  /\ \A c \in Crons : WF_activityVars(\E g \in Runs : Tick(g, c))
  /\ \A g \in Runs : WF_activityVars(Step(g)) /\ SF_activityVars(Accepted(g))

-----------------------------------------------------------------------------
ActivityTypeOK ==
  /\ saved \cup todo \subseteq Rows /\ db \subseteq saved \ todo /\ doubt \subseteq Rows
  /\ running \in [Crons -> BOOLEAN]
  /\ \A g \in Runs :
       /\ run[g].cron \in Crons
       /\ run[g].pc \in {"idle", "fetch", "push", "send", "delete"}
       /\ ToSet(run[g].em.ids) \subseteq OfCron(run[g].cron)
       /\ Cardinality({Key(r) : r \in run[g].em.files}) <= SendCount
       /\ run[g].tried \in 0..(MaxAttempts - 1)
  /\ received \in [Rows -> 0..2]
  /\ faults \in 0..MaxFaults

\* Once saved, activity is in the table until the Panel has received it:
\* whatever the jobs merge, page over, leave for later or delete, and
\* wherever a statement fails or the daemon crashes. Only activity with an
\* invalid IP is dropped, by the activity job.
NothingLost ==
  \A r \in saved \ db :
    received[r] > 0 \/ (r \in Invalid /\ ~IsSftp(r))

\* The Panel receives a row twice only if an earlier request with it was not
\* known to succeed, or its deletion was interrupted: rows saved while the
\* SFTP job pages through the table, which move what is behind the offset,
\* do not cause it.
SentOnce == \A r \in Rows : received[r] = 2 => r \in doubt

\* Every row that is saved is deleted in the end, which by NothingLost means
\* that the Panel has it: the limits of a run only delay a row.
RowsLeave == \A r \in Rows : r \in db ~> r \notin db
=============================================================================
