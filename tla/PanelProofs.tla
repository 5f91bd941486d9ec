----------------------------- MODULE PanelProofs -----------------------------
(***************************************************************************)
(* The users of the Panel client, for any table of activity, any number of *)
(* scheduler goroutines, any archive and any limits: no activity is lost   *)
(* or sent twice without a cause, and a backup that succeeded is stored.   *)
(***************************************************************************)
EXTENDS ActivityDelivery, BackupUpload, FiniteSetTheorems, TLAPS

ActivitySpec == (\E rows \in SUBSET Rows : ActivityInit(rows)) /\ [][ActivityNext]_activityVars

-----------------------------------------------------------------------------
(* Sequences of rows and the sets of their elements.                        *)

LEMMA ToSetAppend ==
    ASSUME NEW S, NEW s \in Seq(S), NEW r \in S
    PROVE  ToSet(Append(s, r)) = ToSet(s) \cup {r}
<1>1. ToSet(Append(s, r)) \subseteq ToSet(s) \cup {r}
  BY DEF ToSet
<1>2. ASSUME NEW x \in ToSet(s) PROVE x \in ToSet(Append(s, r))
  <2>1. PICK i \in 1..Len(s) : x = s[i]
    BY <1>2 DEF ToSet
  <2>2. Append(s, r)[i] = x /\ i \in DOMAIN Append(s, r)
    BY <2>1
  <2> QED
    BY <2>2 DEF ToSet
<1>3. r \in ToSet(Append(s, r))
  <2>1. Append(s, r)[Len(s) + 1] = r /\ Len(s) + 1 \in DOMAIN Append(s, r)
    OBVIOUS
  <2> QED
    BY <2>1 DEF ToSet
<1> QED
  BY <1>1, <1>2, <1>3

LEMMA ToSetHead ==
    ASSUME NEW S, NEW s \in Seq(S), s # <<>>
    PROVE  Head(s) \in ToSet(s) /\ Head(s) \in S /\ Tail(s) \in Seq(S) /\ ToSet(Tail(s)) \subseteq ToSet(s)
<1>1. Head(s) = s[1] /\ 1 \in DOMAIN s /\ Tail(s) \in Seq(S)
  OBVIOUS
<1>2. ASSUME NEW x \in ToSet(Tail(s)) PROVE x \in ToSet(s)
  <2>1. PICK i \in 1..(Len(s) - 1) : x = Tail(s)[i]
    BY <1>2 DEF ToSet
  <2>2. x = s[i + 1] /\ i + 1 \in DOMAIN s
    BY <2>1
  <2> QED
    BY <2>2 DEF ToSet
<1> QED
  BY <1>1, <1>2 DEF ToSet

LEMMA ToSetSub ==
    ASSUME NEW S, NEW s \in Seq(S), NEW m \in Nat, NEW n \in Nat, m >= 1, n <= Len(s)
    PROVE  SubSeq(s, m, n) \in Seq(S) /\ ToSet(SubSeq(s, m, n)) = {s[i] : i \in m..n}
<1>1. SubSeq(s, m, n) \in Seq(S)
  OBVIOUS
<1>2. ASSUME NEW x \in ToSet(SubSeq(s, m, n)) PROVE x \in {s[i] : i \in m..n}
  <2>1. PICK i \in 1..Len(SubSeq(s, m, n)) : x = SubSeq(s, m, n)[i]
    BY <1>1, <1>2 DEF ToSet
  <2>2. x = s[m + i - 1] /\ m + i - 1 \in m..n
    BY <2>1
  <2> QED
    BY <2>2
<1>3. ASSUME NEW i \in m..n PROVE s[i] \in ToSet(SubSeq(s, m, n))
  <2>1. i - m + 1 \in DOMAIN SubSeq(s, m, n) /\ SubSeq(s, m, n)[i - m + 1] = s[i]
    OBVIOUS
  <2> QED
    BY <2>1 DEF ToSet
<1> QED
  BY <1>1, <1>2, <1>3

\* A DELETE statement has the first ids, the next ones the rest.
LEMMA ToSetChunks ==
    ASSUME NEW S, NEW s \in Seq(S), NEW n \in Nat, n < Len(s)
    PROVE  /\ SubSeq(s, n + 1, Len(s)) \in Seq(S)
           /\ ToSet(s) = ToSet(SubSeq(s, 1, n)) \cup ToSet(SubSeq(s, n + 1, Len(s)))
<1>1. ToSet(s) = {s[i] : i \in 1..Len(s)}
  BY DEF ToSet
<1>2. ToSet(SubSeq(s, 1, n)) = {s[i] : i \in 1..n}
  BY ToSetSub
<1>3. ToSet(SubSeq(s, n + 1, Len(s))) = {s[i] : i \in (n + 1)..Len(s)} /\ SubSeq(s, n + 1, Len(s)) \in Seq(S)
  BY ToSetSub
<1>4. 1..Len(s) = (1..n) \cup ((n + 1)..Len(s))
  OBVIOUS
<1> QED
  BY <1>1, <1>2, <1>3, <1>4

\* A page has rows of the table.
LEMMA PageRows ==
    ASSUME NEW c \in Crons, NEW all \in Orders(c), NEW offset \in Nat, db \subseteq Rows
    PROVE  Page(all, offset) \in Seq(Rows) /\ ToSet(Page(all, offset)) \subseteq db \cap OfCron(c)
<1> DEFINE rows == db \cap OfCron(c)
           n == Cardinality(rows)
<1>1. n \in Nat
  BY ActivityAssumption, FS_Subset, FS_CardinalityType DEF OfCron
<1>2. all \in [1..n -> rows]
  BY DEF Orders
<1> HIDE DEF n, rows
<1>3. all \in Seq(rows) /\ Len(all) = n
  BY <1>1, <1>2
<1>4. PICK last \in Nat : last <= Len(all) /\ Page(all, offset) = SubSeq(all, offset + 1, last)
  <2> DEFINE l == IF Len(all) < offset + SendCount THEN Len(all) ELSE offset + SendCount
  <2>1. SendCount \in Nat /\ Len(all) \in Nat
    BY <1>1, <1>3, ActivityAssumption
  <2>2. l \in Nat /\ l <= Len(all)
    BY <2>1
  <2>3. Page(all, offset) = SubSeq(all, offset + 1, l)
    BY DEF Page
  <2> HIDE DEF l
  <2> QED
    BY <2>2, <2>3
<1>5. Page(all, offset) \in Seq(rows) /\ ToSet(Page(all, offset)) \subseteq rows
  <2> DEFINE first == offset + 1
  <2>3. first \in Nat /\ first >= 1
    OBVIOUS
  <2>1. /\ SubSeq(all, first, last) \in Seq(rows)
        /\ ToSet(SubSeq(all, first, last)) = {all[i] : i \in first..last}
    <3> HIDE DEF first
    <3> QED
      BY <1>3, <1>4, <2>3, ToSetSub
  <2>2. \A i \in (offset + 1)..last : all[i] \in rows
    BY <1>3, <1>4
  <2> QED
    BY <1>4, <2>1, <2>2
<1>6. rows \subseteq Rows
  BY DEF rows
<1> QED
  BY <1>5, <1>6 DEF rows

-----------------------------------------------------------------------------
(* Activity.                                                                *)

RunType ==
    [cron : Crons, pc : {"idle", "fetch", "push", "send", "delete"},
     page : Seq(Rows), offset : Nat, slen : Nat,
     em : [ids : Seq(Rows), files : SUBSET Rows], bad : SUBSET Rows, tried : Nat]

ActivityType ==
    /\ saved \subseteq Rows /\ todo \subseteq Rows /\ todo \cap saved = {} /\ db \subseteq saved
    /\ running \in [Crons -> BOOLEAN] /\ run \in [Runs -> RunType]
    /\ received \in [Rows -> 0..2]

\* The flag of a cron job keeps its runs apart.
FlagInv ==
    \A g \in Runs : run[g].pc # "idle" =>
        /\ running[run[g].cron]
        /\ \A h \in Runs : run[h].pc # "idle" /\ run[h].cron = run[g].cron => h = g

\* What a run holds are saved rows of its own job; it deletes what it sent and only
\* that; and what it sends a second time is in doubt.
RunOK(q) ==
    /\ ToSet(q.page) \cup q.em.files \cup q.bad \cup ToSet(q.em.ids) \subseteq saved \cap OfCron(q.cron)
    /\ q.bad \subseteq Invalid /\ (q.cron = "sftp" => q.bad = {})
    /\ q.pc # "delete" => q.em.files = ToSet(q.em.ids)
    /\ q.pc = "delete" => \A r \in ToSet(q.em.ids) : received[r] # 0
    /\ q.pc \in {"fetch", "push", "send"} =>
         \A r \in ToSet(q.page) \cup q.em.files : received[r] # 0 => r \in doubt

\* A row that the Panel has stays in the table only if it is in doubt or about to be
\* deleted.
TableInv ==
    /\ \A r \in Rows : received[r] # 0 => r \in saved
    /\ \A r \in db : received[r] # 0 =>
         r \in doubt \/ \E g \in Runs : run[g].pc = "delete" /\ r \in ToSet(run[g].em.ids)
    /\ \A r \in saved \ db : received[r] # 0 \/ (r \in Invalid /\ ~IsSftp(r))
    /\ \A r \in Rows : received[r] = 2 => r \in doubt

ActivityInv == ActivityType /\ FlagInv /\ (\A g \in Runs : RunOK(run[g])) /\ TableInv

LEMMA IdleOK ==
    ASSUME NEW c \in Crons, NEW q, q = Idle \/ q = [Idle EXCEPT !.cron = c, !.pc = "fetch"]
    PROVE  q \in RunType /\ RunOK(q)
<1>1. /\ q \in RunType /\ q.page = <<>> /\ q.em.ids = <<>> /\ q.em.files = {} /\ q.bad = {}
      /\ q.pc # "delete"
  <2>1. Idle \in RunType
    <3>1. <<>> \in Seq(Rows) /\ 0 \in Nat /\ {} \in SUBSET Rows
      OBVIOUS
    <3> QED
      BY <3>1 DEF Idle, RunType, Crons
  <2>2. /\ Idle.page = <<>> /\ Idle.em.ids = <<>> /\ Idle.em.files = {} /\ Idle.bad = {}
        /\ Idle.pc # "delete"
    BY DEF Idle
  <2>3. CASE q = Idle
    BY <2>1, <2>2, <2>3
  <2>4. CASE q = [Idle EXCEPT !.cron = c, !.pc = "fetch"]
    <3> PICK i \in RunType : i = Idle
      BY <2>1
    <3>1. q = [i EXCEPT !.cron = c, !.pc = "fetch"]
      BY <2>4
    <3>2. q \in RunType /\ q.page = i.page /\ q.em = i.em /\ q.bad = i.bad /\ q.pc # "delete"
      BY <3>1 DEF RunType
    <3> QED
      BY <2>2, <3>2
  <2> QED
    BY <2>3, <2>4
<1>2. ToSet(<<>>) = {}
  BY DEF ToSet
<1> QED
  BY <1>1, <1>2 DEF RunOK

\* A run that goes on: it forgets no row that it has to delete, and deletes no row that
\* the Panel does not have, except for an invalid one.
LEMMA RunMoves ==
    ASSUME ActivityInv, NEW g \in Runs, NEW q \in RunType,
           run' = [run EXCEPT ![g] = q],
           UNCHANGED <<todo, saved, running, received, doubt>>, db' \subseteq db,
           run[g].pc # "idle", q.pc # "idle", q.cron = run[g].cron, RunOK(q),
           run[g].pc = "delete" =>
             q.pc = "delete" /\ ToSet(run[g].em.ids) \cap db' \subseteq ToSet(q.em.ids),
           \A r \in db \ db' : received[r] # 0 \/ (r \in Invalid /\ ~IsSftp(r))
    PROVE  ActivityInv'
<1>1. run'[g] = q /\ (\A h \in Runs \ {g} : run'[h] = run[h]) /\ run' \in [Runs -> RunType]
  BY DEF ActivityInv, ActivityType
<1>2. ActivityType'
  BY <1>1 DEF ActivityInv, ActivityType
<1>3. FlagInv'
  BY <1>1 DEF ActivityInv, FlagInv
<1>4. ASSUME NEW h \in Runs PROVE RunOK(run[h])'
  <2>1. RunOK(run'[h])
    BY <1>1 DEF ActivityInv
  <2> QED
    BY <2>1 DEF RunOK
<1>5. TableInv'
  <2>1. ASSUME NEW r \in db', received[r] # 0, r \notin doubt
        PROVE  \E h \in Runs : run'[h].pc = "delete" /\ r \in ToSet(run'[h].em.ids)
    <3>1. PICK h \in Runs : run[h].pc = "delete" /\ r \in ToSet(run[h].em.ids)
      BY <2>1 DEF ActivityInv, TableInv
    <3>2. CASE h = g
      BY <1>1, <3>1, <3>2
    <3>3. CASE h # g
      BY <1>1, <3>1, <3>3
    <3> QED
      BY <3>2, <3>3
  <2> QED
    BY <2>1 DEF ActivityInv, TableInv
<1> QED
  BY <1>2, <1>3, <1>4, <1>5 DEF ActivityInv

\* A run that ends leaves no row in the table that the Panel has, unless it is in doubt.
LEMMA RunEnds ==
    ASSUME ActivityInv, NEW g \in Runs, run[g].pc # "idle", EndRun(g),
           UNCHANGED <<todo, saved, received>>, db' \subseteq db, doubt \subseteq doubt',
           run[g].pc = "delete" => ToSet(run[g].em.ids) \cap db' \subseteq doubt',
           \A r \in db \ db' : received[r] # 0 \/ (r \in Invalid /\ ~IsSftp(r))
    PROVE  ActivityInv'
<1>1. /\ run'[g] = Idle /\ (\A h \in Runs \ {g} : run'[h] = run[h])
      /\ run' \in [Runs -> RunType] /\ running' \in [Crons -> BOOLEAN]
  <2>1. Idle \in RunType
    BY IdleOK DEF Crons
  <2> QED
    BY <2>1 DEF ActivityInv, ActivityType, EndRun
<1>2. ActivityType'
  BY <1>1 DEF ActivityInv, ActivityType
<1>3. FlagInv'
  <2>1. ASSUME NEW h \in Runs, run'[h].pc # "idle"
        PROVE  h # g /\ run'[h] = run[h] /\ running'[run[h].cron]
    <3>1. h # g /\ run'[h] = run[h]
      BY <1>1, <2>1 DEF Idle
    <3>2. run[h].cron \in Crons /\ run[g].cron \in Crons
      BY DEF ActivityInv, ActivityType, RunType
    <3>3. run[h].cron # run[g].cron /\ running[run[h].cron]
      BY <2>1, <3>1 DEF ActivityInv, FlagInv
    <3> QED
      BY <3>1, <3>2, <3>3 DEF EndRun, ActivityInv, ActivityType
  <2> QED
    BY <2>1 DEF ActivityInv, FlagInv
<1>4. ASSUME NEW h \in Runs PROVE RunOK(run[h])'
  <2>1. RunOK(run'[h])
    <3>1. RunOK(Idle)
      BY IdleOK DEF Crons
    <3> QED
      BY <1>1, <3>1 DEF ActivityInv
  <2> QED
    BY <2>1 DEF RunOK
<1>5. TableInv'
  <2>1. ASSUME NEW r \in db', received[r] # 0, r \notin doubt'
        PROVE  \E h \in Runs : run'[h].pc = "delete" /\ r \in ToSet(run'[h].em.ids)
    <3>1. PICK h \in Runs : run[h].pc = "delete" /\ r \in ToSet(run[h].em.ids)
      BY <2>1 DEF ActivityInv, TableInv
    <3>2. h # g
      BY <2>1, <3>1
    <3> QED
      BY <1>1, <3>1, <3>2
  <2> QED
    BY <2>1 DEF ActivityInv, TableInv
<1> QED
  BY <1>2, <1>3, <1>4, <1>5 DEF ActivityInv

LEMMA OutcomeValues ==
    ASSUME NEW answer, NEW tried
    PROVE  /\ Outcome(answer, tried) \in {"success", "retry", "failure"}
           /\ Outcome(answer, tried) = "success" <=> answer = "ok"
<1>1. CASE answer = "ok"
  BY <1>1 DEF Outcome
<1>2. CASE answer # "ok" /\ (Permanent(answer) \/ tried + 1 >= MaxAttempts)
  BY <1>2, Zenon DEF Outcome
<1>3. CASE answer # "ok" /\ ~(Permanent(answer) \/ tried + 1 >= MaxAttempts)
  BY <1>3, Zenon DEF Outcome
<1> QED
  BY <1>1, <1>2, <1>3

\* What an attempt of the request does to the rows of the run, and to no others.
LEMMA Delivered ==
    ASSUME ActivityInv, NEW g \in Runs, NEW a \in Attempts, SendActivityLogs(g, a), NEW r \in Rows
    PROVE  /\ received' \in [Rows -> 0..2]
           /\ r \notin run[g].em.files => received'[r] = received[r]
           /\ received[r] # 0 => received'[r] # 0
           /\ received'[r] = 2 => received[r] # 0
           /\ a.acted /\ r \in run[g].em.files => received'[r] # 0
<1>1. received \in [Rows -> 0..2]
  BY DEF ActivityInv, ActivityType
<1>2. received' = [x \in Rows |->
         IF a.acted /\ x \in run[g].em.files /\ received[x] < 2 THEN received[x] + 1 ELSE received[x]]
  BY DEF SendActivityLogs, Body
<1>3. received'[r] = IF a.acted /\ r \in run[g].em.files /\ received[r] < 2 THEN received[r] + 1 ELSE received[r]
  BY <1>2
<1>4. received' \in [Rows -> 0..2]
  <2>1. \A x \in Rows : received[x] \in 0..2 /\ (received[x] < 2 => received[x] + 1 \in 0..2)
    BY <1>1
  <2> QED
    BY <1>2, <2>1
<1>5. received[r] \in 0..2
  BY <1>1
<1> QED
  BY <1>3, <1>4, <1>5

LEMMA SendStep ==
    ASSUME ActivityInv, NEW g \in Runs, NEW a \in Attempts, SendActivityLogs(g, a)
    PROVE  ActivityInv'
<1> DEFINE files == run[g].em.files
           outcome == Outcome(a.answer, run[g].tried)
<1>1. outcome \in {"success", "retry", "failure"} /\ (outcome = "success" => a.acted)
  BY OutcomeValues DEF Attempts
<1>2. /\ UNCHANGED <<todo, saved, db>> /\ run[g].pc = "send" /\ doubt \subseteq doubt'
      /\ outcome # "success" => files \subseteq doubt'
  BY DEF SendActivityLogs
<1>3. RunOK(run[g]) /\ run[g] \in RunType /\ files = ToSet(run[g].em.ids) /\ files \subseteq Rows
  BY <1>2 DEF ActivityInv, ActivityType, RunOK, RunType
<1>4. /\ outcome = "success" => run' = [run EXCEPT ![g].pc = "delete"] /\ running' = running
      /\ outcome = "retry" => run' = [run EXCEPT ![g].tried = @ + 1] /\ running' = running
      /\ outcome = "failure" => EndRun(g)
  BY <1>1, Zenon DEF SendActivityLogs
<1> HIDE DEF files, outcome
<1>5. PICK q \in RunType :
        /\ run' = [run EXCEPT ![g] = q]
        /\ \/ q = Idle /\ outcome = "failure" /\ EndRun(g)
           \/ /\ running' = running /\ q.cron = run[g].cron /\ q.em = run[g].em /\ q.page = run[g].page
              /\ q.bad = run[g].bad
              /\ \/ outcome = "success" /\ q.pc = "delete"
                 \/ outcome = "retry" /\ q.pc = "send"
  <2>1. CASE outcome = "success"
    <3>1. [run[g] EXCEPT !.pc = "delete"] \in RunType
      BY <1>3 DEF RunType
    <3> QED
      BY <1>3, <1>4, <2>1, <3>1 DEF RunType
  <2>2. CASE outcome = "retry"
    <3>1. [run[g] EXCEPT !.tried = @ + 1] \in RunType
      BY <1>3 DEF RunType
    <3> QED
      BY <1>2, <1>3, <1>4, <2>2, <3>1 DEF RunType
  <2>3. CASE outcome = "failure"
    <3>1. Idle \in RunType
      BY IdleOK DEF Crons
    <3> QED
      BY <1>4, <2>3, <3>1 DEF EndRun
  <2> QED
    BY <1>1, <2>1, <2>2, <2>3
<1>6. run'[g] = q /\ (\A h \in Runs \ {g} : run'[h] = run[h]) /\ run' \in [Runs -> RunType]
  BY <1>5 DEF ActivityInv, ActivityType
<1>7. received' \in [Rows -> 0..2]
  <2>1. CASE Rows = {}
    BY <2>1 DEF SendActivityLogs
  <2>2. CASE Rows # {}
    BY <2>2, Delivered
  <2> QED
    BY <2>1, <2>2
<1>8. \A r \in Rows :
        /\ r \notin files => received'[r] = received[r]
        /\ received[r] # 0 => received'[r] # 0
        /\ received'[r] = 2 => received[r] # 0
        /\ outcome = "success" /\ r \in files => received'[r] # 0
  BY <1>1, Delivered DEF files
<1>9. ActivityType'
  <2>1. running' \in [Crons -> BOOLEAN]
    BY <1>5 DEF ActivityInv, ActivityType, EndRun
  <2> QED
    BY <1>2, <1>6, <1>7, <2>1 DEF ActivityInv, ActivityType
<1>10. FlagInv'
  <2>1. CASE q = Idle /\ EndRun(g)
    <3>1. ASSUME NEW h \in Runs, run'[h].pc # "idle"
          PROVE  run'[h] = run[h] /\ running'[run[h].cron]
      <4>1. h # g /\ run'[h] = run[h]
        BY <1>6, <2>1, <3>1 DEF Idle
      <4>2. run[h].cron \in Crons /\ run[g].cron \in Crons
        BY DEF ActivityInv, ActivityType, RunType
      <4>3. run[h].cron # run[g].cron /\ running[run[h].cron]
        BY <1>2, <3>1, <4>1 DEF ActivityInv, FlagInv
      <4> QED
        BY <2>1, <4>1, <4>2, <4>3 DEF EndRun, ActivityInv, ActivityType
    <3> QED
      BY <3>1 DEF ActivityInv, FlagInv
  <2>2. CASE running' = running /\ q.cron = run[g].cron /\ q.pc \in {"send", "delete"}
    BY <1>2, <1>6, <2>2 DEF ActivityInv, FlagInv
  <2> QED
    BY <1>5, <2>1, <2>2
<1>11. ASSUME NEW h \in Runs PROVE RunOK(run[h])'
  <2>1. CASE h # g
    <3>1. RunOK(run[h]) /\ run'[h] = run[h]
      BY <1>6, <2>1 DEF ActivityInv
    <3>2. run[h].pc # "idle" =>
            \A r \in ToSet(run[h].page) \cup run[h].em.files \cup ToSet(run[h].em.ids) : r \in Rows /\ r \notin files
      <4>1. run[h].pc # "idle" => run[h].cron # run[g].cron
        BY <1>2, <2>1 DEF ActivityInv, FlagInv
      <4>2. run[h].cron \in Crons /\ run[g].cron \in Crons
        BY DEF ActivityInv, ActivityType, RunType
      <4>3. run[h].pc # "idle" => OfCron(run[h].cron) \cap OfCron(run[g].cron) = {}
        BY <4>1, <4>2 DEF OfCron, Crons
      <4> QED
        BY <1>3, <3>1, <4>3 DEF RunOK, OfCron, files
    <3> QED
      BY <1>2, <1>8, <3>1, <3>2 DEF RunOK
  <2>2. CASE h = g /\ q = Idle
    <3>1. RunOK(Idle)'
      <4>1. ToSet(<<>>) = {}
        BY DEF ToSet
      <4> QED
        BY <4>1 DEF RunOK, Idle
    <3> QED
      BY <1>6, <2>2, <3>1
  <2>3. CASE h = g /\ q.cron = run[g].cron /\ q.em = run[g].em /\ q.page = run[g].page /\ q.bad = run[g].bad
             /\ ((outcome = "success" /\ q.pc = "delete") \/ (outcome = "retry" /\ q.pc = "send"))
    <3>1. run'[h] = q
      BY <1>6, <2>3
    <3>2. /\ ToSet(q.page) \cup q.em.files \cup q.bad \cup ToSet(q.em.ids) \subseteq saved' \cap OfCron(q.cron)
          /\ q.bad \subseteq Invalid /\ (q.cron = "sftp" => q.bad = {})
          /\ q.em.files = ToSet(q.em.ids)
      BY <1>2, <1>3, <2>3 DEF RunOK, files
    <3>3. q.pc = "delete" => \A r \in ToSet(q.em.ids) : received'[r] # 0
      BY <1>3, <1>8, <2>3 DEF files
    <3>4. q.pc = "send" => \A r \in ToSet(q.page) \cup q.em.files : received'[r] # 0 => r \in doubt'
      <4> SUFFICES ASSUME q.pc = "send", NEW r \in ToSet(q.page) \cup q.em.files, received'[r] # 0
                   PROVE  r \in doubt'
        OBVIOUS
      <4>1. CASE r \in files
        BY <1>2, <2>3, <4>1
      <4>2. CASE r \notin files
        <5>1. r \in Rows /\ r \in ToSet(run[g].page)
          BY <1>3, <2>3, <4>2 DEF RunOK, OfCron, files
        <5> QED
          BY <1>2, <1>3, <1>8, <4>2, <5>1 DEF RunOK
      <4> QED
        BY <4>1, <4>2
    <3> QED
      BY <2>3, <3>1, <3>2, <3>3, <3>4 DEF RunOK
  <2> QED
    BY <1>5, <2>1, <2>2, <2>3
<1>12. TableInv'
  <2>1. \A r \in Rows : received'[r] # 0 => r \in saved'
    BY <1>2, <1>3, <1>8 DEF RunOK, ActivityInv, TableInv, files
  <2>2. ASSUME NEW r \in db', received'[r] # 0, r \notin doubt'
        PROVE  \E h \in Runs : run'[h].pc = "delete" /\ r \in ToSet(run'[h].em.ids)
    <3>1. r \in Rows
      BY <1>2 DEF ActivityInv, ActivityType
    <3>2. CASE r \in files
      <4>1. outcome = "success"
        BY <1>2, <2>2, <3>2
      <4>2. q.pc = "delete" /\ q.em = run[g].em
        BY <1>5, <4>1
      <4> QED
        BY <1>3, <1>6, <3>2, <4>2
    <3>3. CASE r \notin files
      <4>1. received[r] # 0 /\ r \notin doubt /\ r \in db
        BY <1>2, <1>8, <2>2, <3>1, <3>3
      <4>2. PICK h \in Runs : run[h].pc = "delete" /\ r \in ToSet(run[h].em.ids)
        BY <4>1 DEF ActivityInv, TableInv
      <4> QED
        BY <1>2, <1>6, <4>2
    <3> QED
      BY <3>2, <3>3
  <2>3. \A r \in saved' \ db' : received'[r] # 0 \/ (r \in Invalid /\ ~IsSftp(r))
    BY <1>2, <1>8 DEF ActivityInv, ActivityType, TableInv
  <2>4. ASSUME NEW r \in Rows, received'[r] = 2 PROVE r \in doubt'
    <3>1. CASE r \in files
      BY <1>2, <1>3, <1>8, <2>4, <3>1 DEF RunOK, files
    <3>2. CASE r \notin files
      BY <1>2, <1>8, <2>4, <3>2 DEF ActivityInv, TableInv
    <3> QED
      BY <3>1, <3>2
  <2> QED
    BY <2>1, <2>2, <2>3, <2>4 DEF TableInv
<1> QED
  BY <1>9, <1>10, <1>11, <1>12 DEF ActivityInv

LEMMA FetchStep ==
    ASSUME ActivityInv, NEW g \in Runs, FetchActivity(g) \/ FetchSftp(g)
    PROVE  ActivityInv'
<1>1. run[g].pc = "fetch" /\ run[g] \in RunType /\ RunOK(run[g]) /\ db \subseteq Rows /\ run[g].offset \in Nat
  BY DEF ActivityInv, ActivityType, RunType, FetchActivity, FetchSftp
\* A row of the table that the Panel has is in doubt: only a run of the same job could
\* be about to delete it, and the flag leaves no such run.
<1>2. ASSUME NEW r \in db \cap OfCron(run[g].cron), received[r] # 0 PROVE r \in doubt
  <2> SUFFICES ASSUME r \notin doubt PROVE FALSE
    OBVIOUS
  <2>1. PICK h \in Runs : run[h].pc = "delete" /\ r \in ToSet(run[h].em.ids)
    BY <1>2 DEF ActivityInv, TableInv
  <2>2. r \in OfCron(run[h].cron)
    BY <2>1 DEF ActivityInv, RunOK
  <2>3. run[h].cron = run[g].cron
    BY <2>2 DEF OfCron, ActivityInv, ActivityType, RunType, Crons
  <2> QED
    BY <1>1, <2>1, <2>3 DEF ActivityInv, FlagInv
<1>3. ASSUME NEW page \in Seq(Rows), ToSet(page) \subseteq db \cap OfCron(run[g].cron), NEW q \in RunType,
             q.pc = "push", q.page = page, q.cron = run[g].cron, q.em = run[g].em, q.bad = run[g].bad
      PROVE  RunOK(q)
  BY <1>1, <1>2, <1>3 DEF RunOK, ActivityInv, ActivityType
<1>4. CASE FetchActivity(g)
  <2>1. PICK all \in Orders("activity") :
          LET page == Page(all, 0) IN
          IF page = <<>>
          THEN EndRun(g) /\ UNCHANGED <<todo, saved, db, received, doubt, faults>>
          ELSE run' = [run EXCEPT ![g] = [@ EXCEPT !.pc = "push", !.page = page]] /\ Unchanged
    BY <1>4 DEF FetchActivity
  <2>2. PICK page \in Seq(Rows) : page = Page(all, 0) /\ ToSet(page) \subseteq db \cap OfCron(run[g].cron)
    BY <1>1, <1>4, PageRows DEF FetchActivity, Crons
  <2>3. CASE page = <<>>
    BY <1>1, <2>1, <2>2, <2>3, RunEnds
  <2>4. CASE page # <<>>
    <3>1. PICK w \in RunType : w = run[g]
      BY <1>1
    <3>2. PICK q : q = [w EXCEPT !.pc = "push", !.page = page]
      OBVIOUS
    <3>3. /\ q \in RunType /\ q.pc = "push" /\ q.page = page /\ q.cron = w.cron
          /\ q.em = w.em /\ q.bad = w.bad
      BY <3>2 DEF RunType
    <3>4. RunOK(q)
      BY <1>3, <2>2, <3>1, <3>3
    <3>5. run' = [run EXCEPT ![g] = q] /\ Unchanged
      BY <2>1, <2>2, <2>4, <3>1, <3>2
    <3> QED
      BY <1>1, <3>1, <3>3, <3>4, <3>5, RunMoves DEF Unchanged
  <2> QED
    BY <2>3, <2>4
<1>5. CASE FetchSftp(g)
  <2>1. PICK all \in Orders("sftp") :
          LET page == Page(all, run[g].offset) IN
          run' = [run EXCEPT ![g] = [@ EXCEPT !.pc = "push", !.page = page,
                                              !.offset = run[g].offset + Len(page), !.slen = Len(run[g].em.ids)]]
    BY <1>5 DEF FetchSftp
  <2>2. PICK page \in Seq(Rows) :
          page = Page(all, run[g].offset) /\ ToSet(page) \subseteq db \cap OfCron(run[g].cron)
    BY <1>1, <1>5, PageRows DEF FetchSftp, Crons
  <2>3. PICK w \in RunType : w = run[g]
    BY <1>1
  <2>4. PICK o, n \in Nat : o = w.offset + Len(page) /\ n = Len(w.em.ids)
    <3>1. w.offset \in Nat /\ w.em.ids \in Seq(Rows)
      BY DEF RunType
    <3> QED
      BY <3>1
  <2>5. PICK q : q = [w EXCEPT !.pc = "push", !.page = page, !.offset = o, !.slen = n]
    OBVIOUS
  <2>6. /\ q \in RunType /\ q.pc = "push" /\ q.page = page /\ q.cron = w.cron
        /\ q.em = w.em /\ q.bad = w.bad
    BY <2>5 DEF RunType
  <2>7. RunOK(q)
    BY <1>3, <2>2, <2>3, <2>6
  <2>8. run' = [run EXCEPT ![g] = q] /\ Unchanged
    <3>1. run' = [run EXCEPT ![g] = [run[g] EXCEPT !.pc = "push", !.page = page,
                        !.offset = run[g].offset + Len(page), !.slen = Len(run[g].em.ids)]]
      BY <2>1, <2>2
    <3>2. q = [run[g] EXCEPT !.pc = "push", !.page = page,
                        !.offset = run[g].offset + Len(page), !.slen = Len(run[g].em.ids)]
      BY <2>3, <2>4, <2>5
    <3> QED
      BY <1>5, <3>1, <3>2 DEF FetchSftp
  <2> QED
    BY <1>1, <2>3, <2>6, <2>7, <2>8, RunMoves DEF Unchanged
<1> QED
  BY <1>4, <1>5

\* The two loops over a page: a row goes to the rows to send or to the invalid ones, or
\* it is left for the next run.
LEMMA PushStep ==
    ASSUME ActivityInv, NEW g \in Runs, PushRow(g)
    PROVE  ActivityInv'
<1>1. PICK w \in RunType : w = run[g] /\ RunOK(w) /\ w.pc = "push" /\ w.page # <<>>
  BY DEF ActivityInv, ActivityType, PushRow
<1>2. PICK r \in Rows : r = Head(w.page) /\ r \in ToSet(w.page)
  <2>1. w.page \in Seq(Rows)
    BY DEF RunType
  <2> QED
    BY <1>1, <2>1, ToSetHead
<1>3. PICK rest \in Seq(Rows) : rest = Tail(w.page) /\ ToSet(rest) \subseteq ToSet(w.page)
  <2>1. w.page \in Seq(Rows)
    BY DEF RunType
  <2> QED
    BY <1>1, <2>1, ToSetHead
<1>4. PICK checked :
        checked = IF w.cron = "sftp" THEN [em |-> Push(w.em, r), bad |-> {}] ELSE CheckRow(w.em, w.bad, r)
  OBVIOUS
<1>5. PICK q : q = [w EXCEPT !.page = rest, !.em = checked.em, !.bad = checked.bad]
  OBVIOUS
<1>6. run' = [run EXCEPT ![g] = q] /\ Unchanged
  <2>1. q = [run[g] EXCEPT !.page = Tail(run[g].page), !.em = checked.em, !.bad = checked.bad]
    BY <1>1, <1>3, <1>5
  <2>2. checked = IF run[g].cron = "sftp" THEN [em |-> Push(run[g].em, Head(run[g].page)), bad |-> {}]
                  ELSE CheckRow(run[g].em, run[g].bad, Head(run[g].page))
    BY <1>1, <1>2, <1>4
  <2> QED
    BY <2>1, <2>2 DEF PushRow
<1>7. /\ w.em \in [ids : Seq(Rows), files : SUBSET Rows] /\ w.bad \in SUBSET Rows
      /\ w.em.ids \in Seq(Rows) /\ w.em.files \subseteq Rows
  BY DEF RunType
<1>8. PICK more : more = [ids |-> Append(w.em.ids, r), files |-> w.em.files \cup {r}]
  OBVIOUS
<1>9. /\ more \in [ids : Seq(Rows), files : SUBSET Rows]
      /\ ToSet(more.ids) = ToSet(w.em.ids) \cup {r} /\ more.files = w.em.files \cup {r}
  BY <1>7, <1>8, ToSetAppend
<1>10. /\ checked.em = w.em \/ checked.em = more
       /\ checked.bad \in {{}, w.bad, w.bad \cup {r}}
       /\ w.cron = "sftp" => checked.bad = {}
       /\ r \in Invalid \/ checked.bad \in {{}, w.bad}
  <2>1. CASE w.cron = "sftp"
    BY <1>4, <1>8, <2>1 DEF Push
  <2>2. CASE w.cron # "sftp"
    BY <1>4, <1>8, <2>2 DEF CheckRow
  <2> QED
    BY <2>1, <2>2
<1>11. checked.em \in [ids : Seq(Rows), files : SUBSET Rows] /\ checked.bad \in SUBSET Rows
  BY <1>7, <1>9, <1>10
<1>12. /\ q \in RunType /\ q.pc = "push" /\ q.cron = w.cron /\ q.page = rest
       /\ q.em = checked.em /\ q.bad = checked.bad
  BY <1>1, <1>5, <1>11 DEF RunType
<1>13. RunOK(q)
  <2>1. /\ q.em.files = ToSet(q.em.ids) /\ q.em.files \subseteq w.em.files \cup {r}
        /\ w.em.files = ToSet(w.em.ids)
    <3>1. w.em.files = ToSet(w.em.ids)
      BY <1>1 DEF RunOK
    <3> QED
      BY <1>9, <1>10, <1>12, <3>1
  <2>2. ToSet(q.page) \cup q.em.files \subseteq ToSet(w.page) \cup w.em.files
    BY <1>2, <1>3, <1>12, <2>1
  <2>3. q.bad \subseteq w.bad \cup ToSet(w.page) /\ q.bad \subseteq Invalid /\ (q.cron = "sftp" => q.bad = {})
    <3>1. w.bad \subseteq Invalid
      BY <1>1 DEF RunOK
    <3> QED
      BY <1>2, <1>10, <1>12, <3>1
  <2> QED
    BY <1>1, <1>12, <2>1, <2>2, <2>3 DEF RunOK
<1> QED
  BY <1>1, <1>6, <1>12, <1>13, RunMoves DEF Unchanged

\* The end of a page: the invalid rows are deleted, or the next page is fetched.
LEMMA EndPageStep ==
    ASSUME ActivityInv, NEW g \in Runs, DropInvalid(g) \/ EndPage(g)
    PROVE  ActivityInv'
<1>1. PICK w \in RunType : w = run[g] /\ RunOK(w) /\ w.pc = "push"
  BY DEF ActivityInv, ActivityType, DropInvalid, EndPage
<1>2. ASSUME NEW pc \in {"fetch", "send"}
      PROVE  \E q \in RunType : q = [w EXCEPT !.pc = pc] /\ q.pc = pc /\ q.cron = w.cron /\ RunOK(q)
  <2>1. PICK q : q = [w EXCEPT !.pc = pc]
    OBVIOUS
  <2>2. /\ q \in RunType /\ q.pc = pc /\ q.cron = w.cron /\ q.page = w.page
        /\ q.em = w.em /\ q.bad = w.bad
    BY <2>1 DEF RunType
  <2>3. RunOK(q)
    BY <1>1, <2>2 DEF RunOK
  <2> QED
    BY <2>1, <2>2, <2>3
<1>3. CASE DropInvalid(g)
  <2>1. db' \subseteq db /\ \A r \in db \ db' : r \in Invalid /\ ~IsSftp(r)
    BY <1>1, <1>3 DEF DropInvalid, RunOK, OfCron
  <2>2. CASE EndRun(g)
    BY <1>1, <1>3, <2>1, <2>2, RunEnds DEF DropInvalid
  <2>3. CASE run' = [run EXCEPT ![g].pc = "send"] /\ UNCHANGED running
    <3>1. PICK q \in RunType : q = [w EXCEPT !.pc = "send"] /\ q.pc = "send" /\ q.cron = w.cron /\ RunOK(q)
      BY <1>2
    <3>2. run' = [run EXCEPT ![g] = q] /\ UNCHANGED <<todo, saved, running, received, doubt>>
      BY <1>1, <1>3, <2>3, <3>1 DEF DropInvalid
    <3> QED
      BY <1>1, <2>1, <3>1, <3>2, RunMoves
  <2> QED
    BY <1>3, <2>2, <2>3 DEF DropInvalid
<1>4. CASE EndPage(g)
  <2>1. CASE EndRun(g) /\ UNCHANGED <<todo, saved, db, received, doubt, faults>>
    BY <1>1, <2>1, RunEnds
  <2>2. ASSUME NEW pc \in {"fetch", "send"}, run' = [run EXCEPT ![g].pc = pc], Unchanged
        PROVE  ActivityInv'
    <3>1. PICK q \in RunType : q = [w EXCEPT !.pc = pc] /\ q.pc = pc /\ q.cron = w.cron /\ RunOK(q)
      BY <1>2
    <3>2. run' = [run EXCEPT ![g] = q] /\ UNCHANGED <<todo, saved, db, running, received, doubt>>
      BY <1>1, <2>2, <3>1 DEF Unchanged
    <3> QED
      BY <1>1, <3>1, <3>2, RunMoves
  <2> QED
    BY <1>4, <2>1, <2>2 DEF EndPage
<1> QED
  BY <1>3, <1>4

LEMMA DeleteStep ==
    ASSUME ActivityInv, NEW g \in Runs, DeleteChunk(g)
    PROVE  ActivityInv'
<1>1. PICK w \in RunType : w = run[g] /\ RunOK(w) /\ w.pc = "delete"
  BY DEF ActivityInv, ActivityType, DeleteChunk
<1>2. PICK ids \in Seq(Rows) : ids = w.em.ids
  BY DEF RunType
<1>3. ChunkSize \in Nat \ {0}
  BY ActivityAssumption
<1>4. PICK chunk : chunk = SubSeq(ids, 1, IF Len(ids) < ChunkSize THEN Len(ids) ELSE ChunkSize)
  OBVIOUS
<1>5. /\ db' = db \ ToSet(chunk)
      /\ IF Len(chunk) = Len(ids)
         THEN EndRun(g)
         ELSE /\ run' = [run EXCEPT ![g].em = [@ EXCEPT !.ids = SubSeq(ids, ChunkSize + 1, Len(ids))]]
              /\ UNCHANGED running
      /\ UNCHANGED <<todo, saved, received, doubt, faults>>
  BY <1>1, <1>2, <1>4 DEF DeleteChunk
<1>6. \A r \in ToSet(ids) : received[r] # 0
  BY <1>1, <1>2 DEF RunOK
<1>7. CASE Len(chunk) = Len(ids)
  <2>1. ToSet(chunk) = ToSet(ids)
    <3>1. chunk = SubSeq(ids, 1, Len(ids))
      BY <1>3, <1>4, <1>7
    <3>2. SubSeq(ids, 1, Len(ids)) = ids
      OBVIOUS
    <3> QED
      BY <3>1, <3>2
  <2> QED
    BY <1>1, <1>2, <1>5, <1>6, <1>7, <2>1, RunEnds
<1>8. CASE Len(chunk) # Len(ids)
  <2>1. ChunkSize < Len(ids) /\ chunk = SubSeq(ids, 1, ChunkSize)
    BY <1>3, <1>4, <1>8
  <2>2. PICK rest \in Seq(Rows) :
          rest = SubSeq(ids, ChunkSize + 1, Len(ids)) /\ ToSet(ids) = ToSet(chunk) \cup ToSet(rest)
    <3>1. ChunkSize \in Nat
      BY <1>3
    <3>2. /\ SubSeq(ids, ChunkSize + 1, Len(ids)) \in Seq(Rows)
          /\ ToSet(ids) = ToSet(SubSeq(ids, 1, ChunkSize)) \cup ToSet(SubSeq(ids, ChunkSize + 1, Len(ids)))
      BY <2>1, <3>1, ToSetChunks, Zenon
    <3> QED
      BY <2>1, <3>2, Zenon
  <2>3. PICK em : em = [w.em EXCEPT !.ids = rest]
    OBVIOUS
  <2>4. em \in [ids : Seq(Rows), files : SUBSET Rows] /\ em.ids = rest /\ em.files = w.em.files
    BY <2>3 DEF RunType
  <2>5. PICK q : q = [w EXCEPT !.em = em]
    OBVIOUS
  <2>6. /\ q \in RunType /\ q.pc = w.pc /\ q.cron = w.cron /\ q.page = w.page /\ q.em = em
        /\ q.bad = w.bad
    BY <2>4, <2>5 DEF RunType
  <2>7. RunOK(q)
    BY <1>1, <1>2, <2>2, <2>4, <2>6 DEF RunOK
  <2>8. run' = [run EXCEPT ![g] = q] /\ UNCHANGED running
    BY <1>1, <1>5, <1>8, <2>2, <2>3, <2>5
  <2> QED
    BY <1>1, <1>2, <1>5, <1>6, <2>2, <2>4, <2>6, <2>7, <2>8, RunMoves
<1> QED
  BY <1>7, <1>8

LEMMA SaveStep ==
    ASSUME ActivityInv, NEW r \in Rows, SaveActivity(r)
    PROVE  ActivityInv'
<1>1. /\ r \in todo /\ r \notin saved /\ todo' = todo \ {r} /\ saved' = saved \cup {r} /\ db' = db \cup {r}
      /\ UNCHANGED <<running, run, received, doubt>>
  BY DEF SaveActivity, ActivityInv, ActivityType
<1>2. received[r] = 0
  BY <1>1 DEF ActivityInv, TableInv
<1>3. ActivityType' /\ FlagInv'
  BY <1>1 DEF ActivityInv, ActivityType, FlagInv
<1>4. ASSUME NEW h \in Runs PROVE RunOK(run[h])'
  <2>1. RunOK(run[h])
    BY DEF ActivityInv
  <2> QED
    BY <1>1, <2>1 DEF RunOK
<1>5. TableInv'
  BY <1>1, <1>2 DEF ActivityInv, TableInv
<1> QED
  BY <1>3, <1>4, <1>5 DEF ActivityInv

LEMMA TickStep ==
    ASSUME ActivityInv, NEW g \in Runs, NEW c \in Crons, Tick(g, c)
    PROVE  ActivityInv'
<1>1. PICK q : q = [Idle EXCEPT !.cron = c, !.pc = "fetch"]
  OBVIOUS
<1>2. q \in RunType /\ RunOK(q) /\ q.cron = c /\ q.pc = "fetch"
  <2>1. q \in RunType /\ RunOK(q)
    BY <1>1, IdleOK
  <2> QED
    BY <1>1, <2>1 DEF Idle
<1>3. /\ run' = [run EXCEPT ![g] = q] /\ run[g].pc = "idle" /\ ~running[c]
      /\ running' = [running EXCEPT ![c] = TRUE]
      /\ UNCHANGED <<todo, saved, db, received, doubt>>
  BY <1>1 DEF Tick
<1>4. run'[g] = q /\ (\A h \in Runs \ {g} : run'[h] = run[h]) /\ run' \in [Runs -> RunType]
  BY <1>2, <1>3 DEF ActivityInv, ActivityType
<1>5. ActivityType'
  BY <1>3, <1>4 DEF ActivityInv, ActivityType
<1>6. FlagInv'
  <2>1. ASSUME NEW h \in Runs, h # g, run[h].pc # "idle"
        PROVE  run[h].cron # c /\ running'[run[h].cron]
    <3>1. running[run[h].cron] /\ run[h].cron \in Crons
      BY <2>1 DEF ActivityInv, FlagInv, ActivityType, RunType
    <3> QED
      BY <1>3, <3>1 DEF ActivityInv, ActivityType
  <2>2. running'[c]
    BY <1>3 DEF ActivityInv, ActivityType
  <2> QED
    BY <1>2, <1>4, <2>1, <2>2 DEF ActivityInv, FlagInv
<1>7. ASSUME NEW h \in Runs PROVE RunOK(run[h])'
  <2>1. RunOK(run'[h])
    BY <1>2, <1>4 DEF ActivityInv
  <2> QED
    BY <1>3, <2>1 DEF RunOK
<1>8. TableInv'
  <2>1. ASSUME NEW r \in db', received[r] # 0, r \notin doubt
        PROVE  \E h \in Runs : run'[h].pc = "delete" /\ r \in ToSet(run'[h].em.ids)
    <3>1. PICK h \in Runs : run[h].pc = "delete" /\ r \in ToSet(run[h].em.ids)
      BY <1>3, <2>1 DEF ActivityInv, TableInv
    <3> QED
      BY <1>3, <1>4, <3>1
  <2> QED
    BY <1>3, <2>1 DEF ActivityInv, TableInv
<1> QED
  BY <1>5, <1>6, <1>7, <1>8 DEF ActivityInv

LEMMA CrashStep ==
    ASSUME ActivityInv, Crash
    PROVE  ActivityInv'
<1>1. \A g \in Runs : run'[g] = Idle
  BY DEF Crash
<1>2. /\ UNCHANGED <<todo, saved, db, received>> /\ doubt \subseteq doubt'
      /\ \A g \in Runs : run[g].pc = "delete" => ToSet(run[g].em.ids) \subseteq doubt'
  BY DEF Crash
<1>3. ActivityType' /\ FlagInv'
  <2>1. Idle \in RunType
    BY IdleOK DEF Crons
  <2>2. run' \in [Runs -> RunType] /\ running' \in [Crons -> BOOLEAN]
    BY <2>1 DEF Crash
  <2>3. Idle.pc = "idle"
    BY DEF Idle
  <2> QED
    BY <1>1, <1>2, <2>2, <2>3 DEF ActivityInv, ActivityType, FlagInv
<1>4. ASSUME NEW h \in Runs PROVE RunOK(run[h])'
  <2>1. RunOK(run'[h])
    BY <1>1, IdleOK DEF Crons
  <2> QED
    BY <1>2, <2>1 DEF RunOK
<1>5. TableInv'
  BY <1>2 DEF ActivityInv, TableInv
<1> QED
  BY <1>3, <1>4, <1>5 DEF ActivityInv

LEMMA ActivityStep ==
    ASSUME ActivityInv, [ActivityNext]_activityVars
    PROVE  ActivityInv'
<1>1. CASE UNCHANGED activityVars
  BY <1>1 DEF activityVars, ActivityInv, ActivityType, FlagInv, RunOK, TableInv
<1>2. CASE \E r \in Rows : SaveActivity(r)
  BY <1>2, SaveStep
<1>3. CASE \E g \in Runs, c \in Crons : Tick(g, c)
  BY <1>3, TickStep
<1>4. ASSUME NEW g \in Runs, Step(g) PROVE ActivityInv'
  BY <1>4, FetchStep, PushStep, EndPageStep, DeleteStep, SendStep DEF Step
<1>5. ASSUME NEW g \in Runs, StatementFails(g) PROVE ActivityInv'
  <2>1. run[g].pc # "idle" /\ EndRun(g) /\ UNCHANGED <<todo, saved, db, received>> /\ doubt \subseteq doubt'
    BY <1>5 DEF StatementFails
  <2>2. run[g].pc = "delete" => ToSet(run[g].em.ids) \subseteq doubt'
    BY <1>5 DEF StatementFails
  <2> QED
    BY <2>1, <2>2, RunEnds
<1>6. CASE Crash
  BY <1>6, CrashStep
<1> QED
  BY <1>1, <1>2, <1>3, <1>4, <1>5, <1>6 DEF ActivityNext

LEMMA ActivityStart ==
    ASSUME NEW rows \in SUBSET Rows, ActivityInit(rows)
    PROVE  ActivityInv
<1>1. Idle \in RunType /\ RunOK(Idle) /\ Idle.pc = "idle"
  <2>1. Idle \in RunType /\ RunOK(Idle)
    BY IdleOK DEF Crons
  <2> QED
    BY <2>1 DEF Idle
<1>2. received \in [Rows -> 0..2] /\ \A r \in Rows : received[r] = 0
  BY DEF ActivityInit
<1>3. ActivityType
  BY <1>1, <1>2 DEF ActivityInit, ActivityType
<1>4. FlagInv /\ \A g \in Runs : RunOK(run[g])
  BY <1>1 DEF ActivityInit, FlagInv
<1>5. TableInv
  BY <1>2 DEF ActivityInit, TableInv
<1> QED
  BY <1>3, <1>4, <1>5 DEF ActivityInv

\* Activity, once saved, is in the table until the Panel has received it, for any table,
\* any limits of a page, a request and a statement, and wherever statements fail, requests
\* are repeated or the daemon crashes; only rows with an invalid IP are dropped.
THEOREM ActivityIsKept == ActivitySpec => []NothingLost
<1>1. (\E rows \in SUBSET Rows : ActivityInit(rows)) => ActivityInv
  BY ActivityStart
<1>2. ActivityInv => NothingLost
  <2> SUFFICES ASSUME ActivityInv, NEW r \in saved \ db, received[r] # 0 PROVE received[r] > 0
    BY DEF ActivityInv, TableInv, NothingLost
  <2>1. received[r] \in 0..2
    BY DEF ActivityInv, ActivityType
  <2> QED
    BY <2>1
<1> QED
  BY <1>1, <1>2, ActivityStep, PTL DEF ActivitySpec

\* The Panel receives a row a second time only if an earlier request with it was not known
\* to succeed or its deletion was interrupted: the SwapIf of each job keeps a second run away
\* from what the first is about to delete, whatever is saved while a job pages.
THEOREM ActivityIsSentOnce == ActivitySpec => []SentOnce
<1>1. (\E rows \in SUBSET Rows : ActivityInit(rows)) => ActivityInv
  BY ActivityStart
<1>2. ActivityInv => SentOnce
  BY DEF ActivityInv, TableInv, SentOnce
<1> QED
  BY <1>1, <1>2, ActivityStep, PTL DEF ActivitySpec

-----------------------------------------------------------------------------
(* Archives.                                                                *)

UploadSpec == UploadInit("create") /\ [][UploadNext]_uploadVars

\* Where a part begins in the archive.
Start(i) == (i - 1) * PartSize

LEMMA DivFacts ==
    ASSUME NEW a \in Nat, NEW b \in Nat \ {0}
    PROVE  a \div b \in Nat /\ (a \div b) * b <= a /\ a < (a \div b) * b + b
OBVIOUS

LEMMA TimesMonotone ==
    ASSUME NEW x \in Int, NEW y \in Int, NEW b \in Nat, x <= y
    PROVE  x * b \in Int /\ y * b \in Int /\ x * b <= y * b
<1>1. PICK d \in Nat : y = x + d
  <2>1. y - x \in Nat /\ y = x + (y - x)
    OBVIOUS
  <2> QED
    BY <2>1
<1>2. y * b = x * b + d * b
  BY <1>1
<1>3. d * b \in Nat /\ x * b \in Int
  OBVIOUS
<1> QED
  BY <1>2, <1>3

\* There is a part for every byte and no empty one, and a place for each in S3.
LEMMA PartsFacts ==
    ASSUME size \in 1..MaxSize
    PROVE  /\ Parts \in Nat \ {0} /\ MaxParts \in Nat /\ Parts <= MaxParts
           /\ Start(Parts) < size /\ size <= Start(Parts) + PartSize
<1>1. PartSize \in Nat \ {0} /\ MaxSize \in Nat \ {0} /\ size \in Nat \ {0} /\ size <= MaxSize
  BY UploadAssumption
<1>2. PICK a \in Nat : a = size + PartSize - 1
  BY <1>1
<1>3. PICK c \in Nat : c = MaxSize + PartSize - 1
  BY <1>1
<1>4. PICK p \in Nat : p = Parts /\ p * PartSize <= a /\ a < p * PartSize + PartSize
  BY <1>1, <1>2, DivFacts DEF Parts
<1>5. PICK m \in Nat : m = MaxParts /\ m * PartSize <= c /\ c < m * PartSize + PartSize
  BY <1>1, <1>3, DivFacts DEF MaxParts
<1>6. p # 0
  BY <1>1, <1>2, <1>4
<1>7. p <= m
  <2> SUFFICES ASSUME m + 1 <= p PROVE FALSE
    BY <1>4, <1>5
  <2>1. (m + 1) * PartSize <= p * PartSize
    BY <1>1, TimesMonotone
  <2>2. (m + 1) * PartSize = m * PartSize + PartSize
    BY <1>1
  <2>3. m * PartSize \in Nat /\ p * PartSize \in Nat
    BY <1>1
  <2> QED
    BY <1>1, <1>2, <1>3, <1>4, <1>5, <2>1, <2>2, <2>3
<1>8. (p - 1) * PartSize = p * PartSize - PartSize /\ p * PartSize \in Nat
  BY <1>1
<1>9. (p - 1) * PartSize < size /\ size <= (p - 1) * PartSize + PartSize
  BY <1>1, <1>2, <1>4, <1>8
<1> QED
  BY <1>4, <1>5, <1>6, <1>7, <1>9 DEF Start

LEMMA MinOfTwo ==
    ASSUME NEW x \in Int, NEW y \in Int, x <= y
    PROVE  Min({x, y}) = x /\ Min({y, x}) = x
BY DEF Min

\* Parts are consecutive, and each ends where BackupStored says.
LEMMA PartFacts ==
    ASSUME size \in 1..MaxSize, NEW i \in 1..Parts
    PROVE  /\ i \in 1..MaxParts /\ Start(i) \in Nat /\ PartBytes(i) \in Nat
           /\ i < Parts => Start(i + 1) = Start(i) + PartBytes(i)
           /\ Start(i) + PartBytes(i) = Min({i * PartSize, size})
           /\ i + 1 \in Nat /\ (i + 1 > Parts => i = Parts) /\ (i + 1 <= Parts => i < Parts)
<1>1. PartSize \in Nat \ {0} /\ size \in Nat \ {0}
  BY UploadAssumption
<1>2. /\ Parts \in Nat \ {0} /\ MaxParts \in Nat /\ Parts <= MaxParts
      /\ Start(Parts) < size /\ size <= Start(Parts) + PartSize
  BY PartsFacts
<1> HIDE DEF Parts, MaxParts
<1>3. i \in Nat /\ i >= 1 /\ i <= Parts
  BY <1>2
<1>4. i * PartSize \in Nat /\ Start(i) = i * PartSize - PartSize /\ Start(i + 1) = i * PartSize
  BY <1>1, <1>3 DEF Start
<1>5. Start(i) \in Nat
  <2>1. (i - 1) \in Nat
    BY <1>3
  <2> QED
    BY <1>1, <2>1 DEF Start
<1>6. CASE i < Parts
  <2>1. PartBytes(i) = PartSize
    BY <1>6 DEF PartBytes
  <2>2. i * PartSize <= (Parts - 1) * PartSize
    <3>1. i <= Parts - 1 /\ Parts - 1 \in Int /\ i \in Int /\ PartSize \in Nat
      BY <1>1, <1>2, <1>3, <1>6
    <3> QED
      BY <3>1, TimesMonotone
  <2>3. i * PartSize <= size
    BY <1>1, <1>2, <1>4, <2>2 DEF Start
  <2>4. Min({i * PartSize, size}) = i * PartSize
    BY <1>1, <1>4, <2>3, MinOfTwo
  <2> QED
    BY <1>1, <1>2, <1>3, <1>4, <1>5, <1>6, <2>1, <2>4
<1>7. CASE i = Parts
  <2>1. PartBytes(i) = size - Start(i)
    BY <1>2, <1>7 DEF PartBytes, Start
  <2>2. size <= i * PartSize
    BY <1>1, <1>2, <1>4, <1>7
  <2>3. Min({i * PartSize, size}) = size
    BY <1>1, <1>4, <2>2, MinOfTwo
  <2> QED
    BY <1>1, <1>2, <1>3, <1>4, <1>5, <1>7, <2>1, <2>3
<1> QED
  BY <1>2, <1>3, <1>6, <1>7

UploadPCs == {"create", "urls", "part", "details", "finalize", "done"}
UpType == [pc : UploadPCs, part : Nat, tried : Nat]
ReportType == [at : {"create", "finalize", "done"}, status : {"running", "completed", "failed"}, tried : Nat]

UploadType ==
    /\ adapter \in {"local", "s3"} /\ size \in 1..MaxSize /\ up \in UpType
    /\ pos \in Nat /\ left \in Nat
    /\ stored \in [1..MaxParts -> Nat \X Nat]

Right(i) == stored[i] = <<Start(i), Start(i) + PartBytes(i)>>

\* While a part is sent what is left of its body is the rest of the part, so that a body that
\* is complete is one no attempt has read from; the parts before it are stored.
PartInv ==
    /\ up.pc \in {"create", "urls"} => pos = 0
    /\ up.pc \in {"urls", "part"} => adapter = "s3"
    /\ up.pc = "part" =>
         /\ up.part \in 1..Parts
         /\ left <= PartBytes(up.part) /\ pos + left = Start(up.part) + PartBytes(up.part)
         /\ \A j \in 1..Parts : j < up.part => Right(j)

Stored ==
    /\ adapter = "local" => file = "whole"
    /\ adapter = "s3" => \A i \in 1..Parts : Right(i)

EndInv ==
    /\ up.pc \in {"details", "finalize"} => Stored
    /\ up.pc \in {"finalize", "done"} /\ adapter = "s3" => file # "whole"
    /\ result = "ok" => up.pc = "done" /\ Stored

\* No report, and so not the Panel, is ahead of the job.
ReportInv ==
    /\ reports \subseteq ReportType
    /\ \A r \in reports : r.status = "completed" => result = "ok"
    /\ status = "completed" => result = "ok"

UploadInv == UploadType /\ PartInv /\ EndInv /\ ReportInv

\* Steps that store nothing.
LEMMA GotoType ==
    ASSUME UploadInv, NEW pc \in UploadPCs, Goto(pc)
    PROVE  up' \in UpType /\ up'.pc = pc
BY DEF UploadInv, UploadType, Goto, UpType

LEMMA EndsFacts ==
    ASSUME UploadInv, up.pc # "done", NEW res \in {"ok", "error"}, Ends(res), UNCHANGED status
    PROVE  up' \in UpType /\ up'.pc = "done" /\ result' = res /\ ReportInv'
<1>1. result # "ok" /\ status # "completed" /\ \A r \in reports : r.status # "completed"
  BY DEF UploadInv, EndInv, ReportInv
<1>2. PICK n \in ReportType :
        /\ reports' = reports \cup {n} /\ n.status = IF res = "ok" THEN "completed" ELSE "failed"
  <2>1. NewReport("done", IF res = "ok" THEN "completed" ELSE "failed") \in ReportType
    BY DEF NewReport, ReportType
  <2> QED
    BY <2>1 DEF Ends, NewReport
<1>3. ReportInv'
  BY <1>1, <1>2 DEF Ends, UploadInv, ReportInv
<1> QED
  BY <1>3, GotoType DEF Ends, UploadPCs

LEMMA RetryType ==
    ASSUME UploadInv, up' = [up EXCEPT !.tried = @ + 1]
    PROVE  up' \in UpType /\ up'.pc = up.pc /\ up'.part = up.part
BY DEF UploadInv, UploadType, UpType

\* The request of the first part, or of the part after one that is stored.
LEMMA PartBegins ==
    ASSUME UploadInv, UploadType', NEW i \in Nat \ {0}, BeginPart(i), adapter = "s3",
           UNCHANGED <<adapter, size, result>>, up.pc # "done",
           i <= Parts => pos' = Start(i),
           \A j \in 1..Parts : j < i => Right(j)'
    PROVE  PartInv' /\ EndInv'
<1>1. size \in 1..MaxSize /\ Parts' = Parts /\ Parts \in Nat
  BY PartsFacts DEF UploadInv, UploadType, Parts
<1> HIDE DEF Parts
<1>2. \A j \in 1..Parts : PartBytes(j)' = PartBytes(j)
  BY <1>1 DEF PartBytes
<1>3. CASE i > Parts
  <2>1. up'.pc = "details"
    BY <1>3 DEF BeginPart
  <2>2. \A j \in 1..Parts : Right(j)'
    BY <1>1, <1>3
  <2> QED
    BY <1>1, <2>1, <2>2 DEF UploadInv, PartInv, EndInv, Stored
<1>4. CASE i <= Parts
  <2>1. up'.pc = "part" /\ up'.part = i /\ left' = PartBytes(i) /\ i \in 1..Parts
    BY <1>1, <1>4 DEF BeginPart
  <2>2. PartBytes(i) \in Nat /\ Start(i) \in Nat /\ Start(i)' = Start(i) /\ PartBytes(i)' = PartBytes(i)
    BY <1>1, <1>2, <2>1, PartFacts DEF Start
  <2>3. left' <= PartBytes(i) /\ pos' + left' = Start(i) + PartBytes(i)
    BY <1>4, <2>1, <2>2
  <2> QED
    BY <1>1, <2>1, <2>2, <2>3 DEF UploadInv, PartInv, EndInv
<1> QED
  BY <1>1, <1>3, <1>4

LEMMA URLsStep ==
    ASSUME UploadInv, NEW a \in Attempts, GetUploadURLs(a)
    PROVE  UploadInv'
<1> DEFINE outcome == Outcome(a.answer, up.tried)
<1>1. outcome \in {"success", "retry", "failure"}
  BY OutcomeValues
<1>2. up.pc = "urls" /\ adapter = "s3" /\ pos = 0 /\ UNCHANGED <<adapter, size, pos, stored, status>>
  BY DEF UploadInv, PartInv, GetUploadURLs
<1>3. /\ outcome = "success" => BeginPart(1) /\ UNCHANGED <<file, result, reports>>
      /\ outcome = "retry" => up' = [up EXCEPT !.tried = @ + 1] /\ UNCHANGED <<left, file, result, reports>>
      /\ outcome = "failure" => Ends("error") /\ Cleanup /\ UNCHANGED left
  BY <1>1, Zenon DEF GetUploadURLs
<1> HIDE DEF outcome
<1>4. CASE outcome = "success"
  <2>1. PartBytes(1) \in Nat /\ Start(1) = 0 /\ Parts \in Nat \ {0}
    <3>1. Parts \in Nat \ {0}
      BY PartsFacts DEF UploadInv, UploadType
    <3>2. 1 \in 1..Parts
      BY <3>1
    <3>3. Start(1) = 0
      BY UploadAssumption DEF Start
    <3>4. PartBytes(1) \in Nat
      BY <3>2, PartFacts DEF UploadInv, UploadType
    <3> QED
      BY <3>1, <3>3, <3>4
  <2>2. up' \in UpType /\ left' \in Nat
    BY <1>3, <1>4, <2>1 DEF BeginPart, UpType, UploadPCs, UploadInv, UploadType
  <2>3. UploadType' /\ ReportInv'
    BY <1>2, <1>3, <1>4, <2>2 DEF UploadInv, UploadType, ReportInv
  <2>4. \A j \in 1..Parts : ~(j < 1)
    BY <2>1
  <2>5. PartInv' /\ EndInv'
    BY <1>2, <1>3, <1>4, <2>1, <2>3, <2>4, PartBegins
  <2> QED
    BY <2>3, <2>5 DEF UploadInv
<1>5. CASE outcome = "retry"
  <2>1. up' \in UpType /\ up'.pc = "urls"
    BY <1>2, <1>3, <1>5, RetryType
  <2> QED
    BY <1>2, <1>3, <1>5, <2>1 DEF UploadInv, UploadType, PartInv, EndInv, ReportInv
<1>6. CASE outcome = "failure"
  <2>1. up' \in UpType /\ up'.pc = "done" /\ result' = "error" /\ ReportInv'
    BY <1>2, <1>3, <1>6, EndsFacts
  <2>2. file' = "absent"
    BY <1>2, <1>3, <1>6 DEF Cleanup
  <2> QED
    BY <1>2, <1>3, <1>6, <2>1, <2>2 DEF UploadInv, UploadType, PartInv, EndInv
<1> QED
  BY <1>1, <1>4, <1>5, <1>6

\* One attempt at a part. S3 takes a complete body only, which is one that no earlier attempt
\* has read from, so what it stores is the part.
LEMMA PartStep ==
    ASSUME UploadInv, NEW a \in Attempts, NEW read \in 0..left, UploadPart(a, read)
    PROVE  UploadInv'
<1> DEFINE outcome == Outcome(a.answer, up.tried)
<1>0. PICK i \in Nat : i = up.part
  BY DEF UploadInv, UploadType, UpType
<1>1. outcome \in {"success", "retry", "failure"} /\ (outcome = "success" => a.acted)
  BY OutcomeValues DEF Attempts
<1>2. /\ up.pc = "part" /\ UNCHANGED <<adapter, size, status>> /\ pos' = pos + read
      /\ a.acted => read = PartBytes(i)
      /\ stored' = IF a.acted THEN [stored EXCEPT ![i] = <<pos, pos + read>>] ELSE stored
  BY <1>0 DEF UploadPart, BodyComplete
<1>3. /\ outcome = "success" => BeginPart(i + 1) /\ UNCHANGED <<file, result, reports>>
      /\ outcome = "retry" => /\ up' = [up EXCEPT !.tried = @ + 1] /\ left' = left - read
                              /\ UNCHANGED <<file, result, reports>>
      /\ outcome = "failure" => Ends("error") /\ Cleanup /\ UNCHANGED left
  BY <1>0, <1>1, Zenon DEF UploadPart
<1>4. /\ adapter = "s3" /\ i \in 1..Parts /\ size \in 1..MaxSize /\ pos \in Nat /\ left \in Nat
      /\ left <= PartBytes(i) /\ pos + left = Start(i) + PartBytes(i)
      /\ stored \in [1..MaxParts -> Nat \X Nat]
  BY <1>0, <1>2 DEF UploadInv, UploadType, PartInv
<1> HIDE DEF outcome
<1>5. /\ i \in 1..MaxParts /\ Start(i) \in Nat /\ PartBytes(i) \in Nat
      /\ i < Parts => Start(i + 1) = Start(i) + PartBytes(i)
      /\ i + 1 \in Nat \ {0} /\ (i + 1 > Parts => i = Parts) /\ (i + 1 <= Parts => i < Parts)
  <2>1. i + 1 \in Nat \ {0}
    OBVIOUS
  <2> QED
    BY <1>4, <2>1, PartFacts
<1>6. /\ read \in Nat /\ pos' \in Nat /\ left - read \in Nat /\ left - read <= PartBytes(i)
      /\ pos' + (left - read) = Start(i) + PartBytes(i)
      /\ a.acted => pos = Start(i) /\ pos' = Start(i) + PartBytes(i)
  <2>1. PICK s, b \in Nat : s = Start(i) /\ b = PartBytes(i)
    BY <1>5
  <2>2. read \in Nat /\ read <= left /\ left <= b /\ pos + left = s + b /\ pos \in Nat /\ pos' = pos + read
    BY <1>2, <1>4, <2>1
  <2>3. pos' \in Nat /\ left - read \in Nat /\ left - read <= b /\ pos' + (left - read) = s + b
    BY <1>4, <2>2
  <2>4. read = b => pos = s /\ pos' = s + b
    BY <1>4, <2>2
  <2> QED
    BY <1>2, <2>1, <2>2, <2>3, <2>4
<1>7. stored' \in [1..MaxParts -> Nat \X Nat]
  BY <1>2, <1>4, <1>5, <1>6
<1>8. /\ \A j \in 1..Parts : j < i => Right(j)'
      /\ a.acted => Right(i)'
  <2>1. Start(i)' = Start(i) /\ \A j \in 1..Parts : PartBytes(j)' = PartBytes(j) /\ Start(j)' = Start(j)
    BY <1>2 DEF Start, PartBytes, Parts
  <2>2. \A j \in 1..Parts : j < i => j # i /\ j \in 1..MaxParts /\ Right(j)
    <3>1. Parts \in Nat /\ MaxParts \in Nat /\ Parts <= MaxParts
      BY <1>4, PartsFacts
    <3> HIDE DEF Parts, MaxParts
    <3>2. \A j \in 1..Parts : j < i => j # i /\ j \in 1..MaxParts
      BY <1>4, <3>1
    <3> QED
      BY <1>0, <1>2, <3>2 DEF UploadInv, PartInv
  <2>3. \A j \in 1..MaxParts : j # i => stored'[j] = stored[j]
    BY <1>2, <1>4
  <2>4. a.acted => stored'[i] = <<Start(i), Start(i) + PartBytes(i)>>
    BY <1>2, <1>4, <1>5, <1>6
  <2> QED
    BY <1>4, <2>1, <2>2, <2>3, <2>4 DEF Right
<1>9. CASE outcome = "success"
  <2>1. up' \in UpType /\ left' \in Nat
    <3>1. i + 1 <= Parts => PartBytes(i + 1) \in Nat
      <4>1. i + 1 <= Parts => i + 1 \in 1..Parts
        BY <1>5, PartsFacts, <1>4
      <4> QED
        BY <1>4, <4>1, PartFacts
    <3>2. ~(i + 1 > Parts) => i + 1 <= Parts
      BY <1>4, <1>5, PartsFacts
    <3> QED
      BY <1>3, <1>4, <1>5, <1>9, <3>1, <3>2 DEF BeginPart, UpType, UploadPCs
  <2>2. UploadType' /\ ReportInv'
    BY <1>2, <1>3, <1>6, <1>7, <1>9, <2>1 DEF UploadInv, UploadType, ReportInv
  <2>3. \A j \in 1..Parts : j < i + 1 => Right(j)'
    <3>1. \A j \in 1..Parts : j < i + 1 => j < i \/ j = i
      BY <1>4, PartsFacts
    <3> QED
      BY <1>1, <1>8, <1>9, <3>1
  <2>4. i + 1 <= Parts => pos' = Start(i + 1)
    BY <1>1, <1>5, <1>6, <1>9
  <2>5. PartInv' /\ EndInv'
    BY <1>2, <1>3, <1>4, <1>5, <1>9, <2>2, <2>3, <2>4, PartBegins
  <2> QED
    BY <2>2, <2>5 DEF UploadInv
<1>10. CASE outcome = "retry"
  <2>1. up' \in UpType /\ up'.pc = "part" /\ up'.part = i
    BY <1>0, <1>2, <1>3, <1>10, RetryType
  <2>2. UploadType'
    BY <1>2, <1>3, <1>6, <1>7, <1>10, <2>1 DEF UploadInv, UploadType
  <2>3. Parts' = Parts /\ Start(i)' = Start(i) /\ PartBytes(i)' = PartBytes(i)
    BY <1>2 DEF Parts, Start, PartBytes
  <2>4. PartInv'
    BY <1>2, <1>3, <1>4, <1>6, <1>8, <1>10, <2>1, <2>3 DEF PartInv
  <2>5. EndInv' /\ ReportInv'
    BY <1>2, <1>3, <1>10, <2>1 DEF UploadInv, EndInv, ReportInv
  <2> QED
    BY <2>2, <2>4, <2>5 DEF UploadInv
<1>11. CASE outcome = "failure"
  <2>1. up' \in UpType /\ up'.pc = "done" /\ result' = "error" /\ ReportInv'
    BY <1>2, <1>3, <1>11, EndsFacts
  <2>2. file' = "absent"
    BY <1>3, <1>4, <1>11 DEF Cleanup
  <2>3. UploadType'
    BY <1>2, <1>3, <1>6, <1>7, <1>11, <2>1 DEF UploadInv, UploadType
  <2>4. PartInv' /\ EndInv'
    BY <1>2, <2>1, <2>2 DEF UploadInv, PartInv, EndInv
  <2> QED
    BY <2>1, <2>3, <2>4 DEF UploadInv
<1> QED
  BY <1>1, <1>9, <1>10, <1>11

\* A report changes nothing of the backup.
LEMMA ReportStep ==
    ASSUME UploadInv, NEW a \in Attempts, NEW r \in reports, ReportProgress(r, a)
    PROVE  UploadInv'
<1>1. UNCHANGED <<adapter, size, up, file, pos, left, stored, result>>
  BY DEF ReportProgress
<1>2. Parts' = Parts /\ (\A i \in 1..Parts : Right(i)' <=> Right(i)) /\ (Stored' <=> Stored)
  BY <1>1 DEF Right, Parts, PartBytes, Start, Stored
<1>3. up.pc = "part" => Start(up.part)' = Start(up.part) /\ PartBytes(up.part)' = PartBytes(up.part)
  BY <1>1 DEF Parts, PartBytes, Start
<1>4. UploadType' /\ PartInv' /\ EndInv'
  BY <1>1, <1>2, <1>3 DEF UploadInv, UploadType, PartInv, EndInv
<1>5. r \in ReportType /\ [r EXCEPT !.tried = @ + 1] \in ReportType
      /\ [r EXCEPT !.tried = @ + 1].status = r.status
  BY DEF UploadInv, ReportInv, ReportType
<1>6. reports' \subseteq reports \cup {[r EXCEPT !.tried = @ + 1]} /\ status' \in {status, r.status}
  BY DEF ReportProgress
<1>7. ReportInv'
  BY <1>1, <1>5, <1>6 DEF UploadInv, ReportInv
<1> QED
  BY <1>4, <1>7 DEF UploadInv

LEMMA LocalStep ==
    ASSUME UploadInv, CreateArchive \/ ReadFails \/ Details \/ Finalize
    PROVE  UploadInv'
<1>1. UNCHANGED <<adapter, size, pos, left, stored, status>> /\ result # "ok" /\ up.pc # "done"
  BY DEF CreateArchive, ReadFails, Details, Finalize, UploadInv, EndInv
<1>2. Parts' = Parts /\ (\A i \in 1..Parts : Right(i)' <=> Right(i))
  BY <1>1 DEF Right, Parts, PartBytes, Start
<1>3. CASE CreateArchive
  <2>1. \/ /\ Goto(IF adapter = "s3" THEN "urls" ELSE "details") /\ file' = "whole"
           /\ UNCHANGED <<result, reports>>
        \/ Ends("error") /\ file' # "whole"
    BY <1>3 DEF CreateArchive
  <2>2. /\ up' \in UpType /\ ReportInv' /\ result' # "ok"
        /\ \/ up'.pc = "urls" /\ adapter = "s3"
           \/ up'.pc = "details" /\ adapter = "local" /\ file' = "whole"
           \/ up'.pc = "done" /\ file' # "whole"
    <3>1. CASE Goto(IF adapter = "s3" THEN "urls" ELSE "details") /\ file' = "whole"
               /\ UNCHANGED <<result, reports>>
      <4>1. up' \in UpType /\ up'.pc = IF adapter = "s3" THEN "urls" ELSE "details"
        BY <3>1, GotoType DEF UploadPCs
      <4> QED
        BY <1>1, <3>1, <4>1 DEF UploadInv, UploadType, ReportInv
    <3>2. CASE Ends("error") /\ file' # "whole"
      BY <1>1, <3>2, EndsFacts
    <3> QED
      BY <2>1, <3>1, <3>2
  <2>3. pos = 0
    BY <1>3 DEF CreateArchive, UploadInv, PartInv
  <2> QED
    BY <1>1, <2>2, <2>3 DEF UploadInv, UploadType, PartInv, EndInv, Stored
<1>4. CASE ReadFails
  <2>1. Ends("error") /\ (adapter = "s3" => file' = "absent")
    BY <1>4 DEF ReadFails, Cleanup
  <2>2. up' \in UpType /\ up'.pc = "done" /\ result' = "error" /\ ReportInv'
    BY <1>1, <2>1, EndsFacts
  <2> QED
    BY <1>1, <2>1, <2>2 DEF UploadInv, UploadType, PartInv, EndInv
<1>5. CASE Details
  <2>1. /\ up' \in UpType /\ up'.pc = "finalize" /\ (adapter = "s3" => file' = "absent")
        /\ adapter # "s3" => file' = file
    BY <1>5, GotoType DEF Details, Cleanup, UploadPCs
  <2>2. Stored'
    BY <1>1, <1>2, <1>5, <2>1 DEF Details, UploadInv, EndInv, Stored
  <2>3. ReportInv'
    <3>1. NewReport("finalize", "running") \in ReportType
          /\ NewReport("finalize", "running").status = "running"
      BY DEF NewReport, ReportType
    <3> QED
      BY <1>1, <1>5, <3>1 DEF Details, UploadInv, ReportInv
  <2>4. result' # "ok"
    BY <1>1, <1>5 DEF Details
  <2> QED
    BY <1>1, <2>1, <2>2, <2>3, <2>4 DEF UploadInv, UploadType, PartInv, EndInv
<1>6. CASE Finalize
  <2>1. up.pc = "finalize" /\ Ends("ok") /\ file' = file
    BY <1>6 DEF Finalize
  <2>2. up' \in UpType /\ up'.pc = "done" /\ result' = "ok" /\ ReportInv'
    BY <1>1, <2>1, EndsFacts
  <2>3. Stored'
    BY <1>1, <1>2, <2>1 DEF UploadInv, EndInv, Stored
  <2> QED
    BY <1>1, <2>1, <2>2, <2>3 DEF UploadInv, UploadType, PartInv, EndInv
<1> QED
  BY <1>3, <1>4, <1>5, <1>6

LEMMA UploadStep ==
    ASSUME UploadInv, [UploadNext]_uploadVars
    PROVE  UploadInv'
<1>1. CASE UNCHANGED uploadVars
  <2>1. UNCHANGED <<adapter, size, up, file, pos, left, stored, result, reports, status>>
    BY <1>1 DEF uploadVars
  <2>2. Parts' = Parts /\ (\A i \in 1..Parts : Right(i)' <=> Right(i)) /\ (Stored' <=> Stored)
    BY <2>1 DEF Right, Parts, PartBytes, Start, Stored
  <2>3. up.pc = "part" => Start(up.part)' = Start(up.part) /\ PartBytes(up.part)' = PartBytes(up.part)
    BY <2>1 DEF Parts, PartBytes, Start
  <2> QED
    BY <2>1, <2>2, <2>3 DEF UploadInv, UploadType, PartInv, EndInv, ReportInv
<1>2. CASE UploadNext
  BY <1>2, LocalStep, URLsStep, PartStep, ReportStep DEF UploadNext
<1> QED
  BY <1>1, <1>2

\* For every archive, part size and number of attempts: a backup whose job succeeded, or that
\* the Panel was told to be completed, is on the disk, or in S3 part by part and byte for
\* byte, however often a part was sent in vain and however the reports fare, and the archive
\* of an S3 backup does not stay on the disk of the node.
THEOREM BackupIsStored == UploadSpec => []BackupStored
<1>1. UploadInit("create") => UploadInv
  <2> SUFFICES ASSUME UploadInit("create") PROVE UploadInv
    OBVIOUS
  <2>1. up \in UpType /\ up.pc = "create" /\ pos \in Nat /\ left \in Nat
    BY DEF UploadInit, UpType, UploadPCs
  <2>2. stored \in [1..MaxParts -> Nat \X Nat]
    BY DEF UploadInit, Nothing
  <2>3. ReportInv
    <3>1. NewReport("create", "running") \in ReportType /\ NewReport("create", "running").status = "running"
      BY DEF NewReport, ReportType
    <3> QED
      BY <3>1 DEF UploadInit, ReportInv
  <2> QED
    BY <2>1, <2>2, <2>3 DEF UploadInit, UploadInv, UploadType, PartInv, EndInv
<1>2. UploadInv => BackupStored
  <2> SUFFICES ASSUME UploadInv PROVE BackupStored
    OBVIOUS
  <2>1. ASSUME NEW i \in 1..Parts, Right(i)
        PROVE  stored[i] = <<(i - 1) * PartSize, Min({i * PartSize, size})>>
    <3>1. Start(i) + PartBytes(i) = Min({i * PartSize, size})
      BY PartFacts DEF UploadInv, UploadType
    <3> QED
      BY <2>1, <3>1 DEF Right, Start
  <2> QED
    BY <2>1 DEF BackupStored, IsStored, UploadInv, EndInv, ReportInv, Stored
<1> QED
  BY <1>1, <1>2, UploadStep, PTL DEF UploadSpec
=============================================================================
