-------------------------- MODULE DiskQuotaProofs --------------------------
(***************************************************************************)
(* The account of a server's files, for any number of files, handlers,     *)
(* requests and limits: what Quota.usage is while handlers are under way.  *)
(***************************************************************************)
EXTENDS DiskQuota, FiniteSetTheorems, TLAPS

\* The bytes of files whose sizes are a[f], and their number.
Bytes(a) == {b \in Names \X (1..MaxSize) : b[2] <= a[b[1]]}
Count(a) == Cardinality(Bytes(a))
SizeMap == [f \in Names |-> Size(f)]

\* The steps that belong to some handlers only.
Suits(op, pc) ==
    /\ op = "none" <=> pc = "idle"
    /\ pc \in {"check", "stat", "touch"} => op = "write"
    /\ pc = "copy" => op \in {"write", "copy"}
    /\ pc = "chunk" => op = "gunzip"
    /\ pc \in {"stream", "fit"} => op = "compress"
    /\ pc = "lstat" => op = "removeAll"
    /\ pc = "unlink" => op \in {"remove", "removeAll"}
    /\ pc = "renameat" <=> op = "rename"

\* Handlers that are idle have no file, and a chunk is one of the announced ones.
Handlers ==
    {q \in TaskType :
        /\ Suits(q.op, q.pc)
        /\ q.pc = "idle" => q = NoTask
        /\ q.op = "gunzip" => q.cur <= q.new}

TasksInv == task \in [Tasks -> Handlers]

\* A walk that was not disturbed has the bytes of the files behind it.
Walked == [f \in Names |-> IF f \in walk.todo THEN 0 ELSE Size(f)]
WalkInv ==
    clean => walk.on /\ Quiet /\ walk.todo \subseteq Existing /\ walk.sum = Count(Walked)

\* What the usage counts for the file a handler works on.
Counted(t) ==
    CASE task[t].pc = "copy" -> task[t].cur
      [] task[t].pc \in {"load", "store"} /\ task[t].op # "removeAll" -> Size(task[t].file) - task[t].delta
      [] task[t].pc = "fit" -> 0
      [] task[t].pc = "unlink" /\ task[t].op = "removeAll" -> 0
      [] OTHER -> Size(task[t].file)

\* What a handler knows of its file still holds.
FileInv(t) ==
    LET q == task[t] IN
    /\ q.pc \notin {"idle", "check", "stat", "lstat"} => q.file \in Names
    /\ q.pc = "touch" => q.cur = Size(q.file)
    /\ q.pc \in {"copy", "stream"} => Size(q.file) = 0
    /\ q.pc = "fit" => q.new = Size(q.file)
    /\ q.op = "gunzip" => q.cur = 0 \/ q.cur = Size(q.file)
    /\ q.op = "remove" /\ q.pc = "unlink" => q.cur = Size(q.file)
    /\ q.op = "removeAll" /\ q.pc \in {"load", "store"} => q.delta = -Size(q.file)
    /\ q.op = "rename" => q.file \notin q.rest /\ \A g \in q.rest : Size(g) = 0
    /\ q.pc = "store" => ~q.below

\* No two handlers have a name in common.
Disjoint == \A t, u \in Tasks : t # u => Uses(t) \cap Uses(u) \cap Names = {}

\* The usage is the sum of what is counted for each file: its size, unless a handler is
\* about to adjust the usage for it.
Accounts(a) ==
    /\ a \in [Names -> Sizes]
    /\ usage = Count(a)
    /\ \A t \in Tasks : task[t].file \in Names => a[task[t].file] = Counted(t)
    /\ \A f \in Names : (\A t \in Tasks : task[t].file # f) => a[f] = Size(f)

ExactInv == exact => Disjoint /\ (\A t \in Tasks : FileInv(t)) /\ \E a \in [Names -> Sizes] : Accounts(a)

\* What a handler is about to add fits.
Fits(t) ==
    limit # 0 =>
        /\ task[t].pc \in {"touch", "copy"} => usage + task[t].new - task[t].cur <= limit
        /\ task[t].pc \in {"load", "store"} => usage + task[t].delta <= limit

LimitInv ==
    trusted =>
        /\ exact
        /\ \A t, u \in Tasks : ~Idle(t) /\ ~Idle(u) => t = u
        /\ limit # 0 => usage <= limit
        /\ \A t \in Tasks : Fits(t)

QuotaInv == TypeOK /\ TasksInv /\ WalkInv /\ ExactInv /\ LimitInv

-----------------------------------------------------------------------------
(* Counting bytes.                                                          *)

LEMMA CountType ==
    ASSUME NEW a PROVE IsFiniteSet(Bytes(a)) /\ Count(a) \in Nat
<1>1. IsFiniteSet(1..MaxSize)
  BY FS_Interval, QuotaAssumption
<1>2. IsFiniteSet(Names \X (1..MaxSize))
  BY <1>1, FS_Product, QuotaAssumption
<1>3. IsFiniteSet(Bytes(a))
  BY <1>2, FS_Subset DEF Bytes
<1> QED
  BY <1>3, FS_CardinalityType DEF Count

\* The bytes of one file and those of the others.
LEMMA CountSplit ==
    ASSUME NEW a \in [Names -> Sizes], NEW f \in Names
    PROVE  Count(a) = Count([a EXCEPT ![f] = 0]) + a[f]
<1> DEFINE others == [a EXCEPT ![f] = 0]
           own == {f} \X (1..a[f])
<1>0. a[f] \in Nat /\ a[f] <= MaxSize /\ others \in [Names -> Sizes]
  BY QuotaAssumption DEF Sizes
<1>1. Bytes(a) = Bytes(others) \cup own
  <2>1. ASSUME NEW b \in Bytes(a) PROVE b \in Bytes(others) \cup own
    <3>1. b \in Names \X (1..MaxSize) /\ b[2] <= a[b[1]] /\ b = <<b[1], b[2]>>
      BY DEF Bytes
    <3>2. CASE b[1] = f
      BY <3>1, <3>2, <1>0, QuotaAssumption
    <3>3. CASE b[1] # f
      BY <3>1, <3>3 DEF Bytes
    <3> QED
      BY <3>2, <3>3
  <2>2. ASSUME NEW b \in Bytes(others) PROVE b \in Bytes(a)
    <3>1. b \in Names \X (1..MaxSize) /\ b[2] <= others[b[1]]
      BY <2>2 DEF Bytes
    <3>2. others[b[1]] <= a[b[1]] /\ others[b[1]] \in Nat /\ a[b[1]] \in Nat
      BY <3>1, <1>0, QuotaAssumption DEF Sizes
    <3> QED
      BY <3>1, <3>2, QuotaAssumption DEF Bytes
  <2>3. ASSUME NEW b \in own PROVE b \in Bytes(a)
    <3>1. b = <<b[1], b[2]>> /\ b[1] = f /\ b[2] \in 1..a[f]
      BY <2>3
    <3> QED
      BY <3>1, <1>0, QuotaAssumption DEF Bytes
  <2> QED
    BY <2>1, <2>2, <2>3
<1>2. Bytes(others) \cap own = {}
  <2>1. ASSUME NEW b \in Bytes(others), b \in own PROVE FALSE
    <3>1. b[1] = f /\ b[2] \in 1..a[f] /\ b[2] <= others[f] /\ others[f] = 0
      BY <2>1 DEF Bytes
    <3> QED
      BY <3>1, <1>0
  <2> QED
    BY <2>1
<1>3. IsFiniteSet(own) /\ Cardinality(own) = a[f]
  <2>1. IsFiniteSet(1..a[f]) /\ Cardinality(1..a[f]) = a[f]
    BY <1>0, FS_Interval
  <2>2. IsFiniteSet({f}) /\ Cardinality({f}) = 1
    BY FS_Singleton
  <2> QED
    BY <2>1, <2>2, <1>0, FS_Product
<1>4. IsFiniteSet(Bytes(others)) /\ Cardinality(Bytes(others)) \in Nat
  BY CountType DEF Count
<1>5. Cardinality({}) = 0
  BY FS_EmptySet
<1> HIDE DEF others, own
<1>6. Cardinality(Bytes(others) \cup own)
        = Cardinality(Bytes(others)) + Cardinality(own) - Cardinality(Bytes(others) \cap own)
  BY <1>3, <1>4, FS_Union
<1>7. Cardinality(Bytes(others) \cap own) = 0
  BY <1>2, <1>5
<1>8. Cardinality(Bytes(a)) = Cardinality(Bytes(others)) + Cardinality(own) - 0
  BY <1>1, <1>6, <1>7
<1>9. Cardinality(Bytes(a)) = Cardinality(Bytes(others)) + a[f]
  BY <1>0, <1>3, <1>4, <1>8
<1> QED
  BY <1>9 DEF Count, others

\* A file that changes its size changes the sum by as much, and has no more than that.
LEMMA CountChange ==
    ASSUME NEW a \in [Names -> Sizes], NEW f \in Names, NEW n \in Sizes
    PROVE  /\ [a EXCEPT ![f] = n] \in [Names -> Sizes]
           /\ Count([a EXCEPT ![f] = n]) = Count(a) - a[f] + n
           /\ a[f] <= Count(a)
<1> DEFINE c == [a EXCEPT ![f] = n]
<1>1. c \in [Names -> Sizes] /\ c[f] = n /\ [c EXCEPT ![f] = 0] = [a EXCEPT ![f] = 0]
  OBVIOUS
<1>2. Count(c) = Count([a EXCEPT ![f] = 0]) + n /\ Count(a) = Count([a EXCEPT ![f] = 0]) + a[f]
  BY <1>1, CountSplit
<1>3. Count([a EXCEPT ![f] = 0]) \in Nat /\ a[f] \in Nat /\ n \in Nat
  BY CountType, QuotaAssumption DEF Sizes
<1> QED
  BY <1>1, <1>2, <1>3

LEMMA CountEmpty ==
    ASSUME NEW a \in [Names -> Sizes], \A f \in Names : a[f] = 0 PROVE Count(a) = 0
<1>1. Bytes(a) = {}
  BY QuotaAssumption DEF Bytes
<1> QED
  BY <1>1, FS_EmptySet DEF Count

\* What the files hold.
LEMMA TotalIsCount ==
    ASSUME TypeOK PROVE SizeMap \in [Names -> Sizes] /\ Total = Count(SizeMap)
<1>1. \A f \in Names : size[f] \in Sizes \cup {Absent} /\ Size(f) \in Sizes
                      /\ (size[f] # Absent => Size(f) = size[f]) /\ (size[f] = Absent => Size(f) = 0)
  BY QuotaAssumption DEF TypeOK, Size, Sizes, Absent
<1>2. ASSUME NEW b \in Names \X (1..MaxSize) PROVE b[2] <= size[b[1]] <=> b[2] <= SizeMap[b[1]]
  <2>1. b[1] \in Names /\ b[2] \in Nat /\ b[2] >= 1 /\ SizeMap[b[1]] = Size(b[1])
    BY QuotaAssumption DEF SizeMap
  <2> QED
    BY <2>1, <1>1 DEF Absent
<1>3. {b \in Names \X (1..MaxSize) : b[2] <= size[b[1]]} = Bytes(SizeMap)
  BY <1>2 DEF Bytes
<1> QED
  BY <1>1, <1>3 DEF SizeMap, Total, Count

-----------------------------------------------------------------------------
(* The handlers, whatever they do.                                          *)

LEMMA Constants ==
    /\ 0 \in Sizes /\ Sizes \subseteq Nat /\ Absent \notin Sizes /\ Gone \notin Names
    /\ \A m, n \in Sizes : n - m \in -MaxSize..MaxSize /\ -n \in -MaxSize..MaxSize /\ n \in -MaxSize..MaxSize
    /\ 1 \in Sizes /\ 0 \in -MaxSize..MaxSize
    /\ NoTask \in Handlers
<1>1. /\ 0 \in Sizes /\ Sizes \subseteq Nat /\ Absent \notin Sizes /\ Gone \notin Names
      /\ \A m, n \in Sizes : n - m \in -MaxSize..MaxSize /\ -n \in -MaxSize..MaxSize /\ n \in -MaxSize..MaxSize
      /\ 1 \in Sizes /\ 0 \in -MaxSize..MaxSize
  BY QuotaAssumption DEF Sizes, Absent
<1>2. NoTask \in TaskType
  BY <1>1 DEF NoTask, TaskType
<1> QED
  BY <1>1, <1>2 DEF Handlers, NoTask, Suits

LEMMA SizeType ==
    ASSUME TypeOK, NEW f \in Names
    PROVE  /\ Size(f) \in Sizes /\ size[f] \in Sizes \cup {Absent}
           /\ f \in Existing <=> size[f] # Absent
           /\ f \in Existing => size[f] = Size(f)
           /\ f \notin Existing => Size(f) = 0
  BY Constants DEF TypeOK, Size, Existing

\* A file that grows has the larger of two sizes.
LEMMA GrownSize ==
    ASSUME TypeOK, NEW f \in Names \cup {Gone}, NEW n \in Sizes
    PROVE  /\ Grown(f, n) \in [Names -> Sizes \cup {Absent}]
           /\ \A g \in Names : g # f => Grown(f, n)[g] = size[g]
           /\ f \in Names => Grown(f, n)[f] \in Sizes /\ Grown(f, n)[f] = IF n >= size[f] THEN n ELSE size[f]
<1>1. CASE f = Gone
  BY <1>1, Constants DEF TypeOK, Grown
<1>2. CASE f \in Names
  <2>1. size[f] \in Sizes \cup {Absent} /\ size[f] \in Int /\ n \in Nat
    BY <1>2, QuotaAssumption DEF TypeOK, Sizes, Absent
  <2>2. Max({n, size[f]}) = IF n >= size[f] THEN n ELSE size[f]
    <3> DEFINE m == IF n >= size[f] THEN n ELSE size[f]
    <3>1. m \in {n, size[f]} /\ \A y \in {n, size[f]} : m >= y
      BY <2>1
    <3>2. \A x \in {n, size[f]} : (\A y \in {n, size[f]} : x >= y) => x = m
      BY <2>1
    <3> QED
      BY <3>1, <3>2 DEF Max
  <2>3. Max({n, size[f]}) \in Sizes
    BY <2>1, <2>2, Constants DEF Absent
  <2>4. Grown(f, n) = [size EXCEPT ![f] = Max({n, size[f]})]
    BY <1>2, Constants DEF Grown
  <2> QED
    BY <1>2, <2>2, <2>3, <2>4 DEF TypeOK
<1> QED
  BY <1>1, <1>2

\* A name that is moved or removed changes the file of a handler and nothing else.
LEMMA ReopenedHandlers ==
    ASSUME TypeOK, TasksInv, NEW to, \A f \in DOMAIN to : to[f] \in Names \cup {Gone}
    PROVE  /\ Reopened(to) \in [Tasks -> Handlers]
           /\ \A u \in Tasks : Idle(u) \/ task[u].file \notin DOMAIN to => Reopened(to)[u] = task[u]
<1>1. ASSUME NEW u \in Tasks PROVE Reopened(to)[u] \in Handlers
  <2>1. task[u] \in Handlers /\ task[u] \in TaskType
    BY DEF TasksInv, Handlers
  <2>2. CASE HasHandle(u) /\ task[u].file \in DOMAIN to
    <3> DEFINE x == to[task[u].file]
               q == [task[u] EXCEPT !.file = x]
    <3>1. x \in Names \cup {Gone} /\ Reopened(to)[u] = q
      BY <2>2 DEF Reopened
    <3>2. q \in TaskType /\ q.op = task[u].op /\ q.pc = task[u].pc /\ q.cur = task[u].cur /\ q.new = task[u].new
      BY <2>1, <3>1 DEF TaskType
    <3>3. task[u].pc # "idle"
      BY <2>1, <2>2 DEF Handlers, HasHandle, Suits
    <3> QED
      BY <2>1, <3>1, <3>2, <3>3 DEF Handlers
  <2>3. CASE ~(HasHandle(u) /\ task[u].file \in DOMAIN to)
    BY <2>1, <2>3 DEF Reopened
  <2> QED
    BY <2>2, <2>3
<1>2. ASSUME NEW u \in Tasks, Idle(u) \/ task[u].file \notin DOMAIN to PROVE Reopened(to)[u] = task[u]
  <2>1. ~(HasHandle(u) /\ task[u].file \in DOMAIN to)
    BY <1>2 DEF TasksInv, Handlers, HasHandle, Idle, Suits
  <2> QED
    BY <2>1 DEF Reopened
<1> QED
  BY <1>1, <1>2 DEF Reopened

-----------------------------------------------------------------------------
(* A step of one handler, while the account is exact.                        *)

\* What is counted for the files of a handler does not depend on the others.
LEMMA OwnFiles ==
    ASSUME Disjoint, NEW a, Accounts(a), NEW t \in Tasks, NEW f \in Uses(t) \cap Names
    PROVE  a[f] = IF task[t].file = f THEN Counted(t) ELSE Size(f)
<1>1. CASE task[t].file = f
  BY <1>1 DEF Accounts
<1>2. CASE task[t].file # f
  <2>1. \A u \in Tasks : task[u].file # f
    BY <1>2 DEF Disjoint, Uses
  <2> QED
    BY <1>2, <2>1 DEF Accounts
<1> QED
  BY <1>1, <1>2

\* A handler changes the files fs, which nobody else uses, and leaves a new account c.
LEMMA ExactFrame ==
    ASSUME TasksInv, Disjoint, \A u \in Tasks : FileInv(u), NEW a, Accounts(a),
           NEW t \in Tasks, NEW fs \in SUBSET Names,
           \A u \in Tasks \ {t} : task'[u] = task[u] /\ Uses(u) \cap fs = {},
           Uses(t) \cap Names \subseteq fs, Uses(t)' \cap Names \subseteq fs,
           \A f \in Names \ fs : Size(f)' = Size(f),
           FileInv(t)',
           NEW c \in [Names -> Sizes], usage' = Count(c),
           \A f \in Names \ fs : c[f] = a[f],
           \A f \in fs : c[f] = IF task'[t].file = f THEN Counted(t)' ELSE Size(f)'
    PROVE  ExactInv'
<1>1. Disjoint'
  <2>1. \A u \in Tasks \ {t} : Uses(u)' = Uses(u)
    BY DEF Uses
  <2>2. ASSUME NEW u \in Tasks, NEW v \in Tasks, u # v PROVE (Uses(u)' \cap Uses(v)') \cap Names = {}
    <3>1. CASE u = t
      BY <2>1, <2>2, <3>1
    <3>2. CASE v = t
      BY <2>1, <2>2, <3>2
    <3>3. CASE u # t /\ v # t
      BY <2>1, <2>2, <3>3 DEF Disjoint
    <3> QED
      BY <3>1, <3>2, <3>3
  <2> QED
    BY <2>2 DEF Disjoint
<1>2. ASSUME NEW u \in Tasks \ {t}, task[u].file \in Names
      PROVE  Size(task[u].file)' = Size(task[u].file) /\ task[u].file \notin fs
  BY <1>2 DEF Uses
<1>3. ASSUME NEW u \in Tasks \ {t} PROVE FileInv(u)'
  <2> DEFINE q == task[u]
  <2>0. q.rest \subseteq Names /\ Suits(q.op, q.pc)
    BY DEF TasksInv, Handlers, TaskType
  <2>1. task'[u] = q /\ FileInv(u) /\ \A g \in q.rest : Size(g)' = Size(g)
    BY <2>0 DEF Uses
  <2>2. CASE q.file \in Names
    <3>1. Size(q.file)' = Size(q.file)
      BY <1>2, <2>2
    <3> QED
      BY <2>1, <3>1 DEF FileInv
  <2>3. CASE q.file \notin Names
    <3>1. q.pc \in {"idle", "check", "stat", "lstat"} /\ q.op \notin {"gunzip", "rename"}
      BY <2>0, <2>1, <2>3 DEF FileInv, Suits
    <3> QED
      BY <2>1, <3>1 DEF FileInv
  <2> QED
    BY <2>2, <2>3
<1>4. ASSUME NEW u \in Tasks, task'[u].file \in Names PROVE c[task'[u].file] = Counted(u)'
  <2>1. CASE u = t
    BY <1>4, <2>1 DEF Uses
  <2>2. CASE u # t
    <3>1. task'[u] = task[u] /\ Size(task[u].file)' = Size(task[u].file) /\ task[u].file \notin fs
      BY <1>2, <1>4, <2>2
    <3>2. c[task[u].file] = a[task[u].file] /\ a[task[u].file] = Counted(u)
      BY <1>4, <3>1 DEF Accounts
    <3>3. Counted(u)' = Counted(u)
      BY <3>1 DEF Counted
    <3> QED
      BY <3>1, <3>2, <3>3
  <2> QED
    BY <2>1, <2>2
<1>5. ASSUME NEW f \in Names, \A u \in Tasks : task'[u].file # f PROVE c[f] = Size(f)'
  <2>1. CASE f \in fs
    BY <1>5, <2>1
  <2>2. CASE f \notin fs
    <3>1. \A u \in Tasks : task[u].file # f
      BY <1>5, <2>2 DEF Uses
    <3> QED
      BY <2>2, <3>1 DEF Accounts
  <2> QED
    BY <2>1, <2>2
<1>6. Accounts(c)'
  BY <1>4, <1>5 DEF Accounts
<1> QED
  BY <1>1, <1>3, <1>6 DEF ExactInv

\* A step that keeps what is counted for the files of its handler.
LEMMA ExactStep ==
    ASSUME TasksInv, ExactInv, exact, NEW t \in Tasks, usage' = usage,
           \A u \in Tasks \ {t} : task'[u] = task[u],
           Uses(t)' \cap Names \subseteq Uses(t),
           \A f \in Names : f \notin Uses(t) => Size(f)' = Size(f),
           FileInv(t)',
           \A f \in Uses(t) \cap Names :
               (IF task'[t].file = f THEN Counted(t)' ELSE Size(f)')
                 = (IF task[t].file = f THEN Counted(t) ELSE Size(f))
    PROVE  ExactInv'
<1> DEFINE fs == Uses(t) \cap Names
<1>1. Disjoint /\ (\A u \in Tasks : FileInv(u))
  BY DEF ExactInv
<1>2. PICK a \in [Names -> Sizes] : Accounts(a)
  BY DEF ExactInv
<1>3. \A u \in Tasks \ {t} : Uses(u) \cap fs = {}
  BY <1>1 DEF Disjoint
<1>4. \A f \in fs : a[f] = IF task'[t].file = f THEN Counted(t)' ELSE Size(f)'
  BY <1>1, <1>2, OwnFiles
<1>5. usage' = Count(a)
  BY <1>2 DEF Accounts
<1>6. fs \in SUBSET Names /\ Uses(t) \cap Names \subseteq fs /\ Uses(t)' \cap Names \subseteq fs
      /\ \A f \in Names \ fs : Size(f)' = Size(f)
  OBVIOUS
<1> HIDE DEF fs
<1> QED
  BY <1>1, <1>2, <1>3, <1>4, <1>5, <1>6, ExactFrame

-----------------------------------------------------------------------------
(* The steps of handlers that leave the usage alone.                         *)

\* What such a step owes to the account: it keeps to its files and keeps what is counted.
Keeps(t) ==
    /\ \A u \in Tasks \ {t} : task'[u] = task[u]
    /\ Uses(t)' \cap Names \subseteq Uses(t)
    /\ \A f \in Names : f \notin Uses(t) => Size(f)' = Size(f)
    /\ FileInv(t)'
    /\ \A f \in Uses(t) \cap Names :
         (IF task'[t].file = f THEN Counted(t)' ELSE Size(f)')
           = (IF task[t].file = f THEN Counted(t) ELSE Size(f))

LEMMA LocalFrame ==
    ASSUME QuotaInv, NEW t \in Tasks, ~Idle(t), Local, Accounted \/ Disturb,
           size' \in [Names -> Sizes \cup {Absent}], task' \in [Tasks -> Handlers],
           \A u \in Tasks \ {t} : Idle(u) => task'[u] = task[u],
           Accounted /\ exact => ExactInv',
           Accounted /\ trusted => Fits(t)'
    PROVE  QuotaInv'
<1>1. TypeOK' /\ TasksInv'
  <2>1. task' \in [Tasks -> TaskType]
    BY DEF Handlers
  <2> QED
    BY <2>1 DEF QuotaInv, TypeOK, TasksInv, Local, Accounted, Disturb
<1>2. WalkInv'
  <2>1. ~clean /\ ~clean'
    BY DEF QuotaInv, WalkInv, Quiet, Local
  <2> QED
    BY <2>1 DEF WalkInv
<1>3. ExactInv'
  <2>1. CASE exact'
    BY <2>1 DEF Accounted, Disturb
  <2>2. CASE ~exact'
    BY <2>2 DEF ExactInv
  <2> QED
    BY <2>1, <2>2
<1>4. LimitInv'
  <2> SUFFICES ASSUME trusted' PROVE /\ exact' /\ \A u, v \in Tasks : ~Idle(u)' /\ ~Idle(v)' => u = v
                                     /\ limit' # 0 => usage' <= limit'
                                     /\ \A u \in Tasks : Fits(u)'
    BY DEF LimitInv
  <2>1. trusted /\ Accounted
    BY DEF Accounted, Disturb
  <2>2. exact' /\ (limit' # 0 => usage' <= limit') /\ Fits(t)'
    BY <2>1 DEF QuotaInv, LimitInv, Accounted, Local
  <2>3. \A u \in Tasks \ {t} : Idle(u)
    BY <2>1 DEF QuotaInv, LimitInv
  <2>4. \A u \in Tasks \ {t} : task'[u].pc = "idle"
    BY <2>3 DEF Idle
  <2> QED
    BY <2>2, <2>4 DEF Idle, Fits
<1> QED
  BY <1>1, <1>2, <1>3, <1>4 DEF QuotaInv

LEMMA LocalStep ==
    ASSUME QuotaInv, NEW t \in Tasks, ~Idle(t), Local, Accounted \/ Disturb,
           size' \in [Names -> Sizes \cup {Absent}], task' \in [Tasks -> Handlers],
           \A u \in Tasks \ {t} : Idle(u) => task'[u] = task[u],
           Accounted /\ exact => Keeps(t),
           Accounted /\ trusted => Fits(t)'
    PROVE  QuotaInv'
<1>1. ASSUME Accounted, exact PROVE ExactInv'
  <2>1. Keeps(t) /\ usage' = usage
    BY <1>1 DEF Local
  <2> QED
    BY <1>1, <2>1, ExactStep DEF QuotaInv, Keeps
<1> QED
  BY <1>1, LocalFrame

LEMMA GoTask ==
    ASSUME TasksInv, NEW t \in Tasks, NEW q \in Handlers, Go(t, q)
    PROVE  /\ task'[t] = q /\ task' \in [Tasks -> Handlers]
           /\ \A u \in Tasks \ {t} : task'[u] = task[u]
BY DEF TasksInv, Go

\* What is known of a handler at the start of its step.
LEMMA AtStep ==
    ASSUME QuotaInv, NEW t \in Tasks
    PROVE  /\ task[t] \in Handlers /\ task[t] \in TaskType
           /\ task[t].op \in {"none", "write", "copy", "gunzip", "compress", "remove", "removeAll", "rename"}
           /\ task[t].file \in Names \cup {Gone} /\ task[t].rest \subseteq Names
           /\ task[t].cur \in Sizes /\ task[t].new \in Sizes /\ task[t].delta \in -MaxSize..MaxSize
           /\ Suits(task[t].op, task[t].pc)
           /\ task[t].op = "gunzip" => task[t].cur <= task[t].new
           /\ exact => FileInv(t) /\ Disjoint
           /\ trusted => Fits(t) /\ exact /\ (limit # 0 => usage <= limit)
           /\ limit \in Nat /\ usage \in Int
           /\ task[t].cur \in Nat /\ task[t].new \in Nat /\ task[t].delta \in Int
<1>1. task[t] \in Handlers /\ limit \in Nat /\ usage \in Int
  BY QuotaAssumption DEF QuotaInv, TasksInv, TypeOK
<1>2. task[t] \in TaskType /\ Suits(task[t].op, task[t].pc) /\ (task[t].op = "gunzip" => task[t].cur <= task[t].new)
  BY <1>1 DEF Handlers
<1>3. (exact => FileInv(t) /\ Disjoint) /\ (trusted => Fits(t) /\ exact /\ (limit # 0 => usage <= limit))
  BY DEF QuotaInv, ExactInv, LimitInv
<1>4. task[t].cur \in Nat /\ task[t].new \in Nat /\ task[t].delta \in Int
  BY <1>2, QuotaAssumption DEF TaskType, Sizes
<1> QED
  BY <1>1, <1>2, <1>3, <1>4 DEF TaskType

\* Quota.Add never finds a sum below 0 while the account is exact.
LEMMA AddLoadInv == ASSUME QuotaInv, NEW t \in Tasks, AddLoad(t) PROVE QuotaInv'
<1> DEFINE below == usage + task[t].delta < 0
           q == [At(t, "store") EXCEPT !.below = below]
<1>0. below \in BOOLEAN
  OBVIOUS
<1> HIDE DEF below
<1>1. /\ q.op = task[t].op /\ q.pc = "store" /\ q.file = task[t].file /\ q.rest = task[t].rest
      /\ q.cur = task[t].cur /\ q.new = task[t].new /\ q.delta = task[t].delta
      /\ q.below = below /\ q \in TaskType
  BY <1>0, AtStep DEF At, TaskType
<1>2. q \in Handlers
  BY <1>1, AtStep DEF AddLoad, Handlers, Suits
<1>3. task'[t] = q /\ task' \in [Tasks -> Handlers] /\ \A u \in Tasks \ {t} : task'[u] = task[u]
  BY <1>2, GoTask DEF QuotaInv, AddLoad, below
<1>4. UNCHANGED <<size, usage, limit>> /\ Local /\ Accounted /\ task[t].pc = "load"
  BY DEF AddLoad, Local, Accounted
<1> HIDE DEF q
<1>5. ASSUME exact PROVE ~q.below
  <2>1. FileInv(t) /\ Disjoint /\ task[t].file \in Names
    BY <1>4, <1>5, AtStep DEF FileInv
  <2>2. PICK a \in [Names -> Sizes] : Accounts(a)
    BY <1>5 DEF QuotaInv, ExactInv
  <2>3. a[task[t].file] = Counted(t) /\ usage = Count(a) /\ a[task[t].file] <= Count(a)
    BY <2>1, <2>2, CountChange, Constants DEF Accounts
  <2>4. Size(task[t].file) \in Nat /\ task[t].delta \in Int /\ Count(a) \in Nat
    <3>1. Size(task[t].file) \in Nat
      BY <2>1, SizeType, Constants DEF QuotaInv
    <3> QED
      BY <3>1, AtStep, CountType
  <2>5. Counted(t) = IF task[t].op # "removeAll" THEN Size(task[t].file) - task[t].delta ELSE Size(task[t].file)
    BY <1>4 DEF Counted
  <2>6. task[t].op = "removeAll" => task[t].delta = -Size(task[t].file)
    BY <1>4, <2>1 DEF FileInv
  <2>7. ~below
    BY <2>3, <2>4, <2>5, <2>6 DEF below
  <2> QED
    BY <1>1, <2>7
<1>6. ASSUME exact PROVE Keeps(t)
  <2>1. FileInv(t)'
    BY <1>1, <1>3, <1>4, <1>5, <1>6, AtStep DEF FileInv, Size
  <2>2. Counted(t)' = Counted(t) /\ \A f \in Names : Size(f)' = Size(f)
    BY <1>1, <1>3, <1>4 DEF Counted, Size
  <2> QED
    BY <1>1, <1>3, <2>1, <2>2 DEF Keeps, Uses
<1>7. trusted => Fits(t)'
  BY <1>1, <1>3, <1>4, AtStep DEF Fits
<1> QED
  BY <1>3, <1>4, <1>6, <1>7, LocalStep DEF Idle, QuotaInv, TypeOK

\* An exact usage is not the -1 for which everything fits.
LEMMA FitsExactly ==
    ASSUME QuotaInv, exact PROVE usage \in Nat /\ \A n : CanFit(n) => limit = 0 \/ usage + n <= limit
<1>1. PICK a \in [Names -> Sizes] : Accounts(a)
  BY DEF QuotaInv, ExactInv
<1>2. usage \in Nat
  BY <1>1, CountType DEF Accounts
<1> QED
  BY <1>2 DEF CanFit

\* A handler that ends owes nothing.
LEMMA Ends ==
    ASSUME NEW t, task'[t] = NoTask
    PROVE  FileInv(t)' /\ Fits(t)' /\ Uses(t)' \cap Names = {} /\ task'[t].file \notin Names
BY Constants DEF FileInv, Fits, Uses, NoTask

LEMMA CheckInv ==
    ASSUME QuotaInv, NEW t \in Tasks, SpaceAvailableForDecompression(t) PROVE QuotaInv'
<1> DEFINE q == At(t, "stat")
<1>0. task[t].pc = "check" /\ task[t].op = "write" /\ UNCHANGED size /\ Local /\ Accounted
  BY AtStep DEF SpaceAvailableForDecompression, Suits
<1>1. /\ q.op = "write" /\ q.pc = "stat" /\ q.file = task[t].file /\ q.rest = task[t].rest
      /\ q.cur = task[t].cur /\ q.new = task[t].new /\ q.delta = task[t].delta /\ q \in TaskType
  BY <1>0, AtStep DEF At, TaskType
<1>2. q \in Handlers
  BY <1>1 DEF Handlers, Suits
<1>3. PICK p \in {q, NoTask} : Go(t, p)
  BY DEF SpaceAvailableForDecompression
<1>4. task'[t] = p /\ task' \in [Tasks -> Handlers] /\ \A u \in Tasks \ {t} : task'[u] = task[u]
  BY <1>2, <1>3, GoTask, Constants DEF QuotaInv
<1>5. \A f \in Names : Size(f)' = Size(f)
  BY <1>0 DEF Size
<1> HIDE DEF q
<1>6. CASE p = q
  <2>1. FileInv(t)' /\ Fits(t)' /\ Uses(t)' = Uses(t)
    BY <1>1, <1>4, <1>6 DEF FileInv, Fits, Uses
  <2>2. ASSUME NEW f \in Names, task[t].file = f PROVE Counted(t)' = Size(f) /\ Counted(t) = Size(f)
    BY <1>0, <1>1, <1>4, <1>5, <1>6, <2>2 DEF Counted
  <2>3. Keeps(t)
    BY <1>1, <1>4, <1>5, <1>6, <2>1, <2>2 DEF Keeps
  <2> QED
    BY <1>0, <1>4, <2>1, <2>3, LocalStep DEF Idle, QuotaInv, TypeOK
<1>7. CASE p = NoTask
  <2>1. \A f \in Names : task[t].file = f => Counted(t) = Size(f)
    BY <1>0 DEF Counted
  <2>2. Keeps(t)
    BY <1>4, <1>5, <1>7, <2>1, Ends DEF Keeps
  <2> QED
    BY <1>0, <1>4, <1>7, <2>2, Ends, LocalStep DEF Idle, QuotaInv, TypeOK
<1> QED
  BY <1>3, <1>6, <1>7

\* Write has asked whether the difference to the file's size fits.
LEMMA StatInv == ASSUME QuotaInv, NEW t \in Tasks, Stat(t) PROVE QuotaInv'
<1>0. task[t].pc = "stat" /\ task[t].op = "write" /\ UNCHANGED size /\ Local /\ Accounted
  BY AtStep DEF Stat, Suits
<1>1. PICK f \in task[t].rest :
        Go(t, IF CanFit(task[t].new - Size(f))
              THEN [At(t, "touch") EXCEPT !.file = f, !.rest = @ \ {f}, !.cur = Size(f)]
              ELSE NoTask)
  BY DEF Stat
<1>2. f \in Names /\ Size(f) \in Sizes /\ Size(f) \in Nat
  BY <1>1, AtStep, SizeType, Constants DEF QuotaInv
<1>3. \A g \in Names : Size(g)' = Size(g)
  BY <1>0 DEF Size
<1>4. \A g \in Names : task[t].file = g => Counted(t) = Size(g)
  BY <1>0 DEF Counted
<1>5. CASE CanFit(task[t].new - Size(f))
  <2> DEFINE q == [At(t, "touch") EXCEPT !.file = f, !.rest = @ \ {f}, !.cur = Size(f)]
  <2>1. /\ q.op = "write" /\ q.pc = "touch" /\ q.file = f /\ q.rest = task[t].rest \ {f}
        /\ q.cur = Size(f) /\ q.new = task[t].new /\ q \in TaskType
    BY <1>0, <1>2, AtStep DEF At, TaskType
  <2>2. q \in Handlers
    BY <2>1 DEF Handlers, Suits
  <2>3. task'[t] = q /\ task' \in [Tasks -> Handlers] /\ \A u \in Tasks \ {t} : task'[u] = task[u]
    BY <1>1, <1>5, <2>2, GoTask DEF QuotaInv
  <2> HIDE DEF q
  <2>4. FileInv(t)' /\ Counted(t)' = Size(f)
    BY <1>2, <1>3, <2>1, <2>3 DEF FileInv, Counted
  <2>5. Uses(t)' \subseteq Uses(t) \cup {f} /\ f \in Uses(t)
    BY <1>1, <2>1, <2>3 DEF Uses
  <2>6. Keeps(t)
    BY <1>3, <1>4, <2>1, <2>3, <2>4, <2>5 DEF Keeps
  <2>7. ASSUME trusted PROVE Fits(t)'
    <3>1. exact /\ task[t].new \in Nat
      BY <2>7, AtStep
    <3>2. usage \in Nat /\ (limit = 0 \/ usage + (task[t].new - Size(f)) <= limit)
      BY <1>5, <3>1, FitsExactly
    <3> QED
      BY <1>0, <1>2, <2>1, <2>3, <3>1, <3>2, AtStep DEF Fits, Local
  <2> QED
    BY <1>0, <2>3, <2>6, <2>7, LocalStep DEF Idle, QuotaInv, TypeOK
<1>6. CASE ~CanFit(task[t].new - Size(f))
  <2>1. task'[t] = NoTask /\ task' \in [Tasks -> Handlers] /\ \A u \in Tasks \ {t} : task'[u] = task[u]
    BY <1>1, <1>6, GoTask, Constants DEF QuotaInv
  <2>2. Keeps(t)
    BY <1>3, <1>4, <2>1, Ends DEF Keeps
  <2> QED
    BY <1>0, <2>1, <2>2, Ends, LocalStep DEF Idle, QuotaInv, TypeOK
<1> QED
  BY <1>5, <1>6

\* A handler that is to adjust the usage by n.
LEMMA AddingTask ==
    ASSUME QuotaInv, NEW t \in Tasks, task[t].op \in {"write", "copy", "gunzip", "compress", "remove"},
           NEW n \in -MaxSize..MaxSize
    PROVE  /\ Adding(t, n) \in Handlers /\ Adding(t, n) \in TaskType
           /\ Adding(t, n).op = task[t].op /\ Adding(t, n).pc = "load"
           /\ Adding(t, n).file = task[t].file /\ Adding(t, n).rest = task[t].rest
           /\ Adding(t, n).delta = n
           /\ task[t].op = "gunzip" => Adding(t, n).cur = task[t].cur /\ Adding(t, n).new = task[t].new
<1> DEFINE cur == IF task[t].op = "gunzip" THEN task[t].cur ELSE 0
           new == IF task[t].op = "gunzip" \/ task[t].rest # {} THEN task[t].new ELSE 0
           q == [task[t] EXCEPT !.pc = "load", !.delta = n, !.cur = cur, !.new = new]
<1>0. Adding(t, n) = q
  BY DEF Adding
<1>1. cur \in Sizes /\ new \in Sizes
  BY AtStep, Constants
<1>2. task[t].op = "gunzip" => cur = task[t].cur /\ new = task[t].new
  OBVIOUS
<1> HIDE DEF cur, new
<1>3. /\ q \in TaskType /\ q.op = task[t].op /\ q.pc = "load" /\ q.file = task[t].file
      /\ q.rest = task[t].rest /\ q.delta = n /\ q.cur = cur /\ q.new = new
  BY <1>1, AtStep DEF TaskType
<1> HIDE DEF q
<1>4. q \in Handlers
  BY <1>2, <1>3, AtStep DEF Handlers, Suits
<1> QED
  BY <1>0, <1>2, <1>3, <1>4

\* The file is created or truncated; what it had is still counted.
LEMMA TouchInv == ASSUME QuotaInv, NEW t \in Tasks, Touch(t) PROVE QuotaInv'
<1> DEFINE f == task[t].file
<1>0. /\ task[t].pc = "touch" /\ task[t].op = "write" /\ Local /\ Accounted
      /\ size' = [size EXCEPT ![f] = 0]
  BY AtStep DEF Touch, Suits
<1>1. size' \in [Names -> Sizes \cup {Absent}]
  BY <1>0, Constants DEF QuotaInv, TypeOK
<1>2. \A g \in Names : Size(g)' = IF g = f THEN 0 ELSE Size(g)
  BY <1>0, Constants DEF QuotaInv, TypeOK, Size, Absent
<1>3. exact => f \in Names /\ task[t].cur = Size(f) /\ Counted(t) = Size(f)
  BY <1>0, AtStep DEF FileInv, Counted
<1>4. CASE task[t].new = 0
  <2> DEFINE q == Adding(t, -task[t].cur)
  <2>0. -task[t].cur \in -MaxSize..MaxSize
    BY AtStep, Constants
  <2>1. q \in Handlers /\ q.op = "write" /\ q.pc = "load" /\ q.file = f /\ q.rest = task[t].rest /\ q.delta = -task[t].cur
    BY <1>0, <2>0, AddingTask
  <2>2. task'[t] = q /\ task' \in [Tasks -> Handlers] /\ \A u \in Tasks \ {t} : task'[u] = task[u]
    BY <1>4, <2>1, GoTask DEF QuotaInv, Touch
  <2> HIDE DEF q
  <2>3. ASSUME exact PROVE Keeps(t)
    <3>1. FileInv(t)' /\ Uses(t)' = Uses(t)
      BY <1>3, <2>1, <2>2, <2>3 DEF FileInv, Uses
    <3>2. Counted(t)' = Size(f)
      BY <1>2, <1>3, <2>1, <2>2, <2>3, AtStep DEF Counted
    <3> QED
      BY <1>2, <1>3, <2>1, <2>2, <2>3, <3>1, <3>2 DEF Keeps, Uses
  <2>4. trusted => Fits(t)'
    BY <1>0, <1>4, <2>1, <2>2, AtStep DEF Fits, Local
  <2> QED
    BY <1>0, <1>1, <2>2, <2>3, <2>4, LocalStep DEF Idle
<1>5. CASE task[t].new # 0
  <2> DEFINE q == At(t, "copy")
  <2>1. /\ q \in TaskType /\ q.op = "write" /\ q.pc = "copy" /\ q.file = f /\ q.rest = task[t].rest
        /\ q.cur = task[t].cur /\ q.new = task[t].new
    BY <1>0, AtStep DEF At, TaskType
  <2>2. q \in Handlers
    BY <2>1 DEF Handlers, Suits
  <2>3. task'[t] = q /\ task' \in [Tasks -> Handlers] /\ \A u \in Tasks \ {t} : task'[u] = task[u]
    BY <1>5, <2>2, GoTask DEF QuotaInv, Touch
  <2> HIDE DEF q
  <2>4. ASSUME exact PROVE Keeps(t)
    <3>1. FileInv(t)' /\ Uses(t)' = Uses(t)
      BY <1>2, <1>3, <2>1, <2>3, <2>4 DEF FileInv, Uses
    <3>2. Counted(t)' = Size(f)
      BY <1>3, <2>1, <2>3, <2>4 DEF Counted
    <3> QED
      BY <1>2, <1>3, <2>1, <2>3, <2>4, <3>1, <3>2 DEF Keeps, Uses
  <2>5. trusted => Fits(t)'
    BY <1>0, <2>1, <2>3, AtStep DEF Fits, Local
  <2> QED
    BY <1>0, <1>1, <2>3, <2>4, <2>5, LocalStep DEF Idle
<1> QED
  BY <1>4, <1>5

\* The body is copied into a file that is empty.
LEMMA CopyBodyInv == ASSUME QuotaInv, NEW t \in Tasks, CopyBody(t) PROVE QuotaInv'
<1> DEFINE f == task[t].file
<1>0. task[t].pc = "copy" /\ task[t].op \in {"write", "copy"} /\ Local /\ Accounted
  BY AtStep DEF CopyBody, Suits
<1>1. PICK n \in 0..task[t].new :
        /\ size' = Grown(f, n)
        /\ Go(t, [Adding(t, n - task[t].cur) EXCEPT !.rest = IF n < task[t].new THEN {} ELSE @])
  BY DEF CopyBody
<1>2. n \in Sizes /\ n \in Nat /\ n <= task[t].new /\ n - task[t].cur \in -MaxSize..MaxSize
  BY <1>1, AtStep, Constants, QuotaAssumption DEF Sizes
<1> DEFINE p == Adding(t, n - task[t].cur)
           rest == IF n < task[t].new THEN {} ELSE p.rest
           q == [p EXCEPT !.rest = rest]
<1>3. /\ p \in Handlers /\ p \in TaskType /\ p.op = task[t].op /\ p.pc = "load" /\ p.file = f
      /\ p.rest = task[t].rest /\ p.delta = n - task[t].cur
  BY <1>0, <1>2, AddingTask
<1>4. rest \in SUBSET Names /\ rest \subseteq task[t].rest
  BY <1>3, AtStep
<1>5. Go(t, q)
  BY <1>1
<1> HIDE DEF p, rest
<1>6. /\ q \in TaskType /\ q.op = task[t].op /\ q.pc = "load" /\ q.file = f /\ q.rest = rest
      /\ q.delta = n - task[t].cur
  BY <1>3, <1>4 DEF TaskType
<1>7. q \in Handlers
  BY <1>0, <1>6 DEF Handlers, Suits
<1>8. task'[t] = q /\ task' \in [Tasks -> Handlers] /\ \A u \in Tasks \ {t} : task'[u] = task[u]
  BY <1>5, <1>7, GoTask DEF QuotaInv
<1> HIDE DEF q
<1>9. /\ size' \in [Names -> Sizes \cup {Absent}] /\ \A g \in Names : g # f => size'[g] = size[g]
      /\ f \in Names => size'[f] \in Sizes /\ size'[f] = IF n >= size[f] THEN n ELSE size[f]
  <2>1. TypeOK /\ f \in Names \cup {Gone} /\ n \in Sizes /\ size' = Grown(f, n)
    BY <1>1, <1>2, AtStep DEF QuotaInv
  <2> HIDE DEF f
  <2> QED
    BY <2>1, GrownSize
<1>10. ASSUME exact PROVE Keeps(t)
  <2>1. f \in Names /\ Size(f) = 0 /\ Counted(t) = task[t].cur
    BY <1>0, <1>10, AtStep DEF FileInv, Counted
  <2>2. size[f] \in {0, Absent}
    BY <2>1 DEF Size
  <2>3. \A g \in Names : g = f => Size(g)' = n
    <3>1. n >= size[f] /\ n # Absent
      BY <1>2, <2>2 DEF Absent
    <3>2. size'[f] = n
      BY <1>9, <2>1, <3>1
    <3> QED
      BY <3>1, <3>2 DEF Size
  <2>4. FileInv(t)' /\ Uses(t)' \subseteq Uses(t)
    BY <1>0, <1>4, <1>6, <1>8, <2>1 DEF FileInv, Uses
  <2>5. Counted(t)' = task[t].cur
    BY <1>0, <1>2, <1>6, <1>8, <2>1, <2>3, AtStep DEF Counted
  <2>6. \A g \in Names : g # f => Size(g)' = Size(g)
    BY <1>9 DEF Size
  <2> QED
    BY <1>6, <1>8, <2>1, <2>4, <2>5, <2>6 DEF Keeps, Uses
<1>11. trusted => Fits(t)'
  BY <1>0, <1>2, <1>6, <1>8, AtStep DEF Fits, Local
<1> QED
  BY <1>0, <1>8, <1>9, <1>10, <1>11, LocalStep DEF Idle

\* A file that is unpacked over an empty one grows with every chunk; over another one the
\* chunk is not accounted for.
LEMMA ChunkInv == ASSUME QuotaInv, NEW t \in Tasks, Chunk(t) PROVE QuotaInv'
<1> DEFINE f == task[t].file
<1>0. task[t].pc = "chunk" /\ task[t].op = "gunzip" /\ Local
  BY AtStep DEF Chunk, Suits
<1>1. CASE task[t].cur = task[t].new \/ ~CanFit(1)
  <2>1. Go(t, NoTask) /\ UNCHANGED size /\ Accounted
    BY <1>1 DEF Chunk
  <2>2. task'[t] = NoTask /\ task' \in [Tasks -> Handlers] /\ \A u \in Tasks \ {t} : task'[u] = task[u]
    BY <2>1, GoTask, Constants DEF QuotaInv
  <2>3. \A g \in Names : Size(g)' = Size(g) /\ (task[t].file = g => Counted(t) = Size(g))
    BY <1>0, <2>1 DEF Size, Counted
  <2>4. Keeps(t)
    BY <2>2, <2>3, Ends DEF Keeps
  <2> QED
    BY <1>0, <2>1, <2>2, <2>4, Ends, LocalStep DEF Idle, QuotaInv, TypeOK
<1>2. CASE ~(task[t].cur = task[t].new \/ ~CanFit(1))
  <2> DEFINE p == Adding(t, 1)
             cur == p.cur + 1
             q == [p EXCEPT !.cur = cur]
  <2>0. size' = Grown(f, task[t].cur + 1) /\ Go(t, q) /\ IF size' = size THEN Disturb ELSE Accounted
    BY <1>2 DEF Chunk
  <2>1. 1 \in -MaxSize..MaxSize /\ task[t].cur + 1 \in Sizes /\ task[t].cur + 1 <= task[t].new
    BY <1>0, <1>2, AtStep, QuotaAssumption DEF Sizes
  <2>2. /\ p \in TaskType /\ p.op = "gunzip" /\ p.pc = "load" /\ p.file = f /\ p.rest = task[t].rest
        /\ p.delta = 1 /\ p.cur = task[t].cur /\ p.new = task[t].new
    BY <1>0, <2>1, AddingTask
  <2>3. cur = task[t].cur + 1
    BY <2>2
  <2> HIDE DEF p, cur
  <2>4. /\ q \in TaskType /\ q.op = "gunzip" /\ q.pc = "load" /\ q.file = f /\ q.rest = task[t].rest
        /\ q.delta = 1 /\ q.cur = cur /\ q.new = task[t].new
    BY <2>1, <2>2, <2>3 DEF TaskType
  <2>5. q \in Handlers
    BY <2>1, <2>3, <2>4 DEF Handlers, Suits
  <2>6. task'[t] = q /\ task' \in [Tasks -> Handlers] /\ \A u \in Tasks \ {t} : task'[u] = task[u]
    BY <2>0, <2>5, GoTask DEF QuotaInv
  <2> HIDE DEF q
  <2>7. /\ size' \in [Names -> Sizes \cup {Absent}] /\ \A g \in Names : g # f => size'[g] = size[g]
        /\ f \in Names => size'[f] \in Sizes /\ size'[f] = IF cur >= size[f] THEN cur ELSE size[f]
    <3>1. TypeOK /\ f \in Names \cup {Gone} /\ cur \in Sizes /\ size' = Grown(f, cur)
      BY <2>0, <2>1, <2>3, AtStep DEF QuotaInv
    <3> HIDE DEF f
    <3> QED
      BY <3>1, GrownSize
  <2>8. ASSUME Accounted, exact PROVE Keeps(t)
    <3>1. f \in Names /\ (task[t].cur = 0 \/ task[t].cur = Size(f)) /\ Counted(t) = Size(f) /\ Size(f) \in Sizes
      BY <1>0, <2>8, AtStep, SizeType DEF FileInv, Counted, QuotaInv
    <3>2. size' # size
      BY <2>0, <2>8 DEF Accounted, Disturb
    <3>3. size'[f] # size[f]
      <4>1. size \in [Names -> Sizes \cup {Absent}]
        BY DEF QuotaInv, TypeOK
      <4> QED
        BY <2>7, <3>2, <4>1
    <3>4. size'[f] = cur /\ ~(size[f] >= cur) /\ size[f] \in Sizes \cup {Absent} /\ cur \in Nat /\ Size(f) \in Nat
      <4>1. size[f] \in Sizes \cup {Absent} /\ size[f] \in Int
        BY <3>1, QuotaAssumption DEF QuotaInv, TypeOK, Sizes, Absent
      <4>2. cur \in Nat /\ Size(f) \in Nat
        BY <2>3, <3>1, AtStep, QuotaAssumption DEF Sizes
      <4> QED
        BY <2>7, <3>1, <3>3, <4>1, <4>2
    <3>5. Size(f) + 1 = cur
      BY <2>3, <3>1, <3>4, AtStep DEF Size
    <3>6. \A g \in Names : (g = f => Size(g)' = cur) /\ (g # f => Size(g)' = Size(g))
      BY <2>7, <3>4 DEF Size, Absent
    <3>7. FileInv(t)' /\ Uses(t)' = Uses(t)
      BY <2>4, <2>6, <3>1, <3>6 DEF FileInv, Uses
    <3>8. Counted(t)' = Size(f)
      BY <2>4, <2>6, <3>1, <3>4, <3>5, <3>6 DEF Counted
    <3> QED
      BY <2>4, <2>6, <3>1, <3>6, <3>7, <3>8 DEF Keeps, Uses
  <2>9. trusted => Fits(t)'
    BY <1>0, <1>2, <2>4, <2>6, AtStep, FitsExactly DEF Fits, Local
  <2> QED
    BY <1>0, <2>0, <2>6, <2>7, <2>8, <2>9, LocalStep DEF Idle
<1> QED
  BY <1>1, <1>2

\* The archive is written, and what is written of it is counted only when it fits.
LEMMA StreamInv == ASSUME QuotaInv, NEW t \in Tasks, Stream(t) PROVE QuotaInv'
<1> DEFINE f == task[t].file
<1>0. task[t].pc = "stream" /\ task[t].op = "compress" /\ Local
  BY AtStep DEF Stream, Suits
<1>1. PICK n \in Sizes :
        /\ size' = Grown(f, n)
        /\ \/ Go(t, [At(t, "fit") EXCEPT !.new = n]) /\ Accounted
           \/ Go(t, NoTask) /\ IF n > 0 THEN Disturb ELSE Accounted
  BY DEF Stream
<1>2. /\ size' \in [Names -> Sizes \cup {Absent}] /\ \A g \in Names : g # f => size'[g] = size[g]
      /\ f \in Names => size'[f] \in Sizes /\ size'[f] = IF n >= size[f] THEN n ELSE size[f]
  <2>1. TypeOK /\ f \in Names \cup {Gone} /\ n \in Sizes /\ size' = Grown(f, n)
    BY <1>1, AtStep DEF QuotaInv
  <2> HIDE DEF f
  <2> QED
    BY <2>1, GrownSize
<1>3. ASSUME exact PROVE /\ f \in Names /\ Counted(t) = 0 /\ Size(f) = 0
                         /\ \A g \in Names : Size(g)' = IF g = f THEN n ELSE Size(g)
  <2>1. f \in Names /\ Counted(t) = Size(f) /\ Size(f) = 0
    BY <1>0, <1>3, AtStep DEF FileInv, Counted
  <2>2. size[f] \in {0, Absent} /\ n \in Nat
    BY <2>1, Constants DEF Size
  <2>3. size'[f] = n /\ n # Absent
    BY <1>2, <2>1, <2>2 DEF Absent
  <2> QED
    BY <1>2, <2>1, <2>3 DEF Size
<1>4. CASE Go(t, [At(t, "fit") EXCEPT !.new = n]) /\ Accounted
  <2> DEFINE q == [At(t, "fit") EXCEPT !.new = n]
  <2>1. q \in TaskType /\ q.op = "compress" /\ q.pc = "fit" /\ q.file = f /\ q.rest = task[t].rest /\ q.new = n
    BY <1>0, AtStep DEF At, TaskType
  <2>2. q \in Handlers
    BY <2>1 DEF Handlers, Suits
  <2>3. task'[t] = q /\ task' \in [Tasks -> Handlers] /\ \A u \in Tasks \ {t} : task'[u] = task[u]
    BY <1>4, <2>2, GoTask DEF QuotaInv
  <2> HIDE DEF q
  <2>4. ASSUME exact PROVE Keeps(t)
    <3>1. FileInv(t)' /\ Uses(t)' = Uses(t) /\ Counted(t)' = 0
      BY <1>3, <2>1, <2>3, <2>4 DEF FileInv, Uses, Counted
    <3> QED
      BY <1>3, <2>1, <2>3, <2>4, <3>1 DEF Keeps, Uses
  <2>5. Fits(t)'
    BY <2>1, <2>3 DEF Fits
  <2> QED
    BY <1>0, <1>2, <1>4, <2>3, <2>4, <2>5, LocalStep DEF Idle
<1>5. CASE Go(t, NoTask) /\ IF n > 0 THEN Disturb ELSE Accounted
  <2>1. task'[t] = NoTask /\ task' \in [Tasks -> Handlers] /\ \A u \in Tasks \ {t} : task'[u] = task[u]
    BY <1>5, GoTask, Constants DEF QuotaInv
  <2>2. ASSUME Accounted, exact PROVE Keeps(t)
    <3>1. n = 0
      BY <1>5, <2>2, Constants DEF Accounted, Disturb
    <3> QED
      BY <1>3, <2>1, <2>2, <3>1, Ends DEF Keeps, Uses
  <2> QED
    BY <1>0, <1>2, <1>5, <2>1, <2>2, Ends, LocalStep DEF Idle
<1> QED
  BY <1>1, <1>4, <1>5

LEMMA FitInv == ASSUME QuotaInv, NEW t \in Tasks, Fit(t) PROVE QuotaInv'
<1> DEFINE f == task[t].file
<1>0. task[t].pc = "fit" /\ task[t].op = "compress" /\ Local
  BY AtStep DEF Fit, Suits
<1>1. CASE CanFit(task[t].new)
  <2> DEFINE q == Adding(t, task[t].new)
  <2>0. Go(t, q) /\ UNCHANGED size /\ Accounted /\ task[t].new \in -MaxSize..MaxSize
    BY <1>1, AtStep, Constants DEF Fit
  <2>1. q \in Handlers /\ q.op = "compress" /\ q.pc = "load" /\ q.file = f /\ q.rest = task[t].rest /\ q.delta = task[t].new
    BY <1>0, <2>0, AddingTask
  <2>2. task'[t] = q /\ task' \in [Tasks -> Handlers] /\ \A u \in Tasks \ {t} : task'[u] = task[u]
    BY <2>0, <2>1, GoTask DEF QuotaInv
  <2> HIDE DEF q
  <2>3. \A g \in Names : Size(g)' = Size(g)
    BY <2>0 DEF Size
  <2>4. ASSUME exact PROVE Keeps(t)
    <3>1. f \in Names /\ task[t].new = Size(f) /\ Counted(t) = 0
      BY <1>0, <2>4, AtStep DEF FileInv, Counted
    <3>2. FileInv(t)' /\ Uses(t)' = Uses(t)
      BY <2>1, <2>2, <3>1 DEF FileInv, Uses
    <3>3. Counted(t)' = 0
      BY <2>1, <2>2, <2>3, <3>1, AtStep DEF Counted
    <3> QED
      BY <2>1, <2>2, <2>3, <3>1, <3>2, <3>3 DEF Keeps, Uses
  <2>5. trusted => Fits(t)'
    BY <1>0, <1>1, <2>1, <2>2, AtStep, FitsExactly DEF Fits, Local
  <2> QED
    BY <1>0, <2>0, <2>2, <2>4, <2>5, LocalStep DEF Idle, QuotaInv, TypeOK
<1>2. CASE ~CanFit(task[t].new) /\ f = Gone
  <2>1. Go(t, NoTask) /\ UNCHANGED size /\ Disturb
    BY <1>2 DEF Fit
  <2>2. task'[t] = NoTask /\ task' \in [Tasks -> Handlers] /\ \A u \in Tasks \ {t} : task'[u] = task[u]
    BY <2>1, GoTask, Constants DEF QuotaInv
  <2>3. ~(Accounted /\ exact)
    BY <2>1 DEF Accounted, Disturb
  <2> QED
    BY <1>0, <2>1, <2>2, <2>3, Ends, LocalStep DEF Idle, QuotaInv, TypeOK
<1>3. CASE ~CanFit(task[t].new) /\ f # Gone
  <2> DEFINE q == Adding(t, -Size(f))
             to == [g \in {f} |-> Gone]
  <2>1. /\ size' = [size EXCEPT ![f] = Absent] /\ task' = [Reopened(to) EXCEPT ![t] = q] /\ Disturb
        /\ f \in Names
    BY <1>3, AtStep DEF Fit, Unlinked
  <2>2. -Size(f) \in -MaxSize..MaxSize
    BY <2>1, SizeType, Constants DEF QuotaInv
  <2>3. q \in Handlers
    BY <1>0, <2>2, AddingTask
  <2>4. /\ Reopened(to) \in [Tasks -> Handlers]
        /\ \A u \in Tasks : Idle(u) => Reopened(to)[u] = task[u]
    BY ReopenedHandlers DEF QuotaInv
  <2> HIDE DEF q, to
  <2>5. task' \in [Tasks -> Handlers] /\ \A u \in Tasks \ {t} : Idle(u) => task'[u] = task[u]
    BY <2>1, <2>3, <2>4
  <2>6. size' \in [Names -> Sizes \cup {Absent}]
    BY <2>1 DEF QuotaInv, TypeOK
  <2>7. ~(Accounted /\ exact) /\ ~(Accounted /\ trusted)
    BY <2>1, AtStep DEF Accounted, Disturb
  <2> QED
    BY <1>0, <2>1, <2>5, <2>6, <2>7, LocalStep DEF Idle
<1> QED
  BY <1>1, <1>2, <1>3

\* RemoveAll lowers the usage by the size the file has.
LEMMA LstatInv == ASSUME QuotaInv, NEW t \in Tasks, Lstat(t) PROVE QuotaInv'
<1>0. task[t].pc = "lstat" /\ task[t].op = "removeAll" /\ UNCHANGED size /\ Local /\ Accounted
  BY AtStep DEF Lstat, Suits
<1>1. \A g \in Names : Size(g)' = Size(g) /\ (task[t].file = g => Counted(t) = Size(g))
  BY <1>0 DEF Size, Counted
<1>2. CASE task[t].rest = {}
  <2>1. task'[t] = NoTask /\ task' \in [Tasks -> Handlers] /\ \A u \in Tasks \ {t} : task'[u] = task[u]
    BY <1>2, GoTask, Constants DEF QuotaInv, Lstat
  <2>2. Keeps(t)
    BY <1>1, <2>1, Ends DEF Keeps
  <2> QED
    BY <1>0, <2>1, <2>2, Ends, LocalStep DEF Idle, QuotaInv, TypeOK
<1>3. CASE task[t].rest # {}
  <2> DEFINE next(f) == [task[t] EXCEPT !.rest = @ \ {f}, !.file = f]
  <2>1. PICK f \in task[t].rest : Go(t, IF f \notin Existing THEN next(f)
                                        ELSE [next(f) EXCEPT !.pc = "load", !.delta = -size[f]])
    BY <1>3 DEF Lstat
  <2>2. f \in Names /\ Size(f) \in Sizes /\ Size(f) \in Nat /\ (f \in Existing => size[f] = Size(f))
    BY <2>1, AtStep, SizeType, QuotaAssumption DEF QuotaInv, Sizes
  <2>3. /\ next(f) \in TaskType /\ next(f).op = "removeAll" /\ next(f).pc = "lstat" /\ next(f).file = f
        /\ next(f).rest = task[t].rest \ {f}
    BY <1>0, <2>2, AtStep DEF TaskType
  <2>4. CASE f \notin Existing
    <3> DEFINE q == next(f)
    <3>1. q \in Handlers
      BY <2>3 DEF Handlers, Suits
    <3>2. task'[t] = q /\ task' \in [Tasks -> Handlers] /\ \A u \in Tasks \ {t} : task'[u] = task[u]
      BY <2>1, <2>4, <3>1, GoTask DEF QuotaInv
    <3>3. FileInv(t)' /\ Fits(t)' /\ Uses(t)' \subseteq Uses(t)
      BY <2>1, <2>3, <3>2 DEF FileInv, Fits, Uses
    <3>4. Counted(t)' = Size(f)
      BY <1>1, <2>2, <2>3, <3>2 DEF Counted
    <3>5. Keeps(t)
      BY <1>1, <2>3, <3>2, <3>3, <3>4 DEF Keeps
    <3> QED
      BY <1>0, <3>2, <3>3, <3>5, LocalStep DEF Idle, QuotaInv, TypeOK
  <2>5. CASE f \in Existing
    <3> DEFINE q == [next(f) EXCEPT !.pc = "load", !.delta = -size[f]]
    <3>0. -size[f] \in -MaxSize..MaxSize
      BY <2>2, <2>5, Constants
    <3> HIDE DEF next
    <3>1. /\ q \in TaskType /\ q.op = "removeAll" /\ q.pc = "load" /\ q.file = f
          /\ q.rest = task[t].rest \ {f} /\ q.delta = -size[f]
      BY <2>3, <3>0 DEF TaskType
    <3>2. q \in Handlers
      BY <3>1 DEF Handlers, Suits
    <3>3. task'[t] = q /\ task' \in [Tasks -> Handlers] /\ \A u \in Tasks \ {t} : task'[u] = task[u]
      BY <2>1, <2>5, <3>2, GoTask DEF QuotaInv
    <3> HIDE DEF q
    <3>4. FileInv(t)' /\ Uses(t)' \subseteq Uses(t)
      BY <1>1, <2>1, <2>2, <2>5, <3>1, <3>3 DEF FileInv, Uses
    <3>5. Counted(t)' = Size(f)
      BY <1>1, <2>2, <3>1, <3>3 DEF Counted
    <3>6. Keeps(t)
      BY <1>1, <3>1, <3>3, <3>4, <3>5 DEF Keeps
    <3>7. trusted => Fits(t)'
      BY <1>0, <2>2, <2>5, <3>1, <3>3, AtStep DEF Fits, Local
    <3> QED
      BY <1>0, <3>3, <3>6, <3>7, LocalStep DEF Idle, QuotaInv, TypeOK
  <2> QED
    BY <2>4, <2>5
<1> QED
  BY <1>2, <1>3

\* A file is removed; for RemoveAll it is no longer counted, for Remove it still is.
LEMMA UnlinkInv == ASSUME QuotaInv, NEW t \in Tasks, Unlink(t) PROVE QuotaInv'
<1> DEFINE f == task[t].file
           to == [g \in {f} |-> Gone]
           next == IF task[t].op = "removeAll" THEN [At(t, "lstat") EXCEPT !.file = Gone]
                   ELSE IF f \in Existing THEN Adding(t, -task[t].cur) ELSE NoTask
<1>0. /\ task[t].pc = "unlink" /\ task[t].op \in {"remove", "removeAll"} /\ Local /\ Accounted
      /\ size' = [size EXCEPT ![f] = Absent] /\ task' = [Reopened(to) EXCEPT ![t] = next]
  BY AtStep DEF Unlink, Suits, Unlinked
<1>1. size' \in [Names -> Sizes \cup {Absent}] /\ \A g \in Names : Size(g)' = IF g = f THEN 0 ELSE Size(g)
  BY <1>0 DEF QuotaInv, TypeOK, Size
<1>2. /\ Reopened(to) \in [Tasks -> Handlers]
      /\ \A u \in Tasks : Idle(u) \/ task[u].file # f => Reopened(to)[u] = task[u]
  BY ReopenedHandlers DEF QuotaInv
<1>3. ASSUME exact PROVE f \in Names /\ \A u \in Tasks \ {t} : task[u].file # f
  BY <1>0, <1>3, AtStep DEF FileInv, Disjoint, Uses
<1> HIDE DEF next, to
<1>4. ASSUME next \in Handlers
      PROVE  /\ task' \in [Tasks -> Handlers] /\ task'[t] = next
             /\ \A u \in Tasks \ {t} : Idle(u) \/ exact => task'[u] = task[u]
  BY <1>0, <1>2, <1>3, <1>4
<1>5. CASE task[t].op = "removeAll"
  <2>1. /\ next \in TaskType /\ next.op = "removeAll" /\ next.pc = "lstat" /\ next.file = Gone
        /\ next.rest = task[t].rest
    BY <1>5, AtStep DEF At, TaskType, next
  <2>2. next \in Handlers
    BY <2>1 DEF Handlers, Suits
  <2>3. /\ task' \in [Tasks -> Handlers] /\ task'[t] = next
        /\ \A u \in Tasks \ {t} : Idle(u) \/ exact => task'[u] = task[u]
    BY <1>4, <2>2
  <2>4. FileInv(t)' /\ Fits(t)'
    BY <2>1, <2>3 DEF FileInv, Fits
  <2>5. ASSUME exact PROVE Keeps(t)
    <3>1. Counted(t) = 0 /\ Uses(t)' \cap Names \subseteq Uses(t)
      BY <1>0, <1>5, <2>1, <2>3, Constants DEF Counted, Uses
    <3> QED
      BY <1>1, <1>3, <2>1, <2>3, <2>4, <2>5, <3>1, Constants DEF Keeps, Uses
  <2> QED
    BY <1>0, <1>1, <2>3, <2>4, <2>5, LocalStep DEF Idle
<1>6. CASE task[t].op = "remove" /\ f \in Existing
  <2>0. -task[t].cur \in -MaxSize..MaxSize
    BY AtStep, Constants
  <2>1. /\ next \in Handlers /\ next.op = "remove" /\ next.pc = "load" /\ next.file = f
        /\ next.rest = task[t].rest /\ next.delta = -task[t].cur
    BY <1>6, <2>0, AddingTask DEF next
  <2>2. /\ task' \in [Tasks -> Handlers] /\ task'[t] = next
        /\ \A u \in Tasks \ {t} : Idle(u) \/ exact => task'[u] = task[u]
    BY <1>4, <2>1
  <2>3. ASSUME exact PROVE Keeps(t)
    <3>1. Counted(t) = Size(f) /\ task[t].cur = Size(f)
      BY <1>0, <1>6, <2>3, AtStep DEF Counted, FileInv
    <3>2. FileInv(t)' /\ Uses(t)' = Uses(t)
      BY <1>3, <2>1, <2>2, <2>3 DEF FileInv, Uses
    <3>3. Counted(t)' = task[t].cur
      BY <1>1, <1>3, <2>1, <2>2, <2>3, AtStep DEF Counted
    <3> QED
      BY <1>1, <1>3, <2>1, <2>2, <2>3, <3>1, <3>2, <3>3 DEF Keeps, Uses
  <2>4. trusted => Fits(t)'
    BY <1>0, <2>1, <2>2, AtStep DEF Fits, Local
  <2> QED
    BY <1>0, <1>1, <2>2, <2>3, <2>4, LocalStep DEF Idle
<1>7. CASE task[t].op = "remove" /\ f \notin Existing
  <2>1. next = NoTask
    BY <1>7 DEF next
  <2>2. /\ task' \in [Tasks -> Handlers] /\ task'[t] = NoTask
        /\ \A u \in Tasks \ {t} : Idle(u) \/ exact => task'[u] = task[u]
    BY <1>4, <2>1, Constants
  <2>3. ASSUME exact PROVE Keeps(t)
    <3>1. Counted(t) = 0
      BY <1>0, <1>3, <1>7, <2>3, SizeType DEF Counted, QuotaInv
    <3> QED
      BY <1>1, <1>3, <2>2, <2>3, <3>1, Ends DEF Keeps, Uses
  <2> QED
    BY <1>0, <1>1, <2>2, <2>3, Ends, LocalStep DEF Idle
<1> QED
  BY <1>0, <1>5, <1>6, <1>7

\* A file that is renamed is counted under its new name, which nothing was counted for.
LEMMA RenameAtInv == ASSUME QuotaInv, NEW t \in Tasks, RenameAt(t) PROVE QuotaInv'
<1> DEFINE f == task[t].file
<1>0. task[t].pc = "renameat" /\ task[t].op = "rename" /\ Local /\ Accounted
  BY AtStep DEF RenameAt, Suits
<1>1. PICK g \in task[t].rest :
        IF f \notin Existing THEN Go(t, NoTask) /\ UNCHANGED size
        ELSE /\ size' = [size EXCEPT ![g] = size[f], ![f] = Absent]
             /\ task' = [Reopened([h \in {f, g} |-> IF h = f THEN g ELSE Gone]) EXCEPT ![t] = NoTask]
  BY DEF RenameAt
<1>2. g \in Names /\ g \in Uses(t) /\ f \in Uses(t)
  BY <1>1, AtStep DEF Uses
<1>3. CASE f \notin Existing
  <2>1. task'[t] = NoTask /\ task' \in [Tasks -> Handlers] /\ \A u \in Tasks \ {t} : task'[u] = task[u]
    BY <1>1, <1>3, GoTask, Constants DEF QuotaInv
  <2>2. \A h \in Names : Size(h)' = Size(h) /\ (task[t].file = h => Counted(t) = Size(h))
    BY <1>0, <1>1, <1>3 DEF Size, Counted
  <2>3. Keeps(t)
    BY <2>1, <2>2, Ends DEF Keeps
  <2> QED
    BY <1>0, <1>1, <1>3, <2>1, <2>3, Ends, LocalStep DEF Idle, QuotaInv, TypeOK
<1>4. CASE f \in Existing
  <2> DEFINE to == [h \in {f, g} |-> IF h = f THEN g ELSE Gone]
  <2>1. size' = [size EXCEPT ![g] = size[f], ![f] = Absent] /\ task' = [Reopened(to) EXCEPT ![t] = NoTask]
    BY <1>1, <1>4
  <2>2. f \in Names /\ size[f] = Size(f) /\ size[f] \in Sizes /\ size[f] # Absent
    BY <1>4, SizeType DEF QuotaInv, Existing
  <2>3. size' \in [Names -> Sizes \cup {Absent}]
    BY <2>1, <2>2 DEF QuotaInv, TypeOK
  <2>4. /\ Reopened(to) \in [Tasks -> Handlers]
        /\ \A u \in Tasks : Idle(u) \/ task[u].file \notin {f, g} => Reopened(to)[u] = task[u]
    BY <1>2, ReopenedHandlers DEF QuotaInv
  <2> HIDE DEF to
  <2>5. /\ task' \in [Tasks -> Handlers] /\ task'[t] = NoTask
        /\ \A u \in Tasks \ {t} : Idle(u) \/ task[u].file \notin {f, g} => task'[u] = task[u]
    BY <2>1, <2>4, Constants
  <2>6. ASSUME exact PROVE ExactInv'
    <3> DEFINE fs == Uses(t) \cap Names
    <3>1. Disjoint /\ (\A u \in Tasks : FileInv(u)) /\ f # g /\ Size(g) = 0 /\ Counted(t) = Size(f)
      BY <1>0, <1>1, <2>6 DEF QuotaInv, ExactInv, FileInv, Counted
    <3>2. PICK a \in [Names -> Sizes] : Accounts(a)
      BY <2>6 DEF QuotaInv, ExactInv
    <3>3. \A u \in Tasks \ {t} : Uses(u) \cap fs = {} /\ task[u].file \notin {f, g}
      BY <1>2, <2>2, <3>1 DEF Disjoint, Uses
    <3>4. a[f] = Size(f) /\ a[g] = 0 /\ \A h \in fs : h # f => a[h] = Size(h)
      BY <1>2, <2>2, <3>1, <3>2, OwnFiles
    <3> DEFINE moved == [a EXCEPT ![g] = a[f]]
               c == [moved EXCEPT ![f] = 0]
    <3>5. moved \in [Names -> Sizes] /\ Count(moved) = Count(a) - a[g] + a[f]
      <4>1. a[f] \in Sizes /\ g \in Names
        BY <1>2, <2>2
      <4> QED
        BY <4>1, CountChange
    <3>6. c \in [Names -> Sizes] /\ Count(c) = Count(moved) - moved[f] + 0
      BY <2>2, <3>5, CountChange, Constants
    <3>7. Count(c) = usage'
      <4>1. moved[f] = a[f] /\ a[f] \in Int /\ Count(a) \in Int /\ usage = Count(a) /\ usage' = usage
        <5>1. moved[f] = a[f] /\ a[f] \in Sizes
          BY <2>2, <3>1
        <5>2. a[f] \in Int
          BY <5>1, QuotaAssumption DEF Sizes
        <5>3. Count(a) \in Int
          BY CountType
        <5> QED
          BY <1>0, <3>2, <5>1, <5>2, <5>3 DEF Accounts, Local
      <4> QED
        BY <3>4, <3>5, <3>6, <4>1
    <3>8. \A h \in Names : Size(h)' = IF h = f THEN 0 ELSE IF h = g THEN Size(f) ELSE Size(h)
      BY <1>2, <2>1, <2>2, <3>1 DEF QuotaInv, TypeOK, Size
    <3>9. \A h \in Names : c[h] = IF h = f THEN 0 ELSE IF h = g THEN a[f] ELSE a[h]
      BY <1>2, <2>2, <3>1
    <3> HIDE DEF c, moved
    <3>10. \A h \in fs : c[h] = IF task'[t].file = h THEN Counted(t)' ELSE Size(h)'
      BY <2>5, <3>4, <3>8, <3>9, Ends
    <3>11. \A h \in Names \ fs : c[h] = a[h] /\ Size(h)' = Size(h)
      BY <1>2, <2>2, <3>8, <3>9
    <3>12. /\ \A u \in Tasks \ {t} : task'[u] = task[u]
           /\ Uses(t)' \cap Names \subseteq fs /\ FileInv(t)'
      BY <2>5, <3>3, Ends
    <3>13. fs \in SUBSET Names /\ Uses(t) \cap Names \subseteq fs /\ TasksInv
      BY DEF QuotaInv
    <3> HIDE DEF fs
    <3> QED
      BY <3>1, <3>2, <3>3, <3>6, <3>7, <3>10, <3>11, <3>12, <3>13, ExactFrame
  <2> QED
    BY <1>0, <2>3, <2>5, <2>6, Ends, LocalFrame DEF Idle
<1> QED
  BY <1>3, <1>4

-----------------------------------------------------------------------------
(* The usage is adjusted.                                                    *)

LEMMA ContinueTask ==
    ASSUME QuotaInv, NEW t \in Tasks, task[t].pc = "store"
    PROVE  LET q == Continue(t) IN
           /\ q \in Handlers
           /\ \/ q = NoTask /\ task[t].op # "removeAll"
              \/ /\ q.op = task[t].op /\ q.file = task[t].file /\ q.rest = task[t].rest /\ q.cur = task[t].cur
                 /\ \/ q.op = "write" /\ q.pc = "stat"
                    \/ q.op = "gunzip" /\ q.pc = "chunk"
                    \/ q.op = "removeAll" /\ q.pc = "unlink"
<1> DEFINE moved(pc) == [At(t, pc) EXCEPT !.delta = 0, !.below = FALSE]
<1>1. ASSUME NEW pc \in {"stat", "chunk", "unlink"}
      PROVE  /\ moved(pc) \in TaskType /\ moved(pc).op = task[t].op /\ moved(pc).pc = pc
             /\ moved(pc).file = task[t].file /\ moved(pc).rest = task[t].rest
             /\ moved(pc).cur = task[t].cur /\ moved(pc).new = task[t].new
  BY AtStep, Constants DEF At, TaskType
<1>2. \/ task[t].op = "write" /\ Continue(t) = moved("stat")
      \/ task[t].op = "gunzip" /\ Continue(t) = moved("chunk")
      \/ task[t].op = "removeAll" /\ Continue(t) = moved("unlink")
      \/ task[t].op # "removeAll" /\ Continue(t) = NoTask
  <2>1. CASE task[t].op = "write" /\ task[t].rest # {}
    BY <2>1 DEF Continue
  <2>2. CASE task[t].op = "write" /\ task[t].rest = {}
    BY <2>2 DEF Continue
  <2>3. CASE task[t].op = "gunzip"
    BY <2>3 DEF Continue
  <2>4. CASE task[t].op = "removeAll"
    BY <2>4 DEF Continue
  <2>5. CASE task[t].op \notin {"write", "gunzip", "removeAll"}
    BY <2>5 DEF Continue
  <2> QED
    BY <2>1, <2>2, <2>3, <2>4, <2>5
<1> HIDE DEF moved
<1>3. CASE task[t].op = "write" /\ Continue(t) = moved("stat")
  BY <1>1, <1>3 DEF Handlers, Suits
<1>4. CASE task[t].op = "gunzip" /\ Continue(t) = moved("chunk")
  BY <1>1, <1>4, AtStep DEF Handlers, Suits
<1>5. CASE task[t].op = "removeAll" /\ Continue(t) = moved("unlink")
  BY <1>1, <1>5 DEF Handlers, Suits
<1>6. CASE task[t].op # "removeAll" /\ Continue(t) = NoTask
  BY <1>6, Constants
<1> QED
  BY <1>2, <1>3, <1>4, <1>5, <1>6

\* Quota.Add takes the adjustment into the account, whatever the others have added since
\* it has read the usage.
LEMMA AddStoreInv == ASSUME QuotaInv, NEW t \in Tasks, AddStore(t) PROVE QuotaInv'
<1> DEFINE f == task[t].file
           q == Continue(t)
           fs == Uses(t) \cap Names
<1>0. /\ task[t].pc = "store" /\ usage' = IF task[t].below THEN 0 ELSE usage + task[t].delta
      /\ Go(t, q) /\ UNCHANGED <<size, limit, walk, requests, clean, exact, trusted>>
  BY DEF AddStore
<1>1. /\ q \in Handlers
      /\ \/ q = NoTask /\ task[t].op # "removeAll"
         \/ /\ q.op = task[t].op /\ q.file = f /\ q.rest = task[t].rest /\ q.cur = task[t].cur
            /\ \/ q.op = "write" /\ q.pc = "stat"
               \/ q.op = "gunzip" /\ q.pc = "chunk"
               \/ q.op = "removeAll" /\ q.pc = "unlink"
  BY <1>0, ContinueTask
<1> HIDE DEF q
<1>2. task'[t] = q /\ task' \in [Tasks -> Handlers] /\ \A u \in Tasks \ {t} : task'[u] = task[u]
  BY <1>0, <1>1, GoTask DEF QuotaInv
<1>3. TypeOK' /\ TasksInv'
  <2>1. task' \in [Tasks -> TaskType]
    BY <1>2 DEF Handlers
  <2>2. usage' \in Int
    BY <1>0, AtStep
  <2> QED
    BY <1>0, <1>2, <2>1, <2>2 DEF QuotaInv, TypeOK, TasksInv
<1>4. WalkInv'
  <2>1. ~clean /\ ~clean'
    BY <1>0 DEF QuotaInv, WalkInv, Quiet, Idle
  <2> QED
    BY <2>1 DEF WalkInv
<1>5. ASSUME exact PROVE usage' = usage + task[t].delta /\ ExactInv'
  <2>1. /\ Disjoint /\ (\A u \in Tasks : FileInv(u)) /\ f \in Names /\ ~task[t].below
        /\ task[t].op = "removeAll" => task[t].delta = -Size(f)
    BY <1>0, <1>5 DEF QuotaInv, ExactInv, FileInv
  <2>2. usage' = usage + task[t].delta
    BY <1>0, <2>1
  <2>3. PICK a \in [Names -> Sizes] : Accounts(a)
    BY <1>5 DEF QuotaInv, ExactInv
  <2>4. a[f] = Counted(t) /\ f \in fs /\ \A h \in fs : h # f => a[h] = Size(h)
    BY <2>1, <2>3, OwnFiles DEF Uses
  <2> DEFINE n == IF task[t].op = "removeAll" THEN 0 ELSE Size(f)
             c == [a EXCEPT ![f] = n]
  <2>5. n \in Sizes /\ n \in Int /\ Size(f) \in Int /\ a[f] \in Int /\ Count(a) \in Int
    <3>1. Size(f) \in Sizes
      BY <2>1, SizeType DEF QuotaInv
    <3>2. n \in Sizes /\ a[f] \in Sizes
      BY <2>1, <3>1, Constants
    <3> QED
      BY <3>1, <3>2, CountType, QuotaAssumption DEF Sizes
  <2>6. a[f] + task[t].delta = n
    BY <1>0, <2>1, <2>4, <2>5, AtStep DEF Counted
  <2> HIDE DEF n
  <2>7. c \in [Names -> Sizes] /\ Count(c) = Count(a) - a[f] + n
    BY <2>1, <2>5, CountChange
  <2>8. usage' = Count(c)
    <3>1. usage = Count(a)
      BY <2>3 DEF Accounts
    <3> QED
      BY <2>2, <2>5, <2>6, <2>7, <3>1, AtStep
  <2>9. \A h \in Names : Size(h)' = Size(h)
    BY <1>0 DEF Size
  <2>10. \A h \in Names : c[h] = IF h = f THEN n ELSE a[h]
    BY <2>1
  <2> HIDE DEF c
  <2>11. FileInv(t)' /\ Uses(t)' \cap Names \subseteq fs
    <3>1. CASE q = NoTask
      BY <1>2, <3>1, Ends
    <3>2. CASE q # NoTask
      BY <1>1, <1>2, <2>1, <2>9, <3>2 DEF FileInv, Uses
    <3> QED
      BY <3>1, <3>2
  <2>12. \A h \in fs : c[h] = IF task'[t].file = h THEN Counted(t)' ELSE Size(h)'
    <3>1. CASE q = NoTask
      BY <1>1, <1>2, <2>4, <2>9, <2>10, <3>1, Ends DEF n, NoTask
    <3>2. CASE q # NoTask
      <4>1. q.file = f /\ Counted(t)' = n
        BY <1>1, <1>2, <2>1, <2>9, <3>2 DEF Counted, n
      <4> QED
        BY <1>2, <2>4, <2>9, <2>10, <4>1
    <3> QED
      BY <3>1, <3>2
  <2>13. \A u \in Tasks \ {t} : Uses(u) \cap fs = {}
    BY <2>1 DEF Disjoint
  <2>14. \A h \in Names \ fs : c[h] = a[h] /\ Size(h)' = Size(h)
    BY <2>4, <2>9, <2>10
  <2>15. fs \in SUBSET Names /\ Uses(t) \cap Names \subseteq fs /\ TasksInv
    BY DEF QuotaInv
  <2> HIDE DEF fs
  <2> QED
    BY <1>2, <2>1, <2>2, <2>3, <2>7, <2>8, <2>11, <2>12, <2>13, <2>14, <2>15, ExactFrame
<1>6. ExactInv'
  BY <1>0, <1>5 DEF ExactInv
<1>7. LimitInv'
  <2> SUFFICES ASSUME trusted' PROVE /\ exact' /\ \A u, v \in Tasks : ~Idle(u)' /\ ~Idle(v)' => u = v
                                     /\ limit' # 0 => usage' <= limit'
                                     /\ \A u \in Tasks : Fits(u)'
    BY DEF LimitInv
  <2>1. trusted /\ exact /\ exact' /\ Fits(t)
    BY <1>0 DEF QuotaInv, LimitInv
  <2>2. limit' # 0 => usage' <= limit'
    BY <1>0, <1>5, <2>1 DEF Fits
  <2>3. \A u \in Tasks \ {t} : task'[u].pc = "idle"
    BY <1>0, <1>2, <2>1 DEF QuotaInv, LimitInv, Idle
  <2>4. Fits(t)'
    BY <1>1, <1>2 DEF Fits, NoTask
  <2> QED
    BY <2>1, <2>2, <2>3, <2>4 DEF Idle, Fits
<1> QED
  BY <1>3, <1>4, <1>6, <1>7 DEF QuotaInv

-----------------------------------------------------------------------------
(* Requests.                                                                *)

\* A new handler, which knows the files that it is to change.
LEMMA RequestStep ==
    ASSUME QuotaInv, NEW t \in Tasks, NEW fs \in SUBSET Names, NEW q \in Handlers, Request(t, fs, q),
           q.pc # "idle", q.file \in fs \cup {Gone}, q.rest \subseteq fs,
           size' \in [Names -> Sizes \cup {Absent}], \A f \in Names : Size(f)' = Size(f),
           exact /\ task'[t] = q =>
               FileInv(t)' /\ \A f \in Names : q.file = f => Counted(t)' = Size(f)',
           trusted /\ exact /\ task'[t] = q => Fits(t)'
    PROVE  QuotaInv'
<1>1. /\ task[t] = NoTask /\ task'[t] = q /\ task' \in [Tasks -> Handlers]
      /\ \A u \in Tasks \ {t} : task'[u] = task[u]
  BY DEF Request, QuotaInv, TasksInv, Handlers, Idle
<1>2. /\ ~clean' /\ UNCHANGED <<usage, limit, walk>> /\ requests' \in 0..MaxRequests
      /\ exact' = (exact /\ \A u \in Tasks \ {t} : Idle(u) \/ Uses(u) \cap fs = {})
      /\ trusted' = (trusted /\ \A u \in Tasks \ {t} : Idle(u))
  BY QuotaAssumption DEF Request, QuotaInv, TypeOK
<1>3. TypeOK' /\ TasksInv'
  <2>1. task' \in [Tasks -> TaskType]
    BY <1>1 DEF Handlers
  <2>2. exact' \in BOOLEAN /\ trusted' \in BOOLEAN /\ clean' \in BOOLEAN
    BY DEF Request, QuotaInv, TypeOK
  <2> QED
    BY <1>1, <1>2, <2>1, <2>2 DEF QuotaInv, TypeOK, TasksInv
<1>4. WalkInv'
  BY <1>2 DEF WalkInv
<1>5. ASSUME exact' PROVE ExactInv'
  <2>1. exact /\ Disjoint /\ (\A u \in Tasks : FileInv(u)) /\ TasksInv
    BY <1>2, <1>5 DEF QuotaInv, ExactInv
  <2>2. PICK a \in [Names -> Sizes] : Accounts(a)
    BY <2>1 DEF QuotaInv, ExactInv
  <2>3. \A u \in Tasks \ {t} : Uses(u) \cap fs = {}
    <3>1. ASSUME NEW u \in Tasks, Idle(u) PROVE Uses(u) = {Gone}
      BY <3>1, <2>1 DEF TasksInv, Handlers, Idle, Uses, NoTask
    <3> QED
      BY <1>2, <1>5, <3>1, Constants
  <2>4. Uses(t) \cap Names \subseteq fs /\ Uses(t)' \cap Names \subseteq fs
    BY <1>1, Constants DEF Uses, NoTask
  <2>5. \A f \in fs : a[f] = Size(f)
    <3>1. \A u \in Tasks : task[u].file \notin fs
      BY <1>1, <2>3, Constants DEF Uses, NoTask
    <3> QED
      BY <2>2, <3>1 DEF Accounts
  <2>6. \A f \in fs : a[f] = IF task'[t].file = f THEN Counted(t)' ELSE Size(f)'
    BY <1>1, <2>1, <2>5
  <2>7. usage' = Count(a)
    BY <1>2, <2>2 DEF Accounts
  <2> QED
    BY <1>1, <2>1, <2>2, <2>3, <2>4, <2>6, <2>7, ExactFrame
<1>6. ASSUME trusted' PROVE LimitInv'
  <2>1. trusted /\ exact /\ (\A u \in Tasks \ {t} : Idle(u)) /\ (limit # 0 => usage <= limit)
    BY <1>2, <1>6 DEF QuotaInv, LimitInv
  <2>2. exact'
    BY <1>2, <2>1
  <2>3. \A u \in Tasks \ {t} : task'[u].pc = "idle"
    BY <1>1, <2>1 DEF Idle
  <2>4. Fits(t)'
    BY <1>1, <2>1
  <2> QED
    BY <1>2, <2>1, <2>2, <2>3, <2>4 DEF LimitInv, Idle, Fits
<1>7. ExactInv' /\ LimitInv'
  BY <1>5, <1>6 DEF ExactInv, LimitInv
<1> QED
  BY <1>3, <1>4, <1>7 DEF QuotaInv

\* A file that is opened without being truncated keeps its size.
LEMMA OpenedSize ==
    ASSUME QuotaInv, NEW f \in Names, size' = Grown(f, 0)
    PROVE  size' \in [Names -> Sizes \cup {Absent}] /\ \A g \in Names : Size(g)' = Size(g)
<1>1. /\ size' \in [Names -> Sizes \cup {Absent}] /\ \A g \in Names : g # f => size'[g] = size[g]
      /\ size'[f] \in Sizes /\ size'[f] = IF 0 >= size[f] THEN 0 ELSE size[f]
  BY GrownSize, Constants DEF QuotaInv
<1>2. size[f] \in Sizes \cup {Absent} /\ \A n \in Sizes : n \in Nat
  BY QuotaAssumption DEF QuotaInv, TypeOK, Sizes
<1>3. Size(f)' = Size(f)
  BY <1>1, <1>2 DEF Size, Absent
<1> QED
  BY <1>1, <1>3 DEF Size

LEMMA SameSize ==
    ASSUME QuotaInv, UNCHANGED size
    PROVE  size' \in [Names -> Sizes \cup {Absent}] /\ \A g \in Names : Size(g)' = Size(g)
BY DEF QuotaInv, TypeOK, Size

LEMMA HandleInv == ASSUME QuotaInv, NEW t \in Tasks, Handle(t) PROVE QuotaInv'
<1>1. ASSUME NEW pc \in {"stat", "check"}, NEW fs \in SUBSET Names, NEW n \in Sizes, UNCHANGED size,
             Request(t, fs, [NoTask EXCEPT !.op = "write", !.pc = pc, !.rest = fs, !.new = n])
      PROVE  QuotaInv'
  <2> DEFINE q == [NoTask EXCEPT !.op = "write", !.pc = pc, !.rest = fs, !.new = n]
  <2>1. q \in TaskType /\ q.op = "write" /\ q.pc = pc /\ q.file = Gone /\ q.rest = fs
    BY Constants DEF NoTask, TaskType
  <2>2. q \in Handlers
    BY <2>1 DEF Handlers, Suits
  <2>3. Request(t, fs, q)
    BY <1>1
  <2> HIDE DEF q
  <2>4. task'[t] = q => FileInv(t)' /\ Fits(t)'
    BY <2>1 DEF FileInv, Fits
  <2> QED
    BY <1>1, <2>1, <2>2, <2>3, <2>4, SameSize, RequestStep, Constants
<1>2. ASSUME NEW f \in Names, NEW n \in Sizes, Gunzip(t, f, n) PROVE QuotaInv'
  <2> DEFINE q == [NoTask EXCEPT !.op = "gunzip", !.pc = "chunk", !.file = f, !.new = n]
  <2>1. q \in TaskType /\ q.op = "gunzip" /\ q.pc = "chunk" /\ q.file = f /\ q.rest = {} /\ q.cur = 0 /\ q.new = n
    BY Constants DEF NoTask, TaskType
  <2>2. q \in Handlers
    <3>1. 0 <= n
      BY QuotaAssumption DEF Sizes
    <3> QED
      BY <2>1, <3>1 DEF Handlers, Suits
  <2>3. Request(t, {f}, q) /\ size' = Grown(f, 0)
    BY <1>2 DEF Gunzip
  <2> HIDE DEF q
  <2>4. task'[t] = q => FileInv(t)' /\ Fits(t)' /\ Counted(t)' = Size(f)'
    BY <2>1 DEF FileInv, Fits, Counted
  <2> QED
    BY <2>1, <2>2, <2>3, <2>4, OpenedSize, RequestStep
<1>3. ASSUME NEW f \in Names, NEW g \in Names, Copy(t, f, g) PROVE QuotaInv'
  <2> DEFINE n == size[f]
             q == [NoTask EXCEPT !.op = "copy", !.pc = "copy", !.file = g, !.new = n]
  <2>0. /\ Request(t, {g}, q) /\ UNCHANGED size /\ CanFit(n) /\ Size(g) = 0 /\ n \in Sizes /\ n \in Nat
    <3>1. f \in Existing /\ g \notin Existing
      BY <1>3 DEF Copy
    <3>2. n \in Sizes /\ Size(g) = 0
      BY <3>1, SizeType DEF QuotaInv
    <3> QED
      BY <1>3, <3>2, QuotaAssumption DEF Copy, Sizes
  <2> HIDE DEF n
  <2>1. q \in TaskType /\ q.op = "copy" /\ q.pc = "copy" /\ q.file = g /\ q.rest = {} /\ q.cur = 0 /\ q.new = n
    BY <2>0, Constants DEF NoTask, TaskType
  <2>2. q \in Handlers
    BY <2>1 DEF Handlers, Suits
  <2> HIDE DEF q
  <2>3. size' \in [Names -> Sizes \cup {Absent}] /\ \A h \in Names : Size(h)' = Size(h)
    BY <2>0, SameSize
  <2>4. task'[t] = q => FileInv(t)' /\ Counted(t)' = Size(g)'
    BY <2>0, <2>1, <2>3 DEF FileInv, Counted
  <2>5. ASSUME exact, task'[t] = q PROVE Fits(t)'
    <3>1. usage \in Nat /\ (limit = 0 \/ usage + n <= limit)
      BY <2>0, <2>5, FitsExactly
    <3>2. usage' = usage /\ limit' = limit
      BY <2>0 DEF Request
    <3> QED
      BY <2>0, <2>1, <2>5, <3>1, <3>2 DEF Fits
  <2> QED
    BY <2>0, <2>1, <2>2, <2>3, <2>4, <2>5, RequestStep
<1>4. ASSUME NEW g \in Names, CompressFiles(t, g) PROVE QuotaInv'
  <2> DEFINE q == [NoTask EXCEPT !.op = "compress", !.pc = "stream", !.file = g]
  <2>1. q \in TaskType /\ q.op = "compress" /\ q.pc = "stream" /\ q.file = g /\ q.rest = {}
    BY Constants DEF NoTask, TaskType
  <2>2. q \in Handlers
    BY <2>1 DEF Handlers, Suits
  <2>3. Request(t, {g}, q) /\ size' = Grown(g, 0) /\ Size(g) = 0
    BY <1>4, SizeType DEF CompressFiles, QuotaInv
  <2> HIDE DEF q
  <2>4. size' \in [Names -> Sizes \cup {Absent}] /\ \A h \in Names : Size(h)' = Size(h)
    BY <2>3, OpenedSize
  <2>5. task'[t] = q => FileInv(t)' /\ Fits(t)' /\ Counted(t)' = Size(g)'
    BY <2>1, <2>3, <2>4 DEF FileInv, Fits, Counted
  <2> QED
    BY <2>1, <2>2, <2>3, <2>4, <2>5, RequestStep
<1>5. ASSUME NEW f \in Names, Remove(t, f) PROVE QuotaInv'
  <2> DEFINE n == size[f]
             q == [NoTask EXCEPT !.op = "remove", !.pc = "unlink", !.file = f, !.cur = n]
  <2>0. Request(t, {f}, q) /\ UNCHANGED size /\ n = Size(f) /\ n \in Sizes
    BY <1>5, SizeType DEF Remove, QuotaInv
  <2> HIDE DEF n
  <2>1. q \in TaskType /\ q.op = "remove" /\ q.pc = "unlink" /\ q.file = f /\ q.rest = {} /\ q.cur = n
    BY <2>0, Constants DEF NoTask, TaskType
  <2>2. q \in Handlers
    BY <2>1 DEF Handlers, Suits
  <2> HIDE DEF q
  <2>3. size' \in [Names -> Sizes \cup {Absent}] /\ \A h \in Names : Size(h)' = Size(h)
    BY <2>0, SameSize
  <2>4. task'[t] = q => FileInv(t)' /\ Fits(t)' /\ Counted(t)' = Size(f)'
    BY <2>0, <2>1, <2>3 DEF FileInv, Fits, Counted
  <2> QED
    BY <2>0, <2>1, <2>2, <2>3, <2>4, RequestStep
<1>6. ASSUME RemoveAll(t) PROVE QuotaInv'
  <2> DEFINE q == [NoTask EXCEPT !.op = "removeAll", !.pc = "lstat", !.rest = Existing]
  <2>0. Request(t, Existing, q) /\ UNCHANGED size /\ Existing \in SUBSET Names
    BY <1>6 DEF RemoveAll, Existing
  <2>1. q \in TaskType /\ q.op = "removeAll" /\ q.pc = "lstat" /\ q.file = Gone /\ q.rest = Existing
    BY <2>0, Constants DEF NoTask, TaskType
  <2>2. q \in Handlers
    BY <2>1 DEF Handlers, Suits
  <2> HIDE DEF q
  <2>3. task'[t] = q => FileInv(t)' /\ Fits(t)'
    BY <2>1 DEF FileInv, Fits
  <2> QED
    BY <2>0, <2>1, <2>2, <2>3, SameSize, RequestStep, Constants
<1>7. ASSUME NEW f \in Names, NEW g \in Names, Rename(t, f, g) PROVE QuotaInv'
  <2> DEFINE q == [NoTask EXCEPT !.op = "rename", !.pc = "renameat", !.file = f, !.rest = {g}]
  <2>0. Request(t, {f, g}, q) /\ UNCHANGED size /\ f # g /\ Size(g) = 0
    BY <1>7, SizeType DEF Rename, QuotaInv
  <2>1. q \in TaskType /\ q.op = "rename" /\ q.pc = "renameat" /\ q.file = f /\ q.rest = {g}
    BY <2>0, Constants DEF NoTask, TaskType
  <2>2. q \in Handlers
    BY <2>1 DEF Handlers, Suits
  <2> HIDE DEF q
  <2>3. size' \in [Names -> Sizes \cup {Absent}] /\ \A h \in Names : Size(h)' = Size(h)
    BY <2>0, SameSize
  <2>4. task'[t] = q => FileInv(t)' /\ Fits(t)' /\ Counted(t)' = Size(f)'
    BY <2>0, <2>1, <2>3 DEF FileInv, Fits, Counted
  <2> QED
    BY <2>0, <2>1, <2>2, <2>3, <2>4, RequestStep
<1>8. ASSUME NEW f \in Names, NEW n \in Sizes, WriteFile(t, f, n) PROVE QuotaInv'
  BY <1>1, <1>8 DEF WriteFile
<1>9. ASSUME NEW fs \in SUBSET Names, NEW n \in Sizes, DecompressFile(t, fs, n) \/ UploadFiles(t, fs, n)
      PROVE  QuotaInv'
  BY <1>1, <1>9 DEF DecompressFile, UploadFiles
<1> QED
  BY <1>2, <1>3, <1>4, <1>5, <1>6, <1>7, <1>8, <1>9 DEF Handle, Filecmd

-----------------------------------------------------------------------------
(* Changes that no handler accounts for.                                    *)

\* The account, when neither the handlers nor the sizes of the files change.
LEMMA SameAccount ==
    ASSUME QuotaInv, task' = task, usage' = usage, exact' = exact,
           \A f \in Names : Size(f)' = Size(f)
    PROVE  ExactInv'
<1> SUFFICES ASSUME exact' PROVE ExactInv'
  BY DEF ExactInv
<1>1. exact /\ Disjoint /\ (\A t \in Tasks : FileInv(t)) /\ TasksInv
  BY DEF QuotaInv, ExactInv
<1>2. PICK a \in [Names -> Sizes] : Accounts(a)
  BY <1>1 DEF QuotaInv, ExactInv
<1>3. Disjoint'
  BY <1>1 DEF Disjoint, Uses
<1>4. ASSUME NEW t \in Tasks PROVE FileInv(t)'
  <2>1. FileInv(t) /\ task[t] \in Handlers
    BY <1>1 DEF TasksInv
  <2>2. task[t].rest \subseteq Names
    BY <2>1 DEF Handlers, TaskType
  <2>3. CASE task[t].file \in Names
    <3>1. Size(task[t].file)' = Size(task[t].file)
      BY <2>3
    <3> QED
      BY <2>1, <2>2, <3>1 DEF FileInv
  <2>4. CASE task[t].file \notin Names
    <3>1. task[t].pc \in {"idle", "check", "stat", "lstat"}
      BY <2>1, <2>4 DEF FileInv
    <3> QED
      BY <2>1, <2>2, <3>1 DEF FileInv, Handlers, Suits
  <2> QED
    BY <2>3, <2>4
<1>5. ASSUME NEW t \in Tasks, task[t].file \in Names PROVE Counted(t)' = Counted(t)
  <2>1. Size(task[t].file)' = Size(task[t].file)
    BY <1>5
  <2> QED
    BY <2>1 DEF Counted
<1>6. Accounts(a)'
  BY <1>2, <1>5 DEF Accounts
<1> QED
  BY <1>1, <1>3, <1>4, <1>6 DEF ExactInv

\* The limit, when neither the handlers nor the account changes.
LEMMA SameLimit ==
    ASSUME QuotaInv, UNCHANGED <<task, usage, limit, exact>>, trusted' => trusted
    PROVE  LimitInv'
  BY DEF QuotaInv, LimitInv, Fits, Idle

\* Once the account is wrong nothing is claimed.
LEMMA Disturbed ==
    ASSUME QuotaInv, Disturb, ~clean', UNCHANGED <<limit, walk>>, usage' \in Int, requests' \in 0..MaxRequests,
           clean' \in BOOLEAN,
           size' \in [Names -> Sizes \cup {Absent}], task' \in [Tasks -> Handlers]
    PROVE  QuotaInv'
<1>1. task' \in [Tasks -> TaskType]
  BY DEF Handlers
<1>2. exact' = FALSE /\ trusted' = FALSE
  BY DEF Disturb
<1>3. TypeOK'
  BY <1>1, <1>2 DEF QuotaInv, TypeOK
<1> QED
  BY <1>2, <1>3 DEF QuotaInv, TasksInv, WalkInv, ExactInv, LimitInv

LEMMA FilewriteInv == ASSUME QuotaInv, NEW f \in Names, Filewrite(f) PROVE QuotaInv'
<1>1. /\ size' = [size EXCEPT ![f] = 0] /\ task' = task /\ UNCHANGED <<limit, walk, usage>> /\ clean' = FALSE
      /\ requests' \in 0..MaxRequests
  BY QuotaAssumption DEF Filewrite, Change, QuotaInv, TypeOK
<1>2. size' \in [Names -> Sizes \cup {Absent}] /\ usage' \in Int /\ task' \in [Tasks -> Handlers]
  BY <1>1, Constants DEF QuotaInv, TypeOK, TasksInv
<1>3. CASE Size(f) # 0
  <2>1. Disturb
    BY <1>3 DEF Filewrite
  <2> QED
    BY <1>1, <1>2, <2>1, Disturbed
<1>4. CASE Size(f) = 0
  <2>1. exact' = exact /\ trusted' = trusted
    BY <1>4 DEF Filewrite, Accounted
  <2>2. \A g \in Names : Size(g)' = Size(g)
    <3>1. Size(f)' = 0
      BY <1>1 DEF Size, QuotaInv, TypeOK
    <3> QED
      BY <1>1, <1>4, <3>1 DEF Size, QuotaInv, TypeOK
  <2>3. TypeOK'
    BY <1>1, <1>2, <2>1 DEF QuotaInv, TypeOK
  <2> QED
    BY <1>1, <1>2, <2>1, <2>2, <2>3, SameAccount, SameLimit DEF QuotaInv, TasksInv, WalkInv
<1> QED
  BY <1>3, <1>4

LEMMA FileDataInv ==
    ASSUME QuotaInv, NEW f \in Names, NEW n \in Sizes \cup {Absent}, FileData(f, n) PROVE QuotaInv'
<1>1. /\ size' = [size EXCEPT ![f] = n] /\ task' = IF n = Absent THEN Unlinked({f}) ELSE task
      /\ UNCHANGED <<limit, walk, usage>> /\ clean' = FALSE /\ requests' \in 0..MaxRequests /\ Disturb
  BY QuotaAssumption DEF FileData, Change, QuotaInv, TypeOK
<1>2. Unlinked({f}) \in [Tasks -> Handlers]
  BY ReopenedHandlers DEF Unlinked, QuotaInv
<1>3. size' \in [Names -> Sizes \cup {Absent}] /\ usage' \in Int /\ task' \in [Tasks -> Handlers]
  BY <1>1, <1>2 DEF QuotaInv, TypeOK, TasksInv
<1> QED
  BY <1>1, <1>3, Disturbed

LEMMA SetDiskLimitInv == ASSUME QuotaInv, NEW l \in Limits, SetDiskLimit(l) PROVE QuotaInv'
<1>1. /\ UNCHANGED <<size, usage, task, walk, clean, exact>> /\ limit' = l /\ trusted' = FALSE
      /\ requests' \in 0..MaxRequests
  BY QuotaAssumption DEF SetDiskLimit, QuotaInv, TypeOK
<1>2. TypeOK' /\ TasksInv'
  BY <1>1 DEF QuotaInv, TypeOK, TasksInv
<1>3. \A f \in Names : Size(f)' = Size(f)
  BY <1>1 DEF Size
<1>4. ExactInv'
  BY <1>1, <1>3, SameAccount
<1>5. WalkInv'
  BY <1>1, <1>3 DEF QuotaInv, WalkInv, Walked, Quiet, Idle, Existing, Size, Count, Bytes
<1> QED
  BY <1>1, <1>2, <1>4, <1>5 DEF QuotaInv, LimitInv

\* Without handlers, the account is that of the sizes.
LEMMA QuietAccount ==
    TypeOK /\ TasksInv /\ Quiet /\ exact /\ usage = Count(SizeMap) => ExactInv
<1> SUFFICES ASSUME TypeOK, TasksInv, Quiet, exact, usage = Count(SizeMap) PROVE ExactInv
  OBVIOUS
<1>1. \A t \in Tasks : task[t] = NoTask
  BY DEF Quiet, Idle, TasksInv, Handlers
<1>2. Disjoint
  BY <1>1, Constants DEF Disjoint, Uses, NoTask
<1>3. \A t \in Tasks : FileInv(t)
  BY <1>1 DEF FileInv, NoTask
<1>4. Accounts(SizeMap)
  BY <1>1, TotalIsCount, Constants DEF Accounts, SizeMap, NoTask
<1> QED
  BY <1>2, <1>3, <1>4, TotalIsCount DEF ExactInv

\* Without handlers, nothing is about to be added.
LEMMA QuietLimit ==
    TypeOK /\ TasksInv /\ Quiet /\ exact /\ (limit # 0 => usage <= limit) => LimitInv
  BY DEF Quiet, Idle, LimitInv, Fits

LEMMA TruncateInv == ASSUME QuotaInv, TruncateRootDirectory PROVE QuotaInv'
<1>1. /\ size' = [f \in Names |-> Absent] /\ task' = Unlinked(Names) /\ usage' = 0
      /\ UNCHANGED <<limit, walk>> /\ clean' = FALSE /\ requests' \in 0..MaxRequests
      /\ exact' = Quiet /\ trusted' = Quiet
  BY QuotaAssumption DEF TruncateRootDirectory, Change, QuotaInv, TypeOK
<1>2. /\ Unlinked(Names) \in [Tasks -> Handlers]
      /\ \A u \in Tasks : Idle(u) => Unlinked(Names)[u] = task[u]
  BY ReopenedHandlers DEF Unlinked, QuotaInv
<1>3. TypeOK' /\ TasksInv'
  <2>1. task' \in [Tasks -> TaskType]
    BY <1>1, <1>2 DEF Handlers
  <2>2. exact' \in BOOLEAN /\ trusted' \in BOOLEAN
    BY <1>1 DEF Quiet
  <2>3. size' \in [Names -> Sizes \cup {Absent}] /\ usage' \in Int
    BY <1>1
  <2> QED
    BY <1>1, <1>2, <2>1, <2>2, <2>3 DEF QuotaInv, TypeOK, TasksInv
<1>4. ASSUME Quiet PROVE ExactInv' /\ LimitInv'
  <2>1. Quiet'
    BY <1>1, <1>2, <1>4 DEF Quiet, Idle
  <2>2. SizeMap' = [f \in Names |-> 0]
    BY <1>1 DEF SizeMap, Size
  <2>3. usage' = Count(SizeMap')
    <3>1. [f \in Names |-> 0] \in [Names -> Sizes]
      BY Constants
    <3>2. Count([f \in Names |-> 0]) = 0
      BY <3>1, CountEmpty
    <3> QED
      BY <1>1, <2>2, <3>2
  <2>4. (usage = Count(SizeMap))'
    BY <2>3 DEF Count, Bytes
  <2>5. (limit # 0 => usage <= limit)'
    BY <1>1, QuotaAssumption DEF QuotaInv, TypeOK
  <2>6. exact'
    BY <1>1, <1>4
  <2>7. ExactInv'
    BY <1>3, <2>1, <2>4, <2>6, QuietAccount, PTL
  <2>8. LimitInv'
    BY <1>3, <2>1, <2>5, <2>6, QuietLimit, PTL
  <2> QED
    BY <2>7, <2>8
<1>5. ExactInv' /\ LimitInv'
  BY <1>1, <1>4 DEF ExactInv, LimitInv
<1> QED
  BY <1>1, <1>3, <1>5 DEF QuotaInv, WalkInv

-----------------------------------------------------------------------------
(* The lookup.                                                              *)

\* What the walk changes is its own.
LEMMA WalkFrame ==
    ASSUME QuotaInv, UNCHANGED <<size, usage, limit, task, requests, exact, trusted>>,
           walk' \in [on : BOOLEAN, todo : SUBSET Names, sum : Nat], clean' \in BOOLEAN, WalkInv'
    PROVE  QuotaInv'
<1>1. TypeOK' /\ TasksInv'
  BY DEF QuotaInv, TypeOK, TasksInv
<1>2. \A f \in Names : Size(f)' = Size(f)
  BY DEF Size
<1>3. ExactInv'
  BY <1>2, SameAccount
<1>4. LimitInv'
  BY SameLimit
<1> QED
  BY <1>1, <1>3, <1>4 DEF QuotaInv

LEMMA LookupStartInv == ASSUME QuotaInv, LookupStart PROVE QuotaInv'
<1>1. /\ walk' = [on |-> TRUE, todo |-> Existing, sum |-> 0] /\ clean' = Quiet
      /\ UNCHANGED <<size, usage, limit, task, requests, exact, trusted>>
  BY DEF LookupStart
<1>2. walk' \in [on : BOOLEAN, todo : SUBSET Names, sum : Nat] /\ clean' \in BOOLEAN
  BY <1>1 DEF Existing, Quiet
<1>3. ASSUME NEW f \in Names PROVE Walked'[f] = 0
  <2>1. f \notin Existing => Size(f) = 0
    BY SizeType DEF QuotaInv
  <2> QED
    BY <1>1, <2>1 DEF Walked, Size
<1>4. Count(Walked') = 0
  <2>1. Walked' \in [Names -> Sizes]
    BY <1>3, Constants DEF Walked
  <2> QED
    BY <1>3, <2>1, CountEmpty
<1>5. (walk.sum = Count(Walked))'
  BY <1>1, <1>4 DEF Count, Bytes
<1>6. WalkInv'
  BY <1>1, <1>5 DEF WalkInv, Quiet, Idle, Existing
<1> QED
  BY <1>1, <1>2, <1>6, WalkFrame

LEMMA WalkFileInv == ASSUME QuotaInv, WalkFile PROVE QuotaInv'
<1>1. /\ walk.on /\ walk.todo # {} /\ UNCHANGED <<size, usage, limit, task, requests, clean, exact, trusted>>
      /\ walk' = IF NextFile \in Existing THEN [walk EXCEPT !.todo = @ \ {NextFile}, !.sum = @ + size[NextFile]]
                 ELSE [walk EXCEPT !.todo = {}]
  BY DEF WalkFile
<1>2. PICK f \in walk.todo : f = NextFile
  BY <1>1 DEF NextFile
<1>3. walk \in [on : BOOLEAN, todo : SUBSET Names, sum : Nat] /\ f \in Names /\ clean' \in BOOLEAN
  BY <1>1, <1>2 DEF QuotaInv, TypeOK
<1>4. Size(f) \in Sizes /\ Size(f) \in Nat /\ (f \in Existing => size[f] = Size(f))
  BY <1>3, SizeType, QuotaAssumption DEF QuotaInv, Sizes
<1>5. walk' \in [on : BOOLEAN, todo : SUBSET Names, sum : Nat]
  <2>1. CASE f \in Existing
    <3>1. walk' = [walk EXCEPT !.todo = @ \ {f}, !.sum = @ + Size(f)]
      BY <1>1, <1>2, <1>4, <2>1
    <3>2. walk.sum + Size(f) \in Nat /\ walk.todo \ {f} \in SUBSET Names
      BY <1>3, <1>4
    <3> QED
      BY <1>3, <3>1, <3>2
  <2>2. CASE f \notin Existing
    BY <1>1, <1>2, <1>3, <2>2
  <2> QED
    BY <2>1, <2>2
<1>6. ASSUME clean PROVE WalkInv'
  <2>1. Quiet /\ walk.todo \subseteq Existing /\ walk.sum = Count(Walked)
    BY <1>6 DEF QuotaInv, WalkInv
  <2>2. walk' = [walk EXCEPT !.todo = @ \ {f}, !.sum = @ + Size(f)]
    BY <1>1, <1>2, <1>4, <2>1
  <2>3. walk'.on /\ walk'.todo = walk.todo \ {f} /\ walk'.sum = walk.sum + Size(f)
    BY <1>1, <1>3, <2>2
  <2>4. Walked \in [Names -> Sizes] /\ Walked[f] = 0
    BY <1>2, <1>3, SizeType, Constants DEF Walked, QuotaInv
  <2>5. Walked' = [Walked EXCEPT ![f] = Size(f)]
    BY <1>1, <2>3 DEF Walked, Size
  <2>6. Count(Walked') = Count(Walked) - Walked[f] + Size(f)
    <3>1. \A a \in [Names -> Sizes], g \in Names, n \in Sizes :
              Count([a EXCEPT ![g] = n]) = Count(a) - a[g] + n
      BY CountChange
    <3> QED
      BY <1>3, <1>4, <2>4, <2>5, <3>1
  <2>7. Count(Walked) \in Nat
    BY CountType
  <2>8. walk'.sum = Count(Walked')
    BY <1>4, <2>1, <2>3, <2>4, <2>6, <2>7
  <2>9. (walk.sum = Count(Walked))'
    BY <2>8 DEF Count, Bytes
  <2> QED
    BY <1>1, <2>1, <2>3, <2>9 DEF WalkInv, Quiet, Idle, Existing
<1>7. WalkInv'
  BY <1>1, <1>6 DEF WalkInv
<1> QED
  BY <1>1, <1>3, <1>5, <1>7, WalkFrame

LEMMA LookupEndInv == ASSUME QuotaInv, LookupEnd PROVE QuotaInv'
<1>1. /\ walk.todo = {} /\ walk' = [on |-> FALSE, todo |-> {}, sum |-> 0] /\ usage' = walk.sum /\ exact' = clean
      /\ trusted' = (clean /\ (limit = 0 \/ walk.sum <= limit)) /\ clean' = FALSE
      /\ UNCHANGED <<size, limit, task, requests>>
  BY DEF LookupEnd
<1>2. TypeOK' /\ TasksInv'
  <2>1. usage' \in Int /\ walk' \in [on : BOOLEAN, todo : SUBSET Names, sum : Nat]
    BY <1>1 DEF QuotaInv, TypeOK
  <2>2. exact' \in BOOLEAN /\ trusted' \in BOOLEAN /\ clean' \in BOOLEAN
    BY <1>1 DEF QuotaInv, TypeOK
  <2> QED
    BY <1>1, <2>1, <2>2 DEF QuotaInv, TypeOK, TasksInv
<1>3. WalkInv'
  BY <1>1 DEF WalkInv
<1>4. ASSUME clean PROVE ExactInv' /\ (trusted' => LimitInv')
  <2>1. Quiet /\ walk.sum = Count(Walked)
    BY <1>4 DEF QuotaInv, WalkInv
  <2>2. Quiet' /\ exact'
    BY <1>1, <1>4, <2>1 DEF Quiet, Idle
  <2>3. Walked = SizeMap'
    BY <1>1 DEF Walked, SizeMap, Size
  <2>4. (usage = Count(SizeMap))'
    BY <1>1, <2>1, <2>3 DEF Count, Bytes
  <2>5. ExactInv'
    BY <1>2, <2>2, <2>4, QuietAccount, PTL
  <2>6. ASSUME trusted' PROVE LimitInv'
    <3>1. (limit # 0 => usage <= limit)'
      BY <1>1, <2>6
    <3> QED
      BY <1>2, <2>2, <3>1, QuietLimit, PTL
  <2> QED
    BY <2>5, <2>6
<1>5. ExactInv' /\ LimitInv'
  BY <1>1, <1>4 DEF ExactInv, LimitInv
<1> QED
  BY <1>2, <1>3, <1>5 DEF QuotaInv

-----------------------------------------------------------------------------
(* The inductive invariant.                                                 *)

LEMMA QuotaInit == Init => QuotaInv
<1> SUFFICES ASSUME Init PROVE QuotaInv
  OBVIOUS
<1>1. size \in [Names -> Sizes \cup {Absent}] /\ usage \in Int /\ requests \in 0..MaxRequests
  BY Constants, QuotaAssumption DEF Init
<1>2. task \in [Tasks -> Handlers] /\ task \in [Tasks -> TaskType]
  BY Constants DEF Init, Handlers
<1>3. TypeOK
  BY <1>1, <1>2 DEF Init, TypeOK
<1> QED
  BY <1>2, <1>3 DEF Init, QuotaInv, TasksInv, WalkInv, ExactInv, LimitInv

LEMMA QuotaStep == QuotaInv /\ [Next]_vars => QuotaInv'
<1> SUFFICES ASSUME QuotaInv, [Next]_vars PROVE QuotaInv'
  OBVIOUS
<1>1. ASSUME NEW t \in Tasks, Step(t) PROVE QuotaInv'
  BY <1>1, AddLoadInv, AddStoreInv, CheckInv, StatInv, TouchInv, CopyBodyInv, ChunkInv,
     StreamInv, FitInv,
     LstatInv, UnlinkInv, RenameAtInv DEF Step
<1>2. ASSUME UNCHANGED vars PROVE QuotaInv'
  <2>1. UNCHANGED <<size, usage, limit, task, walk, requests, clean, exact, trusted>>
    BY <1>2 DEF vars
  <2>2. WalkInv'
    BY <2>1 DEF QuotaInv, WalkInv, Walked, Quiet, Idle, Existing, Size, Count, Bytes
  <2> QED
    BY <2>1, <2>2, WalkFrame DEF QuotaInv, TypeOK
<1> QED
  BY <1>1, <1>2, HandleInv, FilewriteInv, FileDataInv, SetDiskLimitInv, TruncateInv, LookupStartInv,
     WalkFileInv, LookupEndInv DEF Next, Lookup

\* The account holds after every step of the handlers, the lookup and the clients: what is
\* counted for each file sums up to the usage, and what is yet to be added fits.
THEOREM QuotaInvariant == Spec => []QuotaInv
  BY QuotaInit, QuotaStep, PTL DEF Spec

LEMMA QuietUsage == QuotaInv /\ exact /\ Quiet => usage = Total
<1> SUFFICES ASSUME QuotaInv, exact, Quiet PROVE usage = Total
  OBVIOUS
<1>1. PICK a \in [Names -> Sizes] : Accounts(a)
  BY DEF QuotaInv, ExactInv
<1>2. \A t \in Tasks : task[t].file \notin Names
  BY Constants DEF Quiet, Idle, QuotaInv, TasksInv, Handlers, NoTask
<1>3. a = SizeMap
  BY <1>1, <1>2 DEF Accounts, SizeMap
<1> QED
  BY <1>1, <1>3, TotalIsCount DEF Accounts, QuotaInv

\* Once Quota.usage has been looked up undisturbed it is the size of the server's files
\* whenever no handler runs, for any number of files, handlers and requests, although the
\* handlers change files and adjust the usage in steps that interleave, as long as no two of
\* them use one file and nothing is changed that is not accounted for.
THEOREM UsageIsExact == Spec => []UsageExact
<1>1. QuotaInv => UsageExact
  BY QuietUsage DEF UsageExact
<1> QED
  BY <1>1, QuotaInvariant, PTL

\* From a looked-up usage within the limit, handlers that run one at a time never take a
\* server beyond the disk limit: what CanFit has let through still fits when Quota.Add
\* adds it, whatever part of it was written.
THEOREM LimitIsKept == Spec => []QuotaHeld
<1>1. QuotaInv => QuotaHeld
  BY QuietUsage DEF QuotaInv, LimitInv, QuotaHeld
<1> QED
  BY <1>1, QuotaInvariant, PTL

\* Quota.Add, which loads the usage to see whether the sum is below 0 and then stores 0 or
\* adds to what the usage is by then, never stores the 0 while the account is exact: no
\* addition of another handler between the two steps is thrown away, and the usage is never
\* the -1 for which CanFit lets everything through.
THEOREM NothingIsThrownAway ==
    Spec => [](exact => usage >= 0 /\ \A t \in Tasks : task[t].pc = "store" => ~task[t].below)
<1>1. QuotaInv => (exact => usage >= 0 /\ \A t \in Tasks : task[t].pc = "store" => ~task[t].below)
  <2> SUFFICES ASSUME QuotaInv, exact
               PROVE  usage >= 0 /\ \A t \in Tasks : task[t].pc = "store" => ~task[t].below
    OBVIOUS
  <2>1. PICK a \in [Names -> Sizes] : Accounts(a)
    BY DEF QuotaInv, ExactInv
  <2>2. usage \in Nat
    BY <2>1, CountType DEF Accounts
  <2>3. \A t \in Tasks : task[t].pc = "store" => ~task[t].below
    BY DEF QuotaInv, ExactInv, FileInv
  <2> QED
    BY <2>2, <2>3
<1> QED
  BY <1>1, QuotaInvariant, PTL
=============================================================================
