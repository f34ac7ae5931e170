------------------------ MODULE RestoreEngineProofs -------------------------
(***************************************************************************)
(* Theorems about restores and staging, for every set of accounts and      *)
(* messages and every number of jobs, threads, cancels and crashes.        *)
(***************************************************************************)
EXTENDS RestoreEngine, FiniteSetTheorems, TLAPS

\* Every message of the manifest is counted or still to do, and a message
\* that is counted as restored has arrived.
Tallied(j) ==
  /\ job[j].restored + job[j].skipped + job[j].failed
       + Cardinality(wk[j].todo) = Cardinality(job[j].sel)
  /\ job[j].restored
       <= Cardinality((job[j].sel \ wk[j].todo) \cap upstream[job[j].tgt])

\* How far a job has come and what its row can say then.  A row that is still
\* "running" after the loop, or was when the worker read it again, belongs to
\* a job that went through its whole manifest.
RunOf(j) ==
  /\ job[j].status = "absent" => wk[j].pc = "none"
  /\ wk[j].todo \subseteq job[j].sel /\ wk[j].pushed \subseteq job[j].sel
  /\ wk[j].pc # "loop" => wk[j].todo = {}
  /\ wk[j].pc \in {"queued", "open"} =>
       /\ wk[j].pushed = {}
       /\ job[j].restored = 0 /\ job[j].skipped = 0 /\ job[j].failed = 0
  /\ \/ wk[j].pc = "loop"
     \/ wk[j].pc \in {"settle", "refresh"} /\ job[j].status = "running"
     \/ wk[j].pc = "write" /\ wk[j].seen = "running"
     \/ job[j].status = "completed"
     => Tallied(j)
  /\ job[j].status = "completed" => wk[j].pc \in {"none", "done"}

\* Rows are inserted in the order of their ids, and a job is queued once.
QueueInv ==
  /\ \E n \in 0 .. MaxJobs : Present = 1 .. n
  /\ \A i \in DOMAIN queue : wk[queue[i]].pc = "queued"
  /\ \A i \in DOMAIN queue, k \in DOMAIN queue : queue[i] = queue[k] => i = k

RunInv == QueueInv /\ \A j \in JobIds : RunOf(j)

---------------------------------------------------------------------------

(* A new status changes nothing else of the table. *)
LEMMA StatusSet ==
  ASSUME job \in [JobIds -> Job], NEW j \in JobIds, NEW s \in Statuses,
         job' = [job EXCEPT ![j].status = s]
  PROVE  /\ job' \in [JobIds -> Job] /\ job'[j].status = s
         /\ \A i \in JobIds : /\ job'[i].push = job[i].push /\ job'[i].sel = job[i].sel
                              /\ job'[i].src = job[i].src /\ job'[i].tgt = job[i].tgt
                              /\ job'[i].restored = job[i].restored
                              /\ job'[i].skipped = job[i].skipped
                              /\ job'[i].failed = job[i].failed
                              /\ i # j => job'[i] = job[i]
  BY DEF Job

(* A step of one thread leaves the others alone. *)
LEMMA WorkerSet ==
  ASSUME wk \in [JobIds -> Worker], NEW j \in JobIds, NEW u \in Worker,
         wk' = [wk EXCEPT ![j] = u]
  PROVE  /\ wk' \in [JobIds -> Worker] /\ wk'[j] = u
         /\ \A i \in JobIds : i # j => wk'[i] = wk[i]
  OBVIOUS

(* A worker that has just reached a point of its run. *)
LEMMA AtType ==
  ASSUME NEW p \in PCs
  PROVE  /\ At(p) \in Worker /\ At(p).pc = p /\ At(p).todo = {} /\ At(p).pushed = {}
         /\ At(p).cancelled = FALSE /\ At(p).seen = "absent"
  BY DEF At, NoWorker, Worker, Statuses

(* Manifests and mailboxes are finite. *)
LEMMA Finite ==
  ASSUME NEW S \in SUBSET Files
  PROVE  /\ IsFiniteSet(S) /\ Cardinality(S) \in Nat
         /\ Cardinality(S) <= Cardinality(Files) /\ Cardinality(Files) \in Nat
         /\ \A T \in SUBSET S : Cardinality(T) <= Cardinality(S) /\ Cardinality(T) \in Nat
         /\ Cardinality(S) = 0 => S = {}
<1>1. IsFiniteSet(Files)
  BY RestoreAssumption
<1>2. IsFiniteSet(S) /\ Cardinality(S) <= Cardinality(Files)
  BY <1>1, FS_Subset
<1>3. Cardinality(S) \in Nat /\ Cardinality(Files) \in Nat
  BY <1>1, <1>2, FS_CardinalityType
<1>4. ASSUME NEW T \in SUBSET S PROVE Cardinality(T) <= Cardinality(S) /\ Cardinality(T) \in Nat
  <2>1. IsFiniteSet(T) /\ Cardinality(T) <= Cardinality(S)
    BY <1>2, FS_Subset
  <2> QED
    BY <2>1, FS_CardinalityType
<1>5. Cardinality(S) = 0 => S = {}
  BY <1>2, FS_EmptySet
<1> QED
  BY <1>2, <1>3, <1>4, <1>5

(* The tally stays true when others deliver, and whatever the row's status. *)
LEMMA TallyKept ==
  ASSUME NEW j \in JobIds, Tallied(j), job[j] \in Job, upstream \in [Accounts -> SUBSET Files],
         upstream' \in [Accounts -> SUBSET Files],
         \A a \in Accounts : upstream[a] \subseteq upstream'[a],
         job'[j].sel = job[j].sel, job'[j].tgt = job[j].tgt,
         job'[j].restored = job[j].restored, job'[j].skipped = job[j].skipped,
         job'[j].failed = job[j].failed, wk'[j].todo = wk[j].todo
  PROVE  Tallied(j)'
<1> DEFINE A == (job[j].sel \ wk[j].todo) \cap upstream[job[j].tgt]
           B == (job[j].sel \ wk[j].todo) \cap upstream'[job[j].tgt]
<1>1. /\ job[j].sel \in SUBSET Files /\ job[j].tgt \in Accounts
      /\ job[j].restored \in Counts
  BY DEF Job
<1>2. A \subseteq B /\ B \in SUBSET Files
  BY <1>1
<1> HIDE DEF A, B
<1>3. Cardinality(A) \in Nat /\ Cardinality(B) \in Nat /\ Cardinality(A) <= Cardinality(B)
  BY <1>2, Finite
<1>4. job[j].restored \in Nat /\ job[j].restored <= Cardinality(A)
  BY <1>1, Finite DEF Tallied, A, Counts
<1>5. job'[j].restored <= Cardinality(B)
  BY <1>3, <1>4
<1>6. (job'[j].sel \ wk'[j].todo) \cap upstream'[job'[j].tgt] = B
  BY DEF B
<1> QED
  BY <1>5, <1>6 DEF Tallied

Orders == [push : BOOLEAN, src : Accounts, tgt : Accounts, sel : SUBSET Files]

(* A push makes one order per target, each for staged messages only. *)
LEMMA ManifestOrders ==
  ASSUME NEW dest \in Accounts \cup {"origin"}, NEW staged \in SUBSET Files
  PROVE  /\ Manifests(dest, staged) \in Seq(Orders)
         /\ \A i \in 1 .. Len(Manifests(dest, staged)) :
              Manifests(dest, staged)[i].sel \subseteq staged
<1> DEFINE Target(f) == IF dest = "origin" THEN OriginOf[f] ELSE dest
           targets == {t \in {Target(f) : f \in staged} : MayCreate(t, t)}
           n == Cardinality(targets)
           M(i) == Order(TRUE, SetToSeq(targets)[i], SetToSeq(targets)[i],
                         {f \in staged : Target(f) = SetToSeq(targets)[i]})
<1>1. \A f \in staged : Target(f) \in Accounts
  BY RestoreAssumption
<1>2. Manifests(dest, staged) = [i \in 1 .. n |-> M(i)]
  BY DEF Manifests
<1>3. targets \in SUBSET Accounts /\ IsFiniteSet(targets) /\ n \in Nat
  <2>1. targets \in SUBSET Accounts
    BY <1>1
  <2> HIDE DEF targets
  <2> QED
    BY <2>1, RestoreAssumption, FS_Subset, FS_CardinalityType
<1>4. SetToSeq(targets) \in [1 .. n -> targets]
  <2> HIDE DEF targets
  <2>1. \E f \in [1 .. Cardinality(targets) -> targets] : IsInjective(f)
    BY <1>3, FS_CardinalityType DEF ExistsBijection, Bijection, Injection
  <2> QED
    BY <2>1 DEF SetToSeq
<1>5. ASSUME NEW i \in 1 .. n PROVE M(i) \in Orders /\ M(i).sel \subseteq staged
  <2>1. PICK t \in Accounts : t = SetToSeq(targets)[i]
    BY <1>3, <1>4
  <2>2. M(i) = Order(TRUE, t, t, {f \in staged : Target(f) = t})
    BY <2>1
  <2> DEFINE S == {f \in staged : Target(f) = t}
  <2>3. S \in SUBSET Files /\ S \subseteq staged
    OBVIOUS
  <2> HIDE DEF S
  <2> QED
    BY <2>2, <2>3 DEF Order, Orders, S
<1> HIDE DEF M, n
<1>6. Manifests(dest, staged) \in Seq(Orders) /\ Len(Manifests(dest, staged)) = n
  BY <1>2, <1>3, <1>5 DEF n
<1> QED
  BY <1>2, <1>5, <1>6

(* Inserting orders: the new rows are pending and queued, at ids nobody has
   had, and nothing else changes. *)
LEMMA InsertedRows ==
  ASSUME TypeOK, RunInv, NEW orders \in Seq(Orders), Insert(orders), upstream' = upstream
  PROVE  /\ job' \in [JobIds -> Job] /\ wk' \in [JobIds -> Worker]
         /\ queue' \in Seq(JobIds) /\ RunInv'
         /\ \A j \in JobIds :
              \/ /\ job'[j] = job[j] /\ wk'[j] = wk[j]
              \/ /\ job[j].status = "absent" /\ job'[j].status = "pending"
                 /\ wk'[j].pc = "queued" /\ wk'[j].pushed = {}
                 /\ \E i \in 1 .. Len(orders) : /\ job'[j].sel = orders[i].sel
                                               /\ job'[j].push = orders[i].push
<1>t. /\ job \in [JobIds -> Job] /\ wk \in [JobIds -> Worker] /\ queue \in Seq(JobIds)
      /\ upstream \in [Accounts -> SUBSET Files]
  BY DEF TypeOK
<1>1. PICK n \in Nat : n = Cardinality(Present) /\ Present = 1 .. n /\ n <= MaxJobs
  <2>1. PICK m \in 0 .. MaxJobs : Present = 1 .. m
    BY DEF RunInv, QueueInv
  <2>2. Cardinality(Present) = m
    BY <2>1, FS_Interval, RestoreAssumption
  <2> QED
    BY <2>1, <2>2, RestoreAssumption
<1>k. PICK k \in Nat : k = Len(orders)
  OBVIOUS
<1>m. MaxJobs \in Nat
  BY RestoreAssumption
<1> DEFINE new == n + 1 .. n + k
<1>2. /\ k \in Nat /\ k # 0 /\ n + k <= MaxJobs
      /\ job' = [j \in JobIds |->
                  IF j \in new
                  THEN [status |-> "pending", push |-> orders[j - n].push,
                        src |-> orders[j - n].src, tgt |-> orders[j - n].tgt,
                        sel |-> orders[j - n].sel,
                        restored |-> 0, skipped |-> 0, failed |-> 0]
                  ELSE job[j]]
      /\ queue' = queue \o [i \in 1 .. k |-> n + i]
      /\ wk' = [j \in JobIds |-> IF j \in new THEN At("queued") ELSE wk[j]]
  BY <1>1, <1>k DEF Insert
<1>3. \A j \in new : j \in JobIds /\ j - n \in 1 .. k /\ j \notin Present
  <2>1. n + k <= MaxJobs /\ Present = 1 .. n
    BY <1>1, <1>2
  <2> SUFFICES ASSUME NEW j \in new PROVE j \in 1 .. MaxJobs /\ j - n \in 1 .. k /\ j \notin 1 .. n
    BY <2>1 DEF JobIds
  <2> QED
    BY <2>1, <1>m
<1>4. ASSUME NEW j \in new
      PROVE  /\ job[j].status = "absent" /\ job'[j] \in Job /\ job'[j].status = "pending"
             /\ job'[j].restored = 0 /\ job'[j].skipped = 0 /\ job'[j].failed = 0
             /\ job'[j].sel \in SUBSET Files
             /\ job'[j].sel = orders[j - n].sel /\ job'[j].push = orders[j - n].push
             /\ j - n \in 1 .. Len(orders)
  <2>1. j \in JobIds /\ j - n \in 1 .. k /\ job[j].status = "absent"
    BY <1>3 DEF Present
  <2>2. orders[j - n] \in Orders
    BY <2>1, <1>k
  <2>3. job'[j] = [status |-> "pending", push |-> orders[j - n].push,
                   src |-> orders[j - n].src, tgt |-> orders[j - n].tgt,
                   sel |-> orders[j - n].sel, restored |-> 0, skipped |-> 0, failed |-> 0]
    BY <1>2, <2>1
  <2>4. 0 \in Counts
    BY RestoreAssumption, FS_CardinalityType DEF Counts
  <2> DEFINE o == orders[j - n]
  <2>5. o \in Orders /\ job'[j] = [status |-> "pending", push |-> o.push, src |-> o.src,
                   tgt |-> o.tgt, sel |-> o.sel, restored |-> 0, skipped |-> 0, failed |-> 0]
    BY <2>2, <2>3
  <2> HIDE DEF o
  <2>6. /\ job'[j] \in Job /\ job'[j].status = "pending"
        /\ job'[j].restored = 0 /\ job'[j].skipped = 0 /\ job'[j].failed = 0
        /\ job'[j].sel \in SUBSET Files
        /\ job'[j].sel = o.sel /\ job'[j].push = o.push
    BY <2>4, <2>5 DEF Orders, Job, Statuses, Active
  <2> QED
    BY <2>1, <2>6, <1>k DEF o
<1>5. \A j \in JobIds \ new : job'[j] = job[j] /\ wk'[j] = wk[j]
  BY <1>2
<1>6. At("queued") \in Worker /\ At("queued").pc = "queued" /\ At("queued").todo = {} /\ At("queued").pushed = {}
  BY AtType DEF PCs
<1>7. \A j \in new : wk'[j] = At("queued")
  BY <1>2, <1>3
<1>8. job' \in [JobIds -> Job] /\ wk' \in [JobIds -> Worker]
  <2>1. DOMAIN job' = JobIds /\ DOMAIN wk' = JobIds
    BY <1>2
  <2>2. \A j \in JobIds : job'[j] \in Job /\ wk'[j] \in Worker
    BY <1>4, <1>5, <1>6, <1>7, <1>t
  <2>3. job' = [j \in JobIds |-> job'[j]] /\ wk' = [j \in JobIds |-> wk'[j]]
    BY <1>2
  <2> QED
    BY <2>2, <2>3
<1>9. ASSUME NEW j \in JobIds PROVE RunOf(j)'
  <2>1. CASE j \in new
    BY <2>1, <1>4, <1>6, <1>7 DEF RunOf
  <2>2. CASE j \notin new
    <3>1. job'[j] = job[j] /\ wk'[j] = wk[j] /\ RunOf(j)
      BY <2>2, <1>5 DEF RunInv
    <3>2. Tallied(j) => Tallied(j)'
      BY <3>1 DEF Tallied
    <3> QED
      BY <3>1, <3>2 DEF RunOf
  <2> QED
    BY <2>1, <2>2
<1>10. Present' = 1 .. n + k
  <2>1. \A j \in JobIds : j \in Present' <=> (j \in Present \/ j \in new)
    BY <1>4, <1>5 DEF Present
  <2>2. Present' \subseteq JobIds /\ Present \subseteq JobIds
    BY DEF Present
  <2>3. Present' = Present \cup new
    BY <2>1, <2>2, <1>3
  <2>4. (1 .. n) \cup new = 1 .. n + k
    OBVIOUS
  <2> QED
    BY <2>3, <2>4, <1>1
<1>11. queue' \in Seq(JobIds)
  <2>1. [i \in 1 .. k |-> n + i] \in Seq(JobIds)
    <3>1. \A i \in 1 .. k : n + i \in new
      OBVIOUS
    <3>2. \A i \in 1 .. k : n + i \in JobIds
      BY <3>1, <1>3
    <3> QED
      BY <3>2
  <2> QED
    BY <2>1, <1>2, <1>t
<1>12. QueueInv'
  <2>1. /\ DOMAIN queue = 1 .. Len(queue) /\ Len(queue) \in Nat
        /\ DOMAIN queue' = 1 .. Len(queue) + k
        /\ \A i \in 1 .. Len(queue) : queue'[i] = queue[i]
        /\ \A i \in Len(queue) + 1 .. Len(queue) + k : queue'[i] = n + (i - Len(queue))
    <3> DEFINE tail == [i \in 1 .. k |-> n + i]
    <3>1. tail \in Seq(JobIds) /\ Len(tail) = k /\ \A i \in 1 .. k : tail[i] = n + i
      <4>1. \A i \in 1 .. k : n + i \in new
        OBVIOUS
      <4>2. \A i \in 1 .. k : n + i \in JobIds
        BY <4>1, <1>3
      <4> QED
        BY <4>2
    <3>2. queue' = queue \o tail
      BY <1>2
    <3> HIDE DEF tail
    <3>3. PICK q \in Nat : q = Len(queue)
      BY <1>t
    <3>4. DOMAIN queue = 1 .. q /\ Len(queue \o tail) = q + k /\ DOMAIN (queue \o tail) = 1 .. q + k
      <4>1. queue \o tail \in Seq(JobIds) /\ Len(queue \o tail) = q + k
        BY <3>1, <3>3, <1>t
      <4>2. \A s \in Seq(JobIds) : DOMAIN s = 1 .. Len(s)
        OBVIOUS
      <4> QED
        BY <4>1, <4>2, <3>3, <1>t
    <3>5. \A i \in 1 .. q : (queue \o tail)[i] = queue[i]
      BY <3>1, <3>3, <1>t
    <3>6. \A i \in q + 1 .. q + k : (queue \o tail)[i] = tail[i - q] /\ i - q \in 1 .. k
      BY <3>1, <3>3, <1>t
    <3> QED
      BY <3>1, <3>2, <3>3, <3>4, <3>5, <3>6
  <2>2. \A i \in 1 .. Len(queue) : queue[i] \in JobIds /\ queue[i] \notin new
    <3>1. \A i \in 1 .. Len(queue) : queue[i] \in JobIds /\ wk[queue[i]].pc = "queued"
      BY <2>1, <1>t DEF RunInv, QueueInv
    <3>2. \A j \in new : wk[j].pc # "queued"
      BY <1>3, <1>4 DEF RunInv, RunOf
    <3> QED
      BY <3>1, <3>2
  <2>3. \A i \in Len(queue) + 1 .. Len(queue) + k : queue'[i] \in new
    <3> SUFFICES ASSUME NEW i \in Len(queue) + 1 .. Len(queue) + k
                 PROVE  n + (i - Len(queue)) \in new
      BY <2>1
    <3> QED
      BY <2>1
  <2>4. \A i \in DOMAIN queue' : wk'[queue'[i]].pc = "queued"
    <3>1. \A i \in 1 .. Len(queue) : wk'[queue'[i]].pc = "queued"
      BY <2>1, <2>2, <1>5 DEF RunInv, QueueInv
    <3>2. \A i \in Len(queue) + 1 .. Len(queue) + k : wk'[queue'[i]].pc = "queued"
      BY <2>3, <1>6, <1>7
    <3> QED
      BY <3>1, <3>2, <2>1
  <2>5. \A i \in DOMAIN queue', l \in DOMAIN queue' : queue'[i] = queue'[l] => i = l
    <3> SUFFICES ASSUME NEW i \in DOMAIN queue', NEW l \in DOMAIN queue', queue'[i] = queue'[l]
                 PROVE  i = l
      OBVIOUS
    <3>1. CASE i \in 1 .. Len(queue) /\ l \in 1 .. Len(queue)
      <4>1. i \in DOMAIN queue /\ l \in DOMAIN queue /\ queue[i] = queue[l]
        BY <3>1, <2>1
      <4> QED
        BY <4>1 DEF RunInv, QueueInv
    <3>2. CASE i \notin 1 .. Len(queue) /\ l \notin 1 .. Len(queue)
      <4>1. /\ i \in Len(queue) + 1 .. Len(queue) + k
            /\ l \in Len(queue) + 1 .. Len(queue) + k
        BY <3>2, <2>1
      <4>2. n + (i - Len(queue)) = n + (l - Len(queue))
        BY <4>1, <2>1
      <4> QED
        BY <4>1, <4>2, <2>1
    <3>3. CASE ~(i \in 1 .. Len(queue) <=> l \in 1 .. Len(queue))
      <4>1. \A m \in DOMAIN queue' : (queue'[m] \in new) <=> (m \notin 1 .. Len(queue))
        BY <2>1, <2>2, <2>3
      <4> QED
        BY <3>3, <4>1
    <3> QED
      BY <3>1, <3>2, <3>3
  <2>6. n + k \in 0 .. MaxJobs
    BY <1>2, <1>m
  <2> QED
    BY <1>10, <2>4, <2>5, <2>6 DEF QueueInv
<1> QED
  BY <1>4, <1>5, <1>6, <1>7, <1>8, <1>9, <1>11, <1>12 DEF RunInv

(* Nothing that a job or its thread holds has changed. *)
LEMMA RunFrame ==
  ASSUME RunInv, UNCHANGED <<job, wk, queue, upstream>>
  PROVE  RunInv'
  BY DEF RunInv, QueueInv, RunOf, Tallied, Present

(* One job that is not in the queue has moved. *)
LEMMA OneMoves ==
  ASSUME TypeOK, RunInv, NEW j \in JobIds,
         job' \in [JobIds -> Job], wk' \in [JobIds -> Worker],
         \A i \in JobIds : i # j => job'[i] = job[i] /\ wk'[i] = wk[i],
         job[j].status # "absent", job'[j].status # "absent",
         wk[j].pc = "queued" => wk'[j].pc = "queued",
         queue' = queue, upstream' \in [Accounts -> SUBSET Files],
         \A a \in Accounts : upstream[a] \subseteq upstream'[a],
         RunOf(j)'
  PROVE  RunInv'
<1>t. /\ job \in [JobIds -> Job] /\ queue \in Seq(JobIds)
      /\ upstream \in [Accounts -> SUBSET Files]
  BY DEF TypeOK
<1>1. Present' = Present
  BY DEF Present
<1>2. QueueInv'
  <2>1. \A i \in DOMAIN queue : queue[i] \in JobIds /\ wk'[queue[i]].pc = "queued"
    BY <1>t DEF RunInv, QueueInv
  <2> QED
    BY <1>1, <2>1 DEF RunInv, QueueInv
<1>3. ASSUME NEW i \in JobIds, i # j PROVE RunOf(i)'
  <2>1. RunOf(i) /\ job'[i] = job[i] /\ wk'[i] = wk[i] /\ job[i] \in Job
    BY <1>3, <1>t DEF RunInv
  <2>2. Tallied(i) => Tallied(i)'
    BY <2>1, <1>t, TallyKept
  <2> QED
    BY <2>1, <2>2 DEF RunOf
<1> QED
  BY <1>2, <1>3 DEF RunInv

(* One more message of a kind. *)
LEMMA CountedRow ==
  ASSUME NEW r \in Job, NEW c \in {"restored", "skipped", "failed"}
  PROVE  /\ Counted(r, c).status = r.status /\ Counted(r, c).push = r.push
         /\ Counted(r, c).src = r.src /\ Counted(r, c).tgt = r.tgt /\ Counted(r, c).sel = r.sel
         /\ Counted(r, c).restored = IF c = "restored" THEN r.restored + 1 ELSE r.restored
         /\ Counted(r, c).skipped = IF c = "skipped" THEN r.skipped + 1 ELSE r.skipped
         /\ Counted(r, c).failed = IF c = "failed" THEN r.failed + 1 ELSE r.failed
         /\ \A m \in Counts : r.restored < m /\ r.skipped < m /\ r.failed < m => Counted(r, c) \in Job
<1>1. Cardinality(Files) \in Nat
  BY Finite
<1>2. r.restored \in Nat /\ r.skipped \in Nat /\ r.failed \in Nat
  BY <1>1 DEF Job, Counts
<1>3. CASE c = "restored"
  BY <1>1, <1>2, <1>3 DEF Counted, Job, Counts
<1>4. CASE c = "skipped"
  BY <1>1, <1>2, <1>4 DEF Counted, Job, Counts
<1>5. CASE c = "failed"
  BY <1>1, <1>2, <1>5 DEF Counted, Job, Counts
<1> QED
  BY <1>3, <1>4, <1>5

(* What each step of a thread does to its own row and its own state. *)
LEMMA FailsRuns ==
  ASSUME TypeOK, RunInv, NEW j \in JobIds, wk[j].pc \in {"open", "loop"}, Fails(j),
         queue' = queue, upstream' = upstream
  PROVE  /\ job' \in [JobIds -> Job] /\ wk' \in [JobIds -> Worker] /\ RunInv'
         /\ wk'[j] = At("settle") /\ job'[j].status = "failed"
         /\ \A i \in JobIds : /\ job'[i].push = job[i].push /\ job'[i].sel = job[i].sel
                              /\ i # j => wk'[i] = wk[i] /\ job'[i] = job[i]
<1>t. /\ job \in [JobIds -> Job] /\ wk \in [JobIds -> Worker]
      /\ upstream \in [Accounts -> SUBSET Files]
  BY DEF TypeOK
<1>1. At("settle") \in Worker /\ At("settle").pc = "settle" /\ At("settle").todo = {}
      /\ At("settle").pushed = {}
  BY AtType DEF PCs
<1>2. job' = [job EXCEPT ![j].status = "failed"] /\ wk' = [wk EXCEPT ![j] = At("settle")]
  BY DEF Fails
<1>3. "failed" \in Statuses
  BY DEF Statuses
<1>4. /\ job' \in [JobIds -> Job] /\ job'[j].status = "failed"
      /\ \A i \in JobIds : /\ job'[i].push = job[i].push /\ job'[i].sel = job[i].sel
                           /\ i # j => job'[i] = job[i]
  BY <1>t, <1>2, <1>3, StatusSet
<1>5. /\ wk' \in [JobIds -> Worker] /\ wk'[j] = At("settle")
      /\ \A i \in JobIds : i # j => wk'[i] = wk[i]
  BY <1>t, <1>1, <1>2, WorkerSet
<1>6. RunOf(j) /\ job[j].status # "absent"
  BY DEF RunInv, RunOf
<1>7. RunOf(j)'
  BY <1>1, <1>4, <1>5, <1>6 DEF RunOf
<1>8. \A a \in Accounts : upstream[a] \subseteq upstream'[a]
  OBVIOUS
<1>9. RunInv'
  BY <1>t, <1>4, <1>5, <1>6, <1>7, <1>8, OneMoves
<1> QED
  BY <1>4, <1>5, <1>9

(* The worker opens its job, and touches no other. *)
LEMMA OpensRuns ==
  ASSUME TypeOK, RunInv, NEW j \in JobIds, Opens(j)
  PROVE  /\ job' \in [JobIds -> Job] /\ wk' \in [JobIds -> Worker] /\ RunInv'
         /\ wk'[j].pushed = {} /\ wk'[j].pc \in {"settle", "loop"}
         /\ job'[j].status # "completed"
         /\ \A i \in JobIds : /\ job'[i].push = job[i].push /\ job'[i].sel = job[i].sel
                              /\ i # j => wk'[i] = wk[i] /\ job'[i] = job[i]
<1>t. /\ job \in [JobIds -> Job] /\ wk \in [JobIds -> Worker]
      /\ upstream \in [Accounts -> SUBSET Files]
  BY DEF TypeOK
<1>0. wk[j].pc = "open" /\ queue' = queue /\ upstream' = upstream
  BY DEF Opens
<1>1. CASE Fails(j)
  <2>1. At("settle").pushed = {} /\ At("settle").pc = "settle"
    BY AtType DEF PCs
  <2> QED
    BY <1>0, <1>1, <2>1, FailsRuns
<1>2. ASSUME NEW ids \in TargetIds(j), job' = job,
             wk' = [wk EXCEPT ![j] = [@ EXCEPT !.pc = "loop", !.existing = ids, !.todo = job[j].sel]]
      PROVE  /\ wk' \in [JobIds -> Worker] /\ RunInv'
             /\ wk'[j].pushed = {} /\ wk'[j].pc = "loop" /\ job[j].status # "completed"
             /\ \A i \in JobIds : i # j => wk'[i] = wk[i]
  <2>1. ids \in SUBSET Files /\ job[j].sel \in SUBSET Files /\ job[j].tgt \in Accounts
    BY <1>t DEF TargetIds, Job
  <2>2. RunOf(j) /\ job[j].status # "absent" /\ job[j].status # "completed"
    BY <1>0 DEF RunInv, RunOf
  <2>3. /\ wk' \in [JobIds -> Worker] /\ wk'[j].pc = "loop" /\ wk'[j].todo = job[j].sel
        /\ wk'[j].pushed = wk[j].pushed
        /\ \A i \in JobIds : i # j => wk'[i] = wk[i]
    <3> DEFINE u == [wk[j] EXCEPT !.pc = "loop", !.existing = ids, !.todo = job[j].sel]
    <3>1. wk[j] \in Worker
      BY <1>t
    <3>2. u \in Worker /\ u.pc = "loop" /\ u.todo = job[j].sel /\ u.pushed = wk[j].pushed
      BY <2>1, <3>1 DEF Worker, PCs
    <3>3. wk' = [wk EXCEPT ![j] = u]
      BY <1>2
    <3> HIDE DEF u
    <3> QED
      BY <3>2, <3>3, <1>t, WorkerSet
  <2>4. Tallied(j)'
    <3>1. (job[j].sel \ wk'[j].todo) \cap upstream[job[j].tgt] = {}
      BY <2>3
    <3>2. Cardinality({}) = 0
      BY FS_EmptySet
    <3>3. Cardinality(job[j].sel) \in Nat
      BY <2>1, Finite
    <3>4. job[j].restored = 0 /\ job[j].skipped = 0 /\ job[j].failed = 0
      BY <2>2, <1>0 DEF RunOf
    <3>5. /\ job'[j].restored = 0 /\ job'[j].skipped = 0 /\ job'[j].failed = 0
          /\ Cardinality(wk'[j].todo) = Cardinality(job'[j].sel)
          /\ Cardinality(job'[j].sel) \in Nat
          /\ Cardinality((job'[j].sel \ wk'[j].todo) \cap upstream'[job'[j].tgt]) = 0
      BY <3>1, <3>2, <3>3, <3>4, <2>3, <1>2, <1>0
    <3> QED
      BY <3>5 DEF Tallied
  <2>5. wk[j].pushed = {} 
    BY <1>0 DEF RunInv, RunOf
  <2>6. RunOf(j)'
    BY <2>2, <2>3, <2>4, <2>5, <1>2 DEF RunOf
  <2>7. RunInv'
    BY <2>2, <2>3, <2>6, <1>t, <1>0, <1>2, OneMoves
  <2> QED
    BY <2>2, <2>3, <2>5, <2>7
<1> QED
  BY <1>1, <1>2, <1>t DEF Opens

(* One message arrives or fails; a delivery takes it out of the staging area. *)
LEMMA DeliversRuns ==
  ASSUME TypeOK, RunInv, NEW j \in JobIds, Delivers(j)
  PROVE  /\ job' \in [JobIds -> Job] /\ wk' \in [JobIds -> Worker] /\ RunInv'
         /\ upstream' \in [Accounts -> SUBSET Files]
         /\ wk'[j].pc = "loop" /\ job'[j].status = job[j].status
         /\ \A i \in JobIds : /\ job'[i].push = job[i].push /\ job'[i].sel = job[i].sel
                              /\ i # j => wk'[i] = wk[i] /\ job'[i] = job[i]
         /\ \E f \in job[j].sel :
              \/ /\ wk'[j].pushed = wk[j].pushed \cup {f}
                 /\ wanted' = IF job[j].push THEN wanted \ {f} ELSE wanted
              \/ wk'[j].pushed = wk[j].pushed /\ wanted' = wanted
<1>t. /\ job \in [JobIds -> Job] /\ wk \in [JobIds -> Worker]
      /\ upstream \in [Accounts -> SUBSET Files]
      /\ job[j] \in Job /\ wk[j] \in Worker
  BY DEF TypeOK
<1>0. wk[j].pc = "loop" /\ queue' = queue
  BY DEF Delivers
<1>p. PICK f \in wk[j].todo : \E o \in Outcomes(j, f) :
          /\ upstream' = [upstream EXCEPT ![job[j].tgt] =
                            IF o.arrives THEN @ \cup {f} ELSE @]
          /\ job' = [job EXCEPT ![j] = Counted(@, o.count)]
          /\ wk' = [wk EXCEPT ![j] =
                       [@ EXCEPT !.todo = wk[j].todo \ {f},
                                 !.pushed = wk[j].pushed \cup
                                              (IF o.done THEN {f} ELSE {})]]
          /\ wanted' = IF job[j].push /\ o.done THEN wanted \ {f} ELSE wanted
  BY DEF Delivers
<1>1. PICK o \in Outcomes(j, f) :
          /\ upstream' = [upstream EXCEPT ![job[j].tgt] =
                            IF o.arrives THEN @ \cup {f} ELSE @]
          /\ job' = [job EXCEPT ![j] = Counted(@, o.count)]
          /\ wk' = [wk EXCEPT ![j] =
                       [@ EXCEPT !.todo = wk[j].todo \ {f},
                                 !.pushed = wk[j].pushed \cup
                                              (IF o.done THEN {f} ELSE {})]]
          /\ wanted' = IF job[j].push /\ o.done THEN wanted \ {f} ELSE wanted
  BY <1>p
<1>2. /\ RunOf(j) /\ Tallied(j) /\ job[j].status # "absent" /\ job[j].status # "completed"
      /\ wk[j].todo \subseteq job[j].sel /\ wk[j].pushed \subseteq job[j].sel
  BY <1>0 DEF RunInv, RunOf
<1>3. /\ job[j].sel \in SUBSET Files /\ job[j].tgt \in Accounts
      /\ job[j].restored \in Counts /\ job[j].skipped \in Counts /\ job[j].failed \in Counts
      /\ f \in Files /\ f \in job[j].sel
  BY <1>t, <1>1, <1>2 DEF Job
<1>4. /\ o.count \in {"restored", "skipped", "failed"}
      /\ o.count = "restored" => o.arrives = TRUE
  <2>1. \A a \in Appends : a.ok = TRUE => a.arrives = TRUE
    BY DEF Appends
  <2> QED
    BY <2>1, <1>1 DEF Outcomes
<1> DEFINE c == o.count
<1> HIDE DEF c
<1>5. /\ upstream' \in [Accounts -> SUBSET Files]
      /\ \A a \in Accounts : upstream[a] \subseteq upstream'[a]
      /\ c = "restored" => f \in upstream'[job[j].tgt]
  BY <1>1, <1>3, <1>4, <1>t DEF c
<1>6. /\ wk' \in [JobIds -> Worker] /\ wk'[j].pc = "loop" /\ wk'[j].todo = wk[j].todo \ {f}
      /\ wk'[j].pushed = wk[j].pushed \cup (IF o.done THEN {f} ELSE {})
      /\ \A i \in JobIds : i # j => wk'[i] = wk[i]
  <2> DEFINE more == IF o.done THEN {f} ELSE {}
             u == [wk[j] EXCEPT !.todo = wk[j].todo \ {f}, !.pushed = wk[j].pushed \cup more]
  <2>1. more \in SUBSET Files
    BY <1>3
  <2>2. wk' = [wk EXCEPT ![j] = u]
    BY <1>1
  <2> HIDE DEF more
  <2>3. u \in Worker /\ u.pc = wk[j].pc /\ u.todo = wk[j].todo \ {f}
        /\ u.pushed = wk[j].pushed \cup more
    BY <2>1, <1>t DEF Worker
  <2> HIDE DEF u
  <2> QED
    BY <2>2, <2>3, <1>t, <1>0, WorkerSet DEF more
<1>7. /\ DOMAIN job' = JobIds /\ job'[j] = Counted(job[j], c)
      /\ \A i \in JobIds : i # j => job'[i] = job[i]
  BY <1>1, <1>t DEF c
<1>8. c \in {"restored", "skipped", "failed"}
  BY <1>4 DEF c
<1>9. /\ Cardinality(wk[j].todo) \in Nat /\ Cardinality(wk'[j].todo) = Cardinality(wk[j].todo) - 1
      /\ Cardinality(wk'[j].todo) \in Nat
      /\ Cardinality(job[j].sel) \in Nat /\ Cardinality(job[j].sel) <= Cardinality(Files)
      /\ Cardinality(Files) \in Nat
  <2>1. wk[j].todo \in SUBSET Files /\ wk[j].todo \ {f} \in SUBSET Files
    BY <1>2, <1>3
  <2>2. /\ IsFiniteSet(wk[j].todo) /\ Cardinality(wk[j].todo) \in Nat
        /\ Cardinality(wk[j].todo \ {f}) \in Nat
    BY <2>1, Finite
  <2>3. Cardinality(wk[j].todo \ {f}) = Cardinality(wk[j].todo) - 1
    BY <2>2, <1>1, FS_RemoveElement
  <2> QED
    BY <2>2, <2>3, <1>3, <1>6, Finite
<1>10. /\ job[j].restored \in Nat /\ job[j].skipped \in Nat /\ job[j].failed \in Nat
       /\ job[j].restored + job[j].skipped + job[j].failed
            + Cardinality(wk[j].todo) = Cardinality(job[j].sel)
       /\ job[j].restored < Cardinality(Files) /\ job[j].skipped < Cardinality(Files)
       /\ job[j].failed < Cardinality(Files) /\ Cardinality(Files) \in Counts
  BY <1>2, <1>3, <1>9 DEF Tallied, Counts
<1>11. /\ job'[j] \in Job /\ job'[j].status = job[j].status /\ job'[j].push = job[j].push
       /\ job'[j].tgt = job[j].tgt /\ job'[j].sel = job[j].sel
       /\ job'[j].restored = IF c = "restored" THEN job[j].restored + 1 ELSE job[j].restored
       /\ job'[j].skipped = IF c = "skipped" THEN job[j].skipped + 1 ELSE job[j].skipped
       /\ job'[j].failed = IF c = "failed" THEN job[j].failed + 1 ELSE job[j].failed
  BY <1>7, <1>8, <1>10, <1>t, CountedRow
<1>12. job' \in [JobIds -> Job]
  <2>1. \A i \in JobIds : job'[i] \in Job
    BY <1>7, <1>11, <1>t
  <2>2. job' = [i \in JobIds |-> job'[i]]
    BY <1>1, <1>t
  <2> QED
    BY <2>1, <2>2
<1>13. job'[j].restored + job'[j].skipped + job'[j].failed
         + Cardinality(wk'[j].todo) = Cardinality(job'[j].sel)
  BY <1>8, <1>9, <1>10, <1>11
<1>14. job'[j].restored
         <= Cardinality((job'[j].sel \ wk'[j].todo) \cap upstream'[job'[j].tgt])
  <2> DEFINE A == (job[j].sel \ wk[j].todo) \cap upstream[job[j].tgt]
             B == (job'[j].sel \ wk'[j].todo) \cap upstream'[job'[j].tgt]
  <2>1. A \in SUBSET Files /\ B \in SUBSET Files /\ A \subseteq B /\ f \notin A
    BY <1>1, <1>3, <1>5, <1>6, <1>11
  <2>2. c = "restored" => A \cup {f} \subseteq B
    BY <2>1, <1>1, <1>3, <1>5, <1>6, <1>11
  <2>3. job[j].restored <= Cardinality(A)
    BY <1>2 DEF Tallied
  <2> HIDE DEF A, B
  <2>4. Cardinality(A) \in Nat /\ Cardinality(B) \in Nat /\ Cardinality(A) <= Cardinality(B)
    BY <2>1, Finite
  <2>5. c = "restored" => Cardinality(A) + 1 <= Cardinality(B)
    <3>1. IsFiniteSet(A) /\ IsFiniteSet(B)
      BY <2>1, Finite
    <3>2. Cardinality(A \cup {f}) = Cardinality(A) + 1
      BY <2>1, <3>1, FS_AddElement
    <3>3. c = "restored" => Cardinality(A \cup {f}) <= Cardinality(B)
      BY <2>2, <3>1, FS_Subset
    <3> QED
      BY <3>2, <3>3
  <2>6. job'[j].restored <= Cardinality(B)
    BY <2>3, <2>4, <2>5, <1>10, <1>11
  <2> QED
    BY <2>6 DEF B
<1>15. Tallied(j)'
  BY <1>13, <1>14 DEF Tallied
<1>16. RunOf(j)'
  BY <1>2, <1>3, <1>6, <1>11, <1>15 DEF RunOf
<1>17. RunInv'
  <2>1. wk[j].pc # "queued" /\ job'[j].status # "absent"
    BY <1>0, <1>2, <1>11
  <2> QED
    BY <1>0, <1>2, <1>5, <1>6, <1>7, <1>12, <1>16, <2>1, OneMoves
<1>18. \E g \in job[j].sel :
              \/ /\ wk'[j].pushed = wk[j].pushed \cup {g}
                 /\ wanted' = IF job[j].push THEN wanted \ {g} ELSE wanted
              \/ wk'[j].pushed = wk[j].pushed /\ wanted' = wanted
  <2>1. CASE o.done
    <3>1. wk'[j].pushed = wk[j].pushed \cup {f}
      BY <2>1, <1>6
    <3>2. wanted' = IF job[j].push THEN wanted \ {f} ELSE wanted
      BY <2>1, <1>1
    <3> QED
      BY <3>1, <3>2, <1>3
  <2>2. CASE ~o.done
    <3>1. wk'[j].pushed = wk[j].pushed
      BY <2>2, <1>6
    <3>2. wanted' = wanted
      BY <2>2, <1>1
    <3> QED
      BY <3>1, <3>2, <1>3
  <2> QED
    BY <2>1, <2>2
<1> QED
  BY <1>5, <1>6, <1>7, <1>11, <1>12, <1>17, <1>18

(* A thread that has left its loop moves on, and may close its row. *)
LEMMA ThreadMoves ==
  ASSUME TypeOK, RunInv, NEW j \in JobIds, NEW s \in Statuses, NEW u \in Worker,
         job' = [job EXCEPT ![j].status = s], wk' = [wk EXCEPT ![j] = u],
         queue' = queue, upstream' = upstream,
         job[j].status # "absent", s # "absent",
         wk[j].pc # "queued", u.pc \in {"settle", "refresh", "write", "done"},
         u.todo = {}, u.pushed \subseteq job[j].sel,
         \/ u.pc \in {"settle", "refresh"} /\ s = "running"
         \/ u.pc = "write" /\ u.seen = "running"
         \/ s = "completed"
         => Tallied(j) /\ wk[j].todo = {},
         s = "completed" => u.pc = "done"
  PROVE  /\ job' \in [JobIds -> Job] /\ wk' \in [JobIds -> Worker] /\ RunInv'
         /\ wk'[j] = u /\ job'[j].status = s
         /\ \A i \in JobIds : /\ job'[i].push = job[i].push /\ job'[i].sel = job[i].sel
                              /\ i # j => wk'[i] = wk[i] /\ job'[i] = job[i]
<1>t. /\ job \in [JobIds -> Job] /\ wk \in [JobIds -> Worker]
      /\ upstream \in [Accounts -> SUBSET Files] /\ job[j] \in Job
  BY DEF TypeOK
<1>1. /\ job' \in [JobIds -> Job] /\ job'[j].status = s
      /\ \A i \in JobIds : /\ job'[i].push = job[i].push /\ job'[i].sel = job[i].sel
                           /\ job'[i].src = job[i].src /\ job'[i].tgt = job[i].tgt
                           /\ job'[i].restored = job[i].restored
                           /\ job'[i].skipped = job[i].skipped
                           /\ job'[i].failed = job[i].failed
                           /\ i # j => job'[i] = job[i]
  BY <1>t, StatusSet
<1>2. /\ wk' \in [JobIds -> Worker] /\ wk'[j] = u
      /\ \A i \in JobIds : i # j => wk'[i] = wk[i]
  BY <1>t, WorkerSet
<1>3. \A a \in Accounts : upstream[a] \subseteq upstream'[a]
  OBVIOUS
<1>4. Tallied(j) /\ wk[j].todo = {} => Tallied(j)'
  BY <1>1, <1>2, <1>3, <1>t, TallyKept
<1>5. RunOf(j)'
  BY <1>1, <1>2, <1>4 DEF RunOf
<1>6. RunInv'
  BY <1>1, <1>2, <1>3, <1>5, <1>t, OneMoves
<1> QED
  BY <1>1, <1>2, <1>6

(* The row of a thread that does not touch it. *)
LEMMA SameRow ==
  ASSUME TypeOK, NEW j \in JobIds, job' = job
  PROVE  job' = [job EXCEPT ![j].status = job[j].status] /\ job[j].status \in Statuses
  BY DEF TypeOK, Job

(* From the end of the loop to the end of the thread. *)
LEMMA TailRuns ==
  ASSUME TypeOK, RunInv, NEW j \in JobIds,
         Cancels(j) \/ Finishes(j) \/ Settles(j) \/ Refreshes(j) \/ Writes(j)
  PROVE  /\ job' \in [JobIds -> Job] /\ wk' \in [JobIds -> Worker] /\ RunInv'
         /\ wk'[j].pushed \subseteq wk[j].pushed
         /\ Cancels(j) => wk'[j].pc = "settle" /\ job'[j].status = "cancelled"
         /\ Finishes(j) => wk'[j].pc = "settle" /\ job'[j].status = job[j].status
         /\ Settles(j) => wk'[j].pc = "refresh" /\ wk'[j].cancelled = (j \in flags)
         /\ Refreshes(j) => wk'[j].pc = "write" /\ wk'[j].cancelled = wk[j].cancelled
         /\ Writes(j) => wk'[j].pc = "done" /\ wk[j].pc = "write"
         /\ job'[j].status = "completed" => Writes(j) /\ ~wk[j].cancelled
         /\ job'[j].status # "absent" /\ job[j].status # "absent"
         /\ \A i \in JobIds : /\ job'[i].push = job[i].push /\ job'[i].sel = job[i].sel
                              /\ i # j => wk'[i] = wk[i] /\ job'[i] = job[i]
<1>t. /\ job \in [JobIds -> Job] /\ wk \in [JobIds -> Worker] /\ job[j] \in Job
      /\ wk[j] \in Worker /\ job[j].status \in Statuses
  BY DEF TypeOK, Job
<1>0. /\ wk[j].pc \in {"loop", "settle", "refresh", "write"} /\ queue' = queue /\ upstream' = upstream
      /\ RunOf(j) /\ job[j].status \notin {"absent", "completed"}
  BY DEF RunInv, RunOf, Cancels, Finishes, Settles, Refreshes, Writes
<1>1. \A p \in {"settle", "done"} :
        At(p) \in Worker /\ At(p).pc = p /\ At(p).todo = {} /\ At(p).pushed = {}
  BY AtType DEF PCs
<1>2. ASSUME Cancels(j) PROVE
        /\ job' \in [JobIds -> Job] /\ wk' \in [JobIds -> Worker] /\ RunInv'
        /\ wk'[j] = At("settle") /\ job'[j].status = "cancelled"
        /\ \A i \in JobIds : /\ job'[i].push = job[i].push /\ job'[i].sel = job[i].sel
                             /\ i # j => wk'[i] = wk[i] /\ job'[i] = job[i]
  <2>1. "cancelled" \in Statuses
    BY DEF Statuses
  <2>2. job' = [job EXCEPT ![j].status = "cancelled"] /\ wk' = [wk EXCEPT ![j] = At("settle")]
    BY <1>2 DEF Cancels
  <2> QED
    BY <1>0, <1>1, <2>1, <2>2, ThreadMoves
<1>3. ASSUME Finishes(j) PROVE
        /\ job' \in [JobIds -> Job] /\ wk' \in [JobIds -> Worker] /\ RunInv'
        /\ wk'[j] = At("settle") /\ job'[j].status = job[j].status
        /\ \A i \in JobIds : /\ job'[i].push = job[i].push /\ job'[i].sel = job[i].sel
                             /\ i # j => wk'[i] = wk[i] /\ job'[i] = job[i]
  <2>1. job' = job /\ wk' = [wk EXCEPT ![j] = At("settle")] /\ wk[j].pc = "loop" /\ wk[j].todo = {}
    BY <1>3 DEF Finishes
  <2>2. job' = [job EXCEPT ![j].status = job[j].status]
    BY <2>1, SameRow
  <2>3. Tallied(j)
    BY <1>0, <2>1 DEF RunOf
  <2> QED
    BY <1>0, <1>1, <1>t, <2>1, <2>2, <2>3, ThreadMoves
<1>4. ASSUME Settles(j) PROVE
        /\ job' \in [JobIds -> Job] /\ wk' \in [JobIds -> Worker] /\ RunInv'
        /\ wk'[j].pc = "refresh" /\ wk'[j].cancelled = (j \in flags) /\ wk'[j].pushed = wk[j].pushed
        /\ job'[j].status = job[j].status
        /\ \A i \in JobIds : /\ job'[i].push = job[i].push /\ job'[i].sel = job[i].sel
                             /\ i # j => wk'[i] = wk[i] /\ job'[i] = job[i]
  <2> DEFINE c == j \in flags
             u == [wk[j] EXCEPT !.pc = "refresh", !.cancelled = c]
  <2>1. job' = job /\ wk' = [wk EXCEPT ![j] = u] /\ wk[j].pc = "settle" /\ c \in BOOLEAN
    BY <1>4 DEF Settles
  <2>2. job' = [job EXCEPT ![j].status = job[j].status]
    BY <2>1, SameRow
  <2>3. wk[j].todo = {} /\ wk[j].pushed \subseteq job[j].sel
        /\ (job[j].status = "running" => Tallied(j))
    BY <1>0, <2>1 DEF RunOf
  <2> HIDE DEF c
  <2>4. u \in Worker /\ u.pc = "refresh" /\ u.cancelled = c /\ u.todo = wk[j].todo /\ u.pushed = wk[j].pushed
    BY <1>t, <2>1 DEF Worker, PCs
  <2> HIDE DEF u
  <2> QED
    BY <1>0, <1>t, <2>1, <2>2, <2>3, <2>4, ThreadMoves DEF c
<1>5. ASSUME Refreshes(j) PROVE
        /\ job' \in [JobIds -> Job] /\ wk' \in [JobIds -> Worker] /\ RunInv'
        /\ wk'[j].pc = "write" /\ wk'[j].cancelled = wk[j].cancelled /\ wk'[j].pushed = wk[j].pushed
        /\ job'[j].status = job[j].status
        /\ \A i \in JobIds : /\ job'[i].push = job[i].push /\ job'[i].sel = job[i].sel
                             /\ i # j => wk'[i] = wk[i] /\ job'[i] = job[i]
  <2> DEFINE u == [wk[j] EXCEPT !.pc = "write", !.seen = job[j].status]
  <2>1. job' = job /\ wk' = [wk EXCEPT ![j] = u] /\ wk[j].pc = "refresh"
    BY <1>5 DEF Refreshes
  <2>2. job' = [job EXCEPT ![j].status = job[j].status]
    BY <2>1, SameRow
  <2>3. wk[j].todo = {} /\ wk[j].pushed \subseteq job[j].sel
        /\ (job[j].status = "running" => Tallied(j))
    BY <1>0, <2>1 DEF RunOf
  <2>4. u \in Worker /\ u.pc = "write" /\ u.cancelled = wk[j].cancelled /\ u.todo = wk[j].todo
        /\ u.pushed = wk[j].pushed /\ u.seen = job[j].status
    BY <1>t, <2>1 DEF Worker, PCs
  <2> HIDE DEF u
  <2> QED
    BY <1>0, <1>t, <2>1, <2>2, <2>3, <2>4, ThreadMoves
<1>6. ASSUME Writes(j) PROVE
        /\ job' \in [JobIds -> Job] /\ wk' \in [JobIds -> Worker] /\ RunInv'
        /\ wk'[j] = At("done") /\ wk[j].pc = "write"
        /\ job'[j].status = "completed" => ~wk[j].cancelled
        /\ job'[j].status # "absent"
        /\ \A i \in JobIds : /\ job'[i].push = job[i].push /\ job'[i].sel = job[i].sel
                             /\ i # j => wk'[i] = wk[i] /\ job'[i] = job[i]
  <2>1. /\ wk' = [wk EXCEPT ![j] = At("done")] /\ wk[j].pc = "write"
        /\ job' = IF wk[j].seen = "running"
                  THEN [job EXCEPT ![j].status = Finalized(j)] ELSE job
    BY <1>6 DEF Writes
  <2>2. wk[j].todo = {} /\ (wk[j].seen = "running" => Tallied(j))
    BY <1>0, <2>1 DEF RunOf
  <2>3. CASE wk[j].seen = "running"
    <3>1. Finalized(j) \in {"cancelled", "failed", "completed"}
          /\ (Finalized(j) = "completed" => ~wk[j].cancelled)
      BY DEF Finalized
    <3>2. PICK s \in Statuses : s = Finalized(j)
      BY <3>1 DEF Statuses
    <3>3. job' = [job EXCEPT ![j].status = s]
      BY <2>1, <2>3, <3>2
    <3>4. s # "absent" /\ (s = "completed" => ~wk[j].cancelled)
      BY <3>1, <3>2
    <3>5. /\ At("done") \in Worker /\ At("done").pc = "done" /\ At("done").todo = {}
          /\ At("done").pushed \subseteq job[j].sel /\ wk[j].pc # "queued"
      BY <1>1, <2>1
    <3>6. /\ job' \in [JobIds -> Job] /\ wk' \in [JobIds -> Worker] /\ RunInv'
          /\ wk'[j] = At("done") /\ job'[j].status = s
          /\ \A i \in JobIds : /\ job'[i].push = job[i].push /\ job'[i].sel = job[i].sel
                               /\ i # j => wk'[i] = wk[i] /\ job'[i] = job[i]
      BY <1>0, <2>1, <2>2, <2>3, <3>3, <3>4, <3>5, ThreadMoves
    <3> QED
      BY <2>1, <3>4, <3>6
  <2>4. CASE wk[j].seen # "running"
    <3>1. job' = job /\ job' = [job EXCEPT ![j].status = job[j].status]
      BY <2>1, <2>4, SameRow
    <3> QED
      BY <1>0, <1>1, <1>t, <2>1, <3>1, ThreadMoves
  <2> QED
    BY <2>3, <2>4
<1>7. /\ Cancels(j) => wk[j].pc = "loop" /\ wk[j].todo # {}
      /\ Finishes(j) => wk[j].pc = "loop" /\ wk[j].todo = {}
      /\ Settles(j) => wk[j].pc = "settle"
      /\ Refreshes(j) => wk[j].pc = "refresh"
      /\ Writes(j) => wk[j].pc = "write"
  BY DEF Cancels, Finishes, Settles, Refreshes, Writes
<1> QED
  BY <1>0, <1>1, <1>2, <1>3, <1>4, <1>5, <1>6, <1>7

(* The head of the queue goes to a thread, or is refused. *)
LEMMA StartRuns ==
  ASSUME TypeOK, RunInv, Start
  PROVE  /\ job' \in [JobIds -> Job] /\ wk' \in [JobIds -> Worker] /\ queue' \in Seq(JobIds)
         /\ RunInv'
         /\ \E j \in JobIds :
              /\ wk[j].pc = "queued" /\ job[j].status # "absent"
              /\ job'[j].status \in {"failed", "running"}
              /\ wk'[j].pc \in {"done", "open"} /\ wk'[j].pushed = wk[j].pushed
              /\ \A i \in JobIds : /\ job'[i].push = job[i].push /\ job'[i].sel = job[i].sel
                                   /\ i # j => wk'[i] = wk[i] /\ job'[i] = job[i]
<1>t. /\ job \in [JobIds -> Job] /\ wk \in [JobIds -> Worker] /\ queue \in Seq(JobIds)
      /\ upstream \in [Accounts -> SUBSET Files]
  BY DEF TypeOK
<1>1. queue # <<>> /\ queue' = Tail(queue) /\ upstream' = upstream
  BY DEF Start
<1>2. PICK j \in JobIds : j = Head(queue)
  BY <1>1, <1>t
<1>3. /\ j = queue[1] /\ 1 \in DOMAIN queue /\ wk[j].pc = "queued" /\ RunOf(j)
      /\ job[j].status # "absent"
  <2>1. j = queue[1] /\ 1 \in DOMAIN queue
    BY <1>1, <1>2, <1>t
  <2> QED
    BY <2>1 DEF RunInv, QueueInv, RunOf
<1>4. PICK barred \in BOOLEAN :
        /\ job' = [job EXCEPT ![j].status = IF barred THEN "failed" ELSE "running"]
        /\ wk' = [wk EXCEPT ![j].pc = IF barred THEN "done" ELSE "open"]
  <2> DEFINE b == "suspended" \in {gate[job[j].src], gate[job[j].tgt]}
  <2>1. b \in BOOLEAN
    OBVIOUS
  <2>2. /\ job' = [job EXCEPT ![j].status = IF b THEN "failed" ELSE "running"]
        /\ wk' = [wk EXCEPT ![j].pc = IF b THEN "done" ELSE "open"]
    BY <1>2 DEF Start
  <2> QED
    BY <2>1, <2>2
<1>5. PICK s \in {"failed", "running"}, p \in {"done", "open"} :
        /\ job' = [job EXCEPT ![j].status = s] /\ wk' = [wk EXCEPT ![j].pc = p]
  <2>1. CASE barred = TRUE
    BY <1>4, <2>1
  <2>2. CASE barred = FALSE
    BY <1>4, <2>2
  <2> QED
    BY <2>1, <2>2
<1>6. /\ job' \in [JobIds -> Job] /\ job'[j].status = s
      /\ \A i \in JobIds : /\ job'[i].push = job[i].push /\ job'[i].sel = job[i].sel
                           /\ job'[i].src = job[i].src /\ job'[i].tgt = job[i].tgt
                           /\ job'[i].restored = job[i].restored
                           /\ job'[i].skipped = job[i].skipped
                           /\ job'[i].failed = job[i].failed
                           /\ i # j => job'[i] = job[i]
  <2>1. s \in Statuses
    BY DEF Statuses, Active
  <2> QED
    BY <1>5, <1>t, <2>1, StatusSet
<1>7. /\ wk' \in [JobIds -> Worker] /\ wk'[j].pc = p /\ wk'[j].todo = wk[j].todo
      /\ wk'[j].pushed = wk[j].pushed
      /\ \A i \in JobIds : i # j => wk'[i] = wk[i]
  BY <1>5, <1>t DEF Worker, PCs
<1>8. RunOf(j)'
  BY <1>3, <1>6, <1>7 DEF RunOf
<1>9. ASSUME NEW i \in JobIds, i # j PROVE RunOf(i)'
  <2>1. RunOf(i) /\ job'[i] = job[i] /\ wk'[i] = wk[i]
    BY <1>6, <1>7, <1>9 DEF RunInv
  <2>2. Tallied(i) => Tallied(i)'
    BY <2>1, <1>1 DEF Tallied
  <2> QED
    BY <2>1, <2>2 DEF RunOf
<1>10. Present' = Present
  BY <1>3, <1>6 DEF Present
<1>11. /\ queue' \in Seq(JobIds) /\ Len(queue) \in Nat \ {0}
       /\ DOMAIN queue = 1 .. Len(queue) /\ DOMAIN queue' = 1 .. Len(queue) - 1
       /\ \A i \in 1 .. Len(queue) - 1 : queue'[i] = queue[i + 1]
  <2>1. /\ Tail(queue) \in Seq(JobIds) /\ Len(Tail(queue)) = Len(queue) - 1
        /\ Len(queue) \in Nat \ {0}
        /\ \A i \in 1 .. Len(queue) - 1 : Tail(queue)[i] = queue[i + 1]
    BY <1>1, <1>t
  <2>2. \A q \in Seq(JobIds) : DOMAIN q = 1 .. Len(q)
    OBVIOUS
  <2> QED
    BY <1>1, <1>t, <2>1, <2>2
<1>12. \A i \in DOMAIN queue' : i + 1 \in DOMAIN queue /\ i + 1 # 1 /\ queue'[i] = queue[i + 1]
  BY <1>11
<1>13. QueueInv'
  <2>1. \A i \in DOMAIN queue' : queue'[i] # j /\ queue'[i] \in JobIds
    BY <1>3, <1>11, <1>12, <1>t DEF RunInv, QueueInv
  <2>2. \A i \in DOMAIN queue' : wk'[queue'[i]].pc = "queued"
    BY <1>7, <1>12, <2>1 DEF RunInv, QueueInv
  <2>3. \A i \in DOMAIN queue', k \in DOMAIN queue' : queue'[i] = queue'[k] => i = k
    <3>1. \A i \in DOMAIN queue', k \in DOMAIN queue' : queue'[i] = queue'[k] => i + 1 = k + 1
      BY <1>12 DEF RunInv, QueueInv
    <3> QED
      BY <3>1, <1>11
  <2> QED
    BY <1>10, <2>2, <2>3 DEF RunInv, QueueInv
<1>14. RunInv'
  BY <1>8, <1>9, <1>13 DEF RunInv
<1> QED
  BY <1>3, <1>6, <1>7, <1>11, <1>14

(* The second half of a cancel request closes the row, if it is open. *)
LEMMA CancelRuns ==
  ASSUME TypeOK, RunInv, NEW j \in JobIds, cancel_restore_job(j)
  PROVE  /\ job' \in [JobIds -> Job] /\ RunInv'
         /\ job'[j].status = "completed" => cancel'[j] = "refused"
         /\ \A i \in JobIds : /\ job'[i].push = job[i].push /\ job'[i].sel = job[i].sel
                              /\ job'[i].status = "absent" <=> job[i].status = "absent"
                              /\ i # j => job'[i] = job[i]
<1>t. /\ job \in [JobIds -> Job] /\ wk \in [JobIds -> Worker]
      /\ upstream \in [Accounts -> SUBSET Files] /\ job[j].status \in Statuses
      /\ cancel \in [JobIds -> {"no", "flagged", "early", "late", "refused"}]
      /\ job[j] \in Job
  BY DEF TypeOK, Job
<1>0. queue' = queue /\ upstream' = upstream /\ wk' = wk
  BY DEF cancel_restore_job
<1>1. CASE job[j].status \in Active
  <2>1. job' = [job EXCEPT ![j].status = "cancelled"] /\ "cancelled" \in Statuses
    BY <1>1 DEF cancel_restore_job, Statuses
  <2>2. /\ job' \in [JobIds -> Job] /\ job'[j].status = "cancelled"
        /\ \A i \in JobIds : /\ job'[i].push = job[i].push /\ job'[i].sel = job[i].sel
                             /\ job'[i].src = job[i].src /\ job'[i].tgt = job[i].tgt
                             /\ job'[i].restored = job[i].restored
                             /\ job'[i].skipped = job[i].skipped
                             /\ job'[i].failed = job[i].failed
                             /\ i # j => job'[i] = job[i]
    BY <2>1, <1>t, StatusSet
  <2>3. /\ \A a \in Accounts : upstream[a] \subseteq upstream'[a]
        /\ upstream' \in [Accounts -> SUBSET Files] /\ wk' \in [JobIds -> Worker]
        /\ \A i \in JobIds : wk'[i] = wk[i]
    BY <1>0, <1>t
  <2>4. Tallied(j) => Tallied(j)'
    <3>1. wk'[j].todo = wk[j].todo
      BY <2>3
    <3> QED
      BY <1>t, <2>2, <2>3, <3>1, TallyKept
  <2>5. RunOf(j)' /\ job[j].status # "absent"
    <3>1. RunOf(j) /\ wk'[j] = wk[j] /\ job[j].status \notin {"absent", "completed"}
      BY <1>1, <2>3 DEF RunInv, Active
    <3> QED
      BY <3>1, <1>1, <2>2, <2>4 DEF RunOf
  <2>6. RunInv'
    BY <1>0, <1>t, <2>2, <2>3, <2>5, OneMoves
  <2> QED
    BY <2>2, <2>5, <2>6
<1>2. CASE job[j].status \notin Active
  <2>1. job' = job /\ cancel'[j] = "refused"
    BY <1>2, <1>t DEF cancel_restore_job
  <2> QED
    BY <2>1, <1>0, <1>t, RunFrame
<1> QED
  BY <1>1, <1>2

(* A crash takes the threads; a row that was closed keeps its tally. *)
LEMMA CrashRuns ==
  ASSUME TypeOK, RunInv, CrashAndBoot
  PROVE  wk' \in [JobIds -> Worker] /\ queue' \in Seq(JobIds) /\ RunInv'
<1>1. /\ wk' = [j \in JobIds |-> NoWorker] /\ queue' = <<>> /\ job' = job /\ upstream' = upstream
  BY DEF CrashAndBoot
<1>2. /\ NoWorker \in Worker /\ NoWorker.pc = "none" /\ NoWorker.todo = {} /\ NoWorker.pushed = {}
  BY DEF NoWorker, Worker, PCs, Statuses
<1>3. \A j \in JobIds : wk'[j] = NoWorker
  BY <1>1
<1>4. Present' = Present
  BY <1>1 DEF Present
<1>5. QueueInv'
  BY <1>1, <1>4 DEF RunInv, QueueInv
<1>6. ASSUME NEW j \in JobIds PROVE RunOf(j)'
  <2>1. RunOf(j)
    BY DEF RunInv
  <2>2. job[j].status = "completed" => wk[j].todo = {} /\ Tallied(j)
    BY <2>1 DEF RunOf
  <2>3. job[j].status = "completed" => Tallied(j)'
    BY <2>2, <1>1, <1>2, <1>3 DEF Tallied
  <2> QED
    BY <2>1, <2>3, <1>1, <1>2, <1>3 DEF RunOf
<1> QED
  BY <1>1, <1>2, <1>5, <1>6 DEF RunInv

(* The orders of the two routes that create jobs. *)
LEMMA PushInserts ==
  ASSUME TypeOK, RunInv, NEW d \in Accounts \cup {"origin"}, api_staging_push(d)
  PROVE  /\ job' \in [JobIds -> Job] /\ wk' \in [JobIds -> Worker]
         /\ queue' \in Seq(JobIds) /\ RunInv'
         /\ \A j \in JobIds :
              \/ /\ job'[j] = job[j] /\ wk'[j] = wk[j]
              \/ /\ job[j].status = "absent" /\ job'[j].status = "pending"
                 /\ wk'[j].pc = "queued" /\ wk'[j].pushed = {} /\ job'[j].sel \subseteq rows
<1>1. Reconciled \subseteq rows /\ Reconciled \in SUBSET Files
  BY DEF TypeOK, Reconciled
<1> DEFINE orders == Manifests(d, Reconciled)
<1>2. /\ orders \in Seq(Orders)
      /\ \A i \in 1 .. Len(orders) : orders[i].sel \subseteq Reconciled
  BY <1>1, ManifestOrders
<1>3. Insert(orders) /\ upstream' = upstream
  BY DEF api_staging_push
<1> HIDE DEF orders
<1> QED
  BY <1>1, <1>2, <1>3, InsertedRows

(* A new restore inserts a row that was absent. *)
LEMMA CreateInserts ==
  ASSUME TypeOK, RunInv, NEW s \in Accounts, NEW t \in Accounts, create_restore(s, t)
  PROVE  /\ job' \in [JobIds -> Job] /\ wk' \in [JobIds -> Worker]
         /\ queue' \in Seq(JobIds) /\ RunInv'
         /\ \A j \in JobIds :
              \/ /\ job'[j] = job[j] /\ wk'[j] = wk[j]
              \/ /\ job[j].status = "absent" /\ job'[j].status = "pending"
                 /\ wk'[j].pc = "queued" /\ wk'[j].pushed = {} /\ job'[j].push = FALSE
<1> DEFINE o == Order(FALSE, s, t, {f \in Files : OriginOf[f] = s})
           orders == <<o>>
<1>1. o \in Orders /\ o.push = FALSE
  BY DEF Order, Orders
<1>2. Insert(orders) /\ upstream' = upstream
  BY DEF create_restore
<1> HIDE DEF o
<1>3. orders \in Seq(Orders) /\ \A i \in 1 .. Len(orders) : orders[i].push = FALSE
  BY <1>1
<1> HIDE DEF orders
<1> QED
  BY <1>2, <1>3, InsertedRows

(* What is known of rows and their workers holds after every step. *)
LEMMA RunStep ==
  ASSUME TypeOK, RunInv, [Next]_vars
  PROVE  /\ job' \in [JobIds -> Job] /\ wk' \in [JobIds -> Worker] /\ queue' \in Seq(JobIds)
         /\ upstream' \in [Accounts -> SUBSET Files] /\ RunInv'
<1>t. /\ job \in [JobIds -> Job] /\ wk \in [JobIds -> Worker] /\ queue \in Seq(JobIds)
      /\ upstream \in [Accounts -> SUBSET Files]
  BY DEF TypeOK
<1>1. CASE UNCHANGED <<job, wk, queue, upstream>>
  BY <1>1, <1>t, RunFrame
<1>2. ASSUME NEW d \in Accounts \cup {"origin"}, api_staging_push(d)
      PROVE  job' \in [JobIds -> Job] /\ wk' \in [JobIds -> Worker] /\ queue' \in Seq(JobIds)
             /\ upstream' = upstream /\ RunInv'
  BY <1>2, PushInserts DEF api_staging_push
<1>3. ASSUME NEW s \in Accounts, NEW t \in Accounts, create_restore(s, t)
      PROVE  job' \in [JobIds -> Job] /\ wk' \in [JobIds -> Worker] /\ queue' \in Seq(JobIds)
             /\ upstream' = upstream /\ RunInv'
  BY <1>3, CreateInserts DEF create_restore
<1>4. ASSUME NEW j \in JobIds, cancel_restore_job(j)
      PROVE  job' \in [JobIds -> Job] /\ wk' = wk /\ queue' = queue
             /\ upstream' = upstream /\ RunInv'
  BY <1>4, CancelRuns DEF cancel_restore_job
<1>5. CASE Start
  BY <1>5, <1>t, StartRuns DEF Start
<1>6. ASSUME NEW j \in JobIds, WorkerStep(j) \/ Breaks(j)
      PROVE  job' \in [JobIds -> Job] /\ wk' \in [JobIds -> Worker] /\ queue' = queue
             /\ upstream' \in [Accounts -> SUBSET Files] /\ RunInv'
  <2>1. CASE Opens(j)
    BY <2>1, <1>t, OpensRuns DEF Opens
  <2>2. CASE Delivers(j)
    BY <2>2, <1>t, DeliversRuns DEF Delivers
  <2>3. CASE Cancels(j) \/ Finishes(j) \/ Settles(j) \/ Refreshes(j) \/ Writes(j)
    <3>1. queue' = queue /\ upstream' = upstream
      BY <2>3 DEF Cancels, Finishes, Settles, Refreshes, Writes
    <3> QED
      BY <2>3, <3>1, <1>t, TailRuns
  <2>4. CASE Breaks(j)
    <3>1. wk[j].pc \in {"open", "loop"} /\ Fails(j) /\ queue' = queue /\ upstream' = upstream
      BY <2>4 DEF Breaks
    <3> QED
      BY <3>1, <1>t, FailsRuns
  <2> QED
    BY <1>6, <2>1, <2>2, <2>3, <2>4 DEF WorkerStep
<1>7. CASE CrashAndBoot
  BY <1>7, <1>t, CrashRuns DEF CrashAndBoot
<1>8. CASE \/ get_status \/ AddCopies \/ AddCommits \/ api_staging_empty \/ AreaExpires
           \/ SweepReads \/ SweepRemoves
           \/ \E S \in SUBSET Files : AddChecks(S)
           \/ \E f \in Files : WebmailDeletes(f)
           \/ \E j \in JobIds : cancel_restore(j)
           \/ \E a \in Accounts : AccountBarred(a)
           \/ UNCHANGED vars
  <2>1. UNCHANGED <<job, wk, queue, upstream>>
    BY <1>8 DEF get_status, AddCopies, AddCommits, api_staging_empty, AreaExpires, SweepReads,
                SweepRemoves, AddChecks, WebmailDeletes, cancel_restore, AccountBarred, vars, mem, stage
  <2> QED
    BY <2>1, <1>1
<1> QED
  BY <1>2, <1>3, <1>4, <1>5, <1>6, <1>7, <1>8, <1>t DEF Next

(* The other variables keep their types. *)
LEMMA OtherTypes ==
  ASSUME TypeOK, [Next]_vars
  PROVE  /\ gate' \in [Accounts -> {"ok", "suspended", "migrating"}]
         /\ temps' \subseteq JobIds
         /\ area' \in {"none", "live", "expired"}
         /\ rows' \subseteq Files /\ disk' \subseteq Files
         /\ used' \subseteq Files /\ wanted' \subseteq Files
         /\ flags' \subseteq JobIds
         /\ cancel' \in [JobIds -> {"no", "flagged", "early", "late", "refused"}]
         /\ add' \in Add /\ sweep' \in {"idle", "read"} /\ crashes' \in 0 .. MaxCrashes
<1> DEFINE T == /\ gate' \in [Accounts -> {"ok", "suspended", "migrating"}]
         /\ temps' \subseteq JobIds
         /\ area' \in {"none", "live", "expired"}
         /\ rows' \subseteq Files /\ disk' \subseteq Files
         /\ used' \subseteq Files /\ wanted' \subseteq Files
         /\ flags' \subseteq JobIds
         /\ cancel' \in [JobIds -> {"no", "flagged", "early", "late", "refused"}]
         /\ add' \in Add /\ sweep' \in {"idle", "read"} /\ crashes' \in 0 .. MaxCrashes
<1>a. /\ NoAdd \in Add /\ Reconciled \subseteq rows
      /\ \A b \in BOOLEAN : [add EXCEPT !.gone = b] \in Add
  BY DEF TypeOK, Add, NoAdd, Reconciled
<1>g. add' = [add EXCEPT !.gone = (add.pc = "commit")] => add' \in Add
  <2> DEFINE b == add.pc = "commit"
  <2>1. b \in BOOLEAN
    OBVIOUS
  <2> HIDE DEF b
  <2>2. add' = [add EXCEPT !.gone = b] => add' \in Add
    BY <1>a, <2>1
  <2> QED
    BY <2>2 DEF b
<1>1. CASE get_status
  BY <1>1, <1>a DEF get_status, TypeOK, mem
<1>2. CASE AddCopies
  <2>1. PICK ok \in SUBSET add.files :
          /\ disk' = (IF area = "expired" THEN {} ELSE disk) \cup ok
          /\ add' = [add EXCEPT !.pc = "commit", !.files = ok, !.base = area]
          /\ used' = used \cup ok /\ wanted' = wanted \cup ok
    BY <1>2 DEF AddCopies
  <2>2. ok \in SUBSET Files /\ add \in Add /\ area \in {"none", "live", "expired"}
    BY <2>1 DEF TypeOK, Add
  <2>3. add' \in Add
    BY <2>1, <2>2 DEF Add
  <2> QED
    BY <1>2, <2>1, <2>2, <2>3 DEF AddCopies, TypeOK, mem
<1>3. CASE AddCommits
  <2>1. add.files \in SUBSET Files
    BY DEF TypeOK, Add
  <2> QED
    BY <1>3, <1>a, <2>1 DEF AddCommits, TypeOK, mem
<1>4. CASE api_staging_empty
  BY <1>4, <1>g DEF api_staging_empty, TypeOK, mem
<1>5. CASE AreaExpires
  BY <1>5 DEF AreaExpires, TypeOK, mem
<1>6. CASE SweepReads
  BY <1>6 DEF SweepReads, TypeOK, mem, stage
<1>7. CASE SweepRemoves
  BY <1>7, <1>g DEF SweepRemoves, TypeOK, mem
<1>8. ASSUME NEW S \in SUBSET Files, AddChecks(S) PROVE T
  <2>1. add' \in Add
    BY <1>8 DEF AddChecks, NoAdd, Add
  <2> QED
    BY <1>8, <1>a, <2>1 DEF AddChecks, TypeOK, mem
<1>9. ASSUME NEW f \in Files, WebmailDeletes(f) PROVE T
  BY <1>9 DEF WebmailDeletes, TypeOK, mem
<1>10. ASSUME NEW d \in Accounts \cup {"origin"}, api_staging_push(d) PROVE T
  BY <1>10, <1>a DEF api_staging_push, TypeOK
<1>11. ASSUME NEW s \in Accounts, NEW t \in Accounts, create_restore(s, t) PROVE T
  BY <1>11 DEF create_restore, TypeOK, stage
<1>12. ASSUME NEW j \in JobIds, cancel_restore(j) PROVE T
  BY <1>12 DEF cancel_restore, TypeOK, stage
<1>13. ASSUME NEW j \in JobIds, cancel_restore_job(j) PROVE T
  <2>1. cancel' \in [JobIds -> {"no", "flagged", "early", "late", "refused"}]
    BY <1>13 DEF cancel_restore_job, TypeOK
  <2> QED
    BY <1>13, <2>1 DEF cancel_restore_job, TypeOK, stage
<1>14. CASE Start
  BY <1>14 DEF Start, TypeOK, stage
<1>15. ASSUME NEW j \in JobIds, Opens(j) PROVE T
  BY <1>15 DEF Opens, TypeOK, stage, create_temp_imap_user
<1>16. ASSUME NEW j \in JobIds, Delivers(j) PROVE T
  <2>1. wanted' \subseteq wanted
    BY <1>16 DEF Delivers
  <2>2. UNCHANGED <<gate, temps, area, rows, disk, used, flags, queue, cancel, add, sweep, crashes>>
    BY <1>16 DEF Delivers
  <2> QED
    BY <2>1, <2>2 DEF TypeOK
<1>17. ASSUME NEW j \in JobIds, Cancels(j) \/ Finishes(j) PROVE T
  <2>1. /\ CleanupPushed(j)
        /\ UNCHANGED <<gate, temps, used, wanted, flags, cancel, sweep, crashes>>
    BY <1>17 DEF Cancels, Finishes
  <2>2. /\ rows' \subseteq rows /\ disk' \subseteq disk /\ area' \in {"none", area}
        /\ add' \in {add, [add EXCEPT !.gone = (add.pc = "commit")]}
    BY <2>1 DEF CleanupPushed
  <2> QED
    BY <2>1, <2>2, <1>g DEF TypeOK
<1>18. ASSUME NEW j \in JobIds, Settles(j) PROVE T
  BY <1>18 DEF Settles, TypeOK, stage, delete_temp_imap_user
<1>19. ASSUME NEW j \in JobIds, Refreshes(j) \/ Writes(j) \/ Breaks(j) PROVE T
  BY <1>19 DEF Refreshes, Writes, Breaks, TypeOK, stage
<1>20. ASSUME NEW a \in Accounts, AccountBarred(a) PROVE T
  <2>1. PICK g \in Bars : gate' = [gate EXCEPT ![a] = g]
    BY <1>20 DEF AccountBarred
  <2>2. g \in {"ok", "suspended", "migrating"}
    BY RestoreAssumption
  <2> QED
    BY <1>20, <2>1, <2>2 DEF AccountBarred, TypeOK, mem, stage
<1>21. CASE CrashAndBoot
  <2>1. crashes' \in 0 .. MaxCrashes
    BY <1>21, RestoreAssumption DEF CrashAndBoot, TypeOK
  <2>2. cancel' \in [JobIds -> {"no", "flagged", "early", "late", "refused"}]
    BY <1>21 DEF CrashAndBoot, TypeOK
  <2> QED
    BY <1>21, <1>a, <2>1, <2>2 DEF CrashAndBoot, cleanup_temp_imap_users, TypeOK
<1>22. CASE UNCHANGED vars
  BY <1>22 DEF vars, stage, mem, TypeOK
<1> QED
  BY <1>1, <1>2, <1>3, <1>4, <1>5, <1>6, <1>7, <1>8, <1>9, <1>10, <1>11, <1>12, <1>13, <1>14,
     <1>15, <1>16, <1>17, <1>18, <1>19, <1>20, <1>21, <1>22 DEF Next, WorkerStep

---------------------------------------------------------------------------

(* Type correctness, and the invariant that ties a row to the thread that
   runs it: every counter stays within the size of a manifest because what is
   counted and what is still to do add up. *)
THEOREM RestoreTypes == Spec => [](TypeOK /\ RunInv)
<1>1. Init => TypeOK /\ RunInv
  <2> SUFFICES ASSUME Init PROVE TypeOK /\ RunInv
    OBVIOUS
  <2> DEFINE a == CHOOSE x \in Accounts : TRUE
             r == [status |-> "absent", push |-> FALSE, src |-> a, tgt |-> a,
                   sel |-> {}, restored |-> 0, skipped |-> 0, failed |-> 0]
  <2>1. a \in Accounts
    BY RestoreAssumption
  <2>2. job = [j \in JobIds |-> r] /\ wk = [j \in JobIds |-> NoWorker]
        /\ upstream = [x \in Accounts |-> {}] /\ queue = <<>>
    BY DEF Init
  <2>3. 0 \in Counts
    BY Finite DEF Counts
  <2> HIDE DEF a
  <2>4. r \in Job /\ r.status = "absent" /\ r.sel = {}
    BY <2>1, <2>3 DEF Job, Statuses
  <2> HIDE DEF r
  <2>5. NoWorker \in Worker /\ NoWorker.pc = "none" /\ NoWorker.todo = {} /\ NoWorker.pushed = {}
    BY DEF NoWorker, Worker, PCs, Statuses
  <2>6. TypeOK
    <3>1. job \in [JobIds -> Job] /\ wk \in [JobIds -> Worker] /\ queue \in Seq(JobIds)
      BY <2>2, <2>4, <2>5
    <3>2. add \in Add
      BY DEF Init, NoAdd, Add
    <3>3. crashes \in 0 .. MaxCrashes
      BY RestoreAssumption DEF Init
    <3> QED
      BY <3>1, <3>2, <3>3 DEF Init, TypeOK
  <2>7. \A j \in JobIds : job[j] = r /\ wk[j] = NoWorker
    BY <2>2
  <2>8. \A j \in JobIds : RunOf(j)
    BY <2>4, <2>5, <2>7 DEF RunOf
  <2>9. QueueInv
    <3>1. Present = {}
      BY <2>4, <2>7 DEF Present
    <3>2. {} = 1 .. 0 /\ 0 \in 0 .. MaxJobs
      BY RestoreAssumption
    <3>3. DOMAIN queue = {}
      BY <2>2
    <3> QED
      BY <3>1, <3>2, <3>3 DEF QueueInv
  <2> QED
    BY <2>6, <2>8, <2>9 DEF RunInv
<1>2. TypeOK /\ RunInv /\ [Next]_vars => TypeOK' /\ RunInv'
  <2> SUFFICES ASSUME TypeOK, RunInv, [Next]_vars PROVE TypeOK' /\ RunInv'
    OBVIOUS
  <2> QED
    BY RunStep, OtherTypes DEF TypeOK
<1> QED
  BY <1>1, <1>2, PTL DEF Spec

(* The report of a job that completed is honest: its counters account for
   every message of its manifest, and what it says it restored has arrived. *)
THEOREM ReportsAreHonest == Spec => []HonestReport
<1>1. TypeOK /\ RunInv => HonestReport
  <2> SUFFICES ASSUME TypeOK, RunInv, NEW j \in JobIds, job[j].status = "completed"
               PROVE  /\ job[j].restored + job[j].skipped + job[j].failed
                           = Cardinality(job[j].sel)
                      /\ job[j].restored
                           <= Cardinality(job[j].sel \cap upstream[job[j].tgt])
    BY DEF HonestReport
  <2>1. Tallied(j) /\ wk[j].todo = {}
    BY DEF RunInv, RunOf
  <2>2. /\ job[j].restored \in Nat /\ job[j].skipped \in Nat /\ job[j].failed \in Nat
        /\ Cardinality({}) = 0
    BY Finite, FS_EmptySet DEF TypeOK, Job, Counts
  <2>3. (job[j].sel \ {}) \cap upstream[job[j].tgt] = job[j].sel \cap upstream[job[j].tgt]
    OBVIOUS
  <2> QED
    BY <2>1, <2>2, <2>3 DEF Tallied
<1> QED
  BY <1>1, RestoreTypes, PTL

---------------------------------------------------------------------------

\* A cancel request that was flagged before the thread's last look keeps its
\* flag up until then, and the look is remembered.
CancelOf(j) ==
  /\ job[j].status = "absent" => cancel[j] = "no"
  /\ cancel[j] \in {"flagged", "early"} /\ wk[j].pc \in {"queued", "open", "loop", "settle"}
       => j \in flags
  /\ cancel[j] = "early" =>
       /\ wk[j].pc \in {"refresh", "write"} => wk[j].cancelled
       /\ job[j].status # "completed"

CancelInv == \A j \in JobIds : CancelOf(j)

(* What is known of confirmed cancels holds after every step. *)
LEMMA CancelStep ==
  ASSUME TypeOK, RunInv, CancelInv, [Next]_vars
  PROVE  CancelInv'
<1> SUFFICES ASSUME NEW i \in JobIds PROVE CancelOf(i)'
  BY DEF CancelInv
<1>c. CancelOf(i) /\ RunOf(i)
  BY DEF CancelInv, RunInv
<1>t. cancel \in [JobIds -> {"no", "flagged", "early", "late", "refused"}]
  BY DEF TypeOK
<1>1. CASE job' = job /\ wk' = wk /\ cancel' = cancel /\ flags' = flags
  BY <1>1, <1>c DEF CancelOf
<1>2. ASSUME NEW d \in Accounts \cup {"origin"}, api_staging_push(d) PROVE CancelOf(i)'
  <2>1. cancel' = cancel /\ flags' = flags
    BY <1>2 DEF api_staging_push
  <2>2. \/ job'[i] = job[i] /\ wk'[i] = wk[i]
        \/ job[i].status = "absent" /\ job'[i].status = "pending"
    BY <1>2, PushInserts
  <2> QED
    BY <1>c, <2>1, <2>2 DEF CancelOf
<1>3. ASSUME NEW s \in Accounts, NEW t \in Accounts, create_restore(s, t) PROVE CancelOf(i)'
  <2>1. cancel' = cancel /\ flags' = flags
    BY <1>3 DEF create_restore
  <2>2. \/ job'[i] = job[i] /\ wk'[i] = wk[i]
        \/ job[i].status = "absent" /\ job'[i].status = "pending"
    BY <1>3, CreateInserts
  <2> QED
    BY <1>c, <2>1, <2>2 DEF CancelOf
<1>4. ASSUME NEW j \in JobIds, cancel_restore(j) PROVE CancelOf(i)'
  <2>1. /\ job' = job /\ wk' = wk /\ flags' = flags \cup {j}
        /\ cancel' = [cancel EXCEPT ![j] = "flagged"] /\ job[j].status # "absent"
    BY <1>4 DEF cancel_restore, Present
  <2>2. i # j => cancel'[i] = cancel[i]
    BY <2>1, <1>t
  <2>3. i = j => cancel'[i] = "flagged"
    BY <2>1, <1>t
  <2> QED
    BY <1>c, <2>1, <2>2, <2>3 DEF CancelOf
<1>5. ASSUME NEW j \in JobIds, cancel_restore_job(j) PROVE CancelOf(i)'
  <2>1. /\ wk' = wk /\ flags' = flags /\ cancel[j] = "flagged"
        /\ i # j => cancel'[i] = cancel[i]
        /\ cancel'[j] = "early" => wk[j].pc \notin {"refresh", "write", "done"}
    BY <1>5, <1>t DEF cancel_restore_job
  <2>2. /\ job'[j].status = "completed" => cancel'[j] = "refused"
        /\ (job'[i].status = "absent" <=> job[i].status = "absent")
        /\ i # j => job'[i] = job[i]
    BY <1>5, CancelRuns
  <2> QED
    BY <1>c, <2>1, <2>2 DEF CancelOf
<1>6. CASE Start
  <2>1. PICK j \in JobIds :
              /\ wk[j].pc = "queued" /\ job[j].status # "absent"
              /\ job'[j].status \in {"failed", "running"}
              /\ wk'[j].pc \in {"done", "open"}
              /\ i # j => wk'[i] = wk[i] /\ job'[i] = job[i]
    BY <1>6, StartRuns
  <2>2. cancel' = cancel /\ flags' = flags
    BY <1>6 DEF Start
  <2> QED
    BY <1>c, <2>1, <2>2 DEF CancelOf
<1>7. ASSUME NEW j \in JobIds, WorkerStep(j) \/ Breaks(j) PROVE CancelOf(i)'
  <2>1. CASE Opens(j)
    <3>1. cancel' = cancel /\ flags' = flags /\ wk[j].pc = "open"
      BY <2>1 DEF Opens
    <3>2. /\ wk'[j].pc \in {"settle", "loop"} /\ job'[j].status # "completed"
          /\ i # j => wk'[i] = wk[i] /\ job'[i] = job[i]
      BY <2>1, OpensRuns
    <3>3. i = j => job[i].status # "absent"
      BY <1>c, <3>1 DEF RunOf
    <3>4. job'[j].status # "absent"
      BY <2>1, OpensRuns, <3>2 DEF RunInv, RunOf
    <3> QED
      BY <1>c, <3>1, <3>2, <3>3, <3>4 DEF CancelOf
  <2>2. CASE Delivers(j)
    <3>1. cancel' = cancel /\ flags' = flags /\ wk[j].pc = "loop"
      BY <2>2 DEF Delivers
    <3>2. /\ wk'[j].pc = "loop" /\ job'[j].status = job[j].status
          /\ i # j => wk'[i] = wk[i] /\ job'[i] = job[i]
      BY <2>2, DeliversRuns
    <3> QED
      BY <1>c, <3>1, <3>2 DEF CancelOf
  <2>3. CASE Cancels(j) \/ Finishes(j) \/ Settles(j) \/ Refreshes(j) \/ Writes(j)
    <3>1. /\ Cancels(j) => wk'[j].pc = "settle" /\ wk[j].pc = "loop" /\ flags' = flags
          /\ Finishes(j) => wk'[j].pc = "settle" /\ wk[j].pc = "loop" /\ flags' = flags
          /\ Settles(j) => /\ wk'[j].pc = "refresh" /\ wk'[j].cancelled = (j \in flags)
                           /\ wk[j].pc = "settle" /\ flags' = flags \ {j}
          /\ Refreshes(j) => /\ wk'[j].pc = "write" /\ wk'[j].cancelled = wk[j].cancelled
                             /\ wk[j].pc = "refresh" /\ flags' = flags
          /\ Writes(j) => wk'[j].pc = "done" /\ wk[j].pc = "write" /\ flags' = flags
      BY <2>3, TailRuns DEF Cancels, Finishes, Settles, Refreshes, Writes
    <3>2. /\ job'[j].status = "completed" => Writes(j) /\ ~wk[j].cancelled
          /\ job'[j].status # "absent"
          /\ i # j => wk'[i] = wk[i] /\ job'[i] = job[i]
      BY <2>3, TailRuns
    <3>3. cancel' = cancel
      BY <2>3 DEF Cancels, Finishes, Settles, Refreshes, Writes
    <3>4. CASE i # j
      <4>1. i \in flags' <=> i \in flags
        BY <2>3, <3>1, <3>4
      <4> QED
        BY <1>c, <3>2, <3>3, <3>4, <4>1 DEF CancelOf
    <3>5. CASE i = j
      <4>1. CASE Cancels(j) \/ Finishes(j)
        BY <1>c, <3>1, <3>2, <3>3, <3>5, <4>1 DEF CancelOf, Writes
      <4>2. CASE Settles(j)
        BY <1>c, <3>1, <3>2, <3>3, <3>5, <4>2 DEF CancelOf, Writes
      <4>3. CASE Refreshes(j)
        BY <1>c, <3>1, <3>2, <3>3, <3>5, <4>3 DEF CancelOf, Writes
      <4>4. CASE Writes(j)
        BY <1>c, <3>1, <3>2, <3>3, <3>5, <4>4 DEF CancelOf
      <4> QED
        BY <2>3, <4>1, <4>2, <4>3, <4>4
    <3> QED
      BY <3>4, <3>5
  <2>4. CASE Breaks(j)
    <3>1. /\ wk[j].pc = "loop" /\ Fails(j) /\ queue' = queue /\ upstream' = upstream
          /\ cancel' = cancel /\ flags' = flags
      BY <2>4 DEF Breaks
    <3>2. /\ wk'[j] = At("settle") /\ job'[j].status = "failed"
          /\ i # j => wk'[i] = wk[i] /\ job'[i] = job[i]
      BY <3>1, FailsRuns
    <3>3. At("settle").pc = "settle"
      BY AtType DEF PCs
    <3> QED
      BY <1>c, <3>1, <3>2, <3>3 DEF CancelOf
  <2> QED
    BY <1>7, <2>1, <2>2, <2>3, <2>4 DEF WorkerStep
<1>8. CASE CrashAndBoot
  <2>1. /\ job' = job /\ wk'[i] = NoWorker /\ NoWorker.pc = "none"
        /\ cancel'[i] = IF cancel[i] = "flagged" THEN "no" ELSE cancel[i]
    BY <1>8 DEF CrashAndBoot, NoWorker
  <2> QED
    BY <1>c, <2>1 DEF CancelOf
<1>9. CASE \/ get_status \/ AddCopies \/ AddCommits \/ api_staging_empty \/ AreaExpires
           \/ SweepReads \/ SweepRemoves
           \/ \E S \in SUBSET Files : AddChecks(S)
           \/ \E f \in Files : WebmailDeletes(f)
           \/ \E a \in Accounts : AccountBarred(a)
           \/ UNCHANGED vars
  <2>1. job' = job /\ wk' = wk /\ cancel' = cancel /\ flags' = flags
    BY <1>9 DEF get_status, AddCopies, AddCommits, api_staging_empty, AreaExpires, SweepReads,
                SweepRemoves, AddChecks, WebmailDeletes, AccountBarred, vars, mem, stage
  <2> QED
    BY <2>1, <1>1
<1> QED
  BY <1>2, <1>3, <1>4, <1>5, <1>6, <1>7, <1>8, <1>9 DEF Next

(* A cancel the API confirmed in time is never overwritten by completion. *)
THEOREM EarlyCancelsWin == Spec => []EarlyCancelWins
<1>1. Init => CancelInv
  BY DEF Init, CancelInv, CancelOf, NoWorker
<1>2. TypeOK /\ RunInv /\ CancelInv /\ [Next]_vars => CancelInv'
  BY CancelStep
<1>3. CancelInv => EarlyCancelWins
  BY DEF CancelInv, CancelOf, EarlyCancelWins
<1> QED
  BY <1>1, <1>2, <1>3, RestoreTypes, PTL DEF Spec

---------------------------------------------------------------------------

(* A temporary user never outlives the thread that made it, unless the process
   dies: on every way out of a restore the user is retired before the thread
   reads its row again. *)
THEOREM TempUsersOwned == Spec => []TempUsersAreOwned
<1>1. Init => TempUsersAreOwned
  BY DEF Init, TempUsersAreOwned
<1>2. TypeOK /\ RunInv /\ TempUsersAreOwned /\ [Next]_vars => TempUsersAreOwned'
  <2> SUFFICES ASSUME TypeOK, RunInv, TempUsersAreOwned, [Next]_vars,
                      crashes' = 0, NEW i \in temps'
               PROVE  wk'[i].pc \in {"open", "loop", "settle"}
    BY DEF TempUsersAreOwned
  <2>i. i \in JobIds
    BY OtherTypes
  <2>c. crashes \in Nat
    BY RestoreAssumption DEF TypeOK
  <2>1. CASE UNCHANGED <<wk, temps, crashes>>
    BY <2>1 DEF TempUsersAreOwned
  <2>2. ASSUME NEW d \in Accounts \cup {"origin"}, api_staging_push(d)
        PROVE  wk'[i].pc \in {"open", "loop", "settle"}
    <3>1. temps' = temps /\ crashes' = crashes
      BY <2>2 DEF api_staging_push
    <3>2. wk'[i] = wk[i] \/ job[i].status = "absent"
      BY <2>2, <2>i, PushInserts
    <3> QED
      BY <2>i, <3>1, <3>2 DEF RunInv, RunOf, TempUsersAreOwned
  <2>3. ASSUME NEW s \in Accounts, NEW t \in Accounts, create_restore(s, t)
        PROVE  wk'[i].pc \in {"open", "loop", "settle"}
    <3>1. temps' = temps /\ crashes' = crashes
      BY <2>3 DEF create_restore
    <3>2. wk'[i] = wk[i] \/ job[i].status = "absent"
      BY <2>3, <2>i, CreateInserts
    <3> QED
      BY <2>i, <3>1, <3>2 DEF RunInv, RunOf, TempUsersAreOwned
  <2>4. CASE Start
    <3>1. temps' = temps /\ crashes' = crashes
      BY <2>4 DEF Start
    <3>2. PICK j \in JobIds : wk[j].pc = "queued" /\ (i # j => wk'[i] = wk[i])
      BY <2>4, <2>i, StartRuns
    <3> QED
      BY <2>i, <3>1, <3>2 DEF TempUsersAreOwned
  <2>5. ASSUME NEW j \in JobIds, WorkerStep(j) \/ Breaks(j)
        PROVE  wk'[i].pc \in {"open", "loop", "settle"}
    <3>1. CASE Opens(j)
      <4>1. temps' \subseteq temps \cup {j} /\ crashes' = crashes
        BY <3>1 DEF Opens, create_temp_imap_user
      <4>2. wk'[j].pc \in {"settle", "loop"} /\ (i # j => wk'[i] = wk[i])
        BY <3>1, <2>i, OpensRuns
      <4> QED
        BY <4>1, <4>2 DEF TempUsersAreOwned
    <3>2. CASE Delivers(j)
      <4>1. temps' = temps /\ crashes' = crashes
        BY <3>2 DEF Delivers
      <4>2. wk'[j].pc = "loop" /\ (i # j => wk'[i] = wk[i])
        BY <3>2, <2>i, DeliversRuns
      <4> QED
        BY <4>1, <4>2 DEF TempUsersAreOwned
    <3>3. CASE Cancels(j) \/ Finishes(j) \/ Settles(j) \/ Refreshes(j) \/ Writes(j)
      <4>1. /\ crashes' = crashes /\ temps' \subseteq temps
            /\ Settles(j) => j \notin temps'
            /\ Refreshes(j) \/ Writes(j) => wk[j].pc \in {"refresh", "write"}
        BY <3>3 DEF Cancels, Finishes, Settles, Refreshes, Writes, delete_temp_imap_user
      <4>2. /\ Cancels(j) \/ Finishes(j) => wk'[j].pc = "settle"
            /\ i # j => wk'[i] = wk[i]
        BY <3>3, <2>i, TailRuns
      <4> QED
        BY <3>3, <4>1, <4>2 DEF TempUsersAreOwned
    <3>4. CASE Breaks(j)
      <4>1. /\ wk[j].pc = "loop" /\ Fails(j) /\ queue' = queue /\ upstream' = upstream
            /\ temps' = temps /\ crashes' = crashes
        BY <3>4 DEF Breaks
      <4>2. wk'[j] = At("settle") /\ (i # j => wk'[i] = wk[i])
        BY <4>1, <2>i, FailsRuns
      <4>3. At("settle").pc = "settle"
        BY AtType DEF PCs
      <4> QED
        BY <4>1, <4>2, <4>3 DEF TempUsersAreOwned
    <3> QED
      BY <2>5, <3>1, <3>2, <3>3, <3>4 DEF WorkerStep
  <2>6. CASE CrashAndBoot
    <3>1. crashes' = crashes + 1
      BY <2>6 DEF CrashAndBoot
    <3> QED
      BY <2>c, <3>1
  <2>7. CASE \/ get_status \/ AddCopies \/ AddCommits \/ api_staging_empty \/ AreaExpires
             \/ SweepReads \/ SweepRemoves
             \/ \E S \in SUBSET Files : AddChecks(S)
             \/ \E f \in Files : WebmailDeletes(f)
             \/ \E j \in JobIds : cancel_restore(j) \/ cancel_restore_job(j)
             \/ \E a \in Accounts : AccountBarred(a)
             \/ UNCHANGED vars
    <3>1. UNCHANGED <<wk, temps, crashes>>
      BY <2>7 DEF get_status, AddCopies, AddCommits, api_staging_empty, AreaExpires, SweepReads,
                  SweepRemoves, AddChecks, WebmailDeletes, cancel_restore, cancel_restore_job,
                  AccountBarred, vars, mem, stage
    <3> QED
      BY <3>1, <2>1
  <2> QED
    BY <2>2, <2>3, <2>4, <2>5, <2>6, <2>7 DEF Next
<1> QED
  BY <1>1, <1>2, RestoreTypes, PTL DEF Spec

---------------------------------------------------------------------------

\* What staging relies on.  A file that is being copied was never staged
\* before; one that is staged and wanted is not in what a push has delivered;
\* an area that is gone or has expired holds nothing that is wanted but what a
\* pending add has copied; and no add runs between the two halves of a purge.
AddInv ==
  /\ add.pc = "copy" => add.files \cap used = {}
  /\ add.pc = "commit" => add.files \subseteq used
  /\ add.pc = "commit" /\ add.base = "live" /\ ~add.gone => area # "none"

AreaInv ==
  /\ wanted \subseteq disk \cap used /\ rows \subseteq used
  /\ area # "live" => wanted \subseteq (IF add.pc = "commit" THEN add.files ELSE {})
  /\ sweep = "read" => add.pc = "idle" /\ area # "live"

PushInv ==
  \A j \in JobIds : job[j].push =>
       job[j].sel \subseteq used /\ wk[j].pushed \cap wanted = {}

StageInv == AddInv /\ AreaInv /\ PushInv

(* Jobs keep what they rely on when nothing more is wanted. *)
LEMMA PushKept ==
  ASSUME PushInv, wanted' \subseteq wanted, used \subseteq used',
         \A i \in JobIds : /\ job'[i].push = job[i].push /\ job'[i].sel = job[i].sel
                           /\ wk'[i].pushed \subseteq wk[i].pushed
  PROVE  PushInv'
  BY DEF PushInv

(* Steps that touch neither the area nor a request that adds to it. *)
LEMMA AreaKept ==
  ASSUME AddInv, AreaInv, UNCHANGED <<area, rows, disk, used, add, sweep>>,
         wanted' \subseteq wanted
  PROVE  AddInv' /\ AreaInv'
  BY DEF AddInv, AreaInv

(* _cleanup_pushed takes no file that is still wanted. *)
LEMMA CleanupKeeps ==
  ASSUME TypeOK, StageInv, NEW j \in JobIds, CleanupPushed(j),
         UNCHANGED <<used, wanted, sweep>>
  PROVE  AddInv' /\ AreaInv'
<1>1. CASE ~job[j].push \/ area = "none"
  BY <1>1, AreaKept DEF CleanupPushed, StageInv
<1>2. CASE job[j].push /\ area # "none"
  <2> DEFINE left == rows \ wk[j].pushed
             keep == disk \ (wk[j].pushed \cap rows)
             dies == left = {} /\ keep = {}
  <2>1. /\ rows' = left /\ disk' = keep
        /\ area' = IF dies THEN "none" ELSE area
        /\ add' = IF dies THEN [add EXCEPT !.gone = (add.pc = "commit")] ELSE add
    BY <1>2 DEF CleanupPushed
  <2>2. wk[j].pushed \cap wanted = {}
    BY <1>2 DEF StageInv, PushInv
  <2>3. wanted \subseteq keep \cap used /\ left \subseteq used
    BY <2>2 DEF StageInv, AreaInv
  <2>4. CASE dies
    <3>1. wanted = {} /\ area' = "none"
      BY <2>1, <2>3, <2>4
    <3>2. /\ add'.pc = add.pc /\ add'.files = add.files /\ add'.base = add.base
          /\ add.pc = "commit" => add'.gone
      <4> DEFINE b == add.pc = "commit"
      <4>1. add' = [add EXCEPT !.gone = b]
        BY <2>1, <2>4
      <4> HIDE DEF b
      <4>2. add'.pc = add.pc /\ add'.files = add.files /\ add'.base = add.base /\ add'.gone = b
        BY <4>1 DEF TypeOK, Add
      <4> QED
        BY <4>2 DEF b
    <3> QED
      BY <2>1, <2>3, <3>1, <3>2 DEF StageInv, AddInv, AreaInv
  <2>5. CASE ~dies
    <3>1. area' = area /\ add' = add /\ rows' = left /\ disk' = keep
      BY <2>1, <2>5
    <3> HIDE DEF left, keep, dies
    <3> QED
      BY <2>3, <3>1 DEF StageInv, AddInv, AreaInv
  <2> QED
    BY <2>4, <2>5
<1> QED
  BY <1>1, <1>2

(* The steps of staging itself. *)
LEMMA StagingStep ==
  ASSUME TypeOK, RunInv, StageInv, "sweep" \notin World,
         \/ get_status \/ AddCopies \/ AddCommits \/ api_staging_empty \/ AreaExpires
         \/ SweepReads \/ SweepRemoves
         \/ \E S \in SUBSET Files : AddChecks(S)
         \/ \E f \in Files : WebmailDeletes(f)
  PROVE  StageInv'
<1>j. job' = job /\ wk' = wk
  BY DEF get_status, AddCopies, AddCommits, api_staging_empty, AreaExpires, SweepReads,
         SweepRemoves, AddChecks, WebmailDeletes, mem
<1>p. wanted' \subseteq wanted /\ used' = used => PushInv'
  BY <1>j, PushKept DEF StageInv
<1>a. add \in Add /\ area \in {"none", "live", "expired"} /\ Reconciled \subseteq rows
  BY DEF TypeOK, Reconciled
<1>g. add' = [add EXCEPT !.gone = (add.pc = "commit")] =>
          /\ add'.pc = add.pc /\ add'.files = add.files /\ add'.base = add.base
          /\ add.pc = "commit" => add'.gone
  <2> DEFINE b == add.pc = "commit"
  <2> HIDE DEF b
  <2>1. add' = [add EXCEPT !.gone = b] =>
          add'.pc = add.pc /\ add'.files = add.files /\ add'.base = add.base /\ add'.gone = b
    BY <1>a DEF Add
  <2> QED
    BY <2>1 DEF b
<1>1. CASE get_status
  <2>1. /\ rows' \subseteq rows /\ UNCHANGED <<area, disk, used, wanted, add, sweep>>
    BY <1>1, <1>a DEF get_status
  <2>2. AddInv' /\ AreaInv'
    BY <2>1 DEF StageInv, AddInv, AreaInv
  <2> QED
    BY <1>p, <2>1, <2>2 DEF StageInv
<1>2. CASE AddCopies
  <2>1. PICK ok \in SUBSET add.files :
          /\ disk' = (IF area = "expired" THEN {} ELSE disk) \cup ok
          /\ add' = [add EXCEPT !.pc = "commit", !.files = ok, !.base = area]
          /\ used' = used \cup ok /\ wanted' = wanted \cup ok
    BY <1>2 DEF AddCopies
  <2>2. add.pc = "copy" /\ UNCHANGED <<area, rows, sweep>>
    BY <1>2 DEF AddCopies
  <2>3. add'.pc = "commit" /\ add'.files = ok /\ add'.base = area /\ add'.gone = add.gone
    BY <1>a, <2>1 DEF Add
  <2>4. ok \cap used = {} /\ sweep # "read"
    BY <2>2 DEF StageInv, AddInv, AreaInv
  <2>5. AddInv'
    BY <2>1, <2>2, <2>3 DEF StageInv, AddInv
  <2>6. AreaInv'
    <3>1. area # "live" => wanted = {}
      BY <2>2 DEF StageInv, AreaInv
    <3> QED
      BY <1>a, <2>1, <2>2, <2>3, <2>4, <3>1 DEF StageInv, AreaInv
  <2>7. PushInv'
    <3> SUFFICES ASSUME NEW j \in JobIds, job[j].push
                 PROVE  job[j].sel \subseteq used' /\ wk[j].pushed \cap wanted' = {}
      BY <1>j DEF PushInv
    <3>1. wk[j].pushed \subseteq job[j].sel /\ job[j].sel \subseteq used
          /\ wk[j].pushed \cap wanted = {}
      BY DEF RunInv, RunOf, StageInv, PushInv
    <3> QED
      BY <2>1, <2>4, <3>1
  <2> QED
    BY <2>5, <2>6, <2>7 DEF StageInv
<1>3. CASE AddCommits
  <2>1. /\ add.pc = "commit" /\ add' = NoAdd /\ UNCHANGED <<disk, used, sweep>>
    BY <1>3 DEF AddCommits
  <2>2. NoAdd.pc = "idle"
    BY DEF NoAdd
  <2>3. wanted' \subseteq wanted
    BY <1>3 DEF AddCommits
  <2>4. AddInv'
    BY <2>1, <2>2 DEF AddInv
  <2>5. sweep # "read"
    BY <2>1 DEF StageInv, AreaInv
  <2>6. AreaInv'
    <3>1. CASE add.base = "live" /\ add.gone
      <4>1. wanted' = wanted \ add.files /\ area' = area /\ rows' = rows
        BY <1>3, <3>1 DEF AddCommits
      <4> QED
        BY <2>1, <2>2, <2>5, <4>1 DEF StageInv, AreaInv
    <3>2. CASE ~(add.base = "live" /\ add.gone)
      <4>1. /\ area' = IF add.base = "live" THEN area ELSE "live"
            /\ rows' = (IF add.base = "live" THEN rows ELSE {}) \cup add.files
            /\ wanted' = IF add.base = "live" /\ area = "expired"
                         THEN wanted \ add.files ELSE wanted
        BY <1>3, <3>2 DEF AddCommits
      <4>2. add.base = "live" => area # "none"
        BY <2>1, <3>2 DEF StageInv, AddInv
      <4>3. rows' \subseteq used
        BY <2>1, <4>1 DEF StageInv, AddInv, AreaInv
      <4>4. area' # "live" => wanted' = {}
        BY <1>a, <2>1, <4>1, <4>2 DEF StageInv, AreaInv
      <4> QED
        BY <2>1, <2>2, <2>3, <2>5, <4>3, <4>4 DEF StageInv, AreaInv
    <3> QED
      BY <3>1, <3>2
  <2> QED
    BY <1>p, <2>1, <2>3, <2>4, <2>6 DEF StageInv
<1>4. CASE api_staging_empty
  <2>1. /\ wanted' = {} /\ rows' = {} /\ area' = "none" /\ UNCHANGED <<used, sweep>>
        /\ add' = [add EXCEPT !.gone = (add.pc = "commit")]
    BY <1>4 DEF api_staging_empty
  <2>2. AddInv' /\ AreaInv'
    BY <1>g, <2>1 DEF StageInv, AddInv, AreaInv
  <2> QED
    BY <1>p, <2>1, <2>2 DEF StageInv
<1>5. CASE AreaExpires
  <2>1. /\ wanted' = {} /\ area' = "expired" /\ UNCHANGED <<rows, disk, used, add, sweep>>
    BY <1>5 DEF AreaExpires
  <2>2. AddInv' /\ AreaInv'
    BY <2>1 DEF StageInv, AddInv, AreaInv
  <2> QED
    BY <1>p, <2>1, <2>2 DEF StageInv
<1>6. CASE SweepReads
  <2>1. /\ area = "expired" /\ add.pc = "idle"
        /\ UNCHANGED <<area, rows, disk, used, wanted, add>>
    BY <1>6 DEF SweepReads, stage
  <2>2. AddInv' /\ AreaInv'
    BY <2>1 DEF StageInv, AddInv, AreaInv
  <2> QED
    BY <1>p, <2>1, <2>2 DEF StageInv
<1>7. CASE SweepRemoves
  <2>1. /\ sweep = "read" /\ sweep' = "idle" /\ UNCHANGED <<used, wanted>>
        /\ \/ /\ area' = "none" /\ rows' = {}
              /\ add' = [add EXCEPT !.gone = (add.pc = "commit")]
           \/ UNCHANGED <<area, rows, add>>
    BY <1>7 DEF SweepRemoves
  <2>2. wanted = {} /\ add.pc = "idle"
    BY <2>1 DEF StageInv, AreaInv
  <2>3. add'.pc = "idle" /\ rows' \subseteq rows
    BY <1>g, <2>1, <2>2
  <2>4. AddInv' /\ AreaInv'
    BY <2>1, <2>2, <2>3 DEF StageInv, AddInv, AreaInv
  <2> QED
    BY <1>p, <2>1, <2>4 DEF StageInv
<1>8. ASSUME NEW S \in SUBSET Files, AddChecks(S) PROVE StageInv'
  <2>1. /\ add.pc = "idle" /\ sweep = "idle" /\ S \cap used = {} /\ rows' \subseteq rows
        /\ add' = [NoAdd EXCEPT !.pc = "copy", !.files = S]
        /\ UNCHANGED <<area, disk, used, wanted, sweep>>
    BY <1>8, <1>a DEF AddChecks
  <2>2. add'.pc = "copy" /\ add'.files = S
    BY <2>1 DEF NoAdd
  <2>3. AddInv' /\ AreaInv'
    BY <2>1, <2>2 DEF StageInv, AddInv, AreaInv
  <2> QED
    BY <1>p, <2>1, <2>3 DEF StageInv
<1>9. ASSUME NEW f \in Files, WebmailDeletes(f) PROVE StageInv'
  <2>1. /\ disk' = disk \ {f} /\ wanted' = wanted \ {f}
        /\ UNCHANGED <<area, rows, used, add, sweep>>
    BY <1>9 DEF WebmailDeletes
  <2>2. AddInv' /\ AreaInv'
    BY <2>1 DEF StageInv, AddInv, AreaInv
  <2> QED
    BY <1>p, <2>1, <2>2 DEF StageInv
<1> QED
  BY <1>1, <1>2, <1>3, <1>4, <1>5, <1>6, <1>7, <1>8, <1>9

(* The steps of the jobs. *)
LEMMA PushingStep ==
  ASSUME TypeOK, RunInv, StageInv,
         \/ \E d \in Accounts \cup {"origin"} : api_staging_push(d)
         \/ \E s, t \in Accounts : create_restore(s, t)
         \/ \E j \in JobIds : cancel_restore(j) \/ cancel_restore_job(j)
         \/ Start \/ \E j \in JobIds : WorkerStep(j) \/ Breaks(j)
  PROVE  StageInv'
<1>1. ASSUME NEW d \in Accounts \cup {"origin"}, api_staging_push(d) PROVE StageInv'
  <2>1. /\ rows' \subseteq rows /\ UNCHANGED <<area, disk, used, wanted, add, sweep>>
    BY <1>1 DEF api_staging_push, Reconciled
  <2>2. AddInv' /\ AreaInv'
    BY <2>1 DEF StageInv, AddInv, AreaInv
  <2>3. PushInv'
    <3> SUFFICES ASSUME NEW j \in JobIds, job'[j].push
                 PROVE  job'[j].sel \subseteq used' /\ wk'[j].pushed \cap wanted' = {}
      BY DEF PushInv
    <3>1. \/ job'[j] = job[j] /\ wk'[j] = wk[j]
          \/ wk'[j].pushed = {} /\ job'[j].sel \subseteq rows
      BY <1>1, PushInserts
    <3> QED
      BY <2>1, <3>1 DEF StageInv, PushInv, AreaInv
  <2> QED
    BY <2>2, <2>3 DEF StageInv
<1>2. ASSUME NEW s \in Accounts, NEW t \in Accounts, create_restore(s, t) PROVE StageInv'
  <2>1. UNCHANGED <<area, rows, disk, used, wanted, add, sweep>>
    BY <1>2 DEF create_restore, stage
  <2>2. AddInv' /\ AreaInv'
    BY <2>1, AreaKept DEF StageInv
  <2>3. PushInv'
    <3> SUFFICES ASSUME NEW j \in JobIds, job'[j].push
                 PROVE  job'[j].sel \subseteq used' /\ wk'[j].pushed \cap wanted' = {}
      BY DEF PushInv
    <3>1. \/ job'[j] = job[j] /\ wk'[j] = wk[j]
          \/ job'[j].push = FALSE
      BY <1>2, CreateInserts
    <3> QED
      BY <2>1, <3>1 DEF StageInv, PushInv
  <2> QED
    BY <2>2, <2>3 DEF StageInv
<1>3. ASSUME NEW j \in JobIds, cancel_restore(j) PROVE StageInv'
  <2>1. UNCHANGED <<area, rows, disk, used, wanted, add, sweep>> /\ job' = job /\ wk' = wk
    BY <1>3 DEF cancel_restore, stage
  <2> QED
    BY <2>1, AreaKept, PushKept DEF StageInv
<1>4. ASSUME NEW j \in JobIds, cancel_restore_job(j) PROVE StageInv'
  <2>1. UNCHANGED <<area, rows, disk, used, wanted, add, sweep>> /\ wk' = wk
    BY <1>4 DEF cancel_restore_job, stage
  <2>2. \A i \in JobIds : job'[i].push = job[i].push /\ job'[i].sel = job[i].sel
    BY <1>4, CancelRuns
  <2> QED
    BY <2>1, <2>2, AreaKept, PushKept DEF StageInv
<1>5. CASE Start
  <2>1. UNCHANGED <<area, rows, disk, used, wanted, add, sweep>>
    BY <1>5 DEF Start, stage
  <2>2. \A i \in JobIds : /\ job'[i].push = job[i].push /\ job'[i].sel = job[i].sel
                          /\ wk'[i].pushed \subseteq wk[i].pushed
    BY <1>5, StartRuns
  <2> QED
    BY <2>1, <2>2, AreaKept, PushKept DEF StageInv
<1>6. ASSUME NEW j \in JobIds, WorkerStep(j) \/ Breaks(j) PROVE StageInv'
  <2>1. CASE Opens(j)
    <3>1. UNCHANGED <<area, rows, disk, used, wanted, add, sweep>>
      BY <2>1 DEF Opens, stage
    <3>2. \A i \in JobIds : /\ job'[i].push = job[i].push /\ job'[i].sel = job[i].sel
                            /\ wk'[i].pushed \subseteq wk[i].pushed
      BY <2>1, OpensRuns
    <3> QED
      BY <3>1, <3>2, AreaKept, PushKept DEF StageInv
  <2>2. CASE Delivers(j)
    <3>1. UNCHANGED <<area, rows, disk, used, add, sweep>>
      BY <2>2 DEF Delivers
    <3>2. PICK f \in job[j].sel :
              \/ /\ wk'[j].pushed = wk[j].pushed \cup {f}
                 /\ wanted' = IF job[j].push THEN wanted \ {f} ELSE wanted
              \/ wk'[j].pushed = wk[j].pushed /\ wanted' = wanted
      BY <2>2, DeliversRuns
    <3>3. \A i \in JobIds : /\ job'[i].push = job[i].push /\ job'[i].sel = job[i].sel
                            /\ i # j => wk'[i] = wk[i]
      BY <2>2, DeliversRuns
    <3>4. wanted' \subseteq wanted
      BY <3>2
    <3>5. PushInv'
      <4> SUFFICES ASSUME NEW i \in JobIds, job[i].push
                   PROVE  job[i].sel \subseteq used /\ wk'[i].pushed \cap wanted' = {}
        BY <3>1, <3>3 DEF PushInv
      <4>1. job[i].sel \subseteq used /\ wk[i].pushed \cap wanted = {}
        BY DEF StageInv, PushInv
      <4>2. CASE i = j
        BY <3>2, <4>1, <4>2
      <4>3. CASE i # j
        BY <3>3, <3>4, <4>1, <4>3
      <4> QED
        BY <4>2, <4>3
    <3> QED
      BY <3>1, <3>4, <3>5, AreaKept DEF StageInv
  <2>3. CASE Cancels(j) \/ Finishes(j) \/ Settles(j) \/ Refreshes(j) \/ Writes(j)
    <3>1. \A i \in JobIds : /\ job'[i].push = job[i].push /\ job'[i].sel = job[i].sel
                            /\ wk'[i].pushed \subseteq wk[i].pushed
      BY <2>3, TailRuns
    <3>2. UNCHANGED <<used, wanted, sweep>>
      BY <2>3 DEF Cancels, Finishes, Settles, Refreshes, Writes, stage
    <3>3. PushInv'
      BY <3>1, <3>2, PushKept DEF StageInv
    <3>4. CASE Cancels(j) \/ Finishes(j)
      <4>1. CleanupPushed(j)
        BY <3>4 DEF Cancels, Finishes
      <4> QED
        BY <3>2, <3>3, <4>1, CleanupKeeps DEF StageInv
    <3>5. CASE Settles(j) \/ Refreshes(j) \/ Writes(j)
      <4>1. UNCHANGED <<area, rows, disk, used, wanted, add, sweep>>
        BY <3>5 DEF Settles, Refreshes, Writes, stage
      <4> QED
        BY <3>3, <4>1, AreaKept DEF StageInv
    <3> QED
      BY <2>3, <3>4, <3>5
  <2>4. CASE Breaks(j)
    <3>1. /\ wk[j].pc = "loop" /\ Fails(j) /\ queue' = queue /\ upstream' = upstream
          /\ UNCHANGED <<area, rows, disk, used, wanted, add, sweep>>
      BY <2>4 DEF Breaks, stage
    <3>2. At("settle").pushed = {}
      BY AtType DEF PCs
    <3>3. \A i \in JobIds : /\ job'[i].push = job[i].push /\ job'[i].sel = job[i].sel
                            /\ wk'[i].pushed \subseteq wk[i].pushed
      BY <3>1, <3>2, FailsRuns
    <3> QED
      BY <3>1, <3>3, AreaKept, PushKept DEF StageInv
  <2> QED
    BY <1>6, <2>1, <2>2, <2>3, <2>4 DEF WorkerStep
<1> QED
  BY <1>1, <1>2, <1>3, <1>4, <1>5, <1>6

(* No message the user has staged leaves the staging Maildir before it is
   delivered or given up, whatever pushes, retries, lost answers, clean-ups
   and crashes do; an add that overlaps the purge of the expired area it
   replaces is the one exception. *)
THEOREM StagedMailStays ==
  ASSUME "sweep" \notin World
  PROVE  Spec => []StagedUntilDelivered
<1>1. Init => StageInv
  BY DEF Init, StageInv, AddInv, AreaInv, PushInv, NoAdd
<1>2. TypeOK /\ RunInv /\ StageInv /\ [Next]_vars => StageInv'
  <2> SUFFICES ASSUME TypeOK, RunInv, StageInv, [Next]_vars PROVE StageInv'
    OBVIOUS
  <2>1. CASE CrashAndBoot
    <3>1. /\ wanted' = wanted \ add.files /\ add' = NoAdd /\ sweep' = "idle"
          /\ UNCHANGED <<job, area, rows, disk, used>>
          /\ \A j \in JobIds : wk'[j] = NoWorker
      BY <2>1 DEF CrashAndBoot
    <3>2. NoAdd.pc = "idle" /\ NoWorker.pushed = {}
      BY DEF NoAdd, NoWorker
    <3>3. AddInv' /\ AreaInv'
      BY <3>1, <3>2 DEF StageInv, AddInv, AreaInv
    <3> QED
      BY <3>1, <3>2, <3>3, PushKept DEF StageInv
  <2>2. CASE UNCHANGED vars \/ \E a \in Accounts : AccountBarred(a)
    <3>1. UNCHANGED <<area, rows, disk, used, wanted, add, sweep>> /\ job' = job /\ wk' = wk
      BY <2>2 DEF AccountBarred, stage, vars, mem
    <3> QED
      BY <3>1, AreaKept, PushKept DEF StageInv
  <2> QED
    BY <2>1, <2>2, StagingStep, PushingStep DEF Next
<1>3. StageInv => StagedUntilDelivered
  BY DEF StageInv, AreaInv, StagedUntilDelivered
<1> QED
  BY <1>1, <1>2, <1>3, RestoreTypes, PTL DEF Spec
=============================================================================
