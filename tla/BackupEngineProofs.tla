------------------------- MODULE BackupEngineProofs -------------------------
(***************************************************************************)
(* Theorems about the backup engine, for every set of policies, every      *)
(* number of rows, workers and crashes and every length of the history.    *)
(***************************************************************************)
EXTENDS BackupEngine, FiniteSetTheorems, WellFoundedInduction, TLAPS

Absent == {j \in JobIds : job[j].status = "absent"}

\* Rows are inserted in the order of their ids, the ids do not run out before
\* the queue does, and whoever runs or is doomed has a row.
RowsInv ==
  /\ Len(queue) <= Cardinality(Absent)
  /\ \A i \in JobIds, j \in JobIds :
       i < j /\ job[i].status = "absent" => job[j].status = "absent"
  /\ \A j \in Busy \cup wd.doomed : job[j].status # "absent"

\* The newest row of a policy.
Newest(j) ==
  \A i \in JobIds : owner[i] = owner[j] /\ job[i].status # "absent" => i <= j

\* A policy that shows "running" shows its newest row.  Its worker has not
\* loaded anything else since, and a watchdog that is about to close the row
\* is about to turn the policy over as well.
Light(j) ==
  /\ job[j].status = "running" /\ Newest(j)
  /\ j \in Busy => w[j].seen = "running"
  /\ j \in wd.doomed => owner[j] \in wd.heal

LightInv ==
  \A p \in Policies : policy[p].status = "running" =>
    \E j \in JobIds : owner[j] = p /\ Light(j)

\* While runs of one policy do not overlap: a policy is in the queue once or
\* in the hands of one worker, a running row has a worker that will still
\* write its verdict or is about to be swept, and the worker knows whether the
\* marker is the backup's own.
AloneInv ==
  /\ \A i \in DOMAIN queue, k \in DOMAIN queue : queue[i] = queue[k] => i = k
  /\ \A i \in DOMAIN queue, j \in Busy : owner[j] # queue[i]
  /\ \A i \in Busy, j \in Busy : owner[i] = owner[j] => i = j
  /\ \A j \in JobIds : job[j].status = "running" =>
       phase = "boot" \/ (j \in Busy /\ w[j].pc # "notify")
  /\ phase = "boot" => Busy = {} /\ queue = <<>>
  /\ \A j \in Busy : w[j].pc \in Commands /\ slot[owner[j]] = "backup_failed"
       => w[j].slot = "backup_failed"

---------------------------------------------------------------------------

(* The ids that are not yet given are finitely many, and while some are left
   the next one is well defined: absent, with every smaller one given. *)
LEMMA FreshId ==
  ASSUME TypeOK
  PROVE  /\ IsFiniteSet(Absent) /\ Cardinality(Absent) \in Nat
         /\ Absent # {} => /\ NextId \in Absent
                           /\ \A k \in JobIds : k < NextId => k \notin Absent
<1>1. IsFiniteSet(JobIds)
  BY BackupAssumption, FS_Interval DEF JobIds
<1>2. IsFiniteSet(Absent) /\ Cardinality(Absent) \in Nat
  BY <1>1, FS_Subset, FS_CardinalityType DEF Absent
<1>3. ASSUME Absent # {}
      PROVE  /\ NextId \in Absent
             /\ \A k \in JobIds : k < NextId => k \notin Absent
  <2>1. Absent \subseteq Nat
    BY BackupAssumption DEF Absent, JobIds
  <2> DEFINE R == {ss \in Nat \X Nat : ss[1] < ss[2]}
  <2>a. IsWellFoundedOn(R, Nat)
    BY NatLessThanWellFounded, Zenon DEF OpToRel
  <2>2. PICK x \in Absent : \A y \in Absent : ~(<<y, x>> \in R)
    <3> HIDE DEF R
    <3> QED
      BY <1>3, <2>1, <2>a, WFMin
  <2>3. \A y \in Absent : ~(y < x)
    BY <2>1, <2>2
  <2>4. x \in JobIds /\ job[x].status = "absent"
    BY <2>2 DEF Absent
  <2>5. \A k \in 1 .. x - 1 : job[k].status # "absent"
    BY <2>3, <2>4, BackupAssumption DEF Absent, JobIds
  <2>6. /\ NextId \in JobIds /\ job[NextId].status = "absent"
        /\ \A k \in 1 .. NextId - 1 : job[k].status # "absent"
    BY <2>4, <2>5 DEF NextId
  <2> QED
    BY <2>6, BackupAssumption DEF Absent, JobIds
<1> QED
  BY <1>2, <1>3

(* A step that inserts no row, starts no worker and dooms nobody keeps
   RowsInv. *)
LEMMA RowsKept ==
  ASSUME RowsInv, queue' = queue \/ queue' = <<>>, Cardinality(Absent) \in Nat,
         \A j \in JobIds : job'[j].status = "absent" <=> job[j].status = "absent",
         Busy' \subseteq Busy, wd'.doomed \subseteq wd.doomed, wd.doomed \subseteq JobIds
  PROVE  RowsInv'
<1>1. Absent' = Absent
  BY DEF Absent
<1>2. Len(queue') <= Cardinality(Absent')
  BY <1>1 DEF RowsInv
<1>3. Busy \subseteq JobIds
  BY DEF Busy
<1> QED
  BY <1>2, <1>3 DEF RowsInv

(* Trimming the history only turns rows that are present into gone ones, and
   leaves the newest row of the policy. *)
LEMMA TrimmedRows ==
  ASSUME job \in [JobIds -> Row], NEW p \in Policies
  PROVE  /\ Trimmed(p) \in [JobIds -> Row]
         /\ \A i \in JobIds :
              /\ Trimmed(p)[i].status = "absent" <=> job[i].status = "absent"
              /\ Trimmed(p)[i] # job[i] =>
                   owner[i] = p /\ Present(i) /\ Trimmed(p)[i].status = "gone"
              /\ owner[i] = p /\ Newest(i) => Trimmed(p)[i] = job[i]
<1> DEFINE Old(i) ==
      Present(i) /\ owner[i] = p
        /\ Cardinality({k \in JobsOf(p) : Present(k) /\ k > i}) >= Keep
<1>1. Trimmed(p) = [i \in JobIds |-> IF Old(i) THEN [job[i] EXCEPT !.status = "gone"] ELSE job[i]]
  BY DEF Trimmed
<1>2. ASSUME NEW i \in JobIds, owner[i] = p, Newest(i) PROVE ~Old(i)
  <2>1. {k \in JobsOf(p) : Present(k) /\ k > i} = {}
    BY <1>2, BackupAssumption DEF JobsOf, Newest, JobIds
  <2>2. Cardinality({k \in JobsOf(p) : Present(k) /\ k > i}) = 0
    BY <2>1, FS_EmptySet
  <2> QED
    BY <2>2, BackupAssumption
<1>3. \A i \in JobIds : Old(i) => Present(i) /\ owner[i] = p
  OBVIOUS
<1> HIDE DEF Old
<1> QED
  BY <1>1, <1>2, <1>3 DEF Row, Present

(* A step of one worker touches no other, and a busy one adds nobody. *)
LEMMA WorkerMoved ==
  ASSUME w \in [JobIds -> Worker], NEW j \in JobIds, NEW u \in Worker,
         w' = [w EXCEPT ![j] = u], w[j].pc # "none"
  PROVE  /\ w' \in [JobIds -> Worker] /\ Busy' \subseteq Busy /\ w'[j] = u
         /\ \A i \in JobIds : i # j => w'[i] = w[i]
<1>1. w' \in [JobIds -> Worker]
  OBVIOUS
<1>2. w'[j] = u /\ \A i \in JobIds : i # j => w'[i] = w[i]
  OBVIOUS
<1> QED
  BY <1>1, <1>2 DEF Busy

(* A worker that has ended is no longer busy, and no other is touched. *)
LEMMA WorkerGone ==
  ASSUME w \in [JobIds -> Worker], NEW j \in JobIds, w' = [w EXCEPT ![j] = NoWorker]
  PROVE  /\ w' \in [JobIds -> Worker] /\ Busy' = Busy \ {j}
         /\ \A i \in JobIds : i # j => w'[i] = w[i]
<1>1. NoWorker \in Worker /\ NoWorker.pc = "none"
  BY DEF NoWorker, Worker, PCs, Commands, Statuses
<1>2. w'[j].pc = "none" /\ \A i \in JobIds : i # j => w'[i] = w[i]
  BY <1>1
<1>3. w' \in [JobIds -> Worker]
  BY <1>1
<1>4. \A i \in JobIds : w'[i].pc # "none" <=> w[i].pc # "none" /\ i # j
  BY <1>2
<1> QED
  BY <1>2, <1>3, <1>4 DEF Busy

(* What the two sweeps write: the rows in a set are closed as failed ... *)
LEMMA SweptRows ==
  ASSUME job \in [JobIds -> Row], NEW S \in SUBSET JobIds,
         NEW k \in {"interrupted", "stalled"},
         job' = [j \in JobIds |-> IF j \in S THEN Closed(job[j], k) ELSE job[j]]
  PROVE  /\ job' \in [JobIds -> Row]
         /\ \A j \in JobIds : IF j \in S THEN job'[j].status = "failed"
                                        ELSE job'[j] = job[j]
<1> DEFINE C(j) == Closed(job[j], k)
<1>1. \A j \in JobIds : C(j) \in Row /\ C(j).status = "failed"
  BY DEF Closed, Row
<1>2. job' = [j \in JobIds |-> IF j \in S THEN C(j) ELSE job[j]]
  OBVIOUS
<1> HIDE DEF C
<1> QED
  BY <1>1, <1>2

(* ... and the policies in a set show it; the others keep what they have. *)
LEMMA HealedPolicies ==
  ASSUME policy \in [Policies -> Policy], NEW P \in SUBSET Policies
  PROVE  /\ Healed(P) \in [Policies -> Policy]
         /\ \A p \in Policies : IF p \in P THEN Healed(P)[p].status = "failed"
                                          ELSE Healed(P)[p] = policy[p]
<1> DEFINE C(p) == [policy[p] EXCEPT !.status = "failed"]
<1>1. \A p \in Policies : C(p) \in Policy /\ C(p).status = "failed"
  BY DEF Policy, Statuses
<1>2. Healed(P) = [p \in Policies |-> IF p \in P THEN C(p) ELSE policy[p]]
  BY DEF Healed
<1> HIDE DEF C
<1> QED
  BY <1>1, <1>2

(* The columns have their types, rows are inserted in order and the ids do not
   run out: what every later proof starts from. *)
THEOREM BackupTypes == Spec => [](TypeOK /\ RowsInv)
<1>1. Init => TypeOK /\ RowsInv
  <2> SUFFICES ASSUME Init PROVE TypeOK /\ RowsInv
    OBVIOUS
  <2>1. TypeOK
    <3>1. (CHOOSE p \in Policies : TRUE) \in Policies
      BY BackupAssumption
    <3>2. NoWorker \in Worker /\ NoRow \in Row /\ NoPolicy \in Policy
      BY DEF NoWorker, Worker, NoRow, Row, NoPolicy, Policy, PCs, Commands, Statuses
    <3> QED
      BY <3>1, <3>2, BackupAssumption DEF Init, TypeOK, NoTick
  <2>2. /\ \A j \in JobIds : job[j].status = "absent"
        /\ Busy = {} /\ wd.doomed = {} /\ Len(queue) = 0
    BY DEF Init, NoRow, Busy, NoWorker, NoTick
  <2> QED
    BY <2>1, <2>2, FreshId DEF RowsInv
<1>2. TypeOK /\ RowsInv /\ [Next]_vars => TypeOK' /\ RowsInv'
  <2> SUFFICES ASSUME TypeOK, RowsInv, [Next]_vars PROVE TypeOK' /\ RowsInv'
    OBVIOUS
  <2>c. IsFiniteSet(Absent) /\ Cardinality(Absent) \in Nat
    BY FreshId
  <2>d. wd.doomed \subseteq JobIds
    BY DEF TypeOK
  <2>w. w \in [JobIds -> Worker]
    BY DEF TypeOK
  <2>j. job \in [JobIds -> Row]
    BY DEF TypeOK
  <2>p. policy \in [Policies -> Policy]
    BY DEF TypeOK
  <2>1. ASSUME NEW p \in Policies, NEW line \in {"good", "bad"}, Configure(p, line)
        PROVE  TypeOK' /\ RowsInv'
    <3>1. TypeOK'
      BY <2>1 DEF Configure, TypeOK, Policy, alerts, sys, procs, dicts
    <3> QED
      BY <2>1, <3>1, <2>c, <2>d, RowsKept
      DEF Configure, alerts, sys, procs, dicts, Busy
  <2>2. ASSUME NEW p \in Policies, Submit(p) PROVE TypeOK' /\ RowsInv'
    <3>1. TypeOK'
      BY <2>2 DEF Submit, TypeOK, rows, alerts, sys, procs, dicts
    <3>2. Absent' = Absent /\ Busy' = Busy
      BY <2>2 DEF Submit, Absent, Busy, rows
    <3>3. Len(queue') <= Cardinality(Absent)
      <4>1. queue \in Seq(Policies)
        BY DEF TypeOK
      <4>2. Len(queue') = Len(queue) + 1 /\ Len(queue) \in Nat
        BY <2>2, <4>1 DEF Submit
      <4> QED
        BY <2>2, <4>2, <2>c DEF Submit, Absent
    <3> QED
      BY <2>2, <3>1, <3>2, <3>3 DEF Submit, RowsInv, rows
  <2>3. ASSUME NEW p \in Policies, NEW s \in {"sync", "none"}, SyncAlert(p, s)
        PROVE  TypeOK' /\ RowsInv'
    <3>1. TypeOK'
      BY <2>3 DEF SyncAlert, TypeOK, rows, sys, procs, dicts
    <3> QED
      BY <2>3, <3>1, <2>c, <2>d, RowsKept DEF SyncAlert, rows, Busy
  <2>4. CASE RefreshScheduler
    <3>1. TypeOK'
      BY <2>4 DEF RefreshScheduler, Table, Saved, TypeOK, rows, alerts, procs, dicts
    <3> QED
      BY <2>4, <3>1, <2>c, <2>d, RowsKept DEF RefreshScheduler, rows, Busy
  <2>5. CASE Start
    <3> DEFINE j == NextId
               p == Head(queue)
    <3>1. queue \in Seq(Policies) /\ queue # <<>>
      BY <2>5 DEF Start, TypeOK
    <3>2. /\ p \in Policies /\ Tail(queue) \in Seq(Policies)
          /\ Len(Tail(queue)) = Len(queue) - 1 /\ Len(queue) \in Nat \ {0}
      BY <3>1
    <3>3. Absent # {}
      BY <3>2, <2>c, FS_EmptySet DEF RowsInv
    <3>4. j \in Absent /\ \A k \in JobIds : k < j => k \notin Absent
      BY <3>3, FreshId
    <3>5. j \in JobIds
      BY <3>4 DEF Absent
    <3> HIDE DEF j, p
    <3>6. /\ queue' = Tail(queue)
          /\ owner' = [owner EXCEPT ![j] = p]
          /\ job' = [job EXCEPT ![j] = [status |-> "running", kind |-> "none"]]
          /\ policy' = [policy EXCEPT ![p].status = "running"]
          /\ w' = [w EXCEPT ![j] = [NoWorker EXCEPT !.pc = "init",
                                       !.seen = "running", !.slot = slot[p]]]
          /\ progress' = progress \cup {j}
          /\ UNCHANGED <<alerts, sys, procs, registered, wd>>
      BY <2>5 DEF Start, j, p
    <3>7. TypeOK'
      <4>1. w' \in [JobIds -> Worker]
        <5>1. slot[p] \in {"none", "backup_failed", "sync"}
          BY <3>2 DEF TypeOK
        <5>2. [NoWorker EXCEPT !.pc = "init", !.seen = "running", !.slot = slot[p]] \in Worker
          BY <5>1 DEF NoWorker, Worker, PCs, Commands, Statuses
        <5> QED
          BY <2>w, <3>5, <3>6, <5>2
      <4>2. job' \in [JobIds -> Row] /\ policy' \in [Policies -> Policy]
        BY <2>j, <2>p, <3>2, <3>5, <3>6 DEF Row, Policy, Statuses
      <4> QED
        BY <4>1, <4>2, <3>2, <3>5, <3>6 DEF TypeOK, alerts, sys, procs
    <3>8. Absent' = Absent \ {j}
      BY <2>j, <3>5, <3>6 DEF Absent
    <3>9. Len(queue') <= Cardinality(Absent')
      <4>1. Cardinality(Absent') = Cardinality(Absent) - 1
        BY <3>4, <3>8, <2>c, FS_RemoveElement
      <4> QED
        BY <4>1, <3>2, <3>6, <2>c DEF RowsInv
    <3>10. \A i \in JobIds, k \in JobIds :
             i < k /\ job'[i].status = "absent" => job'[k].status = "absent"
      <4> SUFFICES ASSUME NEW i \in JobIds, NEW k \in JobIds,
                          i < k, job'[i].status = "absent"
                   PROVE  job'[k].status = "absent"
        OBVIOUS
      <4>1. i # j /\ job[i].status = "absent"
        BY <2>j, <3>5, <3>6
      <4>2. ~(i < j)
        BY <3>4, <4>1 DEF Absent
      <4>3. k # j
        BY <4>1, <4>2
      <4> QED
        BY <4>1, <4>3, <3>5, <3>6, <2>j DEF RowsInv
    <3>11. \A i \in Busy' \cup wd'.doomed : job'[i].status # "absent"
      <4>1. Busy' \subseteq Busy \cup {j}
        BY <2>w, <3>5, <3>6 DEF Busy
      <4> QED
        BY <4>1, <3>5, <3>6, <2>j, <2>d DEF RowsInv, Busy
    <3> QED
      BY <3>7, <3>9, <3>10, <3>11 DEF RowsInv
  <2>6. ASSUME NEW j \in JobIds, InitRepo(j) PROVE TypeOK' /\ RowsInv'
    <3>1. w' \in [JobIds -> Worker] /\ Busy' \subseteq Busy
      BY <2>6, <2>w DEF InitRepo, Go, Worker, PCs, Commands, Busy
    <3>2. TypeOK'
      BY <2>6, <3>1 DEF InitRepo, TypeOK, rows, alerts, sys
    <3> QED
      BY <2>6, <3>1, <3>2, <2>c, <2>d, RowsKept DEF InitRepo, rows
  <2>7. ASSUME NEW j \in JobIds, Heartbeat(j) PROVE TypeOK' /\ RowsInv'
    <3>1. TypeOK'
      BY <2>7 DEF Heartbeat, TypeOK, rows, alerts, sys
    <3> QED
      BY <2>7, <3>1, <2>c, <2>d, RowsKept DEF Heartbeat, rows, Busy
  <2>8. ASSUME NEW j \in JobIds, SnapshotTaken(j) PROVE TypeOK' /\ RowsInv'
    <3>1. /\ policy[owner[j]].status \in Statuses
          /\ slot[owner[j]] \in {"none", "backup_failed", "sync"}
      BY DEF TypeOK, Policy
    <3>2. w' \in [JobIds -> Worker] /\ Busy' \subseteq Busy
      BY <2>8, <2>w, <3>1 DEF SnapshotTaken, Worker, PCs, Commands, Busy
    <3>3. TypeOK'
      BY <2>8, <3>2 DEF SnapshotTaken, TypeOK, rows, alerts, sys
    <3> QED
      BY <2>8, <3>2, <3>3, <2>c, <2>d, RowsKept DEF SnapshotTaken, rows
  <2>9. ASSUME NEW j \in JobIds, NEW pruned \in BOOLEAN, Retain(j, pruned)
        PROVE  TypeOK' /\ RowsInv'
    <3>1. /\ policy[owner[j]].status \in Statuses
          /\ slot[owner[j]] \in {"none", "backup_failed", "sync"}
      BY DEF TypeOK, Policy
    <3>2. w' \in [JobIds -> Worker] /\ Busy' \subseteq Busy
      <4> DEFINE s == IF pruned THEN policy[owner[j]].status ELSE w[j].seen
                 a == IF pruned THEN slot[owner[j]] ELSE w[j].slot
                 u == [w[j] EXCEPT !.pc = "finish", !.seen = s, !.slot = a]
      <4>1. w' = [w EXCEPT ![j] = u] /\ w[j].pc # "none"
        <5>1. w' = [w EXCEPT ![j] = u]
          BY <2>9, Zenon DEF Retain
        <5> QED
          BY <2>9, <5>1 DEF Retain
      <4>2. s \in Statuses /\ a \in {"none", "backup_failed", "sync"}
        BY <2>w, <3>1 DEF Worker
      <4>3. u \in Worker
        <5> HIDE DEF s, a
        <5> QED
          BY <2>w, <4>2 DEF Worker, PCs, Commands
      <4> HIDE DEF u
      <4> QED
        BY <2>w, <4>1, <4>3, WorkerMoved
    <3>3. TypeOK'
      BY <2>9, <3>2 DEF Retain, TypeOK, rows, alerts, sys, procs, dicts
    <3> QED
      BY <2>9, <3>2, <3>3, <2>c, <2>d, RowsKept DEF Retain, rows
  <2>10. ASSUME NEW j \in JobIds, Raises(j) PROVE TypeOK' /\ RowsInv'
    <3>1. w' \in [JobIds -> Worker] /\ Busy' \subseteq Busy
      BY <2>10, <2>w DEF Raises, Go, Worker, PCs, Commands, Busy
    <3>2. TypeOK'
      BY <2>10, <3>1 DEF Raises, TypeOK, rows, alerts, sys, dicts
    <3> QED
      BY <2>10, <3>1, <3>2, <2>c, <2>d, RowsKept DEF Raises, rows
  <2>11. ASSUME NEW j \in JobIds, Succeed(j) PROVE TypeOK' /\ RowsInv'
    <3>1. w' \in [JobIds -> Worker] /\ Busy' \subseteq Busy
      <4>1. w' = [w EXCEPT ![j] = NoWorker]
        BY <2>11 DEF Succeed
      <4>2. w' \in [JobIds -> Worker] /\ Busy' = Busy \ {j}
        BY <4>1, <2>w, WorkerGone
      <4> QED
        BY <4>2
    <3>2. owner[j] \in Policies /\ w[j].slot \in {"none", "backup_failed", "sync"}
      BY <2>w DEF TypeOK, Worker
    <3>3. CASE Present(j)
      <4>1. /\ job' \in [JobIds -> Row]
            /\ \A i \in JobIds : job'[i].status = "absent" <=> job[i].status = "absent"
        <5> DEFINE T == Trimmed(owner[j])
        <5>1. job' = [T EXCEPT ![j].status = "completed"]
          BY <2>11, <3>3 DEF Succeed
        <5>2. /\ T \in [JobIds -> Row]
              /\ \A i \in JobIds : T[i].status = "absent" <=> job[i].status = "absent"
          BY <2>j, <3>2, TrimmedRows
        <5> HIDE DEF T
        <5> QED
          BY <5>1, <5>2, <3>3 DEF Row, Present
      <4>2. policy' \in [Policies -> Policy]
        BY <2>11, <3>3, <2>p, <3>2 DEF Succeed, Flushed, Policy, Statuses
      <4>3. slot' \in [Policies -> {"none", "backup_failed", "sync"}]
        BY <2>11, <3>3, <3>2 DEF Succeed, Released, TypeOK
      <4>4. TypeOK'
        BY <2>11, <3>1, <3>2, <3>3, <4>1, <4>2, <4>3
        DEF Succeed, DropEntries, TypeOK, sys, procs
      <4> QED
        BY <2>11, <3>1, <4>1, <4>4, <2>c, <2>d, RowsKept DEF Succeed
    <3>4. CASE ~Present(j)
      <4>1. UNCHANGED <<job, policy, slot, told>>
        BY <2>11, <3>4 DEF Succeed, alerts
      <4>2. TypeOK'
        BY <2>11, <3>1, <4>1 DEF Succeed, DropEntries, TypeOK, sys, procs
      <4> QED
        BY <2>11, <3>1, <4>1, <4>2, <2>c, <2>d, RowsKept DEF Succeed
    <3> QED
      BY <3>3, <3>4
  <2>12. ASSUME NEW j \in JobIds, Refresh(j) PROVE TypeOK' /\ RowsInv'
    <3>1. w' \in [JobIds -> Worker] /\ Busy' \subseteq Busy
      <4> DEFINE c == job[j].status = "failed" /\ job[j].kind # "none"
      <4>1. w' = [w EXCEPT ![j] = [@ EXCEPT !.pc = "commit", !.closed = c]]
        BY <2>12 DEF Refresh
      <4>2. c \in BOOLEAN
        OBVIOUS
      <4> HIDE DEF c
      <4>3. [w[j] EXCEPT !.pc = "commit", !.closed = c] \in Worker
        BY <4>2, <2>w DEF Worker, PCs
      <4>4. w[j].pc # "none"
        BY <2>12 DEF Refresh
      <4> QED
        BY <4>1, <4>3, <4>4, <2>w, WorkerMoved
    <3>2. TypeOK'
      BY <2>12, <3>1 DEF Refresh, TypeOK, rows, alerts, sys, procs, dicts
    <3> QED
      BY <2>12, <3>1, <3>2, <2>c, <2>d, RowsKept DEF Refresh, rows
  <2>13. ASSUME NEW j \in JobIds, CommitFailure(j) PROVE TypeOK' /\ RowsInv'
    <3>1. w' \in [JobIds -> Worker] /\ Busy' \subseteq Busy
      BY <2>13, <2>w DEF CommitFailure, Go, Worker, PCs, Commands, Busy
    <3>2. /\ job' \in [JobIds -> Row]
          /\ \A i \in JobIds : job'[i].status = "absent" <=> job[i].status = "absent"
      <4>1. CASE Present(j)
        <5> DEFINE k == IF w[j].closed THEN job[j].kind ELSE "error"
        <5>1. job' = [job EXCEPT ![j] = [status |-> "failed", kind |-> k]]
          BY <2>13, <4>1, <2>j DEF CommitFailure, Row
        <5>2. k \in {"none", "interrupted", "stalled", "error"}
          BY <2>j DEF Row
        <5> HIDE DEF k
        <5> QED
          BY <4>1, <5>1, <5>2, <2>j, SMTT(30) DEF Row, Present
      <4>2. CASE ~Present(j)
        BY <2>13, <4>2, <2>j DEF CommitFailure
      <4> QED
        BY <4>1, <4>2
    <3>3. policy' \in [Policies -> Policy]
      <4>1. owner[j] \in Policies
        BY DEF TypeOK
      <4> QED
        BY <2>13, <2>p, <4>1 DEF CommitFailure, Flushed, Policy, Statuses
    <3>4. TypeOK'
      BY <2>13, <3>1, <3>2, <3>3 DEF CommitFailure, TypeOK, alerts, sys, procs, dicts
    <3> QED
      BY <2>13, <3>1, <3>2, <3>4, <2>c, <2>d, RowsKept DEF CommitFailure
  <2>14. ASSUME NEW j \in JobIds, Notify(j) PROVE TypeOK' /\ RowsInv'
    <3>1. w' \in [JobIds -> Worker] /\ Busy' \subseteq Busy
      <4>1. w' = [w EXCEPT ![j] = NoWorker]
        BY <2>14 DEF Notify
      <4>2. w' \in [JobIds -> Worker] /\ Busy' = Busy \ {j}
        BY <4>1, <2>w, WorkerGone
      <4> QED
        BY <4>2
    <3>2. /\ job' \in [JobIds -> Row]
          /\ \A i \in JobIds : job'[i].status = "absent" <=> job[i].status = "absent"
      <4>1. owner[j] \in Policies
        BY DEF TypeOK
      <4> QED
        BY <2>14, <2>j, <4>1, TrimmedRows DEF Notify
    <3>3. told' \in [Policies -> BOOLEAN] /\ slot' \in [Policies -> {"none", "backup_failed", "sync"}]
      <4> DEFINE p == owner[j]
                 t == told[p] \/ slot[p] # "backup_failed"
      <4>1. told' = [told EXCEPT ![p] = t] /\ slot' = [slot EXCEPT ![p] = "backup_failed"]
        BY <2>14 DEF Notify
      <4>2. t \in BOOLEAN
        OBVIOUS
      <4> HIDE DEF t
      <4> QED
        BY <4>1, <4>2 DEF TypeOK
    <3>4. TypeOK'
      BY <2>14, <3>1, <3>2, <3>3 DEF Notify, DropEntries, TypeOK, sys, procs
    <3> QED
      BY <2>14, <3>1, <3>2, <3>4, <2>c, <2>d, RowsKept DEF Notify
  <2>15. ASSUME NEW j \in JobIds, Wedge(j) \/ Quieten(j) PROVE TypeOK' /\ RowsInv'
    <3>1. TypeOK'
      BY <2>15 DEF Wedge, Quieten, TypeOK, rows, alerts, sys, dicts
    <3> QED
      BY <2>15, <3>1, <2>c, <2>d, RowsKept DEF Wedge, Quieten, rows, Busy
  <2>16. CASE WatchdogReaps
    <3>1. TypeOK'
      BY <2>16 DEF WatchdogReaps, Stalled, TypeOK, rows, alerts, sys
    <3>2. wd'.doomed = Stalled /\ \A i \in Stalled : job[i].status = "running"
      BY <2>16 DEF WatchdogReaps, Stalled
    <3>3. Absent' = Absent /\ Busy' = Busy
      BY <2>16 DEF WatchdogReaps, rows, Absent, Busy
    <3> QED
      BY <2>16, <3>1, <3>2, <3>3 DEF WatchdogReaps, RowsInv, rows
  <2>17. CASE WatchdogCommits
    <3>1. /\ job' \in [JobIds -> Row] /\ policy' \in [Policies -> Policy]
          /\ \A i \in JobIds : job'[i].status = "absent" <=> job[i].status = "absent"
      <4>1. CASE \A i \in wd.doomed : Present(i)
        <5>1. /\ job' = [i \in JobIds |-> IF i \in wd.doomed THEN Closed(job[i], "stalled")
                                                         ELSE job[i]]
              /\ policy' = Healed(wd.heal)
          BY <2>17, <4>1 DEF WatchdogCommits
        <5>2. wd.doomed \in SUBSET JobIds /\ wd.heal \in SUBSET Policies
          BY DEF TypeOK
        <5> QED
          BY <5>1, <5>2, <4>1, <2>j, <2>p, SweptRows, HealedPolicies DEF Present
      <4>2. CASE ~\A i \in wd.doomed : Present(i)
        BY <2>17, <4>2, <2>j, <2>p DEF WatchdogCommits
      <4> QED
        BY <4>1, <4>2
    <3>2. TypeOK'
      BY <2>17, <3>1
      DEF WatchdogCommits, NoTick, TypeOK, alerts, sys, procs, dicts
    <3>3. wd'.doomed = {} /\ Busy' = Busy
      BY <2>17 DEF WatchdogCommits, NoTick, Busy
    <3> QED
      BY <2>17, <3>1, <3>2, <3>3, <2>c, <2>d, RowsKept DEF WatchdogCommits
  <2>18. CASE Crash
    <3>1. NoWorker \in Worker
      BY DEF NoWorker, Worker, PCs, Commands, Statuses
    <3>2. TypeOK'
      BY <2>18, <3>1, BackupAssumption DEF Crash, NoTick, TypeOK, rows, alerts
    <3>3. wd'.doomed = {} /\ Busy' = {}
      BY <2>18 DEF Crash, NoTick, Busy, NoWorker
    <3> QED
      BY <2>18, <3>2, <3>3, <2>c, <2>d, RowsKept DEF Crash, rows
  <2>19. CASE Boot
    <3>1. /\ job' \in [JobIds -> Row] /\ policy' \in [Policies -> Policy]
          /\ \A i \in JobIds : job'[i].status = "absent" <=> job[i].status = "absent"
      <4> DEFINE Z == {i \in JobIds : job[i].status = "running"}
                 H == {p \in Policies : /\ policy[p].status = "running"
                                       /\ \E i \in Z : owner[i] = p}
      <4>1. /\ job' = [i \in JobIds |-> IF i \in Z THEN Closed(job[i], "interrupted")
                                                ELSE job[i]]
            /\ policy' = Healed(H)
        BY <2>19 DEF Boot
      <4>2. /\ Z \in SUBSET JobIds /\ H \in SUBSET Policies
            /\ \A i \in Z : job[i].status = "running"
        OBVIOUS
      <4> HIDE DEF Z, H
      <4> QED
        BY <4>1, <4>2, <2>j, <2>p, SweptRows, HealedPolicies
    <3>2. TypeOK'
      BY <2>19, <3>1 DEF Boot, Table, Saved, TypeOK, alerts, procs, dicts
    <3> QED
      BY <2>19, <3>1, <3>2, <2>c, <2>d, RowsKept DEF Boot, Busy
  <2>20. CASE UNCHANGED vars
    <3>1. TypeOK'
      BY <2>20 DEF vars, TypeOK, rows, alerts, sys, procs, dicts
    <3> QED
      BY <2>20, <3>1, <2>c, <2>d, RowsKept DEF vars, rows, Busy
  <2> QED
    BY <2>1, <2>2, <2>3, <2>4, <2>5, <2>6, <2>7, <2>8, <2>9, <2>10, <2>11, <2>12,
       <2>13, <2>14, <2>15, <2>16, <2>17, <2>18, <2>19, <2>20
    DEF Next, WorkerStep, RunScheduledBackup, BackupNow
<1> QED
  BY <1>1, <1>2, PTL DEF Spec

(* A step keeps LightInv when it lights no policy, inserts no row, lets the
   row behind every policy that stays lit run on, and loads nothing but what
   the policy shows. *)
LEMMA LightKept ==
  ASSUME LightInv, owner' = owner, owner \in [JobIds -> Policies],
         \A p \in Policies : policy'[p].status = "running" => policy[p].status = "running",
         \A i \in JobIds : job'[i].status = "absent" <=> job[i].status = "absent",
         \A i \in JobIds : policy'[owner[i]].status = "running" /\ Light(i)
           => job'[i].status = "running",
         \A i \in JobIds : w'[i].pc # "none" =>
           /\ w[i].pc # "none"
           /\ w'[i].seen = w[i].seen \/ w'[i].seen = policy[owner[i]].status,
         \A i \in JobIds : i \in wd'.doomed /\ policy[owner[i]].status = "running" /\ Light(i)
           => owner[i] \in wd'.heal
  PROVE  LightInv'
<1> SUFFICES ASSUME NEW p \in Policies, policy'[p].status = "running"
             PROVE  \E j \in JobIds : owner'[j] = p /\ Light(j)'
  BY DEF LightInv
<1>1. policy[p].status = "running"
  OBVIOUS
<1>2. PICK j \in JobIds : owner[j] = p /\ Light(j)
  BY <1>1 DEF LightInv
<1>3. Newest(j)'
  BY <1>2 DEF Newest, Light
<1>4. j \in Busy' => w'[j].seen = "running"
  BY <1>1, <1>2 DEF Busy, Light
<1>5. job'[j].status = "running" /\ (j \in wd'.doomed => owner'[j] \in wd'.heal)
  BY <1>1, <1>2
<1> QED
  BY <1>2, <1>3, <1>4, <1>5 DEF Light

(* A policy shows "running" only while a row of it is running, however runs
   overlap, fail, are reaped or die with the process. *)
THEOREM LightTruthful == Spec => []RunningHasJob
<1>1. Init => LightInv
  BY DEF Init, LightInv, NoPolicy
<1>2. TypeOK /\ RowsInv /\ LightInv /\ [Next]_vars => LightInv'
  <2> SUFFICES ASSUME TypeOK, RowsInv, LightInv, [Next]_vars PROVE LightInv'
    OBVIOUS
  <2>w. w \in [JobIds -> Worker]
    BY DEF TypeOK
  <2>j. job \in [JobIds -> Row]
    BY DEF TypeOK
  <2>p. policy \in [Policies -> Policy]
    BY DEF TypeOK
  <2>o. owner \in [JobIds -> Policies]
    BY DEF TypeOK
  <2>d. \A i \in JobIds : i \in wd.doomed /\ Light(i) => owner[i] \in wd.heal
    BY DEF Light
  <2>r. \A i \in JobIds : Light(i) => job[i].status = "running"
    BY DEF Light
  <2>1. ASSUME NEW p \in Policies, NEW line \in {"good", "bad"}, Configure(p, line)
        PROVE  LightInv'
    <3>1. \A q \in Policies : policy'[q].status = policy[q].status
      BY <2>1, <2>p DEF Configure, Policy
    <3>2. UNCHANGED <<owner, job, w, wd>>
      BY <2>1 DEF Configure
    <3> QED
      BY <3>1, <3>2, <2>o, <2>d, <2>r, LightKept
  <2>2. ASSUME UNCHANGED <<policy, owner, job, w, wd>> PROVE LightInv'
    BY <2>2, <2>o, <2>d, <2>r, LightKept
  <2>3. ASSUME UNCHANGED <<policy, owner, job, wd>>, NEW j \in JobIds, w[j].pc # "none",
               \A i \in JobIds : i # j => w'[i] = w[i],
               w'[j].seen = w[j].seen \/ w'[j].seen = policy[owner[j]].status
        PROVE  LightInv'
    BY <2>3, <2>o, <2>d, <2>r, LightKept
  <2>4. CASE Start
    <3>a. queue \in Seq(Policies) /\ queue # <<>>
      BY <2>4 DEF Start, TypeOK
    <3>b. Cardinality(Absent) # 0
      BY <3>a, FreshId DEF RowsInv
    <3>c. NextId \in JobIds /\ job[NextId].status = "absent"
      BY <3>b, FreshId, FS_EmptySet DEF Absent
    <3>1. PICK p \in Policies : p = Head(queue)
      BY <3>a
    <3>2. PICK j \in JobIds : j = NextId
      BY <3>c
    <3>3. job[j].status = "absent"
      BY <3>c, <3>2
    <3>4. /\ owner' = [owner EXCEPT ![j] = p]
          /\ job' = [job EXCEPT ![j] = [status |-> "running", kind |-> "none"]]
          /\ policy' = [policy EXCEPT ![p].status = "running"]
          /\ w' = [w EXCEPT ![j] = [NoWorker EXCEPT !.pc = "init",
                                       !.seen = "running", !.slot = slot[p]]]
          /\ wd' = wd
      BY <2>4, <3>1, <3>2 DEF Start
    <3>5. w'[j].seen = "running" /\ \A i \in JobIds : i # j => w'[i] = w[i]
      BY <3>3, <3>4, <2>w DEF NoWorker
    <3>6. owner'[j] = p /\ \A i \in JobIds : i # j => owner'[i] = owner[i]
      BY <3>3, <3>4, <2>o
    <3>7. job'[j].status = "running" /\ \A i \in JobIds : i # j => job'[i] = job[i]
      BY <3>3, <3>4, <2>j
    <3>8. \A q \in Policies : q # p => policy'[q] = policy[q]
      BY <3>1, <3>4, <2>p
    <3>9. Light(j)'
      <4>1. Newest(j)'
        <5> SUFFICES ASSUME NEW i \in JobIds, job'[i].status # "absent", ~(i <= j)
                     PROVE  FALSE
          BY DEF Newest
        <5>1. j < i
          BY <3>3, BackupAssumption DEF JobIds
        <5>2. i # j /\ job[i].status = "absent"
          BY <5>1, <3>3, BackupAssumption DEF RowsInv, JobIds
        <5> QED
          BY <5>2, <3>7
      <4>2. j \notin wd'.doomed
        BY <3>3, <3>4 DEF RowsInv
      <4> QED
        BY <3>5, <3>7, <4>1, <4>2 DEF Light
    <3>10. ASSUME NEW q \in Policies, q # p, policy'[q].status = "running"
           PROVE  \E i \in JobIds : owner'[i] = q /\ Light(i)'
      <4>1. PICK i \in JobIds : owner[i] = q /\ Light(i)
        BY <3>8, <3>10 DEF LightInv
      <4>2. i # j /\ owner'[i] = q /\ job'[i].status = "running"
        BY <3>3, <3>6, <3>7, <4>1 DEF Light
      <4>3. Newest(i)'
        BY <3>6, <3>7, <3>10, <4>1, <4>2 DEF Newest, Light
      <4>4. i \in Busy' => w'[i].seen = "running"
        BY <3>5, <4>1, <4>2 DEF Light, Busy
      <4>5. i \in wd'.doomed => owner'[i] \in wd'.heal
        BY <3>4, <4>1, <4>2 DEF Light
      <4> QED
        BY <4>2, <4>3, <4>4, <4>5 DEF Light
    <3> QED
      BY <3>3, <3>6, <3>9, <3>10 DEF LightInv
  <2>5. ASSUME NEW j \in JobIds, Succeed(j) PROVE LightInv'
    <3>1. w' = [w EXCEPT ![j] = NoWorker] /\ j \in Busy /\ owner[j] \in Policies
      BY <2>5, <2>o DEF Succeed, Busy
    <3>2. w'[j].pc = "none" /\ \A i \in JobIds : i # j => w'[i] = w[i]
      BY <3>1, <2>w DEF NoWorker
    <3>3. owner' = owner /\ wd' = wd
      BY <2>5 DEF Succeed
    <3>4. CASE Present(j)
      <4> DEFINE T == Trimmed(owner[j])
      <4>1. job' = [T EXCEPT ![j].status = "completed"]
        BY <2>5, <3>4 DEF Succeed
      <4>2. /\ T \in [JobIds -> Row]
            /\ \A i \in JobIds :
                 /\ T[i].status = "absent" <=> job[i].status = "absent"
                 /\ T[i] # job[i] => owner[i] = owner[j]
                 /\ owner[i] = owner[j] /\ Newest(i) => T[i] = job[i]
        BY <2>j, <3>1, TrimmedRows
      <4> HIDE DEF T
      <4>3. /\ job'[j].status = "completed"
            /\ \A i \in JobIds : i # j => job'[i] = T[i]
        BY <4>1, <4>2 DEF Row
      <4>4. \A i \in JobIds : job'[i].status = "absent" <=> job[i].status = "absent"
        BY <4>2, <4>3, <3>4 DEF Present
      <4>5. /\ policy' = Flushed(owner[j], w[j].seen, "completed")
            /\ \A q \in Policies : policy'[q].status = "running" => policy[q].status = "running"
        BY <2>5, <3>4, <3>1, <2>p DEF Succeed, Flushed, Policy
      <4>6. policy'[owner[j]].status = "running" => w[j].seen = "completed"
        BY <4>5, <3>1, <2>p DEF Flushed, Policy
      <4>7. ASSUME NEW i \in JobIds, policy'[owner[i]].status = "running", Light(i)
            PROVE  job'[i].status = "running"
        <5>1. i # j
          BY <3>1, <4>6, <4>7 DEF Light
        <5> QED
          BY <5>1, <4>2, <4>3, <4>7 DEF Light
      <4> QED
        BY <4>4, <4>5, <4>7, <3>2, <3>3, <2>o, <2>d, LightKept
    <3>5. CASE ~Present(j)
      <4>1. UNCHANGED <<job, policy>>
        BY <2>5, <3>5 DEF Succeed
      <4> QED
        BY <4>1, <3>2, <3>3, <2>o, <2>d, <2>r, LightKept
    <3> QED
      BY <3>4, <3>5
  <2>6. ASSUME NEW j \in JobIds, CommitFailure(j) PROVE LightInv'
    <3>1. j \in Busy /\ owner[j] \in Policies
      BY <2>6, <2>o DEF CommitFailure, Busy
    <3>2. /\ w'[j].seen = w[j].seen /\ \A i \in JobIds : i # j => w'[i] = w[i]
      BY <2>6, <2>w DEF CommitFailure, Go, Worker
    <3>3. owner' = owner /\ wd' = wd
      BY <2>6 DEF CommitFailure
    <3>4. CASE Present(j)
      <4> DEFINE k == IF w[j].closed THEN job[j].kind ELSE "error"
      <4>1. job' = [job EXCEPT ![j] = [status |-> "failed", kind |-> k]]
        BY <2>6, <3>4, <2>j DEF CommitFailure, Row
      <4> HIDE DEF k
      <4>2. /\ job'[j].status = "failed"
            /\ \A i \in JobIds : i # j => job'[i] = job[i]
        BY <4>1, <2>j
      <4>3. \A i \in JobIds : job'[i].status = "absent" <=> job[i].status = "absent"
        BY <4>2, <3>4 DEF Present
      <4>5. /\ policy' = Flushed(owner[j], w[j].seen, "failed")
            /\ \A q \in Policies : policy'[q].status = "running" => policy[q].status = "running"
        BY <2>6, <3>4, <3>1, <2>p DEF CommitFailure, Flushed, Policy
      <4>6. policy'[owner[j]].status = "running" => w[j].seen = "failed"
        BY <4>5, <3>1, <2>p DEF Flushed, Policy
      <4>7. ASSUME NEW i \in JobIds, policy'[owner[i]].status = "running", Light(i)
            PROVE  job'[i].status = "running"
        <5>1. i # j
          BY <3>1, <4>6, <4>7 DEF Light
        <5> QED
          BY <5>1, <4>2, <4>7 DEF Light
      <4> QED
        BY <4>3, <4>5, <4>7, <3>1, <3>2, <3>3, <2>o, <2>d, LightKept DEF Busy
    <3>5. CASE ~Present(j)
      <4>1. UNCHANGED <<job, policy>>
        BY <2>6, <3>5 DEF CommitFailure
      <4> QED
        BY <4>1, <3>1, <3>2, <3>3, <2>3 DEF Busy
    <3> QED
      BY <3>4, <3>5
  <2>7. ASSUME NEW j \in JobIds, Notify(j) PROVE LightInv'
    <3>1. w' = [w EXCEPT ![j] = NoWorker] /\ owner[j] \in Policies
      BY <2>7, <2>o DEF Notify
    <3>2. w'[j].pc = "none" /\ \A i \in JobIds : i # j => w'[i] = w[i]
      BY <3>1, <2>w DEF NoWorker
    <3>3. UNCHANGED <<owner, policy, wd>> /\ job' = Trimmed(owner[j])
      BY <2>7 DEF Notify
    <3>4. \A i \in JobIds :
            /\ job'[i].status = "absent" <=> job[i].status = "absent"
            /\ Newest(i) => job'[i] = job[i]
      BY <2>j, <3>1, <3>3, TrimmedRows
    <3>5. \A i \in JobIds : Light(i) => job'[i].status = "running"
      BY <3>4 DEF Light
    <3> QED
      BY <3>2, <3>3, <3>4, <3>5, <2>o, <2>d, LightKept
  <2>8. CASE WatchdogReaps
    <3>1. UNCHANGED <<owner, policy, job, w>>
      BY <2>8 DEF WatchdogReaps, rows
    <3>2. \A i \in JobIds : i \in wd'.doomed /\ policy[owner[i]].status = "running"
            => owner[i] \in wd'.heal
      BY <2>8, <2>o DEF WatchdogReaps, Stalled
    <3> QED
      BY <3>1, <3>2, <2>o, <2>r, LightKept
  <2>9. CASE WatchdogCommits
    <3>1. owner' = owner /\ w' = w /\ wd'.doomed = {}
      BY <2>9 DEF WatchdogCommits, NoTick
    <3>2. CASE \A i \in wd.doomed : Present(i)
      <4>1. /\ job' = [i \in JobIds |-> IF i \in wd.doomed THEN Closed(job[i], "stalled")
                                                         ELSE job[i]]
            /\ policy' = Healed(wd.heal)
        BY <2>9, <3>2 DEF WatchdogCommits
      <4>2. wd.doomed \in SUBSET JobIds /\ wd.heal \in SUBSET Policies
        BY DEF TypeOK
      <4>3. /\ \A i \in JobIds : IF i \in wd.doomed THEN job'[i].status = "failed"
                                                   ELSE job'[i] = job[i]
            /\ \A p \in Policies : IF p \in wd.heal THEN policy'[p].status = "failed"
                                                   ELSE policy'[p] = policy[p]
        <5>1. \A p \in Policies : IF p \in wd.heal THEN policy'[p].status = "failed"
                                               ELSE policy'[p] = policy[p]
          BY <4>1, <4>2, <2>p, HealedPolicies
        <5>2. \A i \in JobIds : IF i \in wd.doomed THEN job'[i].status = "failed"
                                               ELSE job'[i] = job[i]
          BY <4>1, <4>2, <2>j, SweptRows
        <5> QED
          BY <5>1, <5>2
      <4>4. \A i \in JobIds : job'[i].status = "absent" <=> job[i].status = "absent"
        BY <4>3, <3>2 DEF Present
      <4>5. \A i \in JobIds : policy'[owner[i]].status = "running" /\ Light(i)
              => job'[i].status = "running"
        BY <4>3, <2>o, <2>d, <2>r
      <4> QED
        BY <4>3, <4>4, <4>5, <3>1, <2>o, LightKept
    <3>3. CASE ~\A i \in wd.doomed : Present(i)
      <4>1. UNCHANGED <<job, policy>>
        BY <2>9, <3>3 DEF WatchdogCommits
      <4> QED
        BY <4>1, <3>1, <2>o, <2>r, LightKept
    <3> QED
      BY <3>2, <3>3
  <2>10. CASE Crash
    <3>1. UNCHANGED <<policy, owner, job>> /\ wd'.doomed = {}
      BY <2>10 DEF Crash, NoTick, rows
    <3>2. \A i \in JobIds : w'[i].pc = "none"
      BY <2>10 DEF Crash, NoWorker
    <3> QED
      BY <3>1, <3>2, <2>o, <2>r, LightKept
  <2>11. CASE Boot
    <3> DEFINE Z == {i \in JobIds : job[i].status = "running"}
               H == {p \in Policies : /\ policy[p].status = "running"
                                     /\ \E i \in Z : owner[i] = p}
    <3>1. /\ job' = [i \in JobIds |-> IF i \in Z THEN Closed(job[i], "interrupted")
                                               ELSE job[i]]
          /\ policy' = Healed(H)
      BY <2>11 DEF Boot
    <3>2. Z \in SUBSET JobIds /\ H \in SUBSET Policies
      OBVIOUS
    <3>3. \A p \in Policies : policy[p].status = "running" => p \in H
      BY DEF LightInv, Light
    <3> HIDE DEF Z, H
    <3>4. \A p \in Policies : IF p \in H THEN policy'[p].status = "failed"
                                        ELSE policy'[p] = policy[p]
      BY <3>1, <3>2, <2>p, HealedPolicies
    <3> QED
      BY <3>3, <3>4 DEF LightInv
  <2>12. ASSUME NEW p \in Policies, Submit(p) \/ \E s \in {"sync", "none"} : SyncAlert(p, s)
         PROVE  LightInv'
    BY <2>12, <2>2 DEF Submit, SyncAlert, rows
  <2>13. CASE RefreshScheduler \/ UNCHANGED vars
    BY <2>13, <2>2 DEF RefreshScheduler, vars, rows
  <2>14. ASSUME NEW j \in JobIds, Heartbeat(j) \/ Wedge(j) \/ Quieten(j) PROVE LightInv'
    BY <2>14, <2>2 DEF Heartbeat, Wedge, Quieten, rows
  <2>15. ASSUME NEW j \in JobIds,
                \/ InitRepo(j) \/ SnapshotTaken(j) \/ Raises(j) \/ Refresh(j)
                \/ \E pruned \in BOOLEAN : Retain(j, pruned)
         PROVE  LightInv'
    <3>1. w[j].pc # "none" /\ UNCHANGED <<policy, owner, job, wd>>
      BY <2>15 DEF InitRepo, SnapshotTaken, Raises, Refresh, Retain, Commands, rows
    <3>2. \A i \in JobIds : i # j => w'[i] = w[i]
      BY <2>15, <2>w DEF InitRepo, SnapshotTaken, Raises, Refresh, Retain, Go
    <3>3. w'[j].seen = w[j].seen \/ w'[j].seen = policy[owner[j]].status
      <4>1. CASE InitRepo(j) \/ Raises(j)
        BY <4>1, <2>w DEF InitRepo, Raises, Go, Worker
      <4>2. CASE SnapshotTaken(j)
        BY <4>2, <2>w DEF SnapshotTaken, Worker
      <4>3. CASE Refresh(j)
        <5> DEFINE c == job[j].status = "failed" /\ job[j].kind # "none"
        <5>1. w' = [w EXCEPT ![j] = [w[j] EXCEPT !.pc = "commit", !.closed = c]]
          BY <4>3 DEF Refresh
        <5> HIDE DEF c
        <5> QED
          BY <5>1, <2>w DEF Worker
      <4>4. ASSUME NEW pruned \in BOOLEAN, Retain(j, pruned)
            PROVE  w'[j].seen = w[j].seen \/ w'[j].seen = policy[owner[j]].status
        <5> DEFINE s == IF pruned THEN policy[owner[j]].status ELSE w[j].seen
                   a == IF pruned THEN slot[owner[j]] ELSE w[j].slot
        <5>1. w' = [w EXCEPT ![j] = [w[j] EXCEPT !.pc = "finish", !.seen = s, !.slot = a]]
          BY <4>4, Zenon DEF Retain
        <5>2. s = w[j].seen \/ s = policy[owner[j]].status
          OBVIOUS
        <5> HIDE DEF s, a
        <5> QED
          BY <5>1, <5>2, <2>w DEF Worker
      <4> QED
        BY <2>15, <4>1, <4>2, <4>3, <4>4
    <3> QED
      BY <3>1, <3>2, <3>3, <2>3
  <2> QED
    BY <2>1, <2>4, <2>5, <2>6, <2>7, <2>8, <2>9, <2>10, <2>11, <2>12, <2>13, <2>14, <2>15
    DEF Next, WorkerStep, RunScheduledBackup, BackupNow
<1>3. LightInv => RunningHasJob
  BY DEF LightInv, Light, RunningHasJob
<1> QED
  BY <1>1, <1>2, <1>3, BackupTypes, PTL DEF Spec

(* A step of execute_backup between its first and its last: the thread stays
   busy, nobody else moves, and what it knows of the marker is what it knew
   or what the account has.  It turns to the alert only after its row has
   left "running". *)
LEMMA WorkerWorks ==
  ASSUME w \in [JobIds -> Worker], job \in [JobIds -> Row], NEW j \in JobIds,
         \/ InitRepo(j) \/ SnapshotTaken(j) \/ Retain(j, TRUE) \/ Retain(j, FALSE)
         \/ Raises(j) \/ Refresh(j) \/ CommitFailure(j)
  PROVE  /\ j \in Busy /\ Busy' = Busy
         /\ \A i \in JobIds : i # j => w'[i] = w[i]
         /\ w'[j].pc \in Commands =>
              /\ w[j].pc \in Commands
              /\ w'[j].slot = w[j].slot \/ w'[j].slot = slot[owner[j]]
         /\ UNCHANGED <<owner, slot, told, queue, phase, crashes, wd>>
         /\ \A i \in JobIds : i # j => job'[i] = job[i]
         /\ job'[j].status = "running" => job[j].status = "running"
         /\ w'[j].pc = "notify" => job'[j].status # "running"
         /\ job[j].status = job'[j].status \/ (Present(j) /\ job'[j].status = "failed")
         /\ progress' \subseteq progress \cup {j} /\ registered' \subseteq registered \cup {j}
<1>1. CASE InitRepo(j)
  <2>1. w'[j] = [w[j] EXCEPT !.pc = "backup"] /\ \A i \in JobIds : i # j => w'[i] = w[i]
    BY <1>1 DEF InitRepo, Go
  <2>2. w'[j].pc = "backup" /\ w'[j].slot = w[j].slot
    BY <2>1 DEF Worker
  <2> QED
    BY <1>1, <2>1, <2>2 DEF InitRepo, Commands, Busy, rows, alerts, sys
<1>2. CASE SnapshotTaken(j)
  <2>1. /\ w'[j].pc = "retain" /\ w'[j].slot = slot[owner[j]]
        /\ \A i \in JobIds : i # j => w'[i] = w[i]
    BY <1>2 DEF SnapshotTaken, Worker
  <2> QED
    BY <1>2, <2>1 DEF SnapshotTaken, Commands, Busy, rows, alerts, sys
<1>3. ASSUME NEW pruned \in BOOLEAN, Retain(j, pruned)
      PROVE  /\ w'[j].pc = "finish" /\ w[j].pc = "retain"
             /\ w'[j].slot = w[j].slot \/ w'[j].slot = slot[owner[j]]
             /\ \A i \in JobIds : i # j => w'[i] = w[i]
             /\ UNCHANGED <<rows, alerts, sys, queue, dicts, wd>>
  <2> DEFINE s == IF pruned THEN policy[owner[j]].status ELSE w[j].seen
             a == IF pruned THEN slot[owner[j]] ELSE w[j].slot
  <2>1. w' = [w EXCEPT ![j] = [w[j] EXCEPT !.pc = "finish", !.seen = s, !.slot = a]]
    BY <1>3, Zenon DEF Retain
  <2>2. a = w[j].slot \/ a = slot[owner[j]]
    OBVIOUS
  <2> HIDE DEF s, a
  <2>3. w'[j].pc = "finish" /\ w'[j].slot = a /\ \A i \in JobIds : i # j => w'[i] = w[i]
    BY <2>1 DEF Worker
  <2> QED
    BY <1>3, <2>2, <2>3 DEF Retain
<1>4. CASE Retain(j, TRUE) \/ Retain(j, FALSE)
  <2>1. /\ w'[j].pc = "finish" /\ w[j].pc = "retain"
        /\ w'[j].slot = w[j].slot \/ w'[j].slot = slot[owner[j]]
        /\ \A i \in JobIds : i # j => w'[i] = w[i]
        /\ UNCHANGED <<rows, alerts, sys, queue, dicts, wd>>
    BY <1>3, <1>4
  <2> QED
    BY <2>1 DEF Commands, Busy, rows, alerts, sys, dicts
<1>5. CASE Raises(j)
  <2>1. w'[j].pc = "except" /\ \A i \in JobIds : i # j => w'[i] = w[i]
    BY <1>5 DEF Raises, Go, Worker
  <2> QED
    BY <1>5, <2>1 DEF Raises, Commands, Busy, rows, alerts, sys, dicts
<1>6. CASE Refresh(j)
  <2> DEFINE c == job[j].status = "failed" /\ job[j].kind # "none"
  <2>1. w' = [w EXCEPT ![j] = [w[j] EXCEPT !.pc = "commit", !.closed = c]]
    BY <1>6 DEF Refresh
  <2> HIDE DEF c
  <2>2. w'[j].pc = "commit" /\ \A i \in JobIds : i # j => w'[i] = w[i]
    BY <2>1 DEF Worker
  <2> QED
    BY <1>6, <2>2 DEF Refresh, Commands, Busy, rows, alerts, sys, dicts
<1>7. CASE CommitFailure(j)
  <2>1. w'[j].pc = "notify" /\ \A i \in JobIds : i # j => w'[i] = w[i]
    BY <1>7 DEF CommitFailure, Go, Worker
  <2>2. /\ \A i \in JobIds : i # j => job'[i] = job[i]
        /\ IF Present(j) THEN job'[j].status = "failed" ELSE job'[j] = job[j]
    <3>1. CASE Present(j)
      <4> DEFINE k == IF w[j].closed THEN job[j].kind ELSE "error"
      <4>1. job' = [job EXCEPT ![j] = [status |-> "failed", kind |-> k]]
        BY <1>7, <3>1 DEF CommitFailure, Row
      <4> HIDE DEF k
      <4> QED
        BY <3>1, <4>1
    <3>2. CASE ~Present(j)
      BY <1>7, <3>2 DEF CommitFailure
    <3> QED
      BY <3>1, <3>2
  <2>3. job'[j].status # "running"
    <3>1. job[j].status = "running" => Present(j)
      BY DEF Present
    <3> QED
      BY <2>2, <3>1
  <2>4. job[j].status = job'[j].status \/ (Present(j) /\ job'[j].status = "failed")
    BY <2>2
  <2> QED
    BY <1>7, <2>1, <2>2, <2>3, <2>4 DEF CommitFailure, Commands, Busy, alerts, sys, dicts
<1> QED
  BY <1>1, <1>2, <1>4, <1>5, <1>6, <1>7

(* The last step of a run: its worker is gone and its entries with it. *)
LEMMA WorkerEnds ==
  ASSUME w \in [JobIds -> Worker], NEW j \in JobIds, Succeed(j) \/ Notify(j)
  PROVE  /\ j \in Busy /\ Busy' = Busy \ {j}
         /\ \A i \in JobIds : i # j => w'[i] = w[i]
         /\ progress' = progress \ {j} /\ registered' = registered \ {j}
         /\ UNCHANGED <<owner, sys, queue, wd>>
<1>1. w' = [w EXCEPT ![j] = NoWorker] /\ j \in Busy
  BY DEF Succeed, Notify, Busy
<1>2. Busy' = Busy \ {j} /\ \A i \in JobIds : i # j => w'[i] = w[i]
  BY <1>1, WorkerGone
<1>3. progress' = progress \ {j} /\ registered' = registered \ {j}
  BY DEF Succeed, Notify, DropEntries
<1>4. UNCHANGED <<owner, sys, queue, wd>>
  BY DEF Succeed, Notify
<1> QED
  BY <1>1, <1>2, <1>3, <1>4

(* What Start does, with its row and its policy named. *)
LEMMA Started ==
  ASSUME TypeOK, RowsInv, Start
  PROVE  \E j \in JobIds, p \in Policies :
           /\ queue # <<>> /\ p = Head(queue) /\ queue' = Tail(queue)
           /\ job[j].status = "absent" /\ j \notin Busy
           /\ \A i \in JobIds : i < j => job[i].status # "absent"
           /\ owner' = [owner EXCEPT ![j] = p]
           /\ job'[j].status = "running" /\ \A i \in JobIds : i # j => job'[i] = job[i]
           /\ w'[j].pc = "init" /\ w'[j].slot = slot[p]
           /\ \A i \in JobIds : i # j => w'[i] = w[i]
           /\ Busy' = Busy \cup {j}
           /\ progress' = progress \cup {j}
           /\ UNCHANGED <<alerts, sys, registered, wd>>
<1>1. queue \in Seq(Policies) /\ queue # <<>>
  BY DEF Start, TypeOK
<1>2. Cardinality(Absent) # 0
  BY <1>1, FreshId DEF RowsInv
<1>3. /\ NextId \in JobIds /\ job[NextId].status = "absent"
      /\ \A i \in JobIds : i < NextId => job[i].status # "absent"
  BY <1>2, FreshId, FS_EmptySet DEF Absent
<1>4. PICK p \in Policies : p = Head(queue)
  BY <1>1
<1>5. PICK j \in JobIds : j = NextId
  BY <1>3
<1>6. /\ queue' = Tail(queue)
      /\ owner' = [owner EXCEPT ![j] = p]
      /\ job' = [job EXCEPT ![j] = [status |-> "running", kind |-> "none"]]
      /\ w' = [w EXCEPT ![j] = [NoWorker EXCEPT !.pc = "init",
                                   !.seen = "running", !.slot = slot[p]]]
      /\ progress' = progress \cup {j}
      /\ UNCHANGED <<alerts, sys, registered, wd>>
  BY <1>4, <1>5 DEF Start
<1>7. w \in [JobIds -> Worker] /\ job \in [JobIds -> Row]
  BY DEF TypeOK
<1>8. w'[j].pc = "init" /\ w'[j].slot = slot[p] /\ \A i \in JobIds : i # j => w'[i] = w[i]
  BY <1>6, <1>7 DEF NoWorker
<1>9. job'[j].status = "running" /\ \A i \in JobIds : i # j => job'[i] = job[i]
  BY <1>6, <1>7
<1>10. j \notin Busy /\ Busy' = Busy \cup {j}
  BY <1>3, <1>5, <1>8 DEF RowsInv, Busy
<1> QED
  BY <1>1, <1>3, <1>4, <1>5, <1>6, <1>8, <1>9, <1>10

(* No heartbeat entry and no process handle outlives its run, whatever the
   watchdog drops and late heartbeats put back. *)
THEOREM EntriesDropped == Spec => []EntriesEnd
<1>1. Init => EntriesEnd
  BY DEF Init, EntriesEnd
<1>2. TypeOK /\ RowsInv /\ EntriesEnd /\ [Next]_vars => EntriesEnd'
  <2> SUFFICES ASSUME TypeOK, RowsInv, EntriesEnd, [Next]_vars PROVE EntriesEnd'
    OBVIOUS
  <2>t. w \in [JobIds -> Worker] /\ job \in [JobIds -> Row]
    BY DEF TypeOK
  <2>1. ASSUME w' = w, UNCHANGED dicts PROVE EntriesEnd'
    BY <2>1 DEF EntriesEnd, Busy, dicts
  <2>2. CASE Start
    <3>1. PICK j \in JobIds : /\ Busy' = Busy \cup {j} /\ progress' = progress \cup {j}
                              /\ registered' = registered
      BY <2>2, Started
    <3> QED
      BY <3>1 DEF EntriesEnd
  <2>3. ASSUME NEW j \in JobIds, WorkerStep(j) PROVE EntriesEnd'
    <3>1. CASE Succeed(j) \/ Notify(j)
      <4>1. Busy' = Busy \ {j} /\ progress' = progress \ {j} /\ registered' = registered \ {j}
        BY <3>1, <2>t, WorkerEnds
      <4> QED
        BY <4>1 DEF EntriesEnd
    <3>2. CASE ~(Succeed(j) \/ Notify(j))
      <4>1. /\ j \in Busy /\ Busy' = Busy
            /\ progress' \subseteq progress \cup {j} /\ registered' \subseteq registered \cup {j}
        BY <2>3, <3>2, <2>t, WorkerWorks DEF WorkerStep
      <4> QED
        BY <4>1 DEF EntriesEnd
    <3> QED
      BY <3>1, <3>2
  <2>4. ASSUME NEW j \in JobIds, Heartbeat(j) PROVE EntriesEnd'
    BY <2>4 DEF Heartbeat, EntriesEnd, Busy
  <2>5. CASE WatchdogReaps
    BY <2>5 DEF WatchdogReaps, EntriesEnd, Busy
  <2>6. CASE Crash
    BY <2>6 DEF Crash, EntriesEnd
  <2>7. ASSUME NEW p \in Policies,
               \/ \E line \in {"good", "bad"} : Configure(p, line)
               \/ Submit(p) \/ \E s \in {"sync", "none"} : SyncAlert(p, s)
        PROVE  EntriesEnd'
    BY <2>7, <2>1 DEF Configure, Submit, SyncAlert
  <2>8. CASE RefreshScheduler \/ WatchdogCommits \/ Boot \/ UNCHANGED vars
    BY <2>8, <2>1 DEF RefreshScheduler, WatchdogCommits, Boot, vars
  <2>9. ASSUME NEW j \in JobIds, Wedge(j) \/ Quieten(j) PROVE EntriesEnd'
    BY <2>9, <2>1 DEF Wedge, Quieten
  <2> QED
    BY <2>2, <2>3, <2>4, <2>5, <2>6, <2>7, <2>8, <2>9
    DEF Next, RunScheduledBackup, BackupNow
<1> QED
  BY <1>1, <1>2, BackupTypes, PTL DEF Spec

(* While nobody submits a policy that is queued or in progress, runs of one
   policy are alone: AloneInv is kept by every step. *)
LEMMA AloneStep ==
  ASSUME "overlap" \notin World, TypeOK, RowsInv, AloneInv, [Next]_vars
  PROVE  AloneInv'
<1>t. /\ w \in [JobIds -> Worker] /\ job \in [JobIds -> Row]
      /\ owner \in [JobIds -> Policies] /\ queue \in Seq(Policies)
      /\ slot \in [Policies -> {"none", "backup_failed", "sync"}]
      /\ phase \in {"boot", "up"} /\ Busy \subseteq JobIds
  BY DEF TypeOK, Busy
<1>1. ASSUME UNCHANGED <<queue, owner, w, phase>>,
             \A p \in Policies : slot'[p] = "backup_failed" => slot[p] = "backup_failed",
             \A i \in JobIds : job'[i].status = "running" => job[i].status = "running"
      PROVE  AloneInv'
  <2>1. Busy' = Busy
    BY <1>1 DEF Busy
  <2> QED
    BY <1>1, <2>1, <1>t DEF AloneInv
<1>2. ASSUME NEW p \in Policies, Submit(p) PROVE AloneInv'
  <2>1. /\ queue' = Append(queue, p) /\ UNCHANGED <<owner, job, slot, w, phase>>
        /\ phase = "up"
        /\ \A i \in DOMAIN queue : queue[i] # p
        /\ \A j \in Busy : owner[j] # p
    BY <1>2 DEF Submit, rows, alerts, sys
  <2>2. Busy' = Busy
    BY <2>1 DEF Busy
  <2>3. /\ DOMAIN queue' = 1 .. Len(queue) + 1 /\ DOMAIN queue = 1 .. Len(queue)
        /\ Len(queue) \in Nat
        /\ queue'[Len(queue) + 1] = p
        /\ \A i \in 1 .. Len(queue) : queue'[i] = queue[i]
    BY <2>1, <1>t
  <2>4. \A i \in DOMAIN queue', k \in DOMAIN queue' : queue'[i] = queue'[k] => i = k
    BY <2>1, <2>3 DEF AloneInv
  <2>5. \A i \in DOMAIN queue', j \in Busy : owner[j] # queue'[i]
    BY <2>1, <2>3 DEF AloneInv
  <2> QED
    BY <2>1, <2>2, <2>4, <2>5 DEF AloneInv
<1>3. CASE Start
  <2>1. PICK j \in JobIds, p \in Policies :
           /\ queue # <<>> /\ p = Head(queue) /\ queue' = Tail(queue)
           /\ job[j].status = "absent" /\ j \notin Busy
           /\ owner' = [owner EXCEPT ![j] = p]
           /\ job'[j].status = "running" /\ \A i \in JobIds : i # j => job'[i] = job[i]
           /\ w'[j].pc = "init" /\ w'[j].slot = slot[p]
           /\ \A i \in JobIds : i # j => w'[i] = w[i]
           /\ Busy' = Busy \cup {j}
           /\ UNCHANGED <<alerts, sys>>
    BY <1>3, Started
  <2>2. /\ DOMAIN queue = 1 .. Len(queue) /\ Len(queue) \in Nat \ {0}
        /\ DOMAIN queue' = 1 .. Len(queue) - 1 /\ p = queue[1]
        /\ \A i \in 1 .. Len(queue) - 1 : queue'[i] = queue[i + 1]
    BY <2>1, <1>t
  <2>3. \A i \in DOMAIN queue' : i + 1 \in DOMAIN queue /\ queue'[i] = queue[i + 1] /\ i + 1 # 1
    BY <2>2
  <2>4. \A i \in DOMAIN queue', k \in DOMAIN queue' : queue'[i] = queue'[k] => i = k
    BY <2>2, <2>3 DEF AloneInv
  <2>5. owner'[j] = p /\ \A i \in JobIds : i # j => owner'[i] = owner[i]
    BY <2>1, <1>t
  <2>6. \A i \in DOMAIN queue' : queue'[i] # p
    BY <2>2, <2>3 DEF AloneInv
  <2>7. \A i \in Busy : owner[i] # p /\ i # j
    BY <2>1, <2>2 DEF AloneInv
  <2>8. \A i \in DOMAIN queue', k \in Busy' : owner'[k] # queue'[i]
    BY <2>1, <2>3, <2>5, <2>6, <2>7, <1>t DEF AloneInv
  <2>9. \A i \in Busy', k \in Busy' : owner'[i] = owner'[k] => i = k
    BY <2>1, <2>5, <2>7, <1>t DEF AloneInv
  <2>10. \A i \in JobIds : job'[i].status = "running" =>
           phase' = "boot" \/ (i \in Busy' /\ w'[i].pc # "notify")
    BY <2>1 DEF AloneInv, sys
  <2>11. phase' # "boot"
    BY <2>1 DEF AloneInv, sys
  <2>12. \A i \in Busy' : w'[i].pc \in Commands /\ slot'[owner'[i]] = "backup_failed"
           => w'[i].slot = "backup_failed"
    BY <2>1, <2>5, <1>t DEF AloneInv, alerts
  <2> QED
    BY <2>4, <2>8, <2>9, <2>10, <2>11, <2>12 DEF AloneInv
<1>4. ASSUME NEW j \in JobIds,
             \/ InitRepo(j) \/ SnapshotTaken(j) \/ Retain(j, TRUE) \/ Retain(j, FALSE)
             \/ Raises(j) \/ Refresh(j) \/ CommitFailure(j)
      PROVE  AloneInv'
  <2>1. /\ j \in Busy /\ Busy' = Busy
        /\ \A i \in JobIds : i # j => w'[i] = w[i]
        /\ w'[j].pc \in Commands =>
             /\ w[j].pc \in Commands
             /\ w'[j].slot = w[j].slot \/ w'[j].slot = slot[owner[j]]
        /\ UNCHANGED <<owner, slot, queue, phase>>
        /\ \A i \in JobIds : i # j => job'[i] = job[i]
        /\ job'[j].status = "running" => job[j].status = "running"
        /\ w'[j].pc = "notify" => job'[j].status # "running"
    BY <1>4, <1>t, WorkerWorks
  <2>2. \A i \in JobIds : job'[i].status = "running" =>
          phase' = "boot" \/ (i \in Busy' /\ w'[i].pc # "notify")
    BY <2>1 DEF AloneInv
  <2>3. \A i \in Busy' : w'[i].pc \in Commands /\ slot'[owner'[i]] = "backup_failed"
          => w'[i].slot = "backup_failed"
    BY <2>1, <1>t DEF AloneInv
  <2> QED
    BY <2>1, <2>2, <2>3 DEF AloneInv
<1>5. ASSUME NEW j \in JobIds, Succeed(j) \/ Notify(j) PROVE AloneInv'
  <2>1. /\ j \in Busy /\ Busy' = Busy \ {j}
        /\ \A i \in JobIds : i # j => w'[i] = w[i]
        /\ UNCHANGED <<owner, phase, queue>>
    BY <1>5, <1>t, WorkerEnds DEF sys
  <2>p. PICK p \in Policies : p = owner[j]
    BY <1>t
  <2>2. \A i \in Busy' : owner[i] # p
    BY <2>1, <2>p DEF AloneInv
  <2>3. \A q \in Policies : q # p => slot'[q] = slot[q]
    <3>1. CASE Succeed(j) /\ Present(j)
      BY <3>1, <2>p, <1>t DEF Succeed
    <3>2. CASE Succeed(j) /\ ~Present(j)
      BY <3>2 DEF Succeed, alerts
    <3>3. CASE Notify(j)
      BY <3>3, <2>p, <1>t DEF Notify
    <3> QED
      BY <1>5, <3>1, <3>2, <3>3
  <2>4. \A i \in JobIds : job'[i].status = "running" =>
          job[i].status = "running" /\ (i # j \/ w[j].pc = "notify")
    <3>1. CASE Succeed(j) /\ Present(j)
      <4> DEFINE T == Trimmed(p)
      <4>1. job' = [T EXCEPT ![j].status = "completed"]
        BY <3>1, <2>p DEF Succeed
      <4>2. /\ T \in [JobIds -> Row]
            /\ \A i \in JobIds : T[i] # job[i] => T[i].status = "gone"
        BY <1>t, TrimmedRows
      <4> HIDE DEF T
      <4> QED
        BY <4>1, <4>2 DEF Row
    <3>2. CASE Succeed(j) /\ ~Present(j)
      BY <3>2 DEF Succeed, Present
    <3>3. CASE Notify(j)
      <4>1. job' = Trimmed(p) /\ w[j].pc = "notify"
        BY <3>3, <2>p DEF Notify
      <4>2. \A i \in JobIds : Trimmed(p)[i] # job[i] => Trimmed(p)[i].status = "gone"
        BY <1>t, TrimmedRows
      <4> QED
        BY <4>1, <4>2
    <3> QED
      BY <1>5, <3>1, <3>2, <3>3
  <2>5. \A i \in JobIds : job'[i].status = "running" =>
          phase' = "boot" \/ (i \in Busy' /\ w'[i].pc # "notify")
    BY <2>1, <2>4 DEF AloneInv
  <2>6. \A i \in Busy' : w'[i].pc \in Commands /\ slot'[owner'[i]] = "backup_failed"
          => w'[i].slot = "backup_failed"
    BY <2>1, <2>2, <2>3, <1>t DEF AloneInv
  <2>7. phase' # "boot"
    BY <2>1 DEF AloneInv
  <2> QED
    BY <2>1, <2>5, <2>6, <2>7 DEF AloneInv
<1>6. CASE WatchdogCommits
  <2>1. \A i \in JobIds : job'[i].status = "running" => job[i].status = "running"
    <3>1. CASE \A i \in wd.doomed : Present(i)
      <4>1. /\ job' = [i \in JobIds |-> IF i \in wd.doomed THEN Closed(job[i], "stalled")
                                                         ELSE job[i]]
            /\ wd.doomed \in SUBSET JobIds
        BY <1>6, <3>1 DEF WatchdogCommits, TypeOK
      <4>2. \A i \in JobIds : IF i \in wd.doomed THEN job'[i].status = "failed"
                                                ELSE job'[i] = job[i]
        BY <4>1, <1>t, SweptRows
      <4> QED
        BY <4>2
    <3>2. CASE ~\A i \in wd.doomed : Present(i)
      BY <1>6, <3>2 DEF WatchdogCommits
    <3> QED
      BY <3>1, <3>2
  <2> QED
    BY <1>1, <1>6, <2>1 DEF WatchdogCommits, alerts, sys
<1>7. CASE Crash
  <2>1. Busy' = {} /\ queue' = <<>> /\ phase' = "boot"
    BY <1>7 DEF Crash, Busy, NoWorker
  <2> QED
    BY <2>1 DEF AloneInv
<1>8. CASE Boot
  <2> DEFINE Z == {i \in JobIds : job[i].status = "running"}
  <2>1. /\ job' = [i \in JobIds |-> IF i \in Z THEN Closed(job[i], "interrupted")
                                             ELSE job[i]]
        /\ UNCHANGED <<queue, owner, w, slot>> /\ phase = "boot"
    BY <1>8 DEF Boot, alerts
  <2>2. Z \in SUBSET JobIds /\ \A i \in JobIds \ Z : job[i].status # "running"
    OBVIOUS
  <2> HIDE DEF Z
  <2>3. \A i \in JobIds : IF i \in Z THEN job'[i].status = "failed"
                                    ELSE job'[i] = job[i]
    BY <2>1, <2>2, <1>t, SweptRows
  <2>4. \A i \in JobIds : job'[i].status # "running"
    BY <2>2, <2>3
  <2>5. Busy' = {} /\ queue' = <<>>
    BY <2>1 DEF AloneInv, Busy
  <2> QED
    BY <2>4, <2>5 DEF AloneInv
<1>9. ASSUME NEW p \in Policies, NEW s \in {"sync", "none"}, SyncAlert(p, s) PROVE AloneInv'
  BY <1>1, <1>9, <1>t DEF SyncAlert, rows, sys
<1>10. ASSUME NEW p \in Policies, NEW line \in {"good", "bad"}, Configure(p, line)
       PROVE  AloneInv'
  BY <1>1, <1>10 DEF Configure, alerts, sys
<1>11. CASE RefreshScheduler \/ WatchdogReaps \/ UNCHANGED vars
  BY <1>1, <1>11 DEF RefreshScheduler, WatchdogReaps, vars, rows, alerts, sys
<1>12. ASSUME NEW j \in JobIds, Heartbeat(j) \/ Wedge(j) \/ Quieten(j) PROVE AloneInv'
  BY <1>1, <1>12 DEF Heartbeat, Wedge, Quieten, rows, alerts, sys
<1> QED
  BY <1>2, <1>3, <1>4, <1>5, <1>6, <1>7, <1>8, <1>9, <1>10, <1>11, <1>12
  DEF Next, WorkerStep, RunScheduledBackup, BackupNow

(* Runs of one policy never overlap when no submission does. *)
LEMMA Alone ==
  ASSUME "overlap" \notin World
  PROVE  Spec => []AloneInv
<1>1. Init => AloneInv
  <2> SUFFICES ASSUME Init PROVE AloneInv
    OBVIOUS
  <2>1. Busy = {} /\ queue = <<>> /\ \A j \in JobIds : job[j].status = "absent"
    BY DEF Init, Busy, NoWorker, NoRow
  <2> QED
    BY <2>1 DEF AloneInv
<1>2. TypeOK /\ RowsInv /\ AloneInv /\ [Next]_vars => AloneInv'
  BY AloneStep
<1> QED
  BY <1>1, <1>2, BackupTypes, PTL DEF Spec

(* A failure alert is never silenced by a marker from before the last good
   backup, while runs of one policy do not overlap. *)
THEOREM MarkerCurrent ==
  ASSUME "overlap" \notin World
  PROVE  Spec => []MarkerIsCurrent
<1>1. Init => MarkerIsCurrent
  BY DEF Init, MarkerIsCurrent
<1>2. TypeOK /\ RowsInv /\ AloneInv /\ MarkerIsCurrent /\ [Next]_vars => MarkerIsCurrent'
  <2> SUFFICES ASSUME TypeOK, RowsInv, AloneInv, MarkerIsCurrent, [Next]_vars
               PROVE  MarkerIsCurrent'
    OBVIOUS
  <2>t. /\ w \in [JobIds -> Worker] /\ job \in [JobIds -> Row]
        /\ owner \in [JobIds -> Policies] /\ told \in [Policies -> BOOLEAN]
        /\ slot \in [Policies -> {"none", "backup_failed", "sync"}]
    BY DEF TypeOK
  <2>1. ASSUME UNCHANGED <<slot, told>> PROVE MarkerIsCurrent'
    BY <2>1 DEF MarkerIsCurrent
  <2>2. ASSUME NEW j \in JobIds, Succeed(j) PROVE MarkerIsCurrent'
    <3>1. CASE Present(j)
      <4>1. /\ slot' = [slot EXCEPT ![owner[j]] = Released(w[j].slot, slot[owner[j]])]
            /\ told' = [told EXCEPT ![owner[j]] = FALSE]
            /\ j \in Busy /\ w[j].pc \in Commands
        BY <2>2, <3>1 DEF Succeed, Busy, Commands
      <4>2. Released(w[j].slot, slot[owner[j]]) # "backup_failed"
        BY <4>1 DEF AloneInv, Released
      <4> HIDE DEF Released
      <4>3. slot'[owner[j]] # "backup_failed"
        BY <4>1, <4>2, <2>t
      <4> QED
        BY <4>1, <4>3, <2>t DEF MarkerIsCurrent
    <3>2. CASE ~Present(j)
      BY <2>1, <2>2, <3>2 DEF Succeed, alerts
    <3> QED
      BY <3>1, <3>2
  <2>3. ASSUME NEW j \in JobIds, Notify(j) PROVE MarkerIsCurrent'
    <3> DEFINE t == told[owner[j]] \/ slot[owner[j]] # "backup_failed"
    <3>1. /\ told' = [told EXCEPT ![owner[j]] = t]
          /\ slot' = [slot EXCEPT ![owner[j]] = "backup_failed"]
      BY <2>3 DEF Notify
    <3>2. t
      BY <2>t DEF MarkerIsCurrent
    <3> HIDE DEF t
    <3> QED
      BY <3>1, <3>2, <2>t DEF MarkerIsCurrent
  <2>4. ASSUME NEW j \in JobIds,
               \/ InitRepo(j) \/ SnapshotTaken(j) \/ Retain(j, TRUE) \/ Retain(j, FALSE)
               \/ Raises(j) \/ Refresh(j) \/ CommitFailure(j)
        PROVE  MarkerIsCurrent'
    BY <2>1, <2>4, <2>t, WorkerWorks
  <2>5. ASSUME NEW p \in Policies, NEW s \in {"sync", "none"}, SyncAlert(p, s)
        PROVE  MarkerIsCurrent'
    BY <2>5, <2>t DEF SyncAlert, MarkerIsCurrent
  <2>6. ASSUME NEW p \in Policies,
               Submit(p) \/ \E line \in {"good", "bad"} : Configure(p, line)
        PROVE  MarkerIsCurrent'
    BY <2>1, <2>6 DEF Submit, Configure, alerts
  <2>7. CASE \/ Start \/ RefreshScheduler \/ WatchdogReaps \/ WatchdogCommits
             \/ Crash \/ Boot \/ UNCHANGED vars
    BY <2>1, <2>7
    DEF Start, RefreshScheduler, WatchdogReaps, WatchdogCommits, Crash, Boot, vars, alerts
  <2>8. ASSUME NEW j \in JobIds, Heartbeat(j) \/ Wedge(j) \/ Quieten(j)
        PROVE  MarkerIsCurrent'
    BY <2>1, <2>8 DEF Heartbeat, Wedge, Quieten, alerts
  <2> QED
    BY <2>2, <2>3, <2>4, <2>5, <2>6, <2>7, <2>8
    DEF Next, WorkerStep, RunScheduledBackup, BackupNow
<1> QED
  BY <1>1, <1>2, BackupTypes, Alone, PTL DEF Spec

---------------------------------------------------------------------------
(* The history that the pages read. *)

\* What one step may make of a row.
RowMoves ==
  \A j \in JobIds :
    \/ job'[j].status = job[j].status
    \/ job[j].status = "absent" /\ job'[j].status = "running"
    \/ job[j].status = "running" /\ job'[j].status \in {"completed", "failed"}
    \/ /\ job[j].status \in {"completed", "failed"}
       /\ job'[j].status \in {"completed", "failed", "gone"}

(* While runs do not overlap, a row is opened once, closed once and trimmed
   only after that, and it keeps its policy. *)
LEMMA RowMovesStep ==
  ASSUME "overlap" \notin World, TypeOK, RowsInv, AloneInv, [Next]_vars
  PROVE  /\ RowMoves
         /\ \A j \in JobIds : job[j].status # "absent" => owner'[j] = owner[j]
<1>t. /\ w \in [JobIds -> Worker] /\ job \in [JobIds -> Row]
      /\ owner \in [JobIds -> Policies]
  BY DEF TypeOK
<1>s. \A j \in JobIds : job[j].status \in {"absent", "running", "completed", "failed", "gone"}
  BY <1>t DEF Row
<1> DEFINE Goal == /\ RowMoves
                   /\ \A j \in JobIds : job[j].status # "absent" => owner'[j] = owner[j]
<1> SUFFICES Goal
  OBVIOUS
<1>1. ASSUME UNCHANGED <<job, owner>> PROVE Goal
  BY <1>1 DEF RowMoves
<1>2. CASE Start
  <2>1. PICK j \in JobIds, p \in Policies :
           /\ job[j].status = "absent"
           /\ owner' = [owner EXCEPT ![j] = p]
           /\ job'[j].status = "running" /\ \A i \in JobIds : i # j => job'[i] = job[i]
    BY <1>2, Started
  <2> QED
    BY <2>1, <1>t DEF RowMoves
<1>3. ASSUME NEW j \in JobIds,
             \/ InitRepo(j) \/ SnapshotTaken(j) \/ Retain(j, TRUE) \/ Retain(j, FALSE)
             \/ Raises(j) \/ Refresh(j) \/ CommitFailure(j)
      PROVE  Goal
  <2>1. /\ owner' = owner /\ \A i \in JobIds : i # j => job'[i] = job[i]
        /\ job[j].status = job'[j].status \/ (Present(j) /\ job'[j].status = "failed")
    BY <1>3, <1>t, WorkerWorks
  <2> QED
    BY <2>1, <1>s DEF RowMoves, Present
<1>4. ASSUME NEW j \in JobIds, Succeed(j) \/ Notify(j) PROVE Goal
  <2>1. j \in Busy /\ owner' = owner /\ owner[j] \in Policies /\ phase # "boot"
    BY <1>4, <1>t, WorkerEnds DEF AloneInv
  <2>2. \A i \in JobIds : owner[i] = owner[j] /\ job[i].status = "running"
          => i = j /\ w[j].pc # "notify"
    BY <2>1 DEF AloneInv
  <2> DEFINE T == Trimmed(owner[j])
  <2>3. /\ T \in [JobIds -> Row]
        /\ \A i \in JobIds : T[i] # job[i] =>
             owner[i] = owner[j] /\ Present(i) /\ T[i].status = "gone"
    BY <2>1, <1>t, TrimmedRows
  <2>4. CASE Succeed(j) /\ Present(j)
    <3>1. job' = [T EXCEPT ![j].status = "completed"]
      BY <2>4 DEF Succeed
    <3> HIDE DEF T
    <3>2. job'[j].status = "completed" /\ \A i \in JobIds : i # j => job'[i] = T[i]
      BY <3>1, <2>3 DEF Row
    <3>3. job[j].status \in {"running", "completed", "failed"}
      BY <2>4, <1>s DEF Present
    <3>4. \A i \in JobIds : i # j /\ T[i] # job[i] => job[i].status \in {"completed", "failed"}
      BY <2>2, <2>3, <1>s DEF Present
    <3> QED
      BY <3>2, <3>3, <3>4, <2>1, <2>3 DEF RowMoves
  <2>5. CASE Succeed(j) /\ ~Present(j)
    BY <1>1, <2>5 DEF Succeed
  <2>6. CASE Notify(j)
    <3>1. job' = T /\ w[j].pc = "notify"
      BY <2>6 DEF Notify
    <3> HIDE DEF T
    <3>2. \A i \in JobIds : T[i] # job[i] => job[i].status \in {"completed", "failed"}
      BY <3>1, <2>2, <2>3, <1>s DEF Present
    <3> QED
      BY <3>1, <3>2, <2>1, <2>3 DEF RowMoves
  <2> QED
    BY <1>4, <2>4, <2>5, <2>6
<1>5. CASE WatchdogCommits
  <2>1. CASE \A i \in wd.doomed : Present(i)
    <3>1. /\ job' = [i \in JobIds |-> IF i \in wd.doomed THEN Closed(job[i], "stalled")
                                                       ELSE job[i]]
          /\ wd.doomed \in SUBSET JobIds /\ owner' = owner
      BY <1>5, <2>1 DEF WatchdogCommits, TypeOK
    <3>2. \A i \in JobIds : IF i \in wd.doomed THEN job'[i].status = "failed"
                                              ELSE job'[i] = job[i]
      BY <3>1, <1>t, SweptRows
    <3> QED
      BY <3>1, <3>2, <2>1, <1>s DEF RowMoves, Present
  <2>2. CASE ~\A i \in wd.doomed : Present(i)
    BY <1>1, <1>5, <2>2 DEF WatchdogCommits
  <2> QED
    BY <2>1, <2>2
<1>6. CASE Boot
  <2> DEFINE Z == {i \in JobIds : job[i].status = "running"}
  <2>1. /\ job' = [i \in JobIds |-> IF i \in Z THEN Closed(job[i], "interrupted")
                                             ELSE job[i]]
        /\ owner' = owner
    BY <1>6 DEF Boot
  <2>2. Z \in SUBSET JobIds /\ \A i \in Z : job[i].status = "running"
    OBVIOUS
  <2> HIDE DEF Z
  <2>3. \A i \in JobIds : IF i \in Z THEN job'[i].status = "failed"
                                    ELSE job'[i] = job[i]
    BY <2>1, <2>2, <1>t, SweptRows
  <2> QED
    BY <2>1, <2>2, <2>3 DEF RowMoves
<1>7. ASSUME NEW p \in Policies,
             \/ \E line \in {"good", "bad"} : Configure(p, line)
             \/ Submit(p) \/ \E s \in {"sync", "none"} : SyncAlert(p, s)
      PROVE  Goal
  BY <1>1, <1>7 DEF Configure, Submit, SyncAlert, rows
<1>8. CASE RefreshScheduler \/ WatchdogReaps \/ Crash \/ UNCHANGED vars
  BY <1>1, <1>8 DEF RefreshScheduler, WatchdogReaps, Crash, vars, rows
<1>9. ASSUME NEW j \in JobIds, Heartbeat(j) \/ Wedge(j) \/ Quieten(j) PROVE Goal
  BY <1>1, <1>9 DEF Heartbeat, Wedge, Quieten, rows
<1> QED
  BY <1>2, <1>3, <1>4, <1>5, <1>6, <1>7, <1>8, <1>9
  DEF Next, WorkerStep, RunScheduledBackup, BackupNow

(* The engine implements JobLedger while runs of one policy do not overlap. *)
THEOREM BackupLedger ==
  ASSUME "overlap" \notin World
  PROVE  Spec => LedgerSpec
<1> DEFINE R == [j \in JobIds |->
             CASE job[j].status = "running" -> "active"
               [] job[j].status \in {"completed", "failed"} -> "closed"
               [] OTHER -> job[j].status]
           B == {p \in Policies : policy[p].status = "running"}
<1>1. Init => Ledger!Init
  <2> SUFFICES ASSUME Init PROVE Ledger!Init
    OBVIOUS
  <2>1. \A j \in JobIds : job[j].status = "absent"
    BY DEF Init, NoRow
  <2>2. R = [j \in JobIds |-> "absent"]
    BY <2>1
  <2>3. B = {}
    BY DEF Init, NoPolicy
  <2> QED
    BY <2>2, <2>3 DEF Ledger!Init
<1>2. TypeOK /\ RowsInv /\ AloneInv /\ RunningHasJob' /\ [Next]_vars
        => [Ledger!Next]_(Ledger!ledger)
  <2> SUFFICES ASSUME TypeOK, RowsInv, AloneInv, RunningHasJob', [Next]_vars
               PROVE  Ledger!Next
    OBVIOUS
  <2>1. /\ RowMoves
        /\ \A j \in JobIds : job[j].status # "absent" => owner'[j] = owner[j]
    BY RowMovesStep
  <2>2. ASSUME NEW j \in JobIds
        PROVE  /\ R'[j] \in Ledger!Later(R[j])
               /\ R[j] # "absent" => job[j].status # "absent"
               /\ job'[j].status = "running" => R'[j] = "active"
    <3>1. job[j].status \in {"absent", "running", "completed", "failed", "gone"}
      BY DEF TypeOK, Row
    <3>2. /\ R[j] = CASE job[j].status = "running" -> "active"
                      [] job[j].status \in {"completed", "failed"} -> "closed"
                      [] OTHER -> job[j].status
          /\ R'[j] = CASE job'[j].status = "running" -> "active"
                      [] job'[j].status \in {"completed", "failed"} -> "closed"
                      [] OTHER -> job'[j].status
      OBVIOUS
    <3> HIDE DEF R
    <3> QED
      BY <2>1, <3>1, <3>2 DEF RowMoves, Ledger!Later
  <2>3. B' \subseteq Policies
    OBVIOUS
  <2>4. B' \subseteq {owner'[j] : j \in {i \in JobIds : R'[i] = "active"}}
    <3> HIDE DEF R
    <3> QED
      BY <2>2 DEF RunningHasJob
  <2> QED
    BY <2>1, <2>2, <2>3, <2>4 DEF Ledger!Next, Ledger!Occupied
<1> QED
  BY <1>1, <1>2, BackupTypes, Alone, LightTruthful, PTL DEF Spec, LedgerSpec, Ledger!Spec
=============================================================================
