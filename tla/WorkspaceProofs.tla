-------------------------- MODULE WorkspaceProofs ---------------------------
(***************************************************************************)
(* Theorems about the recoveries and the background tasks, for every set   *)
(* of snapshots and every number of recoveries, tasks, users and crashes.  *)
(***************************************************************************)
EXTENDS Workspace, FiniteSetTheorems, TLAPS

\* Every row there ever was.
Known == asked \cup Rows

\* Ids are given in order and never again, only known rows are being made,
\* and a deletion that goes on was asked for.
KnownInv ==
  /\ \E n \in 0 .. MaxRecs : Known = 1 .. n
  /\ making \subseteq Known
  /\ \A r \in Recs : del[r] # "no" => r \in asked

\* A directory that nothing has gone wrong with has a row whose removal has
\* not come past the tree; and restic still writes for such a row only, or
\* into a directory that was removed under it.
Stands(r) == r \in Rows /\ del[r] # "removed"
TreeInv ==
  /\ \A d \in wrapper \ torn : \E r \in Recs : Stands(r) /\ rec[r].dir = d
  /\ \A r \in making : Stands(r) \/ rec[r].dir \in torn

\* When no two recoveries are made in one second, no two share a directory.
DirInv == \A r \in Known, q \in Known : rec[r].dir = rec[q].dir => r = q

\* A task has failed for no more users than it has gone through.
CountInv == \A t \in Tasks : thread[t].errors <= thread[t].i

---------------------------------------------------------------------------

(* A new status, or a new access time, changes nothing else of the table. *)
LEMMA RowSet ==
  ASSUME rec \in [Recs -> Row], NEW r \in Recs
  PROVE  /\ \A s \in {"none", "restoring", "ready", "failed", "deleting"} :
              rec' = [rec EXCEPT ![r].status = s] =>
                /\ rec' \in [Recs -> Row]
                /\ rec'[r].status = s /\ rec'[r].dir = rec[r].dir
                /\ rec'[r].snap = rec[r].snap
                /\ \A q \in Recs : q # r => rec'[q] = rec[q]
         /\ \A b \in BOOLEAN :
              rec' = [rec EXCEPT ![r].idle = b] =>
                /\ rec' \in [Recs -> Row]
                /\ \A q \in Recs : /\ rec'[q].status = rec[q].status
                                   /\ rec'[q].dir = rec[q].dir
                                   /\ rec'[q].snap = rec[q].snap
  BY DEF Row

(* The row that create_recovery inserts has an id nobody had. *)
LEMMA FreshRow ==
  ASSUME KnownInv, MaxRecs \in Nat, Cardinality(Known) + 1 \in Recs
  PROVE  /\ Cardinality(Known) + 1 \notin Known
         /\ \E n \in 0 .. MaxRecs : Known \cup {Cardinality(Known) + 1} = 1 .. n
<1>1. PICK n \in 0 .. MaxRecs : Known = 1 .. n
  BY DEF KnownInv
<1>2. Cardinality(Known) = n
  BY <1>1, FS_Interval
<1> QED
  BY <1>1, <1>2 DEF Recs

(* What the calls that make and remove recoveries do, seen together. *)
LEMMA Inserted ==
  ASSUME TypeOK, KnownInv, NEW s \in Snapshots, NEW eph \in BOOLEAN, Begin(s, eph)
  PROVE  \E r \in Recs, d \in Dirs :
           /\ r \notin Known /\ \E n \in 0 .. MaxRecs : Known \cup {r} = 1 .. n
           /\ Fresh(d) /\ wrapper' = wrapper \cup {d}
           /\ rec' \in [Recs -> Row]
           /\ rec'[r].status = "restoring" /\ rec'[r].dir = d
           /\ \A q \in Recs : q # r => rec'[q] = rec[q]
           /\ making' = making \cup {r}
           /\ Rows' = Rows \cup {r}
           /\ UNCHANGED <<mail, asked, torn, del, sweep, temps, open>>
<1> DEFINE r == Cardinality(Known) + 1
<1>1. r \in Recs
  BY DEF Begin, Known
<1>2. r \notin Known /\ \E n \in 0 .. MaxRecs : Known \cup {r} = 1 .. n
  BY <1>1, FreshRow, RecoveriesAssumption
<1>3. PICK d \in Dirs :
        /\ Fresh(d) /\ wrapper' = wrapper \cup {d}
        /\ rec' = [rec EXCEPT ![r] = [status |-> "restoring", snap |-> s,
                                      eph |-> eph, dir |-> d, idle |-> FALSE]]
  BY DEF Begin, Known
<1>4. making' = making \cup {r} /\ UNCHANGED <<mail, asked, torn, del, sweep, temps, open>>
  BY DEF Begin, Known
<1>5. PICK q \in Recs : q = r
  BY <1>1
<1> HIDE DEF r
<1>6. rec \in [Recs -> Row]
  BY DEF TypeOK, RecTypeOK
<1>7. /\ rec' \in [Recs -> Row]
      /\ rec'[q].status = "restoring" /\ rec'[q].dir = d
      /\ \A x \in Recs : x # q => rec'[x] = rec[x]
  BY <1>3, <1>5, <1>6 DEF Row
<1>8. Rows' = Rows \cup {q}
  BY <1>7 DEF Rows
<1> QED
  BY <1>2, <1>3, <1>4, <1>5, <1>7, <1>8

(* The variables have their types, and ids, rows and trees hang together. *)
LEMMA RecStep ==
  ASSUME TypeOK, KnownInv, TreeInv, RecNext
  PROVE  RecTypeOK' /\ KnownInv' /\ TreeInv'
<1> DEFINE Goal == RecTypeOK' /\ KnownInv' /\ TreeInv'
<1> USE DEF Known
<1>t. /\ rec \in [Recs -> Row] /\ making \subseteq Recs /\ asked \subseteq Recs
      /\ del \in [Recs -> {"no", "marked", "removed"}]
      /\ sweep \in [todo : SUBSET Recs, idle : SUBSET Recs,
                    fresh : BOOLEAN, cur : Recs \cup {0}]
      /\ mail \in [Dirs -> SUBSET Snapshots] /\ wrapper \subseteq Dirs /\ torn \subseteq Dirs
      /\ Rows \subseteq Recs
      /\ temps \subseteq Requests /\ open \subseteq Requests
  BY DEF TypeOK, RecTypeOK, Rows
<1>d. \A r \in Recs : rec[r].dir \in Dirs /\ rec[r].snap \in Snapshots
  BY <1>t DEF Row
<1>n. NoSweep \in [todo : SUBSET Recs, idle : SUBSET Recs,
                   fresh : BOOLEAN, cur : Recs \cup {0}]
  BY DEF NoSweep
<1>1. ASSUME NEW s \in Snapshots, NEW eph \in BOOLEAN, Begin(s, eph) PROVE Goal
  <2>1. PICK r \in Recs, d \in Dirs :
           /\ r \notin Known /\ \E n \in 0 .. MaxRecs : Known \cup {r} = 1 .. n
           /\ wrapper' = wrapper \cup {d}
           /\ rec' \in [Recs -> Row]
           /\ rec'[r].status = "restoring" /\ rec'[r].dir = d
           /\ \A q \in Recs : q # r => rec'[q] = rec[q]
           /\ making' = making \cup {r}
           /\ Rows' = Rows \cup {r}
           /\ UNCHANGED <<mail, asked, torn, del, sweep, temps, open>>
    BY <1>1, Inserted
  <2>2. RecTypeOK'
    BY <2>1, <1>t DEF RecTypeOK
  <2>3. KnownInv'
    <3>1. Known' = Known \cup {r}
      BY <2>1
    <3> QED
      BY <2>1, <3>1 DEF KnownInv
  <2>4. Stands(r)'
    BY <2>1 DEF Stands, KnownInv
  <2>5. \A q \in Recs : Stands(q) => q # r /\ Stands(q)' /\ rec'[q].dir = rec[q].dir
    BY <2>1 DEF Stands
  <2>6. \A x \in wrapper' \ torn' : \E q \in Recs : Stands(q)' /\ rec'[q].dir = x
    BY <2>1, <2>4, <2>5 DEF TreeInv
  <2>7. \A q \in making' : Stands(q)' \/ rec'[q].dir \in torn'
    BY <2>1, <2>4, <2>5, <1>t DEF TreeInv, KnownInv
  <2> QED
    BY <2>2, <2>3, <2>6, <2>7 DEF TreeInv
<1>2. ASSUME NEW r \in Recs, rec' = [rec EXCEPT ![r].idle = FALSE]
                               \/ rec' = [rec EXCEPT ![r].idle = TRUE],
             UNCHANGED <<wrapper, mail, asked, torn, process, temps, open>>
      PROVE  Goal
  <2>1. rec' \in [Recs -> Row] /\ \A q \in Recs : /\ rec'[q].status = rec[q].status
                                                /\ rec'[q].dir = rec[q].dir
    BY <1>2, <1>t, RowSet
  <2>2. Rows' = Rows
    BY <2>1 DEF Rows
  <2> QED
    BY <1>2, <2>1, <2>2, <1>t DEF RecTypeOK, KnownInv, TreeInv, Stands, process
<1>3. ASSUME NEW r \in Recs, Extracted(r) PROVE Goal
  <2>1. PICK ok \in BOOLEAN :
          /\ IF ok THEN /\ mail' = [mail EXCEPT ![rec[r].dir] = @ \cup {rec[r].snap}]
                        /\ wrapper' = wrapper \cup {rec[r].dir}
                   ELSE UNCHANGED <<mail, wrapper>>
          /\ rec' = IF r \in Rows THEN [rec EXCEPT ![r].status = Verdict(r, ok)]
                                  ELSE rec
    BY <1>3 DEF Extracted
  <2>2. r \in making /\ making' = making \ {r} /\ UNCHANGED <<asked, torn, del, sweep, temps, open>>
    BY <1>3 DEF Extracted
  <2>3. /\ rec' \in [Recs -> Row] /\ Rows' = Rows
        /\ \A q \in Recs : rec'[q].dir = rec[q].dir
    <3>1. CASE r \in Rows
      <4>1. Verdict(r, ok) \in {"ready", "failed"}
        BY DEF Verdict
      <4>2. /\ rec' \in [Recs -> Row]
            /\ rec'[r].status \in {"ready", "failed"} /\ rec'[r].dir = rec[r].dir
            /\ \A q \in Recs : q # r => rec'[q] = rec[q]
        BY <2>1, <3>1, <4>1, <1>t, RowSet
      <4> QED
        BY <3>1, <4>2 DEF Rows
    <3>2. CASE r \notin Rows
      BY <2>1, <3>2, <1>t DEF Rows
    <3> QED
      BY <3>1, <3>2
  <2>4. mail' \in [Dirs -> SUBSET Snapshots] /\ wrapper' \subseteq wrapper \cup {rec[r].dir}
    BY <2>1, <1>t, <1>d
  <2>5. RecTypeOK'
    BY <2>2, <2>3, <2>4, <1>t, <1>d DEF RecTypeOK
  <2>6. KnownInv'
    BY <2>2, <2>3 DEF KnownInv
  <2>7. TreeInv'
    BY <2>2, <2>3, <2>4, <1>t DEF TreeInv, Stands
  <2> QED
    BY <2>5, <2>6, <2>7
<1>4. ASSUME NEW r \in Recs, Mark(r), wrapper' = wrapper, mail' = mail, torn' = torn,
             making' = making, temps' = temps, open' = open,
             sweep' \in [todo : SUBSET Recs, idle : SUBSET Recs,
                         fresh : BOOLEAN, cur : Recs \cup {0}]
      PROVE  Goal
  <2>1. /\ r \in Rows /\ asked' = asked \cup {r}
        /\ rec' = [rec EXCEPT ![r].status = "deleting"]
        /\ del' = [del EXCEPT ![r] = "marked"]
    BY <1>4 DEF Mark
  <2>2. /\ rec' \in [Recs -> Row]
        /\ rec'[r].status = "deleting" /\ rec'[r].dir = rec[r].dir
        /\ \A q \in Recs : q # r => rec'[q] = rec[q]
    BY <2>1, <1>t, RowSet
  <2>3. Rows' = Rows
    BY <2>1, <2>2 DEF Rows
  <2>4. del'[r] = "marked" /\ \A q \in Recs : q # r => del'[q] = del[q]
    BY <2>1, <1>t
  <2>5. RecTypeOK'
    BY <1>4, <2>1, <2>2, <1>t DEF RecTypeOK
  <2>6. Known' = Known
    BY <2>1, <2>3
  <2>7. KnownInv'
    BY <1>4, <2>1, <2>4, <2>6 DEF KnownInv
  <2>8. \A q \in Recs : Stands(q) => Stands(q)' /\ rec'[q].dir = rec[q].dir
    BY <2>2, <2>3, <2>4 DEF Stands
  <2>9. TreeInv'
    BY <1>4, <2>2, <2>8, <1>t DEF TreeInv
  <2> QED
    BY <2>5, <2>7, <2>9
<1>5. ASSUME NEW r \in Recs, TreeRemoved(r) PROVE Goal
  <2>1. /\ del[r] = "marked" /\ del' = [del EXCEPT ![r] = "removed"]
        /\ UNCHANGED <<rec, asked, making, sweep, temps, open>>
        /\ wrapper' \subseteq wrapper /\ torn \subseteq torn' /\ torn' \subseteq torn \cup {rec[r].dir}
        /\ rec[r].dir \notin wrapper' \ torn'
        /\ r \in making => rec[r].dir \in torn'
        /\ mail' = mail \/ mail' = [mail EXCEPT ![rec[r].dir] = {}]
    BY <1>5 DEF TreeRemoved, Unwrapped
  <2>2. del'[r] = "removed" /\ \A q \in Recs : q # r => del'[q] = del[q]
    BY <2>1, <1>t
  <2>3. Rows' = Rows
    BY <2>1 DEF Rows
  <2>4. RecTypeOK'
    BY <2>1, <1>t, <1>d DEF RecTypeOK
  <2>5. KnownInv'
    BY <2>1, <2>2, <2>3 DEF KnownInv
  <2>6. TreeInv'
    BY <2>1, <2>2, <2>3, <1>t DEF TreeInv, Stands
  <2> QED
    BY <2>4, <2>5, <2>6
<1>6. ASSUME NEW r \in Recs, RowDropped(r) PROVE Goal
  <2>1. /\ del[r] = "removed" /\ rec' = [rec EXCEPT ![r].status = "none"]
        /\ del' = [del EXCEPT ![r] = "no"]
        /\ UNCHANGED <<wrapper, mail, asked, torn, making, temps, open>>
    BY <1>6 DEF RowDropped
  <2>2. sweep' \in [todo : SUBSET Recs, idle : SUBSET Recs,
                    fresh : BOOLEAN, cur : Recs \cup {0}]
    <3> DEFINE c == IF sweep.cur = r THEN 0 ELSE sweep.cur
    <3>1. sweep' = Rest([sweep EXCEPT !.cur = c])
      BY <1>6 DEF RowDropped
    <3>2. c \in Recs \cup {0}
      BY <1>t
    <3> HIDE DEF c
    <3> QED
      BY <3>1, <3>2, <1>t, <1>n DEF Rest
  <2>3. /\ rec' \in [Recs -> Row]
        /\ rec'[r].status = "none" /\ rec'[r].dir = rec[r].dir
        /\ \A q \in Recs : q # r => rec'[q] = rec[q]
    BY <2>1, <1>t, RowSet
  <2>4. Rows' = Rows \ {r}
    BY <2>3 DEF Rows
  <2>5. del'[r] = "no" /\ \A q \in Recs : q # r => del'[q] = del[q]
    BY <2>1, <1>t
  <2>6. r \in asked
    BY <2>1 DEF KnownInv
  <2>7. RecTypeOK'
    BY <2>1, <2>2, <2>3, <1>t DEF RecTypeOK
  <2>8. Known' = Known
    BY <2>1, <2>4, <2>6
  <2>9. KnownInv'
    BY <2>1, <2>5, <2>8 DEF KnownInv
  <2>10. \A q \in Recs : Stands(q) => q # r /\ Stands(q)' /\ rec'[q].dir = rec[q].dir
    BY <2>1, <2>3, <2>4, <2>5 DEF Stands
  <2>11. TreeInv'
    BY <2>1, <2>3, <2>10, <1>t DEF TreeInv
  <2> QED
    BY <2>7, <2>9, <2>11
<1>7. ASSUME UNCHANGED <<store, making, del, temps, open>>,
             sweep' \in [todo : SUBSET Recs, idle : SUBSET Recs,
                         fresh : BOOLEAN, cur : Recs \cup {0}]
      PROVE  Goal
  <2>1. Rows' = Rows
    BY <1>7 DEF Rows, store
  <2> QED
    BY <1>7, <2>1, <1>t DEF RecTypeOK, KnownInv, TreeInv, Stands, store
<1>8. CASE SweepBegins
  <2>1. sweep' \in [todo : SUBSET Recs, idle : SUBSET Recs,
                    fresh : BOOLEAN, cur : Recs \cup {0}]
    BY <1>8, <1>t DEF SweepBegins, Candidates
  <2> QED
    BY <1>7, <1>8, <2>1 DEF SweepBegins
<1>9. ASSUME NEW r \in Recs, SweepTakes(r) PROVE Goal
  <2>1. CASE sweep' = NoSweep /\ UNCHANGED <<rec, del, asked>>
    BY <1>7, <1>9, <1>n, <2>1 DEF SweepTakes, store
  <2>2. CASE /\ sweep' = Rest([sweep EXCEPT !.todo = @ \ {r}, !.idle = @ \ {r}])
             /\ UNCHANGED <<rec, del, asked>>
    <3>1. sweep' \in [todo : SUBSET Recs, idle : SUBSET Recs,
                      fresh : BOOLEAN, cur : Recs \cup {0}]
      BY <2>2, <1>t, <1>n DEF Rest
    <3> QED
      BY <1>7, <1>9, <2>2, <3>1 DEF SweepTakes, store
  <2>3. CASE /\ IF del[r] = "no" THEN Mark(r) ELSE UNCHANGED <<rec, del, asked>>
             /\ sweep' = [todo |-> sweep.todo \ {r}, idle |-> {}, fresh |-> TRUE, cur |-> r]
    <3>1. sweep' \in [todo : SUBSET Recs, idle : SUBSET Recs,
                      fresh : BOOLEAN, cur : Recs \cup {0}]
      BY <2>3, <1>t
    <3>2. CASE del[r] = "no"
      BY <1>4, <1>9, <2>3, <3>1, <3>2 DEF SweepTakes
    <3>3. CASE del[r] # "no"
      BY <1>7, <1>9, <2>3, <3>1, <3>3 DEF SweepTakes, store
    <3> QED
      BY <3>2, <3>3
  <2> QED
    BY <1>9, <2>1, <2>2, <2>3 DEF SweepTakes
<1>10. ASSUME NEW s \in Snapshots,
              account_backup_restore(s) \/ account_attachment_restore(s) \/ MountMissing(s)
       PROVE  Goal
  BY <1>1, <1>10 DEF account_backup_restore, account_attachment_restore, MountMissing
<1>11. ASSUME NEW r \in Recs, MountFound(r) \/ touch_mount(r) \/ Idles(r) PROVE Goal
  BY <1>2, <1>11 DEF MountFound, touch_mount, Idles
<1>12. ASSUME NEW r \in Recs, account_recovery_delete(r) PROVE Goal
  BY <1>4, <1>12, <1>t DEF account_recovery_delete
<1> QED
  BY <1>3, <1>5, <1>6, <1>8, <1>9, <1>10, <1>11, <1>12 DEF RecNext

(* The table of tasks keeps its types, its counts and OneActiveTask. *)
LEMMA TaskRows ==
  ASSUME TypeOK, CountInv, OneActiveTask, TaskNext, crashes' = crashes
  PROVE  TaskTypeOK' /\ CountInv' /\ OneActiveTask'
<1> DEFINE Goal == TaskTypeOK' /\ CountInv' /\ OneActiveTask'
<1>t. /\ task \in [Tasks -> Task] /\ thread \in [Tasks -> Thread] /\ live \subseteq Tasks
      /\ NumUsers \in Nat
  BY TasksAssumption DEF TypeOK, TaskTypeOK
<1>1. ASSUME NEW ty \in Types, start_task(ty) PROVE Goal
  <2>1. PICK t \in Tasks :
          /\ task[t].status = "none"
          /\ task' = [task EXCEPT ![t] = [status |-> "pending", type |-> ty, done |-> 0]]
          /\ thread' = [thread EXCEPT ![t].alive = TRUE]
    BY <1>1 DEF start_task
  <2>2. live' = live /\ \A u \in Tasks : task[u].type = ty => ~Active(u)
    BY <1>1 DEF start_task
  <2>3. /\ task' \in [Tasks -> Task] /\ task'[t].status = "pending" /\ task'[t].type = ty
        /\ \A u \in Tasks : u # t => task'[u] = task[u]
    BY <2>1, <1>t DEF Task
  <2>4. /\ thread' \in [Tasks -> Thread] /\ thread'[t].alive
        /\ thread'[t].errors = thread[t].errors /\ thread'[t].i = thread[t].i
        /\ \A u \in Tasks : u # t => thread'[u] = thread[u]
    BY <2>1, <1>t DEF Thread
  <2>5. TaskTypeOK'
    BY <2>2, <2>3, <2>4, <1>t DEF TaskTypeOK
  <2>6. OneActiveTask'
    BY <2>2, <2>3, <2>4 DEF OneActiveTask, Active
  <2>7. CountInv'
    BY <2>4 DEF CountInv
  <2> QED
    BY <2>5, <2>6, <2>7
<1>2. ASSUME NEW t \in Tasks, TaskBegins(t) PROVE Goal
  <2>1. /\ task' \in [Tasks -> Task] /\ task'[t].status = "running"
        /\ task'[t].type = task[t].type
        /\ \A u \in Tasks : u # t => task'[u] = task[u]
        /\ thread' = thread /\ live' \subseteq Tasks
        /\ task[t].status = "pending"
    BY <1>2, <1>t DEF TaskBegins, Task
  <2> QED
    BY <2>1, <1>t DEF TaskTypeOK, CountInv, OneActiveTask, Active
<1>3. ASSUME NEW t \in Tasks, TaskUser(t) PROVE Goal
  <2>1. /\ task' \in [Tasks -> Task]
        /\ \A u \in Tasks : task'[u].status = task[u].status /\ task'[u].type = task[u].type
    <3>1. thread[t].i + 1 \in 0 .. NumUsers
      BY <1>3, <1>t DEF TaskUser, Thread
    <3> DEFINE n == thread[t].i + 1
    <3>2. CASE n % 5 = 0
      <4>1. task' = [task EXCEPT ![t].done = n]
        BY <1>3, <3>2 DEF TaskUser
      <4> HIDE DEF n
      <4> QED
        BY <3>1, <4>1, <1>t DEF Task, n
    <3>3. CASE n % 5 # 0
      BY <1>3, <3>3, <1>t DEF TaskUser
    <3> QED
      BY <3>2, <3>3
  <2>2. PICK bad \in 0 .. 1 :
          thread' = [thread EXCEPT ![t] = [alive |-> TRUE, i |-> thread[t].i + 1,
                                           errors |-> thread[t].errors + bad]]
    BY <1>3 DEF TaskUser
  <2>c. /\ thread[t].errors \in Nat /\ thread[t].i \in Nat
        /\ thread[t].errors <= thread[t].i /\ thread[t].i < NumUsers
    BY <1>3, <1>t DEF TaskUser, Thread, CountInv
  <2>r. /\ thread'[t] = [alive |-> TRUE, errors |-> thread[t].errors + bad,
                        i |-> thread[t].i + 1]
        /\ \A u \in Tasks : u # t => thread'[u] = thread[u]
        /\ thread' \in [Tasks -> Thread]
    <3>2. thread[t].errors + bad \in 0 .. NumUsers /\ thread[t].i + 1 \in 0 .. NumUsers
      BY <2>c, <1>t
    <3> QED
      BY <2>2, <3>2, <1>t DEF Thread
  <2>l. live' = live /\ task[t].status = "running"
    BY <1>3 DEF TaskUser
  <2>3. TaskTypeOK'
    BY <2>1, <2>r, <2>l, <1>t DEF TaskTypeOK
  <2>4. OneActiveTask'
    BY <2>1, <2>r, <2>l DEF OneActiveTask, Active
  <2>5. CountInv'
    BY <2>c, <2>r DEF CountInv
  <2> QED
    BY <2>3, <2>4, <2>5
<1>4. ASSUME NEW t \in Tasks, NEW v \in {"completed", "failed"}, NEW n \in 0 .. NumUsers,
             Close(t, v, n), v = "completed" => thread[t].errors = 0
      PROVE  Goal
  <2>1. /\ task' \in [Tasks -> Task] /\ task'[t].status = v
        /\ \A u \in Tasks : u # t => task'[u] = task[u]
    BY <1>4, <1>t DEF Close, Task
  <2>2. /\ thread' \in [Tasks -> Thread] /\ thread'[t].errors = thread[t].errors /\ thread'[t].i = thread[t].i
        /\ \A u \in Tasks : u # t => thread'[u] = thread[u]
    BY <1>4, <1>t DEF Close, Thread
  <2>3. live' \subseteq Tasks
    BY <1>4, <1>t DEF Close
  <2>4. OneActiveTask'
    BY <1>4, <2>1, <2>2 DEF OneActiveTask, Active
  <2> QED
    BY <2>1, <2>2, <2>3, <2>4 DEF TaskTypeOK, CountInv
<1>5. ASSUME NEW t \in Tasks, TaskEnds(t) PROVE Goal
  <2>1. /\ TaskVerdict(t) \in {"completed", "failed"}
        /\ TaskVerdict(t) = "completed" => thread[t].errors = 0
        /\ Close(t, TaskVerdict(t), NumUsers) /\ NumUsers \in 0 .. NumUsers
    BY <1>5, <1>t DEF TaskEnds, TaskVerdict
  <2> QED
    BY <1>4, <2>1
<1>6. ASSUME NEW t \in Tasks, TaskRaises(t) PROVE Goal
  <2>1. Close(t, "failed", task[t].done) /\ task[t].done \in 0 .. NumUsers
    BY <1>6, <1>t DEF TaskRaises, Task
  <2> QED
    BY <1>4, <2>1
<1> QED
  BY <1>1, <1>2, <1>3, <1>5, <1>6
  DEF TaskNext, TaskStep, submit_fts_reindex, submit_force_resync, Types

(* Recoveries, browse requests and tasks together: what every step keeps. *)
THEOREM WorkspaceTypes == Spec => [](TypeOK /\ KnownInv /\ TreeInv /\ CountInv /\ OneActiveTask)
<1> DEFINE Inv == TypeOK /\ KnownInv /\ TreeInv /\ CountInv /\ OneActiveTask
<1>1. Init => Inv
  <2> SUFFICES ASSUME Init PROVE Inv
    OBVIOUS
  <2>1. (CHOOSE s \in Snapshots : TRUE) \in Snapshots
    BY RecoveriesAssumption
  <2>2. RecTypeOK
    <3>1. \A r \in Recs : 1 \in Dirs
      BY RecoveriesAssumption DEF Recs, Dirs
    <3> QED
      BY <2>1, <3>1 DEF Init, RecInit, RecTypeOK, Row, NoSweep
  <2>3. TaskTypeOK
    BY TasksAssumption DEF Init, TaskInit, TaskTypeOK, Task, Thread, Types
  <2>4. crashes \in 0 .. MaxCrashes
    BY WorkspaceAssumption DEF Init
  <2>5. Rows = {} /\ asked = {} /\ making = {} /\ wrapper = {} /\ \A r \in Recs : del[r] = "no"
    BY DEF Init, RecInit, Rows
  <2>6. KnownInv
    <3>1. Known = 1 .. 0 /\ 0 \in 0 .. MaxRecs
      BY <2>5, RecoveriesAssumption DEF Known
    <3> QED
      BY <2>5, <3>1 DEF KnownInv
  <2>7. TreeInv
    BY <2>5 DEF TreeInv
  <2>8. CountInv /\ OneActiveTask
    BY DEF Init, TaskInit, CountInv, OneActiveTask, Active
  <2> QED
    BY <2>2, <2>3, <2>4, <2>6, <2>7, <2>8 DEF TypeOK
<1>2. Inv /\ [Next]_vars => Inv'
  <2> SUFFICES ASSUME Inv, [Next]_vars PROVE Inv'
    OBVIOUS
  <2>k. ASSUME UNCHANGED <<taskvars, crashes>>
        PROVE  TaskTypeOK' /\ CountInv' /\ OneActiveTask' /\ crashes' \in 0 .. MaxCrashes
    BY <2>k DEF taskvars, TypeOK, TaskTypeOK, CountInv, OneActiveTask, Active
  <2>s. ASSUME UNCHANGED <<store, process>>, temps' \subseteq Requests, open' \subseteq Requests
        PROVE  RecTypeOK' /\ KnownInv' /\ TreeInv'
    <3>1. Rows' = Rows
      BY <2>s DEF Rows, store
    <3> QED
      BY <2>s, <3>1
      DEF store, process, TypeOK, RecTypeOK, KnownInv, Known, TreeInv, Stands
  <2>1. CASE RecNext /\ UNCHANGED <<taskvars, crashes>>
    BY <2>1, <2>k, RecStep DEF TypeOK
  <2>2. CASE BrowseNext /\ UNCHANGED <<taskvars, crashes>>
    <3>1. ASSUME NEW q \in Requests, Connects(q) \/ Ends(q)
          PROVE  UNCHANGED <<store, process>> /\ temps' \subseteq Requests /\ open' \subseteq Requests
      BY <3>1 DEF Connects, Ends, AfterFailure, TypeOK, RecTypeOK
    <3>2. UNCHANGED <<store, process>> /\ temps' \subseteq Requests /\ open' \subseteq Requests
      BY <2>2, <3>1
      DEF BrowseNext, list_mailboxes, list_messages, search_messages,
          workspace_search, resolve_uids_for_account, Requests, Bare, Guarded
    <3> QED
      BY <2>2, <2>k, <2>s, <3>2 DEF TypeOK
  <2>3. CASE TaskNext /\ UNCHANGED <<recvars, crashes>>
    <3>1. RecTypeOK' /\ KnownInv' /\ TreeInv'
      BY <2>s, <2>3 DEF recvars, TypeOK, RecTypeOK
    <3>2. TaskTypeOK' /\ CountInv' /\ OneActiveTask' /\ crashes' = crashes
      BY <2>3, TaskRows
    <3> QED
      BY <3>1, <3>2 DEF TypeOK
  <2>4. CASE Crash
    <3>1. /\ crashes' \in 0 .. MaxCrashes /\ crashes' # 0
      BY <2>4, WorkspaceAssumption DEF Crash, TypeOK
    <3>2. /\ thread \in [Tasks -> Thread] /\ task' = task /\ live' = {}
          /\ thread' = [t \in Tasks |-> [thread[t] EXCEPT !.alive = FALSE]]
      BY <2>4 DEF Crash, TasksDie, TypeOK, TaskTypeOK
    <3>3. /\ thread' \in [Tasks -> Thread]
          /\ \A t \in Tasks : /\ thread'[t].errors = thread[t].errors
                             /\ thread'[t].i = thread[t].i
      BY <3>2 DEF Thread
    <3>4. TaskTypeOK' /\ CountInv' /\ OneActiveTask'
      BY <3>1, <3>2, <3>3 DEF TypeOK, TaskTypeOK, CountInv, OneActiveTask, Active
    <3>5. /\ making' = {} /\ del' = [r \in Recs |-> "no"] /\ sweep' = NoSweep
          /\ open' = {} /\ temps' \subseteq temps /\ UNCHANGED store
      BY <2>4 DEF Crash, RecDies
    <3>6. Rows' = Rows
      BY <3>5 DEF Rows, store
    <3>7. RecTypeOK'
      BY <3>5 DEF TypeOK, RecTypeOK, NoSweep, store
    <3>8. KnownInv' /\ TreeInv'
      BY <3>5, <3>6 DEF KnownInv, Known, TreeInv, Stands, store
    <3> QED
      BY <3>1, <3>4, <3>7, <3>8 DEF TypeOK
  <2>5. CASE UNCHANGED vars
    BY <2>5, <2>k, <2>s DEF vars, recvars, TypeOK, RecTypeOK
  <2> QED
    BY <2>1, <2>2, <2>3, <2>4, <2>5 DEF Next
<1> QED
  BY <1>1, <1>2, PTL DEF Spec

(* Of each type at most one task is active, with a thread unless the process
   died, and a completed one has failed for no user. *)
THEOREM OneTask == Spec => []OneActiveTask
<1> QED
  BY WorkspaceTypes, PTL

(* No directory survives the row it was made for, unless its removal failed
   or it was removed while restic wrote to it; also when two recoveries share
   a directory. *)
THEOREM NoTreesLeft == Spec => []NoOrphanTrees
<1>1. TreeInv => NoOrphanTrees
  BY DEF TreeInv, Stands, NoOrphanTrees
<1> QED
  BY <1>1, WorkspaceTypes, PTL

(* A ready recovery that nobody has begun to delete has its snapshot on disk,
   when no two recoveries of the account are made in one second: only then is
   the directory that a deletion removes the deleted one's own. *)
THEOREM ReadyKeepsFiles ==
  ASSUME "samesecond" \notin World
  PROVE  Spec => []ReadyHasFiles
<1> DEFINE Goal == DirInv' /\ ReadyHasFiles'
<1>1. Init => DirInv /\ ReadyHasFiles
  BY DEF Init, RecInit, DirInv, ReadyHasFiles, Known, Rows
<1>2. TypeOK /\ KnownInv /\ DirInv /\ ReadyHasFiles /\ [Next]_vars => Goal
  <2> SUFFICES ASSUME TypeOK, KnownInv, DirInv, ReadyHasFiles, [Next]_vars
               PROVE  Goal
    OBVIOUS
  <2>t. /\ rec \in [Recs -> Row] /\ making \subseteq Recs /\ asked \subseteq Recs
        /\ del \in [Recs -> {"no", "marked", "removed"}]
        /\ mail \in [Dirs -> SUBSET Snapshots] /\ Rows \subseteq Recs
    BY DEF TypeOK, RecTypeOK, Rows
  <2>d. \A r \in Recs : rec[r].dir \in Dirs
    BY <2>t DEF Row
  <2>1. ASSUME NEW s \in Snapshots, NEW eph \in BOOLEAN, Begin(s, eph) PROVE Goal
    <3>1. PICK r \in Recs, d \in Dirs :
             /\ r \notin Known /\ Fresh(d)
             /\ rec'[r].status = "restoring" /\ rec'[r].dir = d
             /\ \A q \in Recs : q # r => rec'[q] = rec[q]
             /\ Rows' = Rows \cup {r}
             /\ UNCHANGED <<mail, asked>>
      BY <2>1, Inserted
    <3>2. \A q \in Known : rec[q].dir # d
      BY <3>1 DEF Fresh, Known
    <3>3. Known' = Known \cup {r} /\ Known \subseteq Recs
      BY <3>1, <2>t DEF Known
    <3>4. DirInv'
      BY <3>1, <3>2, <3>3 DEF DirInv
    <3>5. ReadyHasFiles'
      BY <3>1 DEF ReadyHasFiles
    <3> QED
      BY <3>4, <3>5
  <2>2. ASSUME UNCHANGED <<mail, asked>>, Rows' = Rows,
               \A q \in Recs : /\ rec'[q].dir = rec[q].dir /\ rec'[q].snap = rec[q].snap
                               /\ rec'[q].status = "ready" => rec[q].status = "ready"
        PROVE  Goal
    BY <2>2, <2>t DEF DirInv, ReadyHasFiles, Known
  <2>3. ASSUME NEW r \in Recs, Extracted(r) PROVE Goal
    <3>1. PICK ok \in BOOLEAN :
            /\ IF ok THEN mail' = [mail EXCEPT ![rec[r].dir] = @ \cup {rec[r].snap}]
                     ELSE mail' = mail
            /\ rec' = IF r \in Rows THEN [rec EXCEPT ![r].status = Verdict(r, ok)]
                                    ELSE rec
            /\ asked' = asked
      BY <2>3 DEF Extracted
    <3>2. /\ \A d \in Dirs : mail[d] \subseteq mail'[d]
          /\ ok => rec[r].snap \in mail'[rec[r].dir]
      BY <3>1, <2>t, <2>d
    <3>3. /\ Rows' = Rows
          /\ \A q \in Recs : /\ rec'[q].dir = rec[q].dir /\ rec'[q].snap = rec[q].snap
                             /\ q # r => rec'[q].status = rec[q].status
          /\ rec'[r].status = "ready" => ok \/ rec[r].status = "ready"
      <4>1. CASE r \in Rows
        <5>1. Verdict(r, ok) \in {"ready", "failed"} /\ (Verdict(r, ok) = "ready" => ok)
          BY DEF Verdict
        <5>2. /\ rec'[r].status = Verdict(r, ok) /\ rec'[r].dir = rec[r].dir
              /\ rec'[r].snap = rec[r].snap
              /\ \A q \in Recs : q # r => rec'[q] = rec[q]
          BY <3>1, <4>1, <5>1, <2>t, RowSet
        <5> QED
          BY <4>1, <5>1, <5>2 DEF Rows
      <4>2. CASE r \notin Rows
        BY <3>1, <4>2 DEF Rows
      <4> QED
        BY <4>1, <4>2
    <3>4. DirInv'
      BY <3>1, <3>3, <2>t DEF DirInv, Known
    <3>5. ReadyHasFiles'
      BY <3>1, <3>2, <3>3, <2>d DEF ReadyHasFiles
    <3> QED
      BY <3>4, <3>5
  <2>4. ASSUME NEW r \in Recs, Mark(r), mail' = mail PROVE Goal
    <3>1. /\ r \in Rows /\ asked' = asked \cup {r}
          /\ rec' = [rec EXCEPT ![r].status = "deleting"]
      BY <2>4 DEF Mark
    <3>2. /\ rec'[r].status = "deleting" /\ rec'[r].dir = rec[r].dir
          /\ \A q \in Recs : q # r => rec'[q] = rec[q]
      BY <3>1, <2>t, RowSet
    <3>3. Known' = Known
      BY <3>1, <3>2 DEF Known, Rows
    <3>4. DirInv'
      BY <3>2, <3>3, <2>t DEF DirInv, Known
    <3>5. ReadyHasFiles'
      BY <2>4, <3>1, <3>2 DEF ReadyHasFiles
    <3> QED
      BY <3>4, <3>5
  <2>5. ASSUME NEW r \in Recs, TreeRemoved(r) PROVE Goal
    <3>1. /\ del[r] # "no" /\ UNCHANGED <<rec, asked>>
          /\ mail' = mail \/ mail' = [mail EXCEPT ![rec[r].dir] = {}]
      BY <2>5 DEF TreeRemoved
    <3>2. r \in asked
      BY <3>1 DEF KnownInv
    <3>3. \A q \in Recs \ asked : rec[q].status = "ready" => rec[q].dir # rec[r].dir
      BY <3>2 DEF DirInv, Known, Rows
    <3>4. ReadyHasFiles'
      BY <3>1, <3>3, <2>t, <2>d DEF ReadyHasFiles
    <3>5. DirInv'
      BY <3>1 DEF DirInv, Known, Rows
    <3> QED
      BY <3>4, <3>5
  <2>6. ASSUME NEW r \in Recs, RowDropped(r) PROVE Goal
    <3>1. /\ del[r] # "no" /\ rec' = [rec EXCEPT ![r].status = "none"]
          /\ UNCHANGED <<mail, asked>>
      BY <2>6 DEF RowDropped
    <3>2. /\ rec'[r].status = "none" /\ rec'[r].dir = rec[r].dir
          /\ \A q \in Recs : q # r => rec'[q] = rec[q]
      BY <3>1, <2>t, RowSet
    <3>3. Known' = Known
      BY <3>1, <3>2 DEF Known, Rows, KnownInv
    <3>4. DirInv'
      BY <3>2, <3>3, <2>t DEF DirInv, Known
    <3>5. ReadyHasFiles'
      BY <3>1, <3>2 DEF ReadyHasFiles
    <3> QED
      BY <3>4, <3>5
  <2>7. ASSUME NEW r \in Recs, MountFound(r) \/ touch_mount(r) \/ Idles(r) PROVE Goal
    <3>1. /\ UNCHANGED <<mail, asked>>
          /\ \/ rec' = [rec EXCEPT ![r].idle = FALSE]
             \/ rec' = [rec EXCEPT ![r].idle = TRUE]
      BY <2>7 DEF MountFound, touch_mount, Idles
    <3>2. \A q \in Recs : /\ rec'[q].dir = rec[q].dir /\ rec'[q].snap = rec[q].snap
                          /\ rec'[q].status = rec[q].status
      BY <3>1, <2>t, RowSet
    <3>3. Rows' = Rows
      BY <3>2 DEF Rows
    <3> QED
      BY <2>2, <3>1, <3>2, <3>3
  <2>8. ASSUME UNCHANGED <<rec, mail, asked>> PROVE Goal
    BY <2>8, <2>2 DEF Rows
  <2>9. ASSUME NEW r \in Recs, SweepTakes(r) PROVE Goal
    BY <2>4, <2>8, <2>9 DEF SweepTakes
  <2>10. ASSUME NEW s \in Snapshots,
              account_backup_restore(s) \/ account_attachment_restore(s) \/ MountMissing(s)
         PROVE  Goal
    BY <2>1, <2>10 DEF account_backup_restore, account_attachment_restore, MountMissing
  <2>11. ASSUME NEW r \in Recs, account_recovery_delete(r) PROVE Goal
    BY <2>4, <2>11 DEF account_recovery_delete
  <2>12. CASE SweepBegins \/ BrowseNext
    BY <2>8, <2>12
    DEF SweepBegins, BrowseNext, list_mailboxes, list_messages, search_messages,
        workspace_search, resolve_uids_for_account, Connects, Ends, store
  <2>13. CASE UNCHANGED recvars \/ Crash \/ UNCHANGED vars
    BY <2>8, <2>13 DEF Crash, RecDies, vars, recvars, store
  <2> QED
    BY <2>3, <2>5, <2>6, <2>7, <2>9, <2>10, <2>11, <2>12, <2>13 DEF Next, RecNext
<1> QED
  BY <1>1, <1>2, WorkspaceTypes, PTL DEF Spec
=============================================================================
