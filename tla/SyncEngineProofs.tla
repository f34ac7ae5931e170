-------------------------- MODULE SyncEngineProofs --------------------------
(***************************************************************************)
(* Theorems about the sync engine, for every set of accounts, jobs and     *)
(* requests, every number of workers and crashes, and every World.         *)
(***************************************************************************)
EXTENDS SyncEngine, FiniteSetTheorems, TLAPS

(* A partial UPDATE, a cleared pause and a recovery sweep turn account     *)
(* rows into account rows.                                                 *)
LEMMA RowOps ==
  ASSUME NEW r \in Row, NEW s \in Row, NEW n \in Row, NEW stamped \in BOOLEAN
  PROVE  /\ Flush(r, s, n, stamped) \in Row
         /\ NoPause(r) \in Row
         /\ Recovered(r, stamped) \in Row
<1>1. Flush(r, s, n, stamped) \in Row
  BY DEF Row, Flush
<1>2. NoPause(r) \in Row
  BY DEF Row, NoPause
<1>3. Recovered(r, stamped) \in Row
  <2>1. CASE r.sync = "syncing"
    BY <2>1 DEF Row, Recovered
  <2>2. CASE r.sync # "syncing"
    BY <2>2 DEF Row, Recovered
  <2> QED
    BY <2>1, <2>2
<1> QED
  BY <1>1, <1>2, <1>3

(* Every branch of execute_sync_job assigns a valid account row. *)
LEMMA AssignedRow ==
  ASSUME NEW s \in Row, NEW out \in Labels
  PROVE  Assigned(s, out) \in Row
  BY DEF Row, Assigned, NoPause, Paused, Labels

(* The records that rows, workers, threads and the watchdog start from. *)
LEMMA NewRows ==
  /\ NewAccount \in Row
  /\ NoWorker \in Worker
  /\ Idle \in Thread
  /\ NoReap \in [doomed : SUBSET Jobs, redriven : SUBSET Accounts,
                 seen : [Accounts -> Row]]
  BY DEF Row, NewAccount, NoWorker, Worker, Idle, Doing, Thread, NoReap, Exits, Labels

(* What a request or scheduler thread remembers between two steps. *)
LEMMA ThreadRecords ==
  ASSUME NEW at \in {"idle", "cleared", "check", "submit", "stop"},
         NEW a \in Accounts \cup {None}, NEW j \in Jobs \cup {None}
  PROVE  /\ Doing(at, a, j) \in Thread
         /\ Doing(at, a, j).at = at
         /\ Doing(at, a, j).acct = a
         /\ Doing(at, a, j).job = j
  BY DEF Doing, Thread

(* Every variable keeps its type: the base of all that follows. *)
THEOREM TypeInvariant == Spec => []TypeOK
<1>1. Init => TypeOK
  <2> SUFFICES ASSUME Init PROVE TypeOK
    OBVIOUS
  <2>1. /\ acct \in [Accounts -> Row] /\ w \in [Jobs -> Worker]
        /\ ses \in [Threads -> Thread]
        /\ wd \in [doomed : SUBSET Jobs, redriven : SUBSET Accounts,
                   seen : [Accounts -> Row]]
    BY NewRows DEF Init
  <2>2. \A t \in Threads : ses[t].at = "idle"
    BY DEF Init, Idle, Doing
  <2> QED
    BY <2>1, <2>2, SyncAssumption DEF Init, TypeOK, PCs, Active, Closed
<1>2. TypeOK /\ [Next]_vars => TypeOK'
  <2> SUFFICES ASSUME TypeOK, [Next]_vars PROVE TypeOK'
    OBVIOUS
  <2>a. acct \in [Accounts -> Row]
    BY DEF TypeOK
  <2>w. w \in [Jobs -> Worker]
    BY DEF TypeOK
  <2>s. ses \in [Threads -> Thread]
    BY DEF TypeOK
  <2>j. \A t \in Threads : ses[t].at \in {"submit", "stop"} => ses[t].job \in Jobs
    BY DEF TypeOK
  <2>q. queue \in Seq(Jobs)
    BY DEF TypeOK
  <2>x. jstatus \in [Jobs -> {"absent"} \cup Active \cup Closed]
    BY DEF TypeOK
  <2>p. pc \in [Jobs -> PCs]
    BY DEF TypeOK
  <2>r. registered \in SUBSET Jobs
    BY DEF TypeOK
  <2>d. wd \in [doomed : SUBSET Jobs, redriven : SUBSET Accounts,
               seen : [Accounts -> Row]]
    BY DEF TypeOK
  <2>1. ASSUME NEW a \in Accounts, CronFires(a) PROVE TypeOK'
    <3>1. ses' \in [Threads -> Thread]
      BY <2>1, <2>s, SyncAssumption DEF CronFires, Go, Threads, Thread, Doing
    <3>2. \A u \in Threads : ses'[u].at \in {"submit", "stop"}
                           => ses'[u].job \in Jobs
      BY <2>1, <2>s, <2>j DEF CronFires, Go, Threads, Doing
    <3> QED
      BY <2>1, <3>1, <3>2
      DEF CronFires, RestOfTrigger, TypeOK, dbVars, sysVars, workers, procs,
          marks, memVars
  <2>2. ASSUME NEW a \in Accounts, ExpiryClears(a) PROVE TypeOK'
    <3>1. acct' \in [Accounts -> Row]
      BY <2>2, <2>a, RowOps DEF ExpiryClears
    <3>2. ses' \in [Threads -> Thread]
      BY <2>2, <2>s, SyncAssumption DEF ExpiryClears, Go, Threads, Thread, Doing
    <3>3. \A u \in Threads : ses'[u].at \in {"submit", "stop"}
                           => ses'[u].job \in Jobs
      BY <2>2, <2>s, <2>j DEF ExpiryClears, Go, Threads, Doing
    <3> QED
      BY <2>2, <3>1, <3>2, <3>3
      DEF ExpiryClears, RestOfTrigger, TypeOK, dbVars, sysVars, workers, procs,
          marks, memVars
  <2>3. ASSUME NEW a \in Accounts, FlagFlips(a) PROVE TypeOK'
    BY <2>3 DEF FlagFlips, TypeOK, dbVars, sysVars, workers, procs,
          marks, memVars
  <2>4. ASSUME NEW a \in Accounts, PauseElapses(a) PROVE TypeOK'
    <3>1. acct' \in [Accounts -> Row]
      BY <2>4, <2>a DEF PauseElapses, Row
    <3> QED
      BY <2>4, <3>1
      DEF PauseElapses, TypeOK, dbVars, sysVars, workers, procs,
          marks, memVars
  <2>5. ASSUME NEW t \in Requests, NEW a \in Accounts, ManualSync(t, a) PROVE TypeOK'
    <3>1. acct' \in [Accounts -> Row]
      BY <2>5, <2>a, RowOps DEF ManualSync
    <3>2. ses' \in [Threads -> Thread]
      BY <2>5, <2>s DEF ManualSync, Go, Threads, Thread, Doing
    <3>3. \A u \in Threads : ses'[u].at \in {"submit", "stop"}
                           => ses'[u].job \in Jobs
      BY <2>5, <2>s, <2>j DEF ManualSync, Go, Threads, Doing
    <3> QED
      BY <2>5, <3>1, <3>2, <3>3
      DEF ManualSync, RestOfTrigger, TypeOK, dbVars, sysVars, workers, procs,
          marks, memVars
  <2>6. ASSUME NEW t \in Requests, NEW a \in Accounts, SyncAll(t, a) PROVE TypeOK'
    <3>1. ses' \in [Threads -> Thread]
      BY <2>6, <2>s DEF SyncAll, Threads, Thread, Doing
    <3>2. \A u \in Threads : ses'[u].at \in {"submit", "stop"}
                           => ses'[u].job \in Jobs
      BY <2>6, <2>s, <2>j DEF SyncAll, Threads, Doing
    <3> QED
      BY <2>6, <3>1, <3>2
      DEF SyncAll, RestOfTrigger, TypeOK, dbVars, sysVars, workers, procs,
          marks, memVars
  <2>7. ASSUME NEW t \in Requests, NEW a \in Accounts, AgentSync(t, a) PROVE TypeOK'
    <3>1. ses' \in [Threads -> Thread]
      BY <2>7, <2>s DEF AgentSync, Go, Threads, Thread, Doing
    <3>2. \A u \in Threads : ses'[u].at \in {"submit", "stop"}
                           => ses'[u].job \in Jobs
      BY <2>7, <2>s, <2>j DEF AgentSync, Go, Threads, Doing
    <3> QED
      BY <2>7, <3>1, <3>2
      DEF AgentSync, RestOfTrigger, TypeOK, dbVars, sysVars, workers, procs,
          marks, memVars
  <2>8. ASSUME NEW t \in Requests, NEW a \in Accounts, ResumeAfterReauth(t, a) PROVE TypeOK'
    <3>1. [acct[a] EXCEPT !.sync = "idle", !.err = "none"] \in Row
      BY <2>8, <2>a DEF Row
    <3>2. acct' \in [Accounts -> Row]
      BY <2>8, <2>a, <3>1 DEF ResumeAfterReauth
    <3>3. ses' \in [Threads -> Thread]
      BY <2>8, <2>s DEF ResumeAfterReauth, Go, Threads, Thread, Doing
    <3>4. \A u \in Threads : ses'[u].at \in {"submit", "stop"}
                           => ses'[u].job \in Jobs
      BY <2>8, <2>s, <2>j DEF ResumeAfterReauth, Go, Threads, Doing
    <3> QED
      BY <2>8, <3>1, <3>2, <3>3, <3>4
      DEF ResumeAfterReauth, RestOfTrigger, TypeOK, dbVars, sysVars, workers, procs,
          marks, memVars
  <2>9. ASSUME ExpiryResumes PROVE TypeOK'
    <3>1. "tick" \in Threads /\ ses["tick"].acct \in Accounts \cup {None}
      BY <2>9, <2>s DEF Threads, Thread
    <3>2. ses' \in [Threads -> Thread]
      BY <2>9, <2>s, <3>1, NewRows, ThreadRecords DEF ExpiryResumes, Go, Leave, Idle
    <3>3. \A u \in Threads : ses'[u].at \in {"submit", "stop"}
                           => ses'[u].job \in Jobs
      BY <2>9, <2>s, <2>j, <3>1, ThreadRecords DEF ExpiryResumes, Go, Leave, Idle
    <3> QED
      BY <2>9, <3>1, <3>2, <3>3
      DEF ExpiryResumes, RestOfTrigger, TypeOK, dbVars, sysVars, workers, procs,
          marks, memVars
  <2>10. ASSUME NEW t \in Threads, CheckExisting(t) PROVE TypeOK'
    <3>1. acct' \in [Accounts -> Row]
      <4>1. \A r \in Row : NoPause(r) \in Row
        BY DEF Row, NoPause
      <4>2. acct' = acct \/ acct' = [acct EXCEPT ![ses[t].acct] = NoPause(@)]
        BY <2>10 DEF CheckExisting, Cleared
      <4> QED
        BY <2>a, <4>1, <4>2
    <3>2. ses' \in [Threads -> Thread]
      BY <2>10, <2>s, NewRows DEF CheckExisting, Leave, Thread
    <3>3. \A u \in Threads : ses'[u].at \in {"submit", "stop"}
                           => ses'[u].job \in Jobs
      BY <2>10, <2>s, <2>j DEF CheckExisting, Leave, Idle, Doing, Thread
    <3> QED
      BY <2>10, <3>1, <3>2, <3>3
      DEF CheckExisting, RestOfTrigger, TypeOK, dbVars, sysVars, workers, procs,
          marks, memVars
  <2>11. ASSUME NEW t \in Threads, InsertJob(t) PROVE TypeOK'
    <3>1. acct' \in [Accounts -> Row]
      <4>1. \A r \in Row : NoPause(r) \in Row
        BY DEF Row, NoPause
      <4>2. acct' = acct \/ acct' = [acct EXCEPT ![ses[t].acct] = NoPause(@)]
        BY <2>11 DEF InsertJob, Cleared
      <4> QED
        BY <2>a, <4>1, <4>2
    <3>2. ses' \in [Threads -> Thread]
      <4>1. Idle \in Thread
        BY NewRows
      <4>2. \A j \in Jobs : Doing("submit", None, j) \in Thread
        BY ThreadRecords
      <4> QED
        BY <2>11, <2>s, <4>1, <4>2 DEF InsertJob, FreshJobs, Leave
    <3>3. \A u \in Threads : ses'[u].at \in {"submit", "stop"}
                           => ses'[u].job \in Jobs
      <4>1. \A k \in Jobs : Doing("submit", None, k).job = k
        BY ThreadRecords
      <4>2. Idle.at = "idle"
        BY DEF Idle, Doing
      <4>3. \/ \E k \in Jobs : ses' = [ses EXCEPT ![t] = Doing("submit", None, k)]
            \/ ses' = [ses EXCEPT ![t] = Idle]
        BY <2>11 DEF InsertJob, FreshJobs, Leave
      <4> QED
        BY <2>s, <2>j, <4>1, <4>2, <4>3
    <3>4. jstatus' \in [Jobs -> {"absent"} \cup Active \cup Closed]
      BY <2>11, <2>x DEF InsertJob, Active
    <3> QED
      BY <2>11, <3>1, <3>2, <3>3, <3>4
      DEF InsertJob, TypeOK, dbVars, sysVars, workers, procs,
          marks, memVars
  <2>12. ASSUME NEW t \in Threads, SubmitJob(t) PROVE TypeOK'
    <3>1. queue' \in Seq(Jobs)
      BY <2>12, <2>j, <2>q DEF SubmitJob
    <3>2. ses' \in [Threads -> Thread]
      BY <2>12, <2>s, NewRows DEF SubmitJob, Leave
    <3>3. \A u \in Threads : ses'[u].at \in {"submit", "stop"}
                           => ses'[u].job \in Jobs
      BY <2>12, <2>s, <2>j DEF SubmitJob, Leave, Idle, Doing
    <3> QED
      BY <2>12, <3>1, <3>2, <3>3
      DEF SubmitJob, TypeOK, dbVars, sysVars, workers, procs,
          marks, memVars
  <2>13. ASSUME NEW t \in Threads, StopKills(t) PROVE TypeOK'
    <3>1. ses' \in [Threads -> Thread]
      BY <2>13, <2>s, NewRows DEF StopKills, Leave
    <3>2. \A u \in Threads : ses'[u].at \in {"submit", "stop"}
                           => ses'[u].job \in Jobs
      BY <2>13, <2>s, <2>j DEF StopKills, Leave, Idle, Doing
    <3>3. proc' \in [Jobs -> {"none", "alive", "term"} \cup Exits]
      BY <2>13 DEF StopKills, Signalled, TypeOK
    <3>4. killed' \in [Jobs -> {"no", "asked", "system"}]
      BY <2>13 DEF StopKills, Marked, TypeOK
    <3> QED
      BY <2>13, <3>1, <3>2, <3>3, <3>4
      DEF StopKills, TypeOK, dbVars, sysVars, workers, procs,
          marks, memVars
  <2>14. ASSUME NEW t \in Requests, StopFindsProc(t) PROVE TypeOK'
    <3>1. t \in Threads
      BY <2>14 DEF Threads
    <3>2. ses' \in [Threads -> Thread]
      BY <2>14, <2>s, <2>r, <3>1, ThreadRecords DEF StopFindsProc
    <3>3. \A u \in Threads : ses'[u].at \in {"submit", "stop"}
                           => ses'[u].job \in Jobs
      BY <2>14, <2>s, <2>j, <2>r, <3>1, ThreadRecords DEF StopFindsProc
    <3> QED
      BY <2>14, <3>1, <3>2, <3>3
      DEF StopFindsProc, RestOfTrigger, TypeOK, dbVars, sysVars, workers, procs,
          marks, memVars
  <2>15. ASSUME NEW j \in Jobs, BeginJob(j) PROVE TypeOK'
    <3>1. /\ [acct[AccountOf[j]] EXCEPT !.sync = "syncing"] \in Row
          /\ [acct[AccountOf[j]] EXCEPT !.sync = "error", !.err = "other"] \in Row
      <4>1. acct[AccountOf[j]] \in Row
        BY <2>a, SyncAssumption
      <4>2. [acct[AccountOf[j]] EXCEPT !.sync = "syncing"] \in Row
        BY <4>1 DEF Row
      <4>3. [acct[AccountOf[j]] EXCEPT !.sync = "error", !.err = "other"] \in Row
        BY <4>1 DEF Row
      <4> QED
        BY <4>2, <4>3
    <3>2. acct' \in [Accounts -> Row]
      BY <2>15, <2>a, <3>1 DEF BeginJob
    <3>3. [w[j] EXCEPT !.snap = [acct[AccountOf[j]] EXCEPT !.sync = "syncing"]]
             \in Worker
      BY <2>15, <2>w, <3>1 DEF Worker
    <3>4. w' \in [Jobs -> Worker]
      BY <2>15, <2>w, <3>3 DEF BeginJob
    <3>5. queue' \in Seq(Jobs)
      BY <2>15, <2>q DEF BeginJob
    <3>6. jstatus' \in [Jobs -> {"absent"} \cup Active \cup Closed]
      BY <2>15, <2>x DEF BeginJob, Active, Closed
    <3>7. pc' \in [Jobs -> PCs]
      BY <2>15, <2>p DEF BeginJob, PCs
    <3> QED
      BY <2>15, <3>1, <3>2, <3>3, <3>4, <3>5, <3>6, <3>7
      DEF BeginJob, TypeOK, dbVars, sysVars, workers, procs,
          marks, memVars
  <2>16. ASSUME NEW j \in Jobs, TokenFails(j) PROVE TypeOK'
    <3>1. w[j].snap \in Row /\ acct[AccountOf[j]] \in Row
      BY <2>16, <2>a, <2>w, SyncAssumption DEF Worker
    <3>2. \A state \in {"needs_reauth", "error"} :
           [NoPause(w[j].snap) EXCEPT !.sync = state, !.err = "token"] \in Row
      BY <2>16, <3>1 DEF NoPause, Row
    <3>3. \A state \in {"needs_reauth", "error"} :
           Flush(acct[AccountOf[j]], w[j].snap,
                 [NoPause(w[j].snap) EXCEPT !.sync = state, !.err = "token"],
                 FALSE) \in Row
      BY <2>16, <3>1, <3>2, RowOps
    <3>4. acct' \in [Accounts -> Row]
      BY <2>16, <2>a, <3>3 DEF TokenFails
    <3>5. w' \in [Jobs -> Worker]
      BY <2>16, <2>w, NewRows DEF TokenFails, ThreadEnds
    <3>6. jstatus' \in [Jobs -> {"absent"} \cup Active \cup Closed]
      BY <2>16, <2>x DEF TokenFails, Closed
    <3>7. pc' \in [Jobs -> PCs]
      BY <2>16, <2>p DEF TokenFails, ThreadEnds, PCs
    <3> QED
      BY <2>16, <3>1, <3>2, <3>3, <3>4, <3>5, <3>6, <3>7
      DEF TokenFails, TypeOK, dbVars, sysVars, workers, procs,
          marks, memVars
  <2>17. ASSUME NEW j \in Jobs, PrepEscapes(j) PROVE TypeOK'
    <3>1. w' \in [Jobs -> Worker]
      BY <2>17, <2>w, NewRows DEF PrepEscapes, ThreadEnds
    <3>2. pc' \in [Jobs -> PCs]
      BY <2>17, <2>p DEF PrepEscapes, ThreadEnds, PCs
    <3> QED
      BY <2>17, <3>1, <3>2
      DEF PrepEscapes, TypeOK, dbVars, sysVars, workers, procs,
          marks, memVars
  <2>18. ASSUME NEW j \in Jobs, PrepDone(j) PROVE TypeOK'
    <3>1. acct[AccountOf[j]] \in Row /\ w[j].snap \in Row
      BY <2>18, <2>w, <2>a, SyncAssumption DEF Worker
    <3>2. \A r \in Row, n \in {0, 1} :
           [w[j] EXCEPT !.snap = r, !.left = n] \in Worker
      BY <2>18, <2>w DEF Worker
    <3>3. w' \in [Jobs -> Worker]
      <4>1. PICK reload \in BOOLEAN, n \in {0, 1} :
              w' = [w EXCEPT ![j] =
                     [@ EXCEPT !.snap = IF reload THEN acct[AccountOf[j]]
                                                  ELSE w[j].snap,
                               !.left = n]]
        BY <2>18 DEF PrepDone
      <4> QED
        BY <2>w, <3>1, <3>2, <4>1
    <3>4. live' \in SUBSET Jobs
      BY <2>18 DEF PrepDone, Evicted, TypeOK
    <3>5. pc' \in [Jobs -> PCs]
      BY <2>18, <2>p DEF PrepDone, PCs
    <3> QED
      BY <2>18, <3>1, <3>2, <3>3, <3>4, <3>5
      DEF PrepDone, TypeOK, dbVars, sysVars, workers, procs,
          marks, memVars
  <2>19. ASSUME NEW j \in Jobs, Spawn(j) PROVE TypeOK'
    <3>1. w' \in [Jobs -> Worker]
      BY <2>19, <2>w DEF Spawn, Worker
    <3>2. ses' \in [Threads -> Thread]
      BY <2>19, <2>s DEF Spawn, Thread
    <3>3. \A u \in Threads : ses'[u].at \in {"submit", "stop"}
                           => ses'[u].job \in Jobs
      BY <2>19, <2>s, <2>j DEF Spawn, Thread
    <3>4. pc' \in [Jobs -> PCs]
      BY <2>19, <2>p DEF Spawn, PCs
    <3> QED
      BY <2>19, <3>1, <3>2, <3>3, <3>4
      DEF Spawn, RestOfRun, TypeOK, dbVars, sysVars, workers, procs,
          marks, memVars
  <2>20. ASSUME NEW j \in Jobs, Rearm(j) PROVE TypeOK'
    <3>1. proc' \in [Jobs -> {"none", "alive", "term"} \cup Exits]
      BY <2>20 DEF Rearm, Signalled, TypeOK
    <3>2. killed' \in [Jobs -> {"no", "asked", "system"}]
      BY <2>20 DEF Rearm, Marked, TypeOK
    <3>3. pc' \in [Jobs -> PCs]
      BY <2>20, <2>p DEF Rearm, PCs
    <3> QED
      BY <2>20, <3>1, <3>2, <3>3
      DEF Rearm, RestOfRun, TypeOK, dbVars, sysVars, workers, procs,
          marks, memVars
  <2>21. ASSUME NEW j \in Jobs, DeadlineFires(j) PROVE TypeOK'
    <3>1. proc' \in [Jobs -> {"none", "alive", "term"} \cup Exits]
      BY <2>21 DEF DeadlineFires, Signalled, TypeOK
    <3>2. killed' \in [Jobs -> {"no", "asked", "system"}]
      BY <2>21 DEF DeadlineFires, Marked, TypeOK
    <3> QED
      BY <2>21, <3>1, <3>2
      DEF DeadlineFires, RestOfRun, TypeOK, dbVars, sysVars, workers, procs,
          marks, memVars
  <2>22. ASSUME NEW j \in Jobs, ReadEnds(j) PROVE TypeOK'
    <3>1. w' \in [Jobs -> Worker]
      BY <2>22, <2>w DEF ReadEnds, Worker, Exits
    <3>2. pc' \in [Jobs -> PCs]
      BY <2>22, <2>p DEF ReadEnds, PCs
    <3> QED
      BY <2>22, <3>1, <3>2
      DEF ReadEnds, RestOfRun, TypeOK, dbVars, sysVars, workers, procs,
          marks, memVars
  <2>23. ASSUME NEW j \in Jobs, Reconcile(j) PROVE TypeOK'
    <3>1. \A n \in {0, 1} :
           [w[j] EXCEPT !.retried = TRUE, !.left = n] \in Worker
      BY <2>23, <2>w DEF Worker
    <3>2. w' \in [Jobs -> Worker]
      BY <2>23, <2>w, <3>1 DEF Reconcile
    <3>3. pc' \in [Jobs -> PCs]
      BY <2>23, <2>p DEF Reconcile, PCs
    <3> QED
      BY <2>23, <3>1, <3>2, <3>3
      DEF Reconcile, RestOfRun, TypeOK, dbVars, sysVars, workers, procs,
          marks, memVars
  <2>24. ASSUME NEW j \in Jobs, WorkerRaises(j) PROVE TypeOK'
    <3>1. w' \in [Jobs -> Worker]
      BY <2>24, <2>w DEF WorkerRaises, Worker
    <3>2. proc' \in [Jobs -> {"none", "alive", "term"} \cup Exits]
      BY <2>24 DEF WorkerRaises, TypeOK
    <3>3. pc' \in [Jobs -> PCs]
      BY <2>24, <2>p DEF WorkerRaises, PCs
    <3> QED
      BY <2>24, <3>1, <3>2, <3>3
      DEF WorkerRaises, RestOfRun, TypeOK, dbVars, sysVars, workers, procs,
          marks, memVars
  <2>25. ASSUME NEW j \in Jobs, DecideVerdict(j) PROVE TypeOK'
    <3>1. Verdict(j) \in Labels
      BY <2>25, <2>w DEF Verdict, Worker, Exits, Labels
    <3>2. \A out \in Labels : [w[j] EXCEPT !.out = out] \in Worker
      BY <2>25, <2>w DEF Worker
    <3>3. "raised" \in Labels
      BY <2>25 DEF Labels
    <3>4. w' \in [Jobs -> Worker]
      BY <2>25, <2>w, <3>1, <3>2, <3>3, NewRows DEF DecideVerdict, ThreadEnds
    <3>5. pc' \in [Jobs -> PCs]
      BY <2>25, <2>p DEF DecideVerdict, ThreadEnds, PCs
    <3>6. killed' \in [Jobs -> {"no", "asked", "system"}]
      BY <2>25 DEF DecideVerdict, marks, TypeOK
    <3>7. budgetStop' \in SUBSET Jobs /\ deadline' \in SUBSET Jobs
      BY <2>25 DEF DecideVerdict, DropMarkers, marks, TypeOK
    <3> QED
      BY <2>25, <3>1, <3>2, <3>3, <3>4, <3>5, <3>6, <3>7
      DEF DecideVerdict, RestOfRun, TypeOK, dbVars, sysVars, workers, procs,
          marks, memVars
  <2>26. ASSUME NEW j \in Jobs, CommitVerdict(j) PROVE TypeOK'
    <3>1. w[j].snap \in Row /\ w[j].out \in Labels
      BY <2>26, <2>w DEF Worker
    <3>2. acct[AccountOf[j]] \in Row
      BY <2>26, <2>a, SyncAssumption
    <3>3. Assigned(w[j].snap, w[j].out) \in Row
      BY <2>26, <3>1, AssignedRow
    <3>4. Flush(acct[AccountOf[j]], w[j].snap, Assigned(w[j].snap, w[j].out),
               w[j].out \in Pauses) \in Row
      <4>1. (w[j].out \in Pauses) \in BOOLEAN
        OBVIOUS
      <4> QED
        BY <3>1, <3>2, <3>3, <4>1, RowOps
    <3>5. acct' \in [Accounts -> Row]
      BY <2>26, <2>a, <3>4 DEF CommitVerdict
    <3>6. w' \in [Jobs -> Worker]
      BY <2>26, <2>w, NewRows DEF CommitVerdict, ThreadEnds
    <3>7. pc' \in [Jobs -> PCs]
      BY <2>26, <2>p DEF CommitVerdict, ThreadEnds, PCs
    <3>8. jstatus' \in [Jobs -> {"absent"} \cup Active \cup Closed]
      BY <2>26, <2>x DEF CommitVerdict, StatusOf, Closed
    <3> QED
      BY <2>26, <3>1, <3>2, <3>3, <3>4, <3>5, <3>6, <3>7, <3>8
      DEF CommitVerdict, DropMarkers, TypeOK, dbVars, sysVars, workers, procs,
          marks, memVars
  <2>27. ASSUME NEW j \in Jobs, FinishSuccess(j) PROVE TypeOK'
    <3>1. w' \in [Jobs -> Worker]
      BY <2>27, <2>w, NewRows DEF FinishSuccess, ThreadEnds
    <3>2. pc' \in [Jobs -> PCs]
      BY <2>27, <2>p DEF FinishSuccess, ThreadEnds, PCs
    <3> QED
      BY <2>27, <3>1, <3>2
      DEF FinishSuccess, RestOfRun, DropMarkers, TypeOK, dbVars, sysVars,
          workers, procs, marks, memVars
  <2>28. ASSUME NEW j \in Jobs, ProcExits(j) PROVE TypeOK'
    <3>1. proc' \in [Jobs -> {"none", "alive", "term"} \cup Exits]
      BY <2>28 DEF ProcExits, TypeOK, Exits
    <3> QED
      BY <2>28, <3>1
      DEF ProcExits, RestOfProc, TypeOK, dbVars, sysVars, workers, procs,
          marks, memVars
  <2>29. ASSUME NEW j \in Jobs, ProcHangs(j) PROVE TypeOK'
    BY <2>29 DEF ProcHangs, RestOfProc, TypeOK, dbVars, sysVars, workers, procs,
          marks, memVars
  <2>30. ASSUME NEW j \in Jobs, SamplerTick(j) PROVE TypeOK'
    <3>1. spent' \in SUBSET Accounts
      <4>1. AccountOf[j] \in Accounts
        BY SyncAssumption
      <4>2. PICK over \in BOOLEAN :
              spent' = IF over THEN spent \cup {AccountOf[j]} ELSE spent
        BY <2>30 DEF SamplerTick
      <4> QED
        BY <4>1, <4>2 DEF TypeOK
    <3>2. sampler' \in [Jobs -> {"off", "on", "over", "marked"}]
      BY <2>30 DEF SamplerTick, TypeOK
    <3>3. live' \in SUBSET Jobs
      BY <2>30 DEF SamplerTick, TypeOK
    <3> QED
      BY <2>30, <3>1, <3>2, <3>3
      DEF SamplerTick, RestOfSampler, TypeOK, dbVars, sysVars, workers, procs,
          marks, memVars
  <2>31. ASSUME NEW j \in Jobs, SamplerMarks(j) PROVE TypeOK'
    BY <2>31 DEF SamplerMarks, RestOfSampler, TypeOK, dbVars, sysVars, workers, procs,
          marks, memVars
  <2>32. ASSUME NEW j \in Jobs, SamplerStops(j) PROVE TypeOK'
    <3>1. proc' \in [Jobs -> {"none", "alive", "term"} \cup Exits]
      BY <2>32 DEF SamplerStops, Signalled, TypeOK
    <3>2. killed' \in [Jobs -> {"no", "asked", "system"}]
      BY <2>32 DEF SamplerStops, Marked, TypeOK
    <3>3. sampler' \in [Jobs -> {"off", "on", "over", "marked"}]
      BY <2>32 DEF SamplerStops, TypeOK
    <3> QED
      BY <2>32, <3>1, <3>2, <3>3
      DEF SamplerStops, RestOfSampler, TypeOK, dbVars, sysVars, workers, procs,
          marks, memVars
  <2>33. ASSUME WatchdogDooms PROVE TypeOK'
    <3>1. \A D \in SUBSET Jobs : {AccountOf[j] : j \in D} \subseteq Accounts
      BY <2>33, SyncAssumption
    <3>2. \A D \in SUBSET Jobs, H \in SUBSET Accounts :
           [doomed |-> D, redriven |-> {a \in H : Redrives(a)},
            seen |-> [a \in Accounts |-> IF a \in H THEN acct[a] ELSE NewAccount]]
           \in [doomed : SUBSET Jobs, redriven : SUBSET Accounts,
               seen : [Accounts -> Row]]
      BY <2>33, <2>a, NewRows
    <3>3. wd' \in [doomed : SUBSET Jobs, redriven : SUBSET Accounts,
                  seen : [Accounts -> Row]]
      <4>1. PICK D \in SUBSET {j \in Jobs : Stalled(j)} :
              wd' = [doomed |-> D,
                     redriven |-> {a \in {AccountOf[j] : j \in D} : Redrives(a)},
                     seen |-> [a \in Accounts |->
                                 IF a \in {AccountOf[j] : j \in D} THEN acct[a]
                                 ELSE NewAccount]]
        BY <2>33 DEF WatchdogDooms
      <4> QED
        BY <3>1, <3>2, <4>1
    <3>4. killed' \in [Jobs -> {"no", "asked", "system"}]
      BY <2>33 DEF WatchdogDooms, TypeOK
    <3> QED
      BY <2>33, <3>1, <3>2, <3>3, <3>4
      DEF WatchdogDooms, TypeOK, dbVars, sysVars, workers, procs,
          marks, memVars
  <2>34. ASSUME WatchdogCommits PROVE TypeOK'
    <3>1. \A a \in Accounts : wd.seen[a] \in Row /\ acct[a] \in Row
      BY <2>34, <2>a, <2>d
    <3>2. \A a \in Accounts, b \in BOOLEAN :
           Flush(acct[a], wd.seen[a], Recovered(wd.seen[a], b), b) \in Row
      BY <2>34, <3>1, RowOps
    <3>3. acct' \in [Accounts -> Row]
      <4>1. \A a \in Accounts : (a \in wd.redriven) \in BOOLEAN
        OBVIOUS
      <4>2. \A a \in Accounts :
              Flush(acct[a], wd.seen[a], Recovered(wd.seen[a], a \in wd.redriven),
                    a \in wd.redriven) \in Row
        BY <3>2, <4>1
      <4> QED
        BY <2>34, <3>1, <4>2 DEF WatchdogCommits
    <3>4. jstatus' \in [Jobs -> {"absent"} \cup Active \cup Closed]
      BY <2>34, <2>x DEF WatchdogCommits, Closed
    <3>5. wd' \in [doomed : SUBSET Jobs, redriven : SUBSET Accounts,
                  seen : [Accounts -> Row]]
      BY <2>34, NewRows DEF WatchdogCommits
    <3> QED
      BY <2>34, <3>1, <3>2, <3>3, <3>4, <3>5
      DEF WatchdogCommits, TypeOK, dbVars, sysVars, workers, procs,
          marks, memVars
  <2>35. ASSUME NewDay PROVE TypeOK'
    BY <2>35 DEF NewDay, TypeOK, dbVars, sysVars, workers, procs,
          marks, memVars
  <2>36. ASSUME Crash PROVE TypeOK'
    <3>1. ses' \in [Threads -> Thread]
      BY <2>36, NewRows DEF Crash
    <3>2. \A u \in Threads : ses'[u].at \in {"submit", "stop"}
                           => ses'[u].job \in Jobs
      BY <2>36 DEF Crash, Idle, Doing
    <3>3. w' \in [Jobs -> Worker]
      BY <2>36, NewRows DEF Crash
    <3>4. wd' \in [doomed : SUBSET Jobs, redriven : SUBSET Accounts,
                  seen : [Accounts -> Row]]
      BY <2>36, NewRows DEF Crash
    <3>5. pc' \in [Jobs -> PCs]
      BY <2>36 DEF Crash, PCs
    <3>6. crashes' \in 0 .. MaxCrashes
      BY <2>36, SyncAssumption DEF Crash, TypeOK
    <3>7. queue' \in Seq(Jobs)
      BY <2>36 DEF Crash
    <3> QED
      BY <2>36, <3>1, <3>2, <3>3, <3>4, <3>5, <3>6, <3>7
      DEF Crash, TypeOK, dbVars, sysVars, workers, procs,
          marks, memVars
  <2>37. ASSUME BootSweep PROVE TypeOK'
    <3>1. acct' \in [Accounts -> Row]
      BY <2>37, <2>a, RowOps DEF BootSweep, Zombies, Redrives
    <3>2. jstatus' \in [Jobs -> {"absent"} \cup Active \cup Closed]
      BY <2>37, <2>x DEF BootSweep, Zombies, Closed
    <3> QED
      BY <2>37, <3>1, <3>2
      DEF BootSweep, Zombies, TypeOK, dbVars, sysVars, workers, procs,
          marks, memVars
  <2>38. CASE UNCHANGED vars
    BY <2>38 DEF vars, TypeOK, dbVars, sysVars, workers, procs,
          marks, memVars
  <2> QED
    BY <2>1, <2>2, <2>3, <2>4, <2>5, <2>6, <2>7, <2>8, <2>9, <2>10, <2>11,
       <2>12, <2>13, <2>14, <2>15, <2>16, <2>17, <2>18, <2>19, <2>20, <2>21,
       <2>22, <2>23, <2>24, <2>25, <2>26, <2>27, <2>28, <2>29, <2>30, <2>31,
       <2>32, <2>33, <2>34, <2>35, <2>36, <2>37, <2>38
    DEF Next, Trigger, ThreadStep, WorkerStep, SamplerStep, Threads
<1> QED
  BY <1>1, <1>2, PTL DEF Spec

---------------------------------------------------------------------------
(* Inductive invariants. *)

\* A job of which a worker or the watchdog has got hold.
Started(j) == jstatus[j] \in {"running"} \cup Closed

\* The sweep meets no thread.  An id is in the executor's queue, or held by
\* the thread that will put it there, only while its row is pending, and only
\* once; BeginJob, which does not look at the row's status, depends on it.
LifecycleInv ==
  /\ phase = "boot" => /\ queue = <<>>
                       /\ wd.doomed = {}
                       /\ \A j \in Jobs : pc[j] = "none"
                       /\ \A t \in Threads : ses[t].at = "idle"
  /\ \A i \in 1 .. Len(queue) : jstatus[queue[i]] = "pending"
  /\ \A i, k \in 1 .. Len(queue) : queue[i] = queue[k] => i = k
  /\ \A t \in Threads : ses[t].at = "submit" =>
       /\ jstatus[ses[t].job] = "pending"
       /\ \A i \in 1 .. Len(queue) : queue[i] # ses[t].job
       /\ \A u \in Threads :
            ses[u].at = "submit" /\ ses[u].job = ses[t].job => u = t
  /\ \A j \in Jobs : pc[j] # "none" \/ j \in wd.doomed => Started(j)

\* Whoever will close the running job read the account as syncing, and so
\* writes the column when it does.
SyncingInv ==
  \A a \in Accounts : acct[a].sync = "syncing" =>
    \E j \in Jobs :
      /\ AccountOf[j] = a
      /\ jstatus[j] = "running"
      /\ pc[j] # "none" => w[j].snap.sync = "syncing"
      /\ j \in wd.doomed => wd.seen[a].sync = "syncing"

\* At most one thread creates a job, and the guard's answer is still right
\* when it inserts.
GuardInv ==
  /\ \A t, u \in Threads :
       ses[t].at \notin {"idle", "stop"} /\ ses[u].at \notin {"idle", "stop"}
         => t = u
  /\ \A t \in Threads : ses[t].at = "insert" => ActiveJobs(ses[t].acct) = {}

InRun(j) == pc[j] \in {"spawn", "rearm", "read", "reconcile", "join"}

\* A signal of the system comes with a marker that says why.
MarkInv ==
  /\ \A t \in Threads : ses[t].at = "stop" =>
       Started(ses[t].job) /\ pc[ses[t].job] # "prep"
  /\ \A j \in Jobs :
      /\ j \in registered => InRun(j)
      /\ pc[j] \in {"rearm", "read"} => j \in registered
      /\ sampler[j] = "marked" /\ InRun(j) => j \in budgetStop
      /\ killed[j] = "system" /\ InRun(j) => j \in budgetStop \cup deadline
      /\ pc[j] = "prep" => killed[j] = "no" /\ sampler[j] = "off"
      /\ killed[j] # "no" \/ sampler[j] # "off" => Started(j)

\* The sampler runs inside its worker's run, when the join waits for it.
SamplerInv ==
  \A j \in Jobs :
    /\ sampler[j] # "off" => InRun(j)
    /\ j \in budgetStop \cup deadline => InRun(j) \/ pc[j] \in {"commit", "post"}

---------------------------------------------------------------------------
(* The life of a job. *)

\* A step that closes, starts or creates no job and hands none over.
Quiet ==
  /\ jstatus' = jstatus /\ queue' = queue /\ phase' = phase
  /\ wd'.doomed = wd.doomed
  /\ \A j \in Jobs : pc'[j] # "none" => pc[j] # "none"
  /\ \A t \in Threads : ses'[t].at = "submit" <=> ses[t].at = "submit"
  /\ \A t \in Threads : ses'[t].at = "submit" => ses'[t].job = ses[t].job
  /\ phase = "boot" => \A t \in Threads : ses'[t].at = "idle"

Acts ==
  \/ Quiet
  \/ \E t \in Threads : InsertJob(t) \/ SubmitJob(t)
  \/ \E j \in Jobs : BeginJob(j) \/ TokenFails(j) \/ CommitVerdict(j)
  \/ WatchdogDooms \/ WatchdogCommits \/ Crash \/ BootSweep

(* Besides the steps listed in Acts, no operation of the engine creates,   *)
(* queues, starts or closes a job.                                         *)
LEMMA StepKinds ==
  ASSUME TypeOK, LifecycleInv, [Next]_vars
  PROVE  Acts
<1> USE DEF Quiet, dbVars, sysVars, workers, procs, marks, memVars
<1>s. /\ ses \in [Threads -> Thread] /\ pc \in [Jobs -> PCs]
      /\ Requests \subseteq Threads /\ "cron" \in Threads /\ "tick" \in Threads
      /\ phase \in {"boot", "up"}
  BY DEF TypeOK, Threads
<1>b. phase = "boot" => /\ \A j \in Jobs : pc[j] = "none"
                        /\ \A t \in Threads : ses[t].at = "idle"
  BY DEF LifecycleInv
<1>d. /\ \A at, a, j : Doing(at, a, j).at = at
      /\ \A at, a, j : Doing(at, a, j).job = j
  BY DEF Doing
<1>1. ASSUME NEW a \in Accounts, CronFires(a) PROVE Quiet
  BY <1>1, <1>s, <1>b, <1>d DEF CronFires, MayStart, Go, RestOfTrigger
<1>2. ASSUME NEW a \in Accounts, ExpiryClears(a) PROVE Quiet
  BY <1>2, <1>s, <1>b, <1>d DEF ExpiryClears, MayStart, Go, RestOfTrigger
<1>3. ASSUME NEW a \in Accounts, FlagFlips(a) PROVE Quiet
  BY <1>3, <1>s, <1>b DEF FlagFlips
<1>4. ASSUME NEW a \in Accounts, PauseElapses(a) PROVE Quiet
  BY <1>4, <1>s, <1>b DEF PauseElapses
<1>5. ASSUME NEW t \in Requests, NEW a \in Accounts, ManualSync(t, a) PROVE Quiet
  BY <1>5, <1>s, <1>b, <1>d DEF ManualSync, MayStart, Go, RestOfTrigger
<1>6. ASSUME NEW t \in Requests, NEW a \in Accounts, SyncAll(t, a) PROVE Quiet
  BY <1>6, <1>s, <1>b, <1>d DEF SyncAll, MayStart, Doing, RestOfTrigger
<1>7. ASSUME NEW t \in Requests, NEW a \in Accounts, AgentSync(t, a) PROVE Quiet
  BY <1>7, <1>s, <1>b, <1>d DEF AgentSync, MayStart, Go, RestOfTrigger
<1>8. ASSUME NEW t \in Requests, NEW a \in Accounts, ResumeAfterReauth(t, a) PROVE Quiet
  BY <1>8, <1>s, <1>b, <1>d DEF ResumeAfterReauth, MayStart, Go, RestOfTrigger
<1>9. ASSUME ExpiryResumes PROVE Quiet
  BY <1>9, <1>s, <1>b, <1>d DEF ExpiryResumes, Go, Leave, Idle, RestOfTrigger
<1>10. ASSUME NEW t \in Threads, CheckExisting(t) PROVE Quiet
  <2>1. /\ [ses[t] EXCEPT !.at = "insert"].at = "insert"
        /\ ses[t].at = "check"
    BY <1>10, <1>s DEF CheckExisting, Thread
  <2>2. \A u \in Threads : \/ ses'[u] = ses[u]
                           \/ u = t /\ ses'[u].at \in {"insert", "idle"}
    <3>1. CASE ses' = [ses EXCEPT ![t].at = "insert"]
      BY <3>1, <1>s, <2>1
    <3>2. CASE Leave(t)
      BY <3>2, <1>s, <1>d DEF Leave, Idle
    <3> QED
      BY <1>10, <3>1, <3>2 DEF CheckExisting
  <2> QED
    BY <1>10, <1>s, <1>b, <2>1, <2>2 DEF CheckExisting, RestOfTrigger
<1>11. ASSUME NEW t \in Threads, StopKills(t) PROVE Quiet
  BY <1>11, <1>s, <1>b, <1>d DEF StopKills, Leave, Idle
<1>12. ASSUME NEW t \in Requests, StopFindsProc(t) PROVE Quiet
  BY <1>12, <1>s, <1>b, <1>d DEF StopFindsProc, RestOfTrigger
<1>13. ASSUME NEW j \in Jobs, PrepEscapes(j) PROVE Quiet
  BY <1>13, <1>s, <1>b DEF PrepEscapes, ThreadEnds
<1>14. ASSUME NEW j \in Jobs, PrepDone(j) PROVE Quiet
  BY <1>14, <1>s, <1>b DEF PrepDone
<1>15. ASSUME NEW j \in Jobs, Spawn(j) PROVE Quiet
  BY <1>15, <1>s, <1>b DEF Spawn, RestOfRun
<1>16. ASSUME NEW j \in Jobs, Rearm(j) PROVE Quiet
  BY <1>16, <1>s, <1>b DEF Rearm, RestOfRun
<1>17. ASSUME NEW j \in Jobs, DeadlineFires(j) PROVE Quiet
  BY <1>17, <1>s, <1>b DEF DeadlineFires, RestOfRun
<1>18. ASSUME NEW j \in Jobs, ReadEnds(j) PROVE Quiet
  BY <1>18, <1>s, <1>b DEF ReadEnds, RestOfRun
<1>19. ASSUME NEW j \in Jobs, Reconcile(j) PROVE Quiet
  BY <1>19, <1>s, <1>b DEF Reconcile, RestOfRun
<1>20. ASSUME NEW j \in Jobs, WorkerRaises(j) PROVE Quiet
  BY <1>20, <1>s, <1>b DEF WorkerRaises, RestOfRun
<1>21. ASSUME NEW j \in Jobs, DecideVerdict(j) PROVE Quiet
  BY <1>21, <1>s, <1>b DEF DecideVerdict, ThreadEnds, RestOfRun
<1>22. ASSUME NEW j \in Jobs, FinishSuccess(j) PROVE Quiet
  BY <1>22, <1>s, <1>b DEF FinishSuccess, ThreadEnds, RestOfRun
<1>23. ASSUME NEW j \in Jobs, ProcExits(j) PROVE Quiet
  BY <1>23, <1>s, <1>b DEF ProcExits, RestOfProc
<1>24. ASSUME NEW j \in Jobs, ProcHangs(j) PROVE Quiet
  BY <1>24, <1>s, <1>b DEF ProcHangs, RestOfProc
<1>25. ASSUME NEW j \in Jobs, SamplerTick(j) PROVE Quiet
  BY <1>25, <1>s, <1>b DEF SamplerTick, RestOfSampler
<1>26. ASSUME NEW j \in Jobs, SamplerMarks(j) PROVE Quiet
  BY <1>26, <1>s, <1>b DEF SamplerMarks, RestOfSampler
<1>27. ASSUME NEW j \in Jobs, SamplerStops(j) PROVE Quiet
  BY <1>27, <1>s, <1>b DEF SamplerStops, RestOfSampler
<1>28. ASSUME NewDay PROVE Quiet
  BY <1>28, <1>s, <1>b DEF NewDay
<1>29. ASSUME UNCHANGED vars PROVE Quiet
  BY <1>29, <1>b DEF vars
<1> HIDE DEF Quiet
<1> QED
  BY <1>1, <1>2, <1>3, <1>4, <1>5, <1>6, <1>7, <1>8, <1>9, <1>10, <1>11,
     <1>12, <1>13, <1>14, <1>15, <1>16, <1>17, <1>18, <1>19, <1>20, <1>21,
     <1>22, <1>23, <1>24, <1>25, <1>26, <1>27, <1>28, <1>29
  DEF Acts, Next, Trigger, ThreadStep, WorkerStep, SamplerStep, Threads

(* The executor's queue, the threads about to submit, the workers and the  *)
(* watchdog stay consistent with the job rows in every step.               *)
LEMMA LifecycleStep ==
  ASSUME TypeOK, LifecycleInv, [Next]_vars
  PROVE  LifecycleInv'
<1> USE DEF Started, Active, Closed
<1>t. /\ ses \in [Threads -> Thread] /\ queue \in Seq(Jobs)
      /\ jstatus \in [Jobs -> {"absent"} \cup Active \cup Closed]
      /\ pc \in [Jobs -> PCs] /\ phase \in {"boot", "up"}
      /\ wd.doomed \subseteq Jobs
  BY DEF TypeOK
<1>j. \A t \in Threads : ses[t].at = "submit" => ses[t].job \in Jobs
  BY DEF TypeOK
<1>d. /\ \A at, a, j : Doing(at, a, j).at = at
      /\ \A at, a, j : Doing(at, a, j).job = j
  BY DEF Doing
<1>1. CASE Quiet
  BY <1>1, <1>t, <1>j DEF Quiet, LifecycleInv
<1>2. ASSUME NEW t \in Threads, InsertJob(t) PROVE LifecycleInv'
  <2>1. CASE UNCHANGED jstatus /\ Leave(t)
    BY <1>2, <2>1, <1>t, <1>j, <1>d DEF InsertJob, Leave, Idle, LifecycleInv,
       workers, sysVars
  <2>2. ASSUME NEW j \in Jobs, jstatus[j] = "absent",
               jstatus' = [jstatus EXCEPT ![j] = "pending"],
               ses' = [ses EXCEPT ![t] = Doing("submit", None, j)]
        PROVE  LifecycleInv'
    BY <1>2, <2>2, <1>t, <1>j, <1>d DEF InsertJob, LifecycleInv, workers, sysVars
  <2> QED
    BY <1>2, <2>1, <2>2 DEF InsertJob, FreshJobs
<1>3. ASSUME NEW t \in Threads, SubmitJob(t) PROVE LifecycleInv'
  BY <1>3, <1>t, <1>j, <1>d DEF SubmitJob, Leave, Idle, LifecycleInv, dbVars,
     sysVars
<1>4. ASSUME NEW j \in Jobs, BeginJob(j) PROVE LifecycleInv'
  <2>1. /\ queue # <<>> /\ j = queue[1] /\ queue' = Tail(queue)
        /\ phase = "up" /\ phase' = "up" /\ ses' = ses /\ wd' = wd
    BY <1>4, <1>t DEF BeginJob, sysVars
  <2>2. /\ Len(queue) >= 1
        /\ Len(queue') = Len(queue) - 1
        /\ \A i \in 1 .. Len(queue') : queue'[i] = queue[i + 1]
    BY <2>1, <1>t
  <2>3. /\ jstatus[j] = "pending"
        /\ \A i \in 1 .. Len(queue') : queue'[i] # j
        /\ \A t \in Threads : ses[t].at = "submit" => ses[t].job # j
    BY <2>1, <2>2, <1>t DEF LifecycleInv
  <2>4. /\ jstatus'[j] \in {"running", "failed"}
        /\ \A k \in Jobs \ {j} : jstatus'[k] = jstatus[k] /\ pc'[k] = pc[k]
    BY <1>4, <1>t DEF BeginJob
  <2>5. \A i \in 1 .. Len(queue') : queue'[i] \in Jobs /\ jstatus'[queue'[i]] = "pending"
    <3> TAKE i \in 1 .. Len(queue')
    <3>1. i + 1 \in 1 .. Len(queue) /\ queue'[i] = queue[i + 1]
      BY <2>2, <1>t
    <3>2. queue[i + 1] \in Jobs /\ jstatus[queue[i + 1]] = "pending"
      BY <3>1, <1>t DEF LifecycleInv
    <3> QED
      BY <2>3, <2>4, <3>1, <3>2
  <2>6. \A i, k \in 1 .. Len(queue') : queue'[i] = queue'[k] => i = k
    BY <2>2, <1>t DEF LifecycleInv
  <2>7. \A t \in Threads : ses[t].at = "submit" =>
          /\ jstatus'[ses[t].job] = "pending"
          /\ \A i \in 1 .. Len(queue') : queue'[i] # ses[t].job
    BY <2>2, <2>3, <2>4, <1>t, <1>j DEF LifecycleInv
  <2> QED
    BY <2>1, <2>3, <2>4, <2>5, <2>6, <2>7 DEF LifecycleInv
<1>5. ASSUME NEW j \in Jobs, TokenFails(j) PROVE LifecycleInv'
  BY <1>5, <1>t, <1>j DEF TokenFails, ThreadEnds, LifecycleInv, sysVars
<1>6. ASSUME NEW j \in Jobs, CommitVerdict(j) PROVE LifecycleInv'
  BY <1>6, <1>t, <1>j DEF CommitVerdict, StatusOf, ThreadEnds, LifecycleInv, sysVars
<1>7. CASE WatchdogDooms
  BY <1>7, <1>t, <1>j DEF WatchdogDooms, Stalled, LifecycleInv, dbVars, sysVars,
     workers
<1>8. CASE WatchdogCommits
  BY <1>8, <1>t, <1>j DEF WatchdogCommits, NoReap, LifecycleInv, sysVars, workers
<1>9. CASE Crash
  BY <1>9, <1>t, <1>d DEF Crash, NoReap, Idle, LifecycleInv
<1>10. CASE BootSweep
  BY <1>10, <1>t, <1>j DEF BootSweep, Zombies, LifecycleInv, memVars, workers
<1> QED
  BY StepKinds, <1>1, <1>2, <1>3, <1>4, <1>5, <1>6, <1>7, <1>8, <1>9, <1>10
  DEF Acts

(* A job id waits for the executor only while its row is pending, and only *)
(* once; a worker or the watchdog holds only jobs that were started; the   *)
(* boot sweep runs before any of them.                                     *)
THEOREM Lifecycle == Spec => []LifecycleInv
<1>1. Init => LifecycleInv
  BY DEF Init, LifecycleInv, Idle, Doing, NoReap
<1>2. TypeOK /\ LifecycleInv /\ [Next]_vars => LifecycleInv'
  BY LifecycleStep
<1> QED
  BY <1>1, <1>2, TypeInvariant, PTL DEF Spec

(* A pending row always has somebody who will run it, in spite of crashes  *)
(* and of threads that overlap in create_sync_job.                         *)
THEOREM PendingQueued == Spec => []PendingIsQueued
<1>1. Init => PendingIsQueued
  BY DEF Init, PendingIsQueued
<1>2. ASSUME TypeOK, LifecycleInv, PendingIsQueued, [Next]_vars
      PROVE  PendingIsQueued'
  <2> USE DEF PendingIsQueued, InQueue, Submitting, Active, Closed
  <2>t. /\ ses \in [Threads -> Thread] /\ queue \in Seq(Jobs)
        /\ jstatus \in [Jobs -> {"absent"} \cup Active \cup Closed]
        /\ phase \in {"boot", "up"}
    BY <1>2 DEF TypeOK
  <2>j. \A t \in Threads : ses[t].at = "submit" => ses[t].job \in Jobs
    BY <1>2 DEF TypeOK
  <2>d. /\ \A at, a, j : Doing(at, a, j).at = at
        /\ \A at, a, j : Doing(at, a, j).job = j
    BY DEF Doing
  <2>1. CASE Quiet
    BY <1>2, <2>1, <2>t DEF Quiet
  <2>2. ASSUME NEW t \in Threads, InsertJob(t) PROVE PendingIsQueued'
    BY <1>2, <2>2, <2>t, <2>d DEF InsertJob, FreshJobs, Leave, workers, sysVars
  <2>3. ASSUME NEW t \in Threads, SubmitJob(t) PROVE PendingIsQueued'
    BY <1>2, <2>3, <2>t, <2>j DEF SubmitJob, Leave, dbVars, sysVars
  <2>4. ASSUME NEW j \in Jobs, BeginJob(j) PROVE PendingIsQueued'
    <3>1. /\ queue # <<>> /\ j = queue[1] /\ queue' = Tail(queue)
          /\ phase = "up" /\ ses' = ses
          /\ jstatus'[j] \in {"running", "failed"}
          /\ \A k \in Jobs \ {j} : jstatus'[k] = jstatus[k]
      BY <2>4, <2>t DEF BeginJob
    <3>2. \A i \in 2 .. Len(queue) :
            i - 1 \in 1 .. Len(queue') /\ queue'[i - 1] = queue[i]
      BY <3>1, <2>t
    <3>3. \A i \in 1 .. Len(queue) : i = 1 \/ i \in 2 .. Len(queue)
      BY <2>t
    <3> QED
      BY <1>2, <3>1, <3>2, <3>3
  <2>5. ASSUME NEW j \in Jobs, TokenFails(j) PROVE PendingIsQueued'
    BY <1>2, <2>5, <2>t DEF TokenFails, sysVars
  <2>6. ASSUME NEW j \in Jobs, CommitVerdict(j) PROVE PendingIsQueued'
    BY <1>2, <2>6, <2>t DEF CommitVerdict, StatusOf, sysVars
  <2>7. CASE WatchdogDooms
    BY <1>2, <2>7 DEF WatchdogDooms, dbVars, sysVars, workers
  <2>8. CASE WatchdogCommits
    BY <1>2, <2>8, <2>t DEF WatchdogCommits, sysVars, workers
  <2>9. CASE Crash
    BY <2>9 DEF Crash
  <2>10. CASE BootSweep
    BY <2>10, <2>t DEF BootSweep, Zombies
  <2> QED
    BY <1>2, StepKinds, <2>1, <2>2, <2>3, <2>4, <2>5, <2>6, <2>7, <2>8, <2>9,
       <2>10 DEF Acts
<1> QED
  BY <1>1, <1>2, TypeInvariant, Lifecycle, PTL DEF Spec

(* A job is started at most once: no step makes a closed row active again. *)
THEOREM ClosedStaysClosed == Spec => ClosedNeverReopens
<1>1. ASSUME TypeOK, LifecycleInv, [Next]_vars
      PROVE  \A j \in Jobs : jstatus[j] \in Closed => jstatus'[j] \in Closed
  <2> USE DEF Active, Closed
  <2>t. /\ jstatus \in [Jobs -> {"absent"} \cup Active \cup Closed]
        /\ queue \in Seq(Jobs)
    BY <1>1 DEF TypeOK
  <2>1. CASE Quiet
    BY <2>1 DEF Quiet
  <2>2. ASSUME NEW t \in Threads, InsertJob(t) \/ SubmitJob(t),
               NEW j \in Jobs, jstatus[j] \in Closed
        PROVE  jstatus'[j] \in Closed
    BY <2>2, <2>t DEF InsertJob, SubmitJob, FreshJobs, dbVars
  <2>3. ASSUME NEW j \in Jobs, BeginJob(j),
               NEW k \in Jobs, jstatus[k] \in Closed
        PROVE  jstatus'[k] \in Closed
    <3>1. j = queue[1] /\ 1 \in 1 .. Len(queue)
      BY <2>3, <2>t DEF BeginJob
    <3>2. jstatus[j] = "pending"
      BY <1>1, <3>1 DEF LifecycleInv
    <3> QED
      BY <2>3, <2>t, <3>2 DEF BeginJob
  <2>4. ASSUME NEW j \in Jobs, TokenFails(j) \/ CommitVerdict(j),
               NEW k \in Jobs, jstatus[k] \in Closed
        PROVE  jstatus'[k] \in Closed
    BY <2>4, <2>t DEF TokenFails, CommitVerdict, StatusOf
  <2>5. ASSUME WatchdogDooms \/ WatchdogCommits \/ Crash \/ BootSweep,
               NEW k \in Jobs, jstatus[k] \in Closed
        PROVE  jstatus'[k] \in Closed
    BY <2>5, <2>t DEF WatchdogDooms, WatchdogCommits, Crash, BootSweep, dbVars
  <2> QED
    BY <1>1, StepKinds, <2>1, <2>2, <2>3, <2>4, <2>5 DEF Acts
<1>2. TypeOK /\ LifecycleInv /\ [Next]_vars =>
        [\A j \in Jobs : jstatus[j] \in Closed => jstatus'[j] \in Closed]_vars
  BY <1>1
<1> QED
  BY <1>2, TypeInvariant, Lifecycle, PTL DEF Spec, ClosedNeverReopens

---------------------------------------------------------------------------
(* Accounts that are syncing. *)

\* A step that makes no account syncing, ends no running job and leaves the
\* watchdog alone; a worker may load the account again.
Calm ==
  /\ \A j \in Jobs : jstatus[j] = "running" => jstatus'[j] = "running"
  /\ \A a \in Accounts : acct'[a].sync = "syncing" => acct[a].sync = "syncing"
  /\ wd' = wd
  /\ \A j \in Jobs : pc'[j] # "none" =>
       /\ pc[j] # "none"
       /\ w'[j].snap.sync \in {w[j].snap.sync, acct[AccountOf[j]].sync}

CalmOr ==
  \/ Calm
  \/ \E j \in Jobs : BeginJob(j) \/ TokenFails(j) \/ CommitVerdict(j)
  \/ WatchdogDooms \/ WatchdogCommits \/ Crash \/ BootSweep

(* Only the start of a job makes an account syncing, and only the worker,  *)
(* the watchdog and the sweep take a job out of running.                   *)
LEMMA CalmSteps ==
  ASSUME TypeOK, [Next]_vars
  PROVE  CalmOr
<1> USE DEF Calm, dbVars, sysVars, workers, procs, marks, memVars
<1>t. /\ jstatus \in [Jobs -> {"absent"} \cup Active \cup Closed]
      /\ acct \in [Accounts -> Row] /\ pc \in [Jobs -> PCs]
      /\ w \in [Jobs -> Worker]
  BY DEF TypeOK
<1>n. \A r \in Row : NoPause(r).sync = r.sync
  BY DEF NoPause, Row
<1>1. ASSUME NEW a \in Accounts, CronFires(a) PROVE Calm
  BY <1>1, <1>t DEF CronFires, RestOfTrigger
<1>2. ASSUME NEW a \in Accounts, ExpiryClears(a) PROVE Calm
  BY <1>2, <1>t, <1>n DEF ExpiryClears, RestOfTrigger
<1>3. ASSUME NEW a \in Accounts, FlagFlips(a) PROVE Calm
  BY <1>3, <1>t DEF FlagFlips
<1>4. ASSUME NEW a \in Accounts, PauseElapses(a) PROVE Calm
  BY <1>4, <1>t DEF PauseElapses, Row
<1>5. ASSUME NEW t \in Requests, NEW a \in Accounts, ManualSync(t, a) PROVE Calm
  BY <1>5, <1>t, <1>n DEF ManualSync, RestOfTrigger
<1>6. ASSUME NEW t \in Requests, NEW a \in Accounts, SyncAll(t, a) PROVE Calm
  BY <1>6, <1>t DEF SyncAll, RestOfTrigger
<1>7. ASSUME NEW t \in Requests, NEW a \in Accounts, AgentSync(t, a) PROVE Calm
  BY <1>7, <1>t DEF AgentSync, RestOfTrigger
<1>8. ASSUME NEW t \in Requests, NEW a \in Accounts, ResumeAfterReauth(t, a) PROVE Calm
  BY <1>8, <1>t DEF ResumeAfterReauth, RestOfTrigger, Row
<1>9. ASSUME ExpiryResumes PROVE Calm
  BY <1>9, <1>t DEF ExpiryResumes, RestOfTrigger
<1>10. ASSUME NEW t \in Threads, CheckExisting(t) PROVE Calm
  BY <1>10, <1>t, <1>n DEF CheckExisting, Cleared, RestOfTrigger
<1>11. ASSUME NEW t \in Threads, InsertJob(t) PROVE Calm
  BY <1>11, <1>t, <1>n DEF InsertJob, FreshJobs, Cleared
<1>12. ASSUME NEW t \in Threads, SubmitJob(t) PROVE Calm
  BY <1>12, <1>t DEF SubmitJob
<1>13. ASSUME NEW t \in Threads, StopKills(t) PROVE Calm
  BY <1>13, <1>t DEF StopKills
<1>14. ASSUME NEW t \in Requests, StopFindsProc(t) PROVE Calm
  BY <1>14, <1>t DEF StopFindsProc, RestOfTrigger
<1>15. ASSUME NEW j \in Jobs, PrepEscapes(j) PROVE Calm
  BY <1>15, <1>t DEF PrepEscapes, ThreadEnds
<1>16. ASSUME NEW j \in Jobs, PrepDone(j) PROVE Calm
  BY <1>16, <1>t DEF PrepDone, Worker
<1>17. ASSUME NEW j \in Jobs, Spawn(j) PROVE Calm
  BY <1>17, <1>t DEF Spawn, RestOfRun, Worker
<1>18. ASSUME NEW j \in Jobs, Rearm(j) PROVE Calm
  BY <1>18, <1>t DEF Rearm, RestOfRun
<1>19. ASSUME NEW j \in Jobs, DeadlineFires(j) PROVE Calm
  BY <1>19, <1>t DEF DeadlineFires, RestOfRun
<1>20. ASSUME NEW j \in Jobs, ReadEnds(j) PROVE Calm
  BY <1>20, <1>t DEF ReadEnds, RestOfRun, Worker
<1>21. ASSUME NEW j \in Jobs, Reconcile(j) PROVE Calm
  <2>1. \A n \in {0, 1} :
          [w[j] EXCEPT !.retried = TRUE, !.left = n].snap = w[j].snap
    BY <1>21, <1>t DEF Worker
  <2> QED
    BY <1>21, <1>t, <2>1 DEF Reconcile, RestOfRun
<1>22. ASSUME NEW j \in Jobs, WorkerRaises(j) PROVE Calm
  BY <1>22, <1>t DEF WorkerRaises, RestOfRun, Worker
<1>23. ASSUME NEW j \in Jobs, DecideVerdict(j) PROVE Calm
  BY <1>23, <1>t DEF DecideVerdict, ThreadEnds, RestOfRun, Worker
<1>24. ASSUME NEW j \in Jobs, FinishSuccess(j) PROVE Calm
  BY <1>24, <1>t DEF FinishSuccess, ThreadEnds, RestOfRun
<1>25. ASSUME NEW j \in Jobs, ProcExits(j) PROVE Calm
  BY <1>25, <1>t DEF ProcExits, RestOfProc
<1>26. ASSUME NEW j \in Jobs, ProcHangs(j) PROVE Calm
  BY <1>26, <1>t DEF ProcHangs, RestOfProc
<1>27. ASSUME NEW j \in Jobs, SamplerTick(j) PROVE Calm
  BY <1>27, <1>t DEF SamplerTick, RestOfSampler
<1>28. ASSUME NEW j \in Jobs, SamplerMarks(j) PROVE Calm
  BY <1>28, <1>t DEF SamplerMarks, RestOfSampler
<1>29. ASSUME NEW j \in Jobs, SamplerStops(j) PROVE Calm
  BY <1>29, <1>t DEF SamplerStops, RestOfSampler
<1>30. ASSUME NewDay PROVE Calm
  BY <1>30, <1>t DEF NewDay
<1>31. ASSUME UNCHANGED vars PROVE Calm
  BY <1>31, <1>t DEF vars
<1> HIDE DEF Calm
<1> QED
  BY <1>1, <1>2, <1>3, <1>4, <1>5, <1>6, <1>7, <1>8, <1>9, <1>10, <1>11,
     <1>12, <1>13, <1>14, <1>15, <1>16, <1>17, <1>18, <1>19, <1>20, <1>21,
     <1>22, <1>23, <1>24, <1>25, <1>26, <1>27, <1>28, <1>29, <1>30, <1>31
  DEF CalmOr, Next, Trigger, ThreadStep, WorkerStep, SamplerStep, Threads

(* What each writer of an account row leaves in sync_state: a partial      *)
(* UPDATE keeps a column it did not change, and neither a verdict nor a    *)
(* recovery ever writes syncing.                                           *)
LEMMA SyncColumn ==
  /\ \A db, s, n, b :
       Flush(db, s, n, b).sync = IF n.sync = s.sync THEN db.sync ELSE n.sync
  /\ \A s \in Row, out \in Labels : Assigned(s, out).sync # "syncing"
  /\ \A r \in Row, b \in BOOLEAN : Recovered(r, b).sync # "syncing"
  /\ \A s \in Row, st \in {"needs_reauth", "error"} :
       [NoPause(s) EXCEPT !.sync = st, !.err = "token"].sync = st
<1>1. \A db, s, n, b :
        Flush(db, s, n, b).sync = IF n.sync = s.sync THEN db.sync ELSE n.sync
  BY DEF Flush
<1>2. \A s \in Row, out \in Labels : Assigned(s, out).sync # "syncing"
  BY DEF Assigned, NoPause, Paused, Row, Labels
<1>3. \A r \in Row, b \in BOOLEAN : Recovered(r, b).sync # "syncing"
  BY DEF Recovered, Row
<1>4. \A s \in Row, st \in {"needs_reauth", "error"} :
        [NoPause(s) EXCEPT !.sync = st, !.err = "token"].sync = st
  BY DEF NoPause, Row
<1> QED
  BY <1>1, <1>2, <1>3, <1>4

(* sync_state is never left at syncing without a running job to end it.    *)
(* The partial UPDATEs make this depend on what was loaded: the worker     *)
(* that closes the job has itself read the account as syncing.             *)
THEOREM Syncing == Spec => []SyncingHasRunningJob
<1>1. Init => SyncingInv
  BY DEF Init, SyncingInv, NewAccount
<1>2. ASSUME TypeOK, LifecycleInv, SyncingInv, [Next]_vars
      PROVE  SyncingInv'
  <2>t. /\ jstatus \in [Jobs -> {"absent"} \cup Active \cup Closed]
        /\ acct \in [Accounts -> Row] /\ pc \in [Jobs -> PCs]
        /\ w \in [Jobs -> Worker] /\ queue \in Seq(Jobs)
        /\ wd \in [doomed : SUBSET Jobs, redriven : SUBSET Accounts,
                   seen : [Accounts -> Row]]
    BY <1>2 DEF TypeOK
  <2>c. ASSUME NEW j \in Jobs, pc[j] # "none", wd' = wd,
               \A k \in Jobs \ {j} : /\ jstatus'[k] = jstatus[k]
                                    /\ pc'[k] = pc[k] /\ w'[k] = w[k],
               \A b \in Accounts : acct'[b].sync = "syncing" =>
                 /\ acct[b].sync = "syncing"
                 /\ b = AccountOf[j] => w[j].snap.sync # "syncing"
        PROVE  SyncingInv'
    <3> SUFFICES ASSUME NEW a \in Accounts, acct'[a].sync = "syncing"
                 PROVE  \E k \in Jobs :
                          /\ AccountOf[k] = a /\ jstatus'[k] = "running"
                          /\ pc'[k] # "none" => w'[k].snap.sync = "syncing"
                          /\ k \in wd'.doomed => wd'.seen[a].sync = "syncing"
      BY DEF SyncingInv
    <3>1. PICK k \in Jobs :
            /\ AccountOf[k] = a /\ jstatus[k] = "running"
            /\ pc[k] # "none" => w[k].snap.sync = "syncing"
            /\ k \in wd.doomed => wd.seen[a].sync = "syncing"
      BY <1>2, <2>c DEF SyncingInv
    <3>2. k # j
      BY <2>c, <3>1
    <3> QED
      BY <2>c, <3>1, <3>2
  <2>1. CASE Calm
    BY <1>2, <2>1, <2>t DEF Calm, SyncingInv
  <2>2. ASSUME NEW j \in Jobs, BeginJob(j) PROVE SyncingInv'
    <3>1. j = queue[1] /\ 1 \in 1 .. Len(queue)
      BY <2>2, <2>t DEF BeginJob
    <3>2. jstatus[j] = "pending" /\ j \notin wd.doomed /\ pc[j] = "none"
      BY <1>2, <3>1 DEF LifecycleInv, Started, Closed
    <3>3. /\ AccountOf[j] \in Accounts /\ wd' = wd
          /\ \A k \in Jobs \ {j} : /\ jstatus'[k] = jstatus[k]
                                  /\ pc'[k] = pc[k] /\ w'[k] = w[k]
          /\ \A b \in Accounts \ {AccountOf[j]} : acct'[b] = acct[b]
      BY <2>2, <2>t, SyncAssumption DEF BeginJob
    <3> DEFINE begun == [acct[AccountOf[j]] EXCEPT !.sync = "syncing"]
    <3>4. /\ begun.sync = "syncing"
          /\ [acct[AccountOf[j]] EXCEPT !.sync = "error", !.err = "other"].sync
               = "error"
          /\ [w[j] EXCEPT !.snap = begun].snap = begun
      BY <2>t, <3>3 DEF Row, Worker
    <3>5. \/ acct' = acct
          \/ acct'[AccountOf[j]].sync = "error"
          \/ /\ jstatus'[j] = "running"
             /\ w'[j].snap.sync = "syncing"
      BY <2>2, <2>t, <3>3, <3>4 DEF BeginJob
    <3> QED
      BY <1>2, <3>2, <3>3, <3>5 DEF SyncingInv
  <2>3. ASSUME NEW j \in Jobs, TokenFails(j) PROVE SyncingInv'
    <3>1. /\ w[j].snap \in Row /\ AccountOf[j] \in Accounts
          /\ pc[j] # "none" /\ wd' = wd
          /\ \A k \in Jobs \ {j} : /\ jstatus'[k] = jstatus[k]
                                  /\ pc'[k] = pc[k] /\ w'[k] = w[k]
          /\ \A b \in Accounts \ {AccountOf[j]} : acct'[b] = acct[b]
      BY <2>3, <2>t, SyncAssumption DEF TokenFails, ThreadEnds, Worker
    <3>2. PICK st \in {"needs_reauth", "error"} :
            acct'[AccountOf[j]] =
              Flush(acct[AccountOf[j]], w[j].snap,
                    [NoPause(w[j].snap) EXCEPT !.sync = st, !.err = "token"],
                    FALSE)
      BY <2>3, <2>t, <3>1 DEF TokenFails
    <3> DEFINE new ==
                 [NoPause(w[j].snap) EXCEPT !.sync = st, !.err = "token"]
    <3>3. new.sync = st
      BY <3>1 DEF NoPause, Row
    <3>4. acct'[AccountOf[j]].sync =
            IF new.sync = w[j].snap.sync THEN acct[AccountOf[j]].sync
            ELSE new.sync
      BY <3>2 DEF Flush
    <3>5. acct'[AccountOf[j]].sync = "syncing" =>
            acct[AccountOf[j]].sync = "syncing" /\ w[j].snap.sync # "syncing"
      BY <3>3, <3>4
    <3> QED
      BY <2>c, <3>1, <3>5
  <2>4. ASSUME NEW j \in Jobs, CommitVerdict(j) PROVE SyncingInv'
    <3>1. /\ w[j].snap \in Row /\ w[j].out \in Labels
          /\ AccountOf[j] \in Accounts /\ pc[j] # "none" /\ wd' = wd
          /\ \A k \in Jobs \ {j} : /\ jstatus'[k] = jstatus[k]
                                  /\ pc'[k] = pc[k] /\ w'[k] = w[k]
          /\ \A b \in Accounts \ {AccountOf[j]} : acct'[b] = acct[b]
      BY <2>4, <2>t, SyncAssumption DEF CommitVerdict, ThreadEnds, Worker
    <3>2. acct'[AccountOf[j]] =
            Flush(acct[AccountOf[j]], w[j].snap,
                  Assigned(w[j].snap, w[j].out), w[j].out \in Pauses)
      BY <2>4, <2>t, <3>1 DEF CommitVerdict
    <3>3. acct'[AccountOf[j]].sync = "syncing" =>
            acct[AccountOf[j]].sync = "syncing" /\ w[j].snap.sync # "syncing"
      BY <3>1, <3>2, SyncColumn
    <3> QED
      BY <2>c, <3>1, <3>3
  <2>5. CASE WatchdogDooms
    <3>1. /\ jstatus' = jstatus /\ acct' = acct /\ pc' = pc /\ w' = w
      BY <2>5 DEF WatchdogDooms, dbVars, workers
    <3>2. PICK D \in SUBSET Jobs :
            /\ wd'.doomed = D
            /\ \A a \in Accounts :
                 wd'.seen[a] = IF a \in {AccountOf[j] : j \in D} THEN acct[a]
                               ELSE NewAccount
      BY <2>5 DEF WatchdogDooms
    <3> QED
      BY <1>2, <3>1, <3>2 DEF SyncingInv
  <2>6. CASE WatchdogCommits
    <3>1. /\ pc' = pc /\ w' = w /\ wd'.doomed = {}
          /\ \A k \in Jobs \ wd.doomed : jstatus'[k] = jstatus[k]
          /\ \A a \in Accounts : (a \in wd.redriven) \in BOOLEAN
      BY <2>6, <2>t DEF WatchdogCommits, NoReap, workers
    <3>2. ASSUME NEW a \in Accounts, acct'[a].sync = "syncing"
          PROVE  /\ acct[a].sync = "syncing"
                 /\ (\E j \in wd.doomed : AccountOf[j] = a)
                      => wd.seen[a].sync # "syncing"
      <4>1. CASE \E j \in wd.doomed : AccountOf[j] = a
        <5>1. acct'[a] = Flush(acct[a], wd.seen[a],
                               Recovered(wd.seen[a], a \in wd.redriven),
                               a \in wd.redriven)
          BY <2>6, <4>1 DEF WatchdogCommits
        <5>2. Recovered(wd.seen[a], a \in wd.redriven).sync # "syncing"
          BY <2>t, <3>1, SyncColumn
        <5> QED
          BY <3>2, <5>1, <5>2, SyncColumn
      <4>2. CASE ~ \E j \in wd.doomed : AccountOf[j] = a
        BY <2>6, <3>2, <4>2 DEF WatchdogCommits
      <4> QED
        BY <4>1, <4>2
    <3> QED
      BY <1>2, <3>1, <3>2 DEF SyncingInv
  <2>7. CASE Crash
    BY <1>2, <2>7, <2>t DEF Crash, SyncingInv, dbVars, NoReap
  <2>8. CASE BootSweep
    <3>1. ASSUME NEW a \in Accounts, acct'[a].sync = "syncing" PROVE FALSE
      <4>1. CASE \E j \in Zombies : AccountOf[j] = a
        <5>1. acct'[a] = Recovered(acct[a], Redrives(a)) /\ acct[a] \in Row
          BY <2>8, <2>t, <4>1 DEF BootSweep
        <5>2. Redrives(a) \in BOOLEAN
          BY DEF Redrives
        <5> QED
          BY <3>1, <5>1, <5>2, SyncColumn
      <4>2. CASE ~ \E j \in Zombies : AccountOf[j] = a
        <5>1. acct[a].sync = "syncing"
          BY <2>8, <3>1, <4>2 DEF BootSweep
        <5> QED
          BY <1>2, <4>2, <5>1 DEF SyncingInv, Zombies, Active
      <4> QED
        BY <4>1, <4>2
    <3> QED
      BY <3>1 DEF SyncingInv
  <2> QED
    BY <1>2, CalmSteps, <2>1, <2>2, <2>3, <2>4, <2>5, <2>6, <2>7, <2>8 DEF CalmOr
<1>3. SyncingInv => SyncingHasRunningJob
  BY DEF SyncingInv, SyncingHasRunningJob
<1> QED
  BY <1>1, <1>2, <1>3, TypeInvariant, Lifecycle, PTL DEF Spec

---------------------------------------------------------------------------
(* One active job per account, when threads take turns. *)

Creating(th) == th.at \notin {"idle", "stop"}

\* A step that makes no row active and lets no thread into create_sync_job.
Outside ==
  /\ \A j \in Jobs : jstatus'[j] \in Active => jstatus[j] \in Active
  /\ \A t \in Threads :
       Creating(ses'[t]) =>
         /\ Creating(ses[t])
         /\ ses'[t].at = "insert" => /\ ses[t].at = "insert"
                                     /\ ses'[t].acct = ses[t].acct

\* A thread goes in: a trigger of any kind.
Enters ==
  /\ jstatus' = jstatus
  /\ \E t \in Threads :
       /\ MayStart(t)
       /\ ses'[t].at # "insert"
       /\ \A u \in Threads \ {t} : ses'[u] = ses[u]

GuardOr ==
  \/ Outside \/ Enters
  \/ \E t \in Threads : CheckExisting(t) \/ InsertJob(t)

(* Every step is outside of create_sync_job, enters it, or is one of its   *)
(* own two steps: what the executor, the watchdog and the sweeps do to job *)
(* rows never makes one active.                                            *)
LEMMA GuardSteps ==
  ASSUME TypeOK, LifecycleInv, [Next]_vars
  PROVE  GuardOr
<1> USE DEF Outside, Creating, dbVars, sysVars, workers, procs, marks, memVars
<1>t. /\ ses \in [Threads -> Thread] /\ queue \in Seq(Jobs)
      /\ jstatus \in [Jobs -> {"absent"} \cup Active \cup Closed]
      /\ Requests \subseteq Threads /\ "cron" \in Threads /\ "tick" \in Threads
  BY DEF TypeOK, Threads
<1>d. \A at, a, j : Doing(at, a, j).at = at
  BY DEF Doing
<1>1. ASSUME NEW a \in Accounts, CronFires(a) PROVE Enters
  BY <1>1, <1>t, <1>d DEF Enters, CronFires, Go, RestOfTrigger
<1>2. ASSUME NEW a \in Accounts, ExpiryClears(a) PROVE Enters
  BY <1>2, <1>t, <1>d DEF Enters, ExpiryClears, Go, RestOfTrigger
<1>3. ASSUME NEW t \in Requests, NEW a \in Accounts, ManualSync(t, a) PROVE Enters
  BY <1>3, <1>t, <1>d DEF Enters, ManualSync, Go, RestOfTrigger
<1>4. ASSUME NEW t \in Requests, NEW a \in Accounts, SyncAll(t, a) PROVE Enters
  BY <1>4, <1>t, <1>d DEF Enters, SyncAll, Doing, RestOfTrigger
<1>5. ASSUME NEW t \in Requests, NEW a \in Accounts, AgentSync(t, a) PROVE Enters
  BY <1>5, <1>t, <1>d DEF Enters, AgentSync, Go, RestOfTrigger
<1>6. ASSUME NEW t \in Requests, NEW a \in Accounts, ResumeAfterReauth(t, a) PROVE Enters
  BY <1>6, <1>t, <1>d DEF Enters, ResumeAfterReauth, Go, RestOfTrigger
<1>7. ASSUME NEW a \in Accounts, FlagFlips(a) PROVE Outside
  BY <1>7, <1>t DEF FlagFlips
<1>8. ASSUME NEW a \in Accounts, PauseElapses(a) PROVE Outside
  BY <1>8, <1>t DEF PauseElapses
<1>9. ASSUME ExpiryResumes PROVE Outside
  <2>1. \/ ses' = [ses EXCEPT !["tick"] = Doing("check", ses["tick"].acct, None)]
        \/ ses' = [ses EXCEPT !["tick"] = Doing("idle", None, None)]
    BY <1>9 DEF ExpiryResumes, Go, Leave, Idle
  <2>2. /\ \A t \in Threads \ {"tick"} : ses'[t] = ses[t]
        /\ ses'["tick"].at \in {"check", "idle"} /\ ses["tick"].at = "cleared"
    BY <1>9, <1>t, <1>d, <2>1 DEF ExpiryResumes
  <2> QED
    BY <1>9, <2>2 DEF ExpiryResumes, RestOfTrigger
<1>10. ASSUME NEW t \in Threads, SubmitJob(t) PROVE Outside
  BY <1>10, <1>t, <1>d DEF SubmitJob, Leave, Idle
<1>11. ASSUME NEW t \in Threads, StopKills(t) PROVE Outside
  BY <1>11, <1>t, <1>d DEF StopKills, Leave, Idle
<1>12. ASSUME NEW t \in Requests, StopFindsProc(t) PROVE Outside
  BY <1>12, <1>t, <1>d DEF StopFindsProc, RestOfTrigger
<1>13. ASSUME NEW j \in Jobs, BeginJob(j) PROVE Outside
  <2>1. j = queue[1] /\ 1 \in 1 .. Len(queue)
    BY <1>13, <1>t DEF BeginJob
  <2>2. jstatus[j] \in Active
    BY <2>1 DEF LifecycleInv, Active
  <2> QED
    BY <1>13, <1>t, <2>2 DEF BeginJob
<1>14. ASSUME NEW j \in Jobs, TokenFails(j) PROVE Outside
  BY <1>14, <1>t DEF TokenFails, Active
<1>15. ASSUME NEW j \in Jobs, CommitVerdict(j) PROVE Outside
  BY <1>15, <1>t DEF CommitVerdict, StatusOf, Active
<1>16. ASSUME NEW j \in Jobs, PrepEscapes(j) PROVE Outside
  BY <1>16, <1>t DEF PrepEscapes
<1>17. ASSUME NEW j \in Jobs, PrepDone(j) PROVE Outside
  BY <1>17, <1>t DEF PrepDone
<1>18. ASSUME NEW j \in Jobs, Spawn(j) PROVE Outside
  <2>1. \A t \in Threads : /\ [ses[t] EXCEPT !.hit = FALSE].at = ses[t].at
                            /\ [ses[t] EXCEPT !.hit = FALSE].acct = ses[t].acct
    BY <1>t DEF Thread
  <2> QED
    BY <1>18, <1>t, <2>1 DEF Spawn, RestOfRun
<1>19. ASSUME NEW j \in Jobs, Rearm(j) PROVE Outside
  BY <1>19, <1>t DEF Rearm, RestOfRun
<1>20. ASSUME NEW j \in Jobs, DeadlineFires(j) PROVE Outside
  BY <1>20, <1>t DEF DeadlineFires, RestOfRun
<1>21. ASSUME NEW j \in Jobs, ReadEnds(j) PROVE Outside
  BY <1>21, <1>t DEF ReadEnds, RestOfRun
<1>22. ASSUME NEW j \in Jobs, Reconcile(j) PROVE Outside
  BY <1>22, <1>t DEF Reconcile, RestOfRun
<1>23. ASSUME NEW j \in Jobs, WorkerRaises(j) PROVE Outside
  BY <1>23, <1>t DEF WorkerRaises, RestOfRun
<1>24. ASSUME NEW j \in Jobs, DecideVerdict(j) PROVE Outside
  BY <1>24, <1>t DEF DecideVerdict, RestOfRun
<1>25. ASSUME NEW j \in Jobs, FinishSuccess(j) PROVE Outside
  BY <1>25, <1>t DEF FinishSuccess, RestOfRun
<1>26. ASSUME NEW j \in Jobs, ProcExits(j) PROVE Outside
  BY <1>26, <1>t DEF ProcExits, RestOfProc
<1>27. ASSUME NEW j \in Jobs, ProcHangs(j) PROVE Outside
  BY <1>27, <1>t DEF ProcHangs, RestOfProc
<1>28. ASSUME NEW j \in Jobs, SamplerTick(j) PROVE Outside
  BY <1>28, <1>t DEF SamplerTick, RestOfSampler
<1>29. ASSUME NEW j \in Jobs, SamplerMarks(j) PROVE Outside
  BY <1>29, <1>t DEF SamplerMarks, RestOfSampler
<1>30. ASSUME NEW j \in Jobs, SamplerStops(j) PROVE Outside
  BY <1>30, <1>t DEF SamplerStops, RestOfSampler
<1>31. ASSUME NewDay PROVE Outside
  BY <1>31, <1>t DEF NewDay
<1>32. ASSUME WatchdogDooms PROVE Outside
  BY <1>32, <1>t DEF WatchdogDooms
<1>33. ASSUME WatchdogCommits PROVE Outside
  BY <1>33, <1>t DEF WatchdogCommits, Active
<1>34. ASSUME Crash PROVE Outside
  BY <1>34, <1>t, <1>d DEF Crash, Idle
<1>35. ASSUME BootSweep PROVE Outside
  BY <1>35, <1>t DEF BootSweep, Active
<1>36. ASSUME UNCHANGED vars PROVE Outside
  BY <1>36, <1>t DEF vars
<1> HIDE DEF Outside
<1> QED
  BY <1>1, <1>2, <1>3, <1>4, <1>5, <1>6, <1>7, <1>8, <1>9, <1>10, <1>11,
     <1>12, <1>13, <1>14, <1>15, <1>16, <1>17, <1>18, <1>19, <1>20,
     <1>21, <1>22, <1>23, <1>24, <1>25, <1>26, <1>27, <1>28, <1>29,
     <1>30, <1>31, <1>32, <1>33, <1>34, <1>35, <1>36
  DEF GuardOr, Next, Trigger, ThreadStep, WorkerStep, SamplerStep, Threads

(* create_sync_job's guard is enough when no two threads are inside it at  *)
(* once: an account never has two active rows, whatever the workers, the   *)
(* watchdog, crashes and boot sweeps do.                                   *)
THEOREM GuardedCreation ==
  ASSUME "overlap" \notin World
  PROVE  Spec => []OneActiveJob
<1>1. Init => GuardInv /\ OneActiveJob
  BY DEF Init, GuardInv, OneActiveJob, Idle, Doing, Active
<1>2. ASSUME TypeOK, LifecycleInv, GuardInv, OneActiveJob, [Next]_vars
      PROVE  GuardInv' /\ OneActiveJob'
  <2> USE DEF Creating, ActiveJobs
  <2>t. /\ ses \in [Threads -> Thread]
        /\ jstatus \in [Jobs -> {"absent"} \cup Active \cup Closed]
    BY <1>2 DEF TypeOK
  <2>d. \A at, a, j : Doing(at, a, j).at = at
    BY DEF Doing
  <2>1. CASE Outside
    BY <1>2, <2>1, <2>t DEF Outside, GuardInv, OneActiveJob
  <2>2. CASE Enters
    BY <1>2, <2>2, <2>t DEF Enters, MayStart, GuardInv, OneActiveJob
  <2>3. ASSUME NEW t \in Threads, CheckExisting(t)
        PROVE  GuardInv' /\ OneActiveJob'
    <3>1. jstatus' = jstatus /\ ses[t].at = "check"
      BY <2>3 DEF CheckExisting, RestOfTrigger
    <3>2. /\ \A u \in Threads \ {t} : ses'[u] = ses[u]
          /\ \/ ses'[t].at = "idle"
             \/ /\ ses'[t].at = "insert" /\ ses'[t].acct = ses[t].acct
                /\ ActiveJobs(ses[t].acct) = {}
      BY <2>3, <2>t, <2>d DEF CheckExisting, Leave, Idle, Thread
    <3> QED
      BY <1>2, <3>1, <3>2 DEF GuardInv, OneActiveJob
  <2>4. ASSUME NEW t \in Threads, InsertJob(t)
        PROVE  GuardInv' /\ OneActiveJob'
    <3>1. /\ ses[t].at = "insert" /\ ActiveJobs(ses[t].acct) = {}
          /\ \A u \in Threads \ {t} : ses'[u] = ses[u] /\ ~Creating(ses[u])
          /\ ses'[t].at \in {"idle", "submit"}
      BY <1>2, <2>4, <2>t, <2>d DEF InsertJob, Leave, Idle, GuardInv
    <3>2. GuardInv'
      BY <3>1 DEF GuardInv
    <3>3. \/ jstatus' = jstatus
          \/ \E j \in Jobs : /\ AccountOf[j] = ses[t].acct
                             /\ \A k \in Jobs \ {j} : jstatus'[k] = jstatus[k]
      BY <2>4, <2>t DEF InsertJob, FreshJobs
    <3>4. OneActiveJob'
      BY <1>2, <3>1, <3>3 DEF OneActiveJob
    <3> QED
      BY <3>2, <3>4
  <2> QED
    BY <1>2, GuardSteps, <2>1, <2>2, <2>3, <2>4 DEF GuardOr
<1> QED
  BY <1>1, <1>2, TypeInvariant, Lifecycle, PTL DEF Spec

---------------------------------------------------------------------------
(* Markers and signals. *)

(* A job a worker or the watchdog has got hold of never waits again. *)
LEMMA StartedStays ==
  ASSUME TypeOK, LifecycleInv, [Next]_vars, NEW j \in Jobs, Started(j)
  PROVE  Started(j)'
<1> USE DEF Started, Active, Closed
<1>t. /\ jstatus \in [Jobs -> {"absent"} \cup Active \cup Closed]
      /\ queue \in Seq(Jobs)
  BY DEF TypeOK
<1>1. CASE Quiet
  BY <1>1 DEF Quiet
<1>2. ASSUME NEW t \in Threads, InsertJob(t) \/ SubmitJob(t)
      PROVE  Started(j)'
  BY <1>2, <1>t DEF InsertJob, SubmitJob, FreshJobs, dbVars
<1>3. ASSUME NEW k \in Jobs, BeginJob(k) PROVE Started(j)'
  <2>1. k = queue[1] /\ 1 \in 1 .. Len(queue)
    BY <1>3, <1>t DEF BeginJob
  <2>2. jstatus[k] = "pending"
    BY <2>1 DEF LifecycleInv
  <2> QED
    BY <1>3, <1>t, <2>2 DEF BeginJob
<1>4. ASSUME NEW k \in Jobs, TokenFails(k) \/ CommitVerdict(k)
      PROVE  Started(j)'
  BY <1>4, <1>t DEF TokenFails, CommitVerdict, StatusOf
<1>5. ASSUME WatchdogDooms \/ WatchdogCommits \/ Crash \/ BootSweep
      PROVE  Started(j)'
  BY <1>5, <1>t DEF WatchdogDooms, WatchdogCommits, Crash, BootSweep, dbVars
<1> QED
  BY StepKinds, <1>1, <1>2, <1>3, <1>4, <1>5 DEF Acts

\* A step that leaves every run, its process and its markers alone.
Still ==
  /\ UNCHANGED <<pc, proc, registered, killed, budgetStop, deadline, sampler,
                 live>>
  /\ \A t \in Threads :
       ses'[t].at = "stop" => ses[t].at = "stop" /\ ses'[t].job = ses[t].job

StillOr ==
  \/ Still
  \/ \E t \in Threads : StopKills(t) \/ StopFindsProc(t)
  \/ \E j \in Jobs : \/ WorkerStep(j) \/ DeadlineFires(j) \/ SamplerStep(j)
                      \/ ProcExits(j)
  \/ WatchdogDooms \/ Crash

(* Who touches runs, processes and markers: the worker, the sampler,       *)
(* mbsync, the two halves of a Stop, the watchdog and a crash.             *)
LEMMA StillSteps ==
  ASSUME TypeOK, [Next]_vars
  PROVE  StillOr
<1> USE DEF Still, dbVars, sysVars, workers, procs, marks, memVars
<1>t. /\ ses \in [Threads -> Thread]
      /\ Requests \subseteq Threads /\ "cron" \in Threads /\ "tick" \in Threads
  BY DEF TypeOK, Threads
<1>d. \A at, a, j : Doing(at, a, j).at = at
  BY DEF Doing
<1>1. ASSUME NEW a \in Accounts, CronFires(a) PROVE Still
  BY <1>1, <1>t, <1>d DEF CronFires, Go, RestOfTrigger
<1>2. ASSUME NEW a \in Accounts, ExpiryClears(a) PROVE Still
  BY <1>2, <1>t, <1>d DEF ExpiryClears, Go, RestOfTrigger
<1>3. ASSUME NEW t \in Requests, NEW a \in Accounts, ManualSync(t, a) PROVE Still
  BY <1>3, <1>t, <1>d DEF ManualSync, Go, RestOfTrigger
<1>4. ASSUME NEW t \in Requests, NEW a \in Accounts, SyncAll(t, a) PROVE Still
  BY <1>4, <1>t, <1>d DEF SyncAll, Doing, RestOfTrigger
<1>5. ASSUME NEW t \in Requests, NEW a \in Accounts, AgentSync(t, a) PROVE Still
  BY <1>5, <1>t, <1>d DEF AgentSync, Go, RestOfTrigger
<1>6. ASSUME NEW t \in Requests, NEW a \in Accounts, ResumeAfterReauth(t, a) PROVE Still
  BY <1>6, <1>t, <1>d DEF ResumeAfterReauth, Go, RestOfTrigger
<1>7. ASSUME NEW a \in Accounts, FlagFlips(a) PROVE Still
  BY <1>7, <1>t DEF FlagFlips
<1>8. ASSUME NEW a \in Accounts, PauseElapses(a) PROVE Still
  BY <1>8, <1>t DEF PauseElapses
<1>9. ASSUME ExpiryResumes PROVE Still
  <2>1. \/ ses' = [ses EXCEPT !["tick"] = Doing("check", ses["tick"].acct, None)]
        \/ ses' = [ses EXCEPT !["tick"] = Doing("idle", None, None)]
    BY <1>9 DEF ExpiryResumes, Go, Leave, Idle
  <2> QED
    BY <1>9, <1>t, <1>d, <2>1 DEF ExpiryResumes, RestOfTrigger
<1>10. ASSUME NEW t \in Threads, CheckExisting(t) PROVE Still
  <2>1. [ses[t] EXCEPT !.at = "insert"].at = "insert"
    BY <1>10, <1>t DEF Thread
  <2>2. \/ ses' = [ses EXCEPT ![t].at = "insert"]
        \/ ses' = [ses EXCEPT ![t] = Doing("idle", None, None)]
    BY <1>10 DEF CheckExisting, Leave, Idle
  <2>3. \A u \in Threads : ses'[u] = ses[u] \/ ses'[u].at \in {"insert", "idle"}
    <3>1. CASE ses' = [ses EXCEPT ![t].at = "insert"]
      BY <3>1, <1>t, <2>1
    <3>2. CASE ses' = [ses EXCEPT ![t] = Doing("idle", None, None)]
      BY <3>2, <1>t, <1>d
    <3> QED
      BY <2>2, <3>1, <3>2
  <2> QED
    BY <1>10, <2>3 DEF CheckExisting, RestOfTrigger
<1>11. ASSUME NEW t \in Threads, InsertJob(t) PROVE Still
  BY <1>11, <1>t, <1>d DEF InsertJob, Leave, Idle
<1>12. ASSUME NEW t \in Threads, SubmitJob(t) PROVE Still
  BY <1>12, <1>t, <1>d DEF SubmitJob, Leave, Idle
<1>13. ASSUME NEW j \in Jobs, ProcHangs(j) PROVE Still
  BY <1>13, <1>t DEF ProcHangs, RestOfProc
<1>14. ASSUME NewDay PROVE Still
  BY <1>14, <1>t DEF NewDay
<1>15. ASSUME WatchdogCommits PROVE Still
  BY <1>15, <1>t DEF WatchdogCommits
<1>16. ASSUME BootSweep PROVE Still
  BY <1>16, <1>t DEF BootSweep
<1>17. ASSUME UNCHANGED vars PROVE Still
  BY <1>17, <1>t DEF vars
<1> HIDE DEF Still
<1> QED
  BY <1>1, <1>2, <1>3, <1>4, <1>5, <1>6, <1>7, <1>8, <1>9, <1>10, <1>11,
     <1>12, <1>13, <1>14, <1>15, <1>16, <1>17, <1>t
  DEF StillOr, Next, Trigger, ThreadStep

(* The step of the induction for the markers. *)
LEMMA MarkStep ==
  ASSUME TypeOK, LifecycleInv, MarkInv, BudgetStopReachesProc, [Next]_vars
  PROVE  MarkInv' /\ BudgetStopReachesProc'
<1> USE DEF MarkInv, BudgetStopReachesProc, InRun, dbVars, sysVars, workers,
            procs, marks
<1>t. /\ ses \in [Threads -> Thread] /\ pc \in [Jobs -> PCs]
      /\ proc \in [Jobs -> {"none", "alive", "term"} \cup Exits]
      /\ killed \in [Jobs -> {"no", "asked", "system"}]
      /\ sampler \in [Jobs -> {"off", "on", "over", "marked"}]
      /\ registered \subseteq Jobs /\ queue \in Seq(Jobs)
  BY DEF TypeOK
<1>j. \A t \in Threads : ses[t].at = "stop" => ses[t].job \in Jobs
  BY DEF TypeOK
<1>s. \A j \in Jobs : Started(j) => Started(j)'
  BY StartedStays
<1>l. \A j \in Jobs : pc[j] # "none" => Started(j)
  BY DEF LifecycleInv
<1>d. /\ \A at, a, j : Doing(at, a, j).at = at
      /\ \A at, a, j : Doing(at, a, j).job = j
  BY DEF Doing
<1>1. CASE Still
  BY <1>1, <1>t, <1>j, <1>s, <1>l DEF Still
<1>2. ASSUME NEW t \in Threads, StopKills(t)
      PROVE  MarkInv' /\ BudgetStopReachesProc'
  BY <1>2, <1>t, <1>j, <1>s, <1>l, <1>d DEF StopKills, Leave, Idle, Signalled, Marked
<1>3. ASSUME NEW t \in Threads, StopFindsProc(t)
      PROVE  MarkInv' /\ BudgetStopReachesProc'
  BY <1>3, <1>t, <1>j, <1>s, <1>l, <1>d DEF StopFindsProc, RestOfTrigger, Started
<1>4. ASSUME NEW j \in Jobs, BeginJob(j)
      PROVE  MarkInv' /\ BudgetStopReachesProc'
  <2>1. j = queue[1] /\ 1 \in 1 .. Len(queue)
    BY <1>4, <1>t DEF BeginJob
  <2>2. ~Started(j)
    BY <2>1 DEF LifecycleInv, Started, Closed
  <2>3. /\ pc'[j] \in {"none", "prep"} /\ pc[j] = "none"
        /\ killed[j] = "no" /\ sampler[j] = "off" /\ j \notin registered
        /\ \A t \in Threads : ses[t].at = "stop" => ses[t].job # j
        /\ \A k \in Jobs \ {j} : pc'[k] = pc[k]
    BY <1>4, <1>t, <1>l, <2>2 DEF BeginJob
  <2> QED
    BY <1>4, <1>t, <1>j, <1>s, <2>3 DEF BeginJob
<1>5. ASSUME NEW j \in Jobs, TokenFails(j)
      PROVE  MarkInv' /\ BudgetStopReachesProc'
  BY <1>5, <1>t, <1>j, <1>s, <1>l DEF TokenFails, ThreadEnds
<1>6. ASSUME NEW j \in Jobs, PrepEscapes(j)
      PROVE  MarkInv' /\ BudgetStopReachesProc'
  BY <1>6, <1>t, <1>j, <1>s, <1>l DEF PrepEscapes, ThreadEnds
<1>7. ASSUME NEW j \in Jobs, PrepDone(j)
      PROVE  MarkInv' /\ BudgetStopReachesProc'
  BY <1>7, <1>t, <1>j, <1>s, <1>l DEF PrepDone
<1>8. ASSUME NEW j \in Jobs, Spawn(j)
      PROVE  MarkInv' /\ BudgetStopReachesProc'
  BY <1>8, <1>t, <1>j, <1>s, <1>l DEF Spawn, RestOfRun
<1>9. ASSUME NEW j \in Jobs, Rearm(j)
      PROVE  MarkInv' /\ BudgetStopReachesProc'
  BY <1>9, <1>t, <1>j, <1>s, <1>l DEF Rearm, RestOfRun, Signalled, Marked
<1>10. ASSUME NEW j \in Jobs, DeadlineFires(j)
      PROVE  MarkInv' /\ BudgetStopReachesProc'
  BY <1>10, <1>t, <1>j, <1>s, <1>l DEF DeadlineFires, RestOfRun, Signalled, Marked
<1>11. ASSUME NEW j \in Jobs, ReadEnds(j)
      PROVE  MarkInv' /\ BudgetStopReachesProc'
  BY <1>11, <1>t, <1>j, <1>s, <1>l DEF ReadEnds, RestOfRun, Exits
<1>12. ASSUME NEW j \in Jobs, Reconcile(j)
      PROVE  MarkInv' /\ BudgetStopReachesProc'
  BY <1>12, <1>t, <1>j, <1>s, <1>l DEF Reconcile, RestOfRun
<1>13. ASSUME NEW j \in Jobs, WorkerRaises(j)
      PROVE  MarkInv' /\ BudgetStopReachesProc'
  BY <1>13, <1>t, <1>j, <1>s, <1>l DEF WorkerRaises, RestOfRun
<1>14. ASSUME NEW j \in Jobs, DecideVerdict(j)
      PROVE  MarkInv' /\ BudgetStopReachesProc'
  BY <1>14, <1>t, <1>j, <1>s, <1>l DEF DecideVerdict, RestOfRun, ThreadEnds, DropMarkers
<1>15. ASSUME NEW j \in Jobs, CommitVerdict(j)
      PROVE  MarkInv' /\ BudgetStopReachesProc'
  BY <1>15, <1>t, <1>j, <1>s, <1>l DEF CommitVerdict, ThreadEnds, DropMarkers
<1>16. ASSUME NEW j \in Jobs, FinishSuccess(j)
      PROVE  MarkInv' /\ BudgetStopReachesProc'
  BY <1>16, <1>t, <1>j, <1>s, <1>l DEF FinishSuccess, RestOfRun, ThreadEnds, DropMarkers
<1>17. ASSUME NEW j \in Jobs, ProcExits(j)
      PROVE  MarkInv' /\ BudgetStopReachesProc'
  BY <1>17, <1>t, <1>j, <1>s, <1>l DEF ProcExits, RestOfProc, Exits
<1>18. ASSUME NEW j \in Jobs, SamplerTick(j)
      PROVE  MarkInv' /\ BudgetStopReachesProc'
  BY <1>18, <1>t, <1>j, <1>s, <1>l DEF SamplerTick, RestOfSampler
<1>19. ASSUME NEW j \in Jobs, SamplerMarks(j)
      PROVE  MarkInv' /\ BudgetStopReachesProc'
  BY <1>19, <1>t, <1>j, <1>s, <1>l DEF SamplerMarks, RestOfSampler
<1>20. ASSUME NEW j \in Jobs, SamplerStops(j)
      PROVE  MarkInv' /\ BudgetStopReachesProc'
  BY <1>20, <1>t, <1>j, <1>s, <1>l DEF SamplerStops, RestOfSampler, Signalled, Marked
<1>21. CASE WatchdogDooms
  BY <1>21, <1>t, <1>j, <1>s, <1>l DEF WatchdogDooms, Stalled, Started
<1>22. CASE Crash
  BY <1>22, <1>t, <1>d DEF Crash, Idle
<1> QED
  BY StillSteps, <1>1, <1>2, <1>3, <1>4, <1>5, <1>6, <1>7, <1>8, <1>9,
     <1>10, <1>11, <1>12, <1>13, <1>14, <1>15, <1>16, <1>17, <1>18,
     <1>19, <1>20, <1>21, <1>22
  DEF StillOr, WorkerStep, SamplerStep

(* MarkInv holds for ever, and the budget's stop with it. *)
LEMMA Marks == Spec => [](MarkInv /\ BudgetStopReachesProc)
<1>1. Init => MarkInv /\ BudgetStopReachesProc
  BY DEF Init, MarkInv, BudgetStopReachesProc, Idle, Doing, InRun
<1>2. TypeOK /\ LifecycleInv /\ MarkInv /\ BudgetStopReachesProc /\ [Next]_vars
        => MarkInv' /\ BudgetStopReachesProc'
  BY MarkStep
<1> QED
  BY <1>1, <1>2, TypeInvariant, Lifecycle, PTL DEF Spec

(* A budget stop reaches the process whatever the order of the sampler's   *)
(* marker, the worker's spawn and the worker's second look at the marker.  *)
THEOREM BudgetReaches == Spec => []BudgetStopReachesProc
<1> QED
  BY Marks, PTL

(* No budget stop and no runtime cap is labelled as a stop by a person.    *)
THEOREM StopLabels == Spec => StopIsAskedFor
<1>1. ASSUME TypeOK, MarkInv, [Next]_vars,
             NEW j \in Jobs, pc[j] = "join", pc'[j] = "commit",
             w'[j].out = "stopped"
      PROVE  killed[j] = "asked"
  <2>t. /\ w \in [Jobs -> Worker] /\ pc \in [Jobs -> PCs]
        /\ killed \in [Jobs -> {"no", "asked", "system"}]
    BY <1>1 DEF TypeOK
  <2>1. ASSUME NEW k \in Jobs, WorkerStep(k) PROVE DecideVerdict(j)
    BY <1>1, <2>1, <2>t
    DEF WorkerStep, BeginJob, TokenFails, PrepEscapes, PrepDone, Spawn, Rearm,
        ReadEnds, Reconcile, WorkerRaises, CommitVerdict, FinishSuccess,
        DecideVerdict, ThreadEnds
  <2>2. DecideVerdict(j)
    <3>1. CASE Still
      BY <1>1, <3>1 DEF Still
    <3>2. ASSUME NEW t \in Threads, StopKills(t) \/ StopFindsProc(t) PROVE FALSE
      BY <1>1, <3>2 DEF StopKills, StopFindsProc, RestOfTrigger, workers
    <3>3. ASSUME NEW k \in Jobs, DeadlineFires(k) \/ SamplerStep(k) \/ ProcExits(k)
          PROVE  FALSE
      BY <1>1, <3>3 DEF DeadlineFires, SamplerStep, SamplerTick, SamplerMarks,
         SamplerStops, ProcExits, RestOfSampler, RestOfProc, workers
    <3>4. CASE WatchdogDooms \/ Crash
      BY <1>1, <3>4 DEF WatchdogDooms, Crash, workers
    <3> QED
      BY <1>1, StillSteps, <2>1, <3>1, <3>2, <3>3, <3>4 DEF StillOr
  <2>3. w[j].rc # "raised" /\ Verdict(j) = "stopped"
    BY <1>1, <2>2, <2>t DEF DecideVerdict, ThreadEnds, Worker
  <2>4. killed[j] # "no" /\ j \notin budgetStop \cup deadline
    <3>1. w[j].rc # "stopped"
      BY <2>t DEF Worker, Exits
    <3>2. CASE j \in budgetStop
      BY <2>3, <3>2 DEF Verdict
    <3>3. CASE j \notin budgetStop /\ killed[j] = "no"
      BY <2>3, <3>1, <3>3 DEF Verdict
    <3>4. CASE j \notin budgetStop /\ killed[j] # "no" /\ j \in deadline
      BY <2>3, <3>4 DEF Verdict
    <3> QED
      BY <3>2, <3>3, <3>4
  <2> QED
    BY <1>1, <2>4, <2>t DEF MarkInv, InRun
<1>2. TypeOK /\ MarkInv /\ [Next]_vars =>
        [\A j \in Jobs :
           pc[j] = "join" /\ pc'[j] = "commit" /\ w'[j].out = "stopped"
             => killed[j] = "asked"]_vars
  BY <1>1
<1> QED
  BY <1>2, TypeInvariant, Marks, PTL DEF Spec, StopIsAskedFor

(* Samplers and markers live inside a run, when its join waits for the     *)
(* sampler.                                                                *)
LEMMA Samplers ==
  ASSUME "orphan" \notin World
  PROVE  Spec => []SamplerInv
<1>1. Init => SamplerInv
  BY DEF Init, SamplerInv
<1>2. ASSUME TypeOK, LifecycleInv, SamplerInv, [Next]_vars
      PROVE  SamplerInv'
  <2> USE DEF SamplerInv, InRun, dbVars, sysVars, workers, procs, marks
  <2>t. /\ pc \in [Jobs -> PCs] /\ queue \in Seq(Jobs)
        /\ sampler \in [Jobs -> {"off", "on", "over", "marked"}]
    BY <1>2 DEF TypeOK
  <2>1. CASE Still
    BY <1>2, <2>1 DEF Still
  <2>2. ASSUME NEW t \in Threads, StopKills(t) \/ StopFindsProc(t)
        PROVE  SamplerInv'
    BY <1>2, <2>2 DEF StopKills, StopFindsProc, RestOfTrigger
  <2>3. ASSUME NEW j \in Jobs, BeginJob(j) PROVE SamplerInv'
    <3>1. j = queue[1] /\ 1 \in 1 .. Len(queue)
      BY <2>3, <2>t DEF BeginJob
    <3>2. pc[j] = "none"
      BY <1>2, <3>1 DEF LifecycleInv, Started, Closed
    <3> QED
      BY <1>2, <2>3, <2>t, <3>2 DEF BeginJob
  <2>4. ASSUME NEW j \in Jobs, TokenFails(j) PROVE SamplerInv'
    BY <1>2, <2>4, <2>t DEF TokenFails, ThreadEnds
  <2>5. ASSUME NEW j \in Jobs, PrepEscapes(j) PROVE SamplerInv'
    BY <1>2, <2>5, <2>t DEF PrepEscapes, ThreadEnds
  <2>6. ASSUME NEW j \in Jobs, PrepDone(j) PROVE SamplerInv'
    BY <1>2, <2>6, <2>t DEF PrepDone
  <2>7. ASSUME NEW j \in Jobs, Spawn(j) PROVE SamplerInv'
    BY <1>2, <2>7, <2>t DEF Spawn, RestOfRun
  <2>8. ASSUME NEW j \in Jobs, Rearm(j) PROVE SamplerInv'
    BY <1>2, <2>8, <2>t DEF Rearm, RestOfRun
  <2>9. ASSUME NEW j \in Jobs, DeadlineFires(j) PROVE SamplerInv'
    BY <1>2, <2>9, <2>t DEF DeadlineFires, RestOfRun
  <2>10. ASSUME NEW j \in Jobs, ReadEnds(j) PROVE SamplerInv'
    BY <1>2, <2>10, <2>t DEF ReadEnds, RestOfRun
  <2>11. ASSUME NEW j \in Jobs, Reconcile(j) PROVE SamplerInv'
    BY <1>2, <2>11, <2>t DEF Reconcile, RestOfRun
  <2>12. ASSUME NEW j \in Jobs, WorkerRaises(j) PROVE SamplerInv'
    BY <1>2, <2>12, <2>t DEF WorkerRaises, RestOfRun
  <2>13. ASSUME NEW j \in Jobs, DecideVerdict(j) PROVE SamplerInv'
    BY <1>2, <2>13, <2>t DEF DecideVerdict, RestOfRun, ThreadEnds, DropMarkers
  <2>14. ASSUME NEW j \in Jobs, CommitVerdict(j) PROVE SamplerInv'
    BY <1>2, <2>14, <2>t DEF CommitVerdict, ThreadEnds, DropMarkers
  <2>15. ASSUME NEW j \in Jobs, FinishSuccess(j) PROVE SamplerInv'
    BY <1>2, <2>15, <2>t DEF FinishSuccess, RestOfRun, ThreadEnds, DropMarkers
  <2>16. ASSUME NEW j \in Jobs, ProcExits(j) PROVE SamplerInv'
    BY <1>2, <2>16, <2>t DEF ProcExits, RestOfProc
  <2>17. ASSUME NEW j \in Jobs, SamplerTick(j) PROVE SamplerInv'
    BY <1>2, <2>17, <2>t DEF SamplerTick, RestOfSampler
  <2>18. ASSUME NEW j \in Jobs, SamplerMarks(j) PROVE SamplerInv'
    BY <1>2, <2>18, <2>t DEF SamplerMarks, RestOfSampler
  <2>19. ASSUME NEW j \in Jobs, SamplerStops(j) PROVE SamplerInv'
    BY <1>2, <2>19, <2>t DEF SamplerStops, RestOfSampler
  <2>20. CASE WatchdogDooms
    BY <1>2, <2>20 DEF WatchdogDooms
  <2>21. CASE Crash
    BY <2>21 DEF Crash
  <2> QED
    BY <1>2, StillSteps, <2>1, <2>2, <2>3, <2>4, <2>5, <2>6, <2>7, <2>8,
       <2>9, <2>10, <2>11, <2>12, <2>13, <2>14, <2>15, <2>16, <2>17,
       <2>18, <2>19, <2>20, <2>21
    DEF StillOr, WorkerStep, SamplerStep
<1> QED
  BY <1>1, <1>2, TypeInvariant, Lifecycle, PTL DEF Spec

(* Markers do not outlive the worker, when its join waits for the sampler: *)
(* whatever way execute_sync_job is left after the sampler has started, it *)
(* is through the finally that drops them.                                 *)
THEOREM MarkersDropped ==
  ASSUME "orphan" \notin World
  PROVE  Spec => []MarkersAreDropped
<1>1. SamplerInv => MarkersAreDropped
  BY DEF SamplerInv, MarkersAreDropped, InRun
<1>2. Spec => []SamplerInv
  BY Samplers
<1> QED
  BY <1>1, <1>2, PTL

---------------------------------------------------------------------------
(* Published progress. *)

\* A worker whose row has not been closed yet.
Working(j) == InRun(j) \/ pc[j] \in {"prep", "commit"}

\* No two threads work on one account.
AloneInv ==
  \A j, k \in Jobs : Working(j) /\ Working(k) /\ AccountOf[j] = AccountOf[k] => j = k

\* When nothing but its worker closes a running row, a worker's row is running.
OwnRowInv ==
  /\ wd.doomed = {}
  /\ \A j \in Jobs : Working(j) => jstatus[j] = "running"

\* What a sampler finds published of its account, after the eviction, is its
\* own.  A run that has raised in its preparation has evicted nothing, but has
\* no sampler either.
LiveInv ==
  /\ OneLiveEntry
  /\ \A j \in Jobs, k \in live :
       sampler[j] # "off" /\ AccountOf[j] = AccountOf[k] => j = k

(* Samplers start in PrepDone only, and entries come from ticks only.      *)
LEMMA PublishSteps ==
  ASSUME TypeOK, [Next]_vars
  PROVE  \/ /\ live' = live
            /\ \A j \in Jobs : sampler'[j] # "off" => sampler[j] # "off"
         \/ \E j \in Jobs : PrepDone(j) \/ SamplerTick(j)
         \/ Crash
<1> DEFINE Inert == /\ live' = live
                    /\ \A j \in Jobs : sampler'[j] # "off" => sampler[j] # "off"
<1> USE DEF dbVars, sysVars, workers, procs, marks
<1>t. sampler \in [Jobs -> {"off", "on", "over", "marked"}]
  BY DEF TypeOK
<1>1. ASSUME Still PROVE Inert
  BY <1>1 DEF Still
<1>2. ASSUME NEW t \in Threads, StopKills(t) \/ StopFindsProc(t) PROVE Inert
  BY <1>2 DEF StopKills, StopFindsProc, RestOfTrigger
<1>3. ASSUME NEW j \in Jobs, BeginJob(j) PROVE Inert
  BY <1>3 DEF BeginJob
<1>4. ASSUME NEW j \in Jobs, TokenFails(j) \/ PrepEscapes(j) PROVE Inert
  BY <1>4 DEF TokenFails, PrepEscapes, ThreadEnds
<1>5. ASSUME NEW j \in Jobs, Spawn(j) \/ Rearm(j) PROVE Inert
  BY <1>5 DEF Spawn, Rearm, RestOfRun
<1>6. ASSUME NEW j \in Jobs, DeadlineFires(j) \/ ReadEnds(j) PROVE Inert
  BY <1>6 DEF DeadlineFires, ReadEnds, RestOfRun
<1>7. ASSUME NEW j \in Jobs, Reconcile(j) \/ WorkerRaises(j) PROVE Inert
  BY <1>7 DEF Reconcile, WorkerRaises, RestOfRun
<1>8. ASSUME NEW j \in Jobs, DecideVerdict(j) PROVE Inert
  BY <1>8 DEF DecideVerdict, RestOfRun, ThreadEnds
<1>9. ASSUME NEW j \in Jobs, CommitVerdict(j) \/ FinishSuccess(j) PROVE Inert
  BY <1>9 DEF CommitVerdict, FinishSuccess, RestOfRun, ThreadEnds
<1>10. ASSUME NEW j \in Jobs, SamplerMarks(j) \/ SamplerStops(j) PROVE Inert
  BY <1>10, <1>t DEF SamplerMarks, SamplerStops, RestOfSampler
<1>11. ASSUME NEW j \in Jobs, ProcExits(j) PROVE Inert
  BY <1>11 DEF ProcExits, RestOfProc
<1>12. ASSUME WatchdogDooms PROVE Inert
  BY <1>12 DEF WatchdogDooms
<1> HIDE DEF Inert
<1>13. Inert \/ (\E j \in Jobs : PrepDone(j) \/ SamplerTick(j)) \/ Crash
  BY StillSteps, <1>1, <1>2, <1>3, <1>4, <1>5, <1>6, <1>7, <1>8, <1>9, <1>10,
     <1>11, <1>12
  DEF StillOr, WorkerStep, SamplerStep
<1> QED
  BY <1>13 DEF Inert

(* No entry of another run of the account appears beside a sampler's own,  *)
(* when runs of an account do not overlap and samplers end with their run. *)
LEMMA LiveStep ==
  ASSUME TypeOK, SamplerInv, AloneInv, LiveInv, [Next]_vars
  PROVE  LiveInv'
<1>t. sampler \in [Jobs -> {"off", "on", "over", "marked"}] /\ live \in SUBSET Jobs
  BY DEF TypeOK
<1>1. CASE /\ live' = live
           /\ \A j \in Jobs : sampler'[j] # "off" => sampler[j] # "off"
  BY <1>1 DEF LiveInv, OneLiveEntry
<1>2. ASSUME NEW j \in Jobs, PrepDone(j) PROVE LiveInv'
  <2>1. /\ live' = Evicted(j)
        /\ \A k \in Jobs : k # j => sampler'[k] = sampler[k]
    BY <1>2, <1>t DEF PrepDone
  <2> QED
    BY <2>1, <1>t DEF LiveInv, OneLiveEntry, Evicted
<1>3. ASSUME NEW j \in Jobs, SamplerTick(j) PROVE LiveInv'
  <2>1. /\ live' = live \cup {j} /\ sampler[j] = "on"
        /\ \A k \in Jobs : k # j => sampler'[k] = sampler[k]
    BY <1>3, <1>t DEF SamplerTick
  <2>2. \A k \in Jobs : sampler[k] # "off" /\ AccountOf[k] = AccountOf[j] => k = j
    BY <2>1 DEF SamplerInv, AloneInv, Working
  <2> QED
    BY <2>1, <2>2, <1>t DEF LiveInv, OneLiveEntry
<1>4. CASE Crash
  BY <1>4 DEF Crash, LiveInv, OneLiveEntry
<1> QED
  BY PublishSteps, <1>1, <1>2, <1>3, <1>4

(* Only BeginJob puts a thread to work. *)
LEMMA WorkSteps ==
  ASSUME TypeOK, [Next]_vars
  PROVE  \/ \A j \in Jobs : Working(j)' => Working(j)
         \/ \E j \in Jobs : BeginJob(j)
<1> DEFINE Calls == \A j \in Jobs : Working(j)' => Working(j)
<1> USE DEF Working, InRun, dbVars, sysVars, workers, procs, marks
<1>t. pc \in [Jobs -> PCs]
  BY DEF TypeOK
<1>1. ASSUME Still PROVE Calls
  BY <1>1 DEF Still
<1>2. ASSUME NEW t \in Threads, StopKills(t) \/ StopFindsProc(t) PROVE Calls
  BY <1>2 DEF StopKills, StopFindsProc, RestOfTrigger
<1>4. ASSUME NEW j \in Jobs, TokenFails(j) \/ PrepEscapes(j) \/ PrepDone(j) PROVE Calls
  BY <1>4, <1>t DEF TokenFails, PrepEscapes, PrepDone, ThreadEnds
<1>5. ASSUME NEW j \in Jobs, Spawn(j) \/ Rearm(j) PROVE Calls
  BY <1>5, <1>t DEF Spawn, Rearm, RestOfRun
<1>6. ASSUME NEW j \in Jobs, DeadlineFires(j) \/ ReadEnds(j) PROVE Calls
  BY <1>6, <1>t DEF DeadlineFires, ReadEnds, RestOfRun
<1>7. ASSUME NEW j \in Jobs, Reconcile(j) \/ WorkerRaises(j) PROVE Calls
  BY <1>7, <1>t DEF Reconcile, WorkerRaises, RestOfRun
<1>8. ASSUME NEW j \in Jobs, DecideVerdict(j) PROVE Calls
  BY <1>8, <1>t DEF DecideVerdict, RestOfRun, ThreadEnds
<1>9. ASSUME NEW j \in Jobs, CommitVerdict(j) \/ FinishSuccess(j) PROVE Calls
  BY <1>9, <1>t DEF CommitVerdict, FinishSuccess, RestOfRun, ThreadEnds
<1>10. ASSUME NEW j \in Jobs, SamplerTick(j) \/ SamplerMarks(j) \/ SamplerStops(j)
       PROVE  Calls
  BY <1>10 DEF SamplerTick, SamplerMarks, SamplerStops, RestOfSampler
<1>11. ASSUME NEW j \in Jobs, ProcExits(j) PROVE Calls
  BY <1>11 DEF ProcExits, RestOfProc
<1>12. ASSUME WatchdogDooms \/ Crash PROVE Calls
  BY <1>12 DEF WatchdogDooms, Crash
<1> HIDE DEF Calls
<1>13. Calls \/ \E j \in Jobs : BeginJob(j)
  BY StillSteps, <1>1, <1>2, <1>4, <1>5, <1>6, <1>7, <1>8, <1>9, <1>10,
     <1>11, <1>12
  DEF StillOr, WorkerStep, SamplerStep
<1> QED
  BY <1>13 DEF Calls

(* In a pool of one thread there is never a second run. *)
LEMMA OneThreadAlone ==
  ASSUME MaxWorkers = 1
  PROVE  Spec => []AloneInv
<1> DEFINE Inv == \A j, k \in Jobs : pc[j] # "none" /\ pc[k] # "none" => j = k
<1>1. Init => Inv
  BY DEF Init
<1>2. ASSUME TypeOK, LifecycleInv, Inv, [Next]_vars PROVE Inv'
  <2>t. pc \in [Jobs -> PCs]
    BY <1>2 DEF TypeOK
  <2>1. ASSUME NEW j \in Jobs, BeginJob(j) PROVE Inv'
    <3> DEFINE B == {k \in Jobs : pc[k] # "none"}
    <3>1. Cardinality(B) < 1
      BY <2>1 DEF BeginJob
    <3>2. ASSUME NEW k \in B PROVE FALSE
      <4>1. B = {k}
        BY <1>2
      <4>2. Cardinality({k}) = 1
        BY FS_Singleton
      <4> QED
        BY <3>1, <4>1, <4>2
    <3>3. B = {}
      BY <3>2
    <3> QED
      BY <2>1, <2>t, <3>3 DEF BeginJob
  <2>2. ASSUME NEW t \in Threads, InsertJob(t) \/ SubmitJob(t) PROVE Inv'
    BY <1>2, <2>2 DEF InsertJob, SubmitJob, workers
  <2>3. ASSUME NEW j \in Jobs, TokenFails(j) \/ CommitVerdict(j) PROVE Inv'
    BY <1>2, <2>3, <2>t DEF TokenFails, CommitVerdict, ThreadEnds
  <2>4. CASE WatchdogDooms \/ WatchdogCommits \/ Crash \/ BootSweep
    BY <1>2, <2>4 DEF WatchdogDooms, WatchdogCommits, Crash, BootSweep, workers, memVars
  <2>5. CASE Quiet
    BY <1>2, <2>5 DEF Quiet
  <2> QED
    BY <1>2, StepKinds, <2>1, <2>2, <2>3, <2>4, <2>5 DEF Acts
<1>3. Inv => AloneInv
  BY DEF AloneInv, Working, InRun
<1> QED
  BY <1>1, <1>2, <1>3, TypeInvariant, Lifecycle, PTL DEF Spec

(* In a larger pool the guard of create_sync_job keeps the runs apart, as  *)
(* long as no row is closed while its worker goes on.                      *)
LEMMA GuardedAlone ==
  ASSUME "overlap" \notin World, "stall" \notin World
  PROVE  Spec => []AloneInv
<1>1. Init => OwnRowInv
  BY DEF Init, OwnRowInv, NoReap, Working, InRun
<1>2. ASSUME TypeOK, LifecycleInv, OwnRowInv, [Next]_vars PROVE OwnRowInv'
  <2>t. /\ jstatus \in [Jobs -> {"absent"} \cup Active \cup Closed]
        /\ pc \in [Jobs -> PCs] /\ queue \in Seq(Jobs)
    BY <1>2 DEF TypeOK
  <2>w. \A j \in Jobs : Working(j) => pc[j] # "none"
    BY DEF Working, InRun
  <2>1. ASSUME NEW j \in Jobs, BeginJob(j) PROVE OwnRowInv'
    <3>1. /\ wd' = wd
          /\ \/ pc' = pc
             \/ pc' = [pc EXCEPT ![j] = "prep"] /\ jstatus'[j] = "running"
          /\ \A k \in Jobs : k # j => jstatus'[k] = jstatus[k]
      BY <2>1, <2>t DEF BeginJob
    <3>2. j = queue[1] /\ 1 \in 1 .. Len(queue)
      BY <2>1, <2>t DEF BeginJob
    <3>3. ~Working(j)
      BY <1>2, <3>2, <2>w DEF LifecycleInv, Started, Closed
    <3>4. \A k \in Jobs : Working(k)' => Working(k) \/ (k = j /\ jstatus'[j] = "running")
      BY <3>1, <2>t DEF Working, InRun
    <3> QED
      BY <1>2, <3>1, <3>3, <3>4 DEF OwnRowInv
  <2>2. CASE \A j \in Jobs : Working(j)' => Working(j)
    <3>1. ASSUME NEW t \in Threads, InsertJob(t) \/ SubmitJob(t) PROVE OwnRowInv'
      <4>1. wd' = wd /\ \A j \in Jobs : jstatus[j] # "absent" => jstatus'[j] = jstatus[j]
        BY <3>1, <2>t DEF InsertJob, SubmitJob, FreshJobs, dbVars
      <4> QED
        BY <1>2, <2>2, <4>1 DEF OwnRowInv
    <3>2. ASSUME NEW j \in Jobs, TokenFails(j) \/ CommitVerdict(j) PROVE OwnRowInv'
      <4>1. /\ wd' = wd /\ pc'[j] \in {"none", "post"}
            /\ \A k \in Jobs : k # j => jstatus'[k] = jstatus[k]
        BY <3>2, <2>t DEF TokenFails, CommitVerdict, ThreadEnds
      <4>2. ~Working(j)'
        BY <4>1 DEF Working, InRun
      <4> QED
        BY <1>2, <2>2, <4>1, <4>2 DEF OwnRowInv
    <3>3. CASE WatchdogDooms \/ WatchdogCommits
      <4>1. {j \in Jobs : Stalled(j)} = {}
        BY DEF Stalled
      <4>2. ASSUME WatchdogDooms PROVE FALSE
        <5>1. PICK doomed \in (SUBSET {j \in Jobs : Stalled(j)}) \ {{}} : TRUE
          BY <4>2, Zenon DEF WatchdogDooms
        <5>2. doomed \subseteq {j \in Jobs : Stalled(j)} /\ doomed # {}
          OBVIOUS
        <5> QED
          BY <4>1, <5>2
      <4>3. ~WatchdogCommits
        BY <1>2 DEF WatchdogCommits, OwnRowInv
      <4> QED
        BY <3>3, <4>2, <4>3
    <3>4. CASE Crash
      BY <3>4 DEF Crash, OwnRowInv, Working, InRun, NoReap
    <3>5. CASE BootSweep
      <4>1. phase = "boot" /\ wd' = wd
        BY <3>5 DEF BootSweep, memVars
      <4>2. \A j \in Jobs : ~Working(j)
        BY <1>2, <4>1, <2>w DEF LifecycleInv
      <4> QED
        BY <1>2, <2>2, <4>1, <4>2 DEF OwnRowInv
    <3>6. CASE Quiet
      BY <1>2, <2>2, <3>6 DEF Quiet, OwnRowInv
    <3> QED
      BY <1>2, StepKinds, <2>1, <3>1, <3>2, <3>3, <3>4, <3>5, <3>6 DEF Acts
  <2> QED
    BY <1>2, WorkSteps, <2>1, <2>2
<1>3. OwnRowInv /\ OneActiveJob => AloneInv
  BY DEF OwnRowInv, OneActiveJob, ActiveJobs, AloneInv, Active
<1> QED
  BY <1>1, <1>2, <1>3, TypeInvariant, Lifecycle, GuardedCreation, PTL DEF Spec

(* _live_progress holds one entry per account.  The eviction is enough for *)
(* that when a run is alone on its account and its join waits for its      *)
(* sampler.  It is alone in a pool of one thread, and in a larger one when *)
(* create_sync_job is not entered twice at once and the watchdog closes no *)
(* row whose worker goes on.                                               *)
THEOREM OneLive ==
  ASSUME "orphan" \notin World,
         MaxWorkers = 1 \/ ("overlap" \notin World /\ "stall" \notin World)
  PROVE  Spec => []OneLiveEntry
<1>1. Init => LiveInv
  BY DEF Init, LiveInv, OneLiveEntry
<1>2. TypeOK /\ SamplerInv /\ AloneInv /\ LiveInv /\ [Next]_vars => LiveInv'
  BY LiveStep
<1>3. Spec => []AloneInv
  BY OneThreadAlone, GuardedAlone
<1>4. Spec => []SamplerInv
  BY Samplers
<1>5. LiveInv => OneLiveEntry
  BY DEF LiveInv
<1> QED
  BY <1>1, <1>2, <1>3, <1>4, <1>5, TypeInvariant, PTL DEF Spec

---------------------------------------------------------------------------
(* The abstract ledger. *)

\* What one step may do to the status of a row.
RowMoves ==
  \A j \in Jobs :
    \/ jstatus'[j] = jstatus[j]
    \/ jstatus[j] = "absent" /\ jstatus'[j] = "pending"
    \/ jstatus[j] \in Active /\ jstatus'[j] \in Active \cup Closed
    \/ jstatus[j] \in Closed /\ jstatus'[j] \in Closed

(* A row is created pending, and once it is closed whoever comes late can   *)
(* only relabel it: workers, sweeps and the watchdog never reopen it.       *)
LEMMA RowMovesStep ==
  ASSUME TypeOK, LifecycleInv, [Next]_vars
  PROVE  RowMoves
<1> USE DEF Active, Closed, RowMoves
<1>t. /\ jstatus \in [Jobs -> {"absent"} \cup Active \cup Closed]
      /\ queue \in Seq(Jobs)
  BY DEF TypeOK
<1>1. CASE Quiet
  BY <1>1 DEF Quiet
<1>2. ASSUME NEW t \in Threads, InsertJob(t) \/ SubmitJob(t) PROVE RowMoves
  BY <1>2, <1>t DEF InsertJob, SubmitJob, FreshJobs, dbVars
<1>3. ASSUME NEW j \in Jobs, BeginJob(j) PROVE RowMoves
  <2>1. j = queue[1] /\ 1 \in 1 .. Len(queue)
    BY <1>3, <1>t DEF BeginJob
  <2>2. jstatus[j] = "pending"
    BY <2>1 DEF LifecycleInv
  <2> QED
    BY <1>3, <1>t, <2>2 DEF BeginJob
<1>4. ASSUME NEW j \in Jobs, TokenFails(j) \/ CommitVerdict(j) PROVE RowMoves
  <2>1. pc[j] # "none"
    BY <1>4 DEF TokenFails, CommitVerdict
  <2>2. jstatus[j] # "absent"
    BY <2>1 DEF LifecycleInv, Started
  <2> QED
    BY <1>4, <1>t, <2>2 DEF TokenFails, CommitVerdict, StatusOf
<1>5. ASSUME WatchdogDooms \/ WatchdogCommits \/ Crash \/ BootSweep PROVE RowMoves
  <2>1. \A j \in wd.doomed : jstatus[j] # "absent"
    BY DEF LifecycleInv, Started, TypeOK
  <2> QED
    BY <1>5, <1>t, <2>1
       DEF WatchdogDooms, WatchdogCommits, Crash, BootSweep, Zombies, dbVars
<1> QED
  BY StepKinds, <1>1, <1>2, <1>3, <1>4, <1>5 DEF Acts

(* The engine implements JobLedger in every world: two threads that create  *)
(* jobs at once, stalled runs and lost processes included.                  *)
THEOREM SyncJobLedger == Spec => JobTableSpec
<1> DEFINE R == [j \in Jobs |-> CASE jstatus[j] \in Active -> "active"
                                  [] jstatus[j] \in Closed -> "closed"
                                  [] OTHER -> "absent"]
           B == {a \in Accounts : acct[a].sync = "syncing"}
<1>1. Init => JobTable!Init
  <2> SUFFICES ASSUME Init PROVE JobTable!Init
    OBVIOUS
  <2>1. \A j \in Jobs : jstatus[j] = "absent"
    BY DEF Init
  <2>2. R = [j \in Jobs |-> "absent"]
    BY <2>1 DEF Active, Closed
  <2>3. B = {}
    BY DEF Init, NewAccount
  <2> QED
    BY <2>2, <2>3 DEF JobTable!Init
<1>2. TypeOK /\ TypeOK' /\ LifecycleInv /\ SyncingHasRunningJob' /\ [Next]_vars
        => [JobTable!Next]_(JobTable!ledger)
  <2> SUFFICES ASSUME TypeOK, TypeOK', LifecycleInv, SyncingHasRunningJob', [Next]_vars
               PROVE  JobTable!Next
    OBVIOUS
  <2>1. RowMoves
    BY RowMovesStep
  <2>2. ASSUME NEW j \in Jobs
        PROVE  /\ R'[j] \in JobTable!Later(R[j])
               /\ jstatus'[j] = "running" => R'[j] = "active"
    <3>1. jstatus[j] \in {"absent", "pending", "running", "completed", "failed", "interrupted"}
      BY DEF TypeOK, Active, Closed
    <3>2. /\ R[j] = CASE jstatus[j] \in Active -> "active"
                      [] jstatus[j] \in Closed -> "closed"
                      [] OTHER -> "absent"
          /\ R'[j] = CASE jstatus'[j] \in Active -> "active"
                      [] jstatus'[j] \in Closed -> "closed"
                      [] OTHER -> "absent"
      OBVIOUS
    <3> HIDE DEF R
    <3>3. /\ jstatus[j] \in Active => R[j] = "active"
          /\ jstatus[j] \in Closed => R[j] = "closed"
          /\ jstatus[j] = "absent" => R[j] = "absent"
          /\ jstatus'[j] \in Active => R'[j] = "active"
          /\ jstatus'[j] \in Closed => R'[j] = "closed"
          /\ jstatus'[j] = "absent" => R'[j] = "absent"
      BY <3>2 DEF Active, Closed
    <3> QED
      BY <2>1, <3>1, <3>3 DEF RowMoves, JobTable!Later, Active, Closed
  <2>3. B' \subseteq Accounts
    OBVIOUS
  <2>4. B' \subseteq {AccountOf[j] : j \in {i \in Jobs : R'[i] = "active"}}
    <3> HIDE DEF R
    <3> QED
      BY <2>2 DEF SyncingHasRunningJob
  <2> QED
    BY <2>2, <2>3, <2>4 DEF JobTable!Next, JobTable!Occupied
<1> QED
  BY <1>1, <1>2, TypeInvariant, Lifecycle, Syncing, PTL
     DEF Spec, JobTableSpec, JobTable!Spec
=============================================================================
