---------------------------- MODULE BackupEngine ----------------------------
(***************************************************************************)
(* The off-site backup engine: backup policies and backup_jobs rows, the   *)
(* pool of backup threads, the restic processes they drive, the heartbeat  *)
(* and process dicts, the stall watchdog, the boot sweep, the scheduler's  *)
(* table of cron entries, and the marker that dedups failure alerts.       *)
(*                                                                         *)
(* A policy stands for its account too: an account has one policy.         *)
(***************************************************************************)
EXTENDS Naturals, FiniteSets, Sequences

CONSTANTS
  Policies,    \* ids of account_backups rows
  MaxJobs,     \* bound: backup_jobs rows ever inserted
  Keep,        \* cleanup_old_backup_jobs(keep=...)
  MaxWorkers,  \* max_workers of the executor
  MaxCrashes,  \* bound: how often the process dies
  World        \* which of Hazards can happen

\* "overlap": a policy may be submitted while a run of it is queued or in
\* progress; "wedge": restic may block for ever; "refresh": the scheduler's
\* table is rebuilt while the process runs; "slow": restic may be silent for
\* longer than the threshold and still finish.
Hazards == {"overlap", "wedge", "refresh", "slow"}

\* Row ids in the order in which the rows are inserted.
JobIds == 1 .. MaxJobs

ASSUME BackupAssumption ==
  /\ Policies # {} /\ "backup-watchdog" \notin Policies
  /\ MaxJobs \in Nat /\ MaxCrashes \in Nat
  /\ Keep \in Nat \ {0} /\ MaxWorkers \in Nat \ {0}
  /\ World \subseteq Hazards

VARIABLES
  (* database *)
  policy,      \* account_backups rows
  owner,       \* backup_jobs.policy_id
  job,         \* backup_jobs rows
  slot,        \* accounts.last_notified_state
  told,        \* history: owners were alerted since the last good backup
  (* process memory *)
  phase,       \* "boot" until the sweep has run and the scheduler is started
  crashes,
  cron,        \* ids in the scheduler's table
  queue,       \* the executor's work queue
  w,           \* the thread that runs a job
  restic,      \* the streamed restic process of a job
  blocked,     \* jobs whose restic command hangs
  quiet,       \* past the grace period and without a recent heartbeat
  progress,    \* keys of _backup_progress
  registered,  \* keys of _running_backup_procs
  wd           \* the watchdog tick: what it has closed but not committed

rows   == <<policy, owner, job>>
alerts == <<slot, told>>
dicts  == <<progress, registered>>
procs  == <<restic, blocked, quiet>>
sys    == <<phase, crashes, cron>>
vars   == <<rows, alerts, sys, queue, w, procs, dicts, wd>>

---------------------------------------------------------------------------
(* Types. *)

Statuses == {"idle", "running", "completed", "failed"}
Row == [status : {"absent", "running", "completed", "failed", "gone"},
        kind   : {"none", "interrupted", "stalled", "error"}]
NoRow == [status |-> "absent", kind |-> "none"]

\* schedule is what the form saved ("bad": not a crontab line).
Policy == [saved : {"no", "good", "bad"}, status : Statuses]
NoPolicy == [saved |-> "no", status |-> "idle"]

\* The steps at which a restic command runs.
Commands == {"init", "backup", "retain", "finish"}
PCs == Commands \cup {"none", "except", "commit", "notify"}

\* seen, slot: what the worker's session has loaded of policy and account;
\* closed: already_closed.
Worker == [pc : PCs, seen : Statuses, slot : {"none", "backup_failed", "sync"},
           closed : BOOLEAN]
NoWorker == [pc |-> "none", seen |-> "idle", slot |-> "none",
             closed |-> FALSE]
NoTick == [doomed |-> {}, heal |-> {}]

TypeOK ==
  /\ policy \in [Policies -> Policy]
  /\ owner \in [JobIds -> Policies]
  /\ job \in [JobIds -> Row]
  /\ slot \in [Policies -> {"none", "backup_failed", "sync"}]
  /\ told \in [Policies -> BOOLEAN]
  /\ phase \in {"boot", "up"}
  /\ crashes \in 0 .. MaxCrashes
  /\ cron \subseteq Policies \cup {"backup-watchdog"}
  /\ queue \in Seq(Policies)
  /\ w \in [JobIds -> Worker]
  /\ restic \in [JobIds -> {"none", "alive", "dead"}]
  /\ blocked \in SUBSET JobIds /\ quiet \in SUBSET JobIds
  /\ progress \in SUBSET JobIds /\ registered \in SUBSET JobIds
  /\ wd \in [doomed : SUBSET JobIds, heal : SUBSET Policies]

Init ==
  /\ policy = [p \in Policies |-> NoPolicy]
  /\ owner = [j \in JobIds |-> CHOOSE p \in Policies : TRUE]
  /\ job = [j \in JobIds |-> NoRow]
  /\ slot = [p \in Policies |-> "none"]
  /\ told = [p \in Policies |-> FALSE]
  /\ phase = "up"
  /\ crashes = 0
  /\ cron = {"backup-watchdog"}
  /\ queue = <<>>
  /\ w = [j \in JobIds |-> NoWorker]
  /\ restic = [j \in JobIds |-> "none"]
  /\ blocked = {} /\ quiet = {}
  /\ progress = {} /\ registered = {}
  /\ wd = NoTick

---------------------------------------------------------------------------
(* Helpers. *)

Busy == {j \in JobIds : w[j].pc # "none"}
JobsOf(p) == {j \in JobIds : owner[j] = p /\ job[j].status # "absent"}
Present(j) == job[j].status \notin {"absent", "gone"}

\* A commit writes a column only when it differs from the one loaded.
Flushed(p, seen, new) ==
  IF seen = new THEN policy ELSE [policy EXCEPT ![p].status = new]

\* Mutant: the row is deleted.
DeletedRow(r, kind) == [r EXCEPT !.status = "gone"]

\* _close_job on a row, and on policies that it has read as running
Closed(r, kind) == [r EXCEPT !.status = "failed", !.kind = kind]

\* Mutant: the policy is left as it is.
NotHealed(ps) == policy

Healed(ps) ==
  [p \in Policies |-> IF p \in ps THEN [policy[p] EXCEPT !.status = "failed"]
                                  ELSE policy[p]]

\* cleanup_old_backup_jobs: all but the newest rows of the account go.
Trimmed(p) ==
  [j \in JobIds |->
     IF Present(j) /\ owner[j] = p
          /\ Cardinality({i \in JobsOf(p) : Present(i) /\ i > j}) >= Keep
       THEN [job[j] EXCEPT !.status = "gone"] ELSE job[j]]

\* Mutant: a success keeps the marker.
MarkerKept(seen, now) == now

\* A success releases the marker if it is the backup's own.
Released(seen, now) == IF seen = "backup_failed" THEN "none" ELSE now

\* Mutant: the handle is kept.
DropProgress(j) == progress' = progress \ {j} /\ UNCHANGED registered

\* The finally of execute_backup
DropEntries(j) ==
  /\ progress' = progress \ {j}
  /\ registered' = registered \ {j}

---------------------------------------------------------------------------
(* Policies, the scheduler's table and submission. *)

\* account_backup_configure: the row is saved, the scheduler not told, and
\* the crontab line not looked at.
Configure(p, line) ==
  /\ phase = "up"
  /\ policy[p].saved # line
  /\ policy' = [policy EXCEPT ![p].saved = line]
  /\ UNCHANGED <<owner, job, alerts, sys, queue, w, procs, dicts, wd>>

Saved == {p \in Policies : policy[p].saved # "no"}

\* backup_scheduler_jobs: entries are added for good crontab lines, kept for
\* every policy, and removed for every other id that starts with "backup-".
Table(old) ==
  {p \in Saved : policy[p].saved = "good" \/ p \in old}

\* refresh_scheduler: an account was created, edited or deleted.
RefreshScheduler ==
  /\ "refresh" \in World
  /\ phase = "up"
  /\ cron' = Table(cron)
  /\ UNCHANGED <<rows, alerts, phase, crashes, queue, w, procs, dicts, wd>>

\* submit_backup, which looks at nothing; ids are the bound.
Submit(p) ==
  /\ phase = "up"
  /\ Len(queue) < Cardinality({j \in JobIds : job[j].status = "absent"})
  /\ \/ "overlap" \in World
     \/ /\ \A i \in DOMAIN queue : queue[i] # p
        /\ \A j \in Busy : owner[j] # p
  /\ queue' = Append(queue, p)
  /\ UNCHANGED <<rows, alerts, sys, w, procs, dicts, wd>>

RunScheduledBackup(p) == p \in cron /\ Submit(p)
BackupNow(p) == p \in Saved /\ Submit(p)

---------------------------------------------------------------------------
(* execute_backup. *)

Go(j, pc) == w' = [w EXCEPT ![j].pc = pc]

\* The id of the row that is inserted next.
NextId ==
  CHOOSE i \in JobIds : /\ job[i].status = "absent"
                        /\ \A k \in 1 .. i - 1 : job[k].status # "absent"

\* The rows, their first commit, and the first entry of _backup_progress.
Start ==
  /\ queue # <<>>
  /\ Cardinality(Busy) < MaxWorkers
  /\ LET p == Head(queue)
         j == NextId
     IN  /\ queue' = Tail(queue)
         /\ owner' = [owner EXCEPT ![j] = p]
         /\ job' = [job EXCEPT ![j] = [status |-> "running", kind |-> "none"]]
         /\ policy' = [policy EXCEPT ![p].status = "running"]
         /\ w' = [w EXCEPT ![j] = [NoWorker EXCEPT !.pc = "init",
                                     !.seen = "running", !.slot = slot[p]]]
         /\ progress' = progress \cup {j}
  /\ UNCHANGED <<alerts, sys, procs, registered, wd>>

\* restic init, or the repository is there; the streamed process is started
\* and registered.
InitRepo(j) ==
  /\ w[j].pc = "init" /\ j \notin blocked
  /\ Go(j, "backup")
  /\ restic' = [restic EXCEPT ![j] = "alive"]
  /\ registered' = registered \cup {j}
  /\ progress' = progress \cup {j}
  /\ quiet' = quiet \ {j}
  /\ UNCHANGED <<rows, alerts, sys, queue, blocked, wd>>

\* _tick: every message of restic is a heartbeat.
Heartbeat(j) ==
  /\ w[j].pc = "backup" /\ restic[j] = "alive" /\ j \notin blocked
  /\ j \in quiet \/ j \notin progress
  /\ progress' = progress \cup {j}
  /\ quiet' = quiet \ {j}
  /\ UNCHANGED <<rows, alerts, sys, queue, w, restic, blocked, registered, wd>>

\* restic exits with a snapshot; record_snapshot's commit makes the session
\* load policy and account again.
SnapshotTaken(j) ==
  /\ w[j].pc = "backup" /\ restic[j] = "alive" /\ j \notin blocked
  /\ restic' = [restic EXCEPT ![j] = "none"]
  /\ w' = [w EXCEPT ![j] = [@ EXCEPT !.pc = "retain",
                              !.seen = policy[owner[j]].status,
                              !.slot = slot[owner[j]]]]
  /\ progress' = progress \cup {j}
  /\ quiet' = quiet \ {j}
  /\ UNCHANGED <<rows, alerts, sys, queue, blocked, registered, wd>>

\* apply_retention.  prune_snapshot commits when it has removed something,
\* and the session loads both rows again.
Retain(j, pruned) ==
  /\ w[j].pc = "retain" /\ j \notin blocked
  /\ w' = [w EXCEPT ![j] = [@ EXCEPT !.pc = "finish",
                !.seen = IF pruned THEN policy[owner[j]].status ELSE w[j].seen,
                !.slot = IF pruned THEN slot[owner[j]] ELSE w[j].slot]]
  /\ UNCHANGED <<rows, alerts, sys, queue, procs, dicts, wd>>

\* A command of restic fails, or is killed.
Raises(j) ==
  /\ \/ w[j].pc \in {"init", "backup", "retain"} /\ j \notin blocked
     \/ w[j].pc = "backup" /\ restic[j] = "dead"
  /\ Go(j, "except")
  /\ restic' = [restic EXCEPT ![j] = "none"]
  /\ blocked' = blocked \ {j}
  /\ UNCHANGED <<rows, alerts, sys, queue, quiet, dicts, wd>>

\* The success branch, list_snapshots and finally: the job row is not read
\* again.
Succeed(j) ==
  LET p == owner[j] IN
  /\ w[j].pc = "finish" /\ j \notin blocked
  /\ IF Present(j)
       THEN /\ job' = [Trimmed(p) EXCEPT ![j].status = "completed"]
            /\ policy' = Flushed(p, w[j].seen, "completed")
            /\ slot' = [slot EXCEPT ![p] = Released(w[j].slot, @)]
            /\ told' = [told EXCEPT ![p] = FALSE]
       ELSE UNCHANGED <<job, policy, alerts>>
  /\ w' = [w EXCEPT ![j] = NoWorker]
  /\ DropEntries(j)
  /\ UNCHANGED <<owner, sys, queue, procs, wd>>

\* The except branch: refresh ...
Refresh(j) ==
  /\ w[j].pc = "except"
  /\ w' = [w EXCEPT ![j] = [@ EXCEPT !.pc = "commit",
             !.closed = job[j].status = "failed" /\ job[j].kind # "none"]]
  /\ UNCHANGED <<rows, alerts, sys, queue, procs, dicts, wd>>

\* ... commit, unless the row has gone ...
CommitFailure(j) ==
  /\ w[j].pc = "commit"
  /\ IF Present(j)
       THEN /\ policy' = Flushed(owner[j], w[j].seen, "failed")
            /\ job' = [job EXCEPT ![j].status = "failed",
                         ![j].kind = IF w[j].closed THEN @ ELSE "error"]
       ELSE UNCHANGED <<job, policy>>
  /\ Go(j, "notify")
  /\ UNCHANGED <<owner, alerts, sys, queue, procs, dicts, wd>>

\* ... notify_account_problem, which has loaded the account again, and finally.
Notify(j) ==
  LET p == owner[j] IN
  /\ w[j].pc = "notify"
  /\ told' = [told EXCEPT ![p] = @ \/ slot[p] # "backup_failed"]
  /\ slot' = [slot EXCEPT ![p] = "backup_failed"]
  /\ job' = Trimmed(p)
  /\ w' = [w EXCEPT ![j] = NoWorker]
  /\ DropEntries(j)
  /\ UNCHANGED <<policy, owner, sys, queue, procs, wd>>

---------------------------------------------------------------------------
(* The environment: restic, the clock, the sync engine's alerts. *)

Wedge(j) ==
  /\ "wedge" \in World
  /\ w[j].pc \in Commands /\ restic[j] # "dead"
  /\ j \notin blocked
  /\ blocked' = blocked \cup {j}
  /\ UNCHANGED <<rows, alerts, sys, queue, w, restic, quiet, dicts, wd>>

Quieten(j) ==
  /\ j \in blocked \/ "slow" \in World
  /\ w[j].pc \in Commands
  /\ j \notin quiet
  /\ quiet' = quiet \cup {j}
  /\ UNCHANGED <<rows, alerts, sys, queue, w, restic, blocked, dicts, wd>>

\* A sync problem takes the account's one slot; a good sync clears it.
SyncAlert(p, s) ==
  /\ s \in {"sync", "none"}
  /\ slot[p] # s
  /\ slot' = [slot EXCEPT ![p] = s]
  /\ UNCHANGED <<rows, told, sys, queue, w, procs, dicts, wd>>

---------------------------------------------------------------------------
(* Watchdog, crash and boot. *)

\* recover_stalled_backup_jobs up to its commit: rows are closed in the
\* session, processes stopped and dict entries dropped.

\* Mutant: the condition of the sync watchdog, which spares a live process.
SparesAlive ==
  {j \in JobIds : /\ job[j].status = "running" /\ j \in quiet
                  /\ ~(j \in registered /\ restic[j] = "alive")}

Stalled == {j \in JobIds : job[j].status = "running" /\ j \in quiet}
WatchdogReaps ==
  /\ phase = "up"
  /\ "backup-watchdog" \in cron
  /\ wd = NoTick
  /\ Stalled # {}
  /\ wd' = [doomed |-> Stalled,
            heal |-> {p \in Policies : /\ policy[p].status = "running"
                                       /\ \E j \in Stalled : owner[j] = p}]
  /\ restic' = [j \in JobIds |->
                  IF j \in Stalled \cap registered /\ restic[j] = "alive"
                    THEN "dead" ELSE restic[j]]
  /\ blocked' = blocked \ {j \in Stalled \cap registered : restic[j] = "alive"}
  /\ progress' = progress \ Stalled
  /\ registered' = registered \ Stalled
  /\ UNCHANGED <<rows, alerts, sys, queue, w, quiet>>

\* A row that is gone makes the whole commit fail.
WatchdogCommits ==
  /\ wd # NoTick
  /\ IF \A j \in wd.doomed : Present(j)
       THEN /\ job' = [j \in JobIds |-> IF j \in wd.doomed
                                          THEN Closed(job[j], "stalled")
                                          ELSE job[j]]
            /\ policy' = Healed(wd.heal)
       ELSE UNCHANGED <<job, policy>>
  /\ wd' = NoTick
  /\ UNCHANGED <<owner, alerts, sys, queue, w, procs, dicts>>

Crash ==
  /\ phase = "up" /\ crashes < MaxCrashes
  /\ crashes' = crashes + 1
  /\ phase' = "boot"
  /\ cron' = {}
  /\ queue' = <<>>
  /\ w' = [j \in JobIds |-> NoWorker]
  /\ restic' = [j \in JobIds |-> "none"]
  /\ blocked' = {} /\ quiet' = {} /\ progress' = {} /\ registered' = {}
  /\ wd' = NoTick
  /\ UNCHANGED <<rows, alerts>>

\* recover_zombie_backup_jobs, then start_scheduler.
Boot ==
  LET zombies == {j \in JobIds : job[j].status = "running"} IN
  /\ phase = "boot"
  /\ phase' = "up"
  /\ job' = [j \in JobIds |-> IF j \in zombies THEN Closed(job[j], "interrupted")
                                               ELSE job[j]]
  /\ policy' = Healed({p \in Policies : /\ policy[p].status = "running"
                                        /\ \E j \in zombies : owner[j] = p})
  /\ cron' = Table({}) \cup {"backup-watchdog"}
  /\ UNCHANGED <<owner, alerts, crashes, queue, w, procs, dicts, wd>>

---------------------------------------------------------------------------

WorkerStep(j) ==
  \/ InitRepo(j) \/ SnapshotTaken(j) \/ Retain(j, TRUE) \/ Retain(j, FALSE)
  \/ Raises(j) \/ Succeed(j) \/ Refresh(j) \/ CommitFailure(j) \/ Notify(j)

Next ==
  \/ \E p \in Policies :
       \/ \E line \in {"good", "bad"} : Configure(p, line)
       \/ RunScheduledBackup(p) \/ BackupNow(p)
       \/ \E s \in {"sync", "none"} : SyncAlert(p, s)
  \/ RefreshScheduler \/ Start
  \/ \E j \in JobIds : WorkerStep(j) \/ Heartbeat(j) \/ Wedge(j) \/ Quieten(j)
  \/ WatchdogReaps \/ WatchdogCommits \/ Crash \/ Boot

Spec == Init /\ [][Next]_vars

\* Threads run unless restic blocks them; the clock makes a blocked command
\* silent; APScheduler fires the watchdog every minute while it has the
\* entry; a container is restarted.
FairSpec ==
  /\ Spec
  /\ WF_vars(Start) /\ WF_vars(WatchdogReaps) /\ WF_vars(WatchdogCommits)
  /\ WF_vars(Boot)
  /\ \A j \in JobIds :
       WF_vars(WorkerStep(j)) /\ WF_vars(Quieten(j) /\ j \in blocked)

---------------------------------------------------------------------------
(* Properties. *)

\* A policy shows "running" only while a row of it is running: whoever closes
\* the last row (worker, watchdog, boot sweep) also turns the policy over,
\* although each writes from what its own session has loaded.
RunningHasJob ==
  \A p \in Policies : policy[p].status = "running" =>
    \E j \in JobIds : owner[j] = p /\ job[j].status = "running"

\* The marker that silences a failure alert is never left over from before
\* the last good backup: if it is set, the owners were told since then.
MarkerIsCurrent == \A p \in Policies : slot[p] = "backup_failed" => told[p]

\* No heartbeat entry and no process handle outlives the run it is of, also
\* when a late heartbeat puts back an entry that the watchdog has dropped.
EntriesEnd == progress \cup registered \subseteq Busy

\* The history of runs, as the pages read it.
Ledger == INSTANCE JobLedger WITH
  Jobs <- JobIds, Owners <- Policies, ownerOf <- owner,
  busy <- {p \in Policies : policy[p].status = "running"},
  rows <- [j \in JobIds |->
             CASE job[j].status = "running" -> "active"
               [] job[j].status \in {"completed", "failed"} -> "closed"
               [] OTHER -> job[j].status]

\* The engine implements JobLedger: rows are opened and closed once, none
\* disappears while it runs, and no policy is lit without one.
LedgerSpec == Ledger!Spec

\* While the scheduler holds the watchdog's entry every run is closed in the
\* end: by its worker, by the watchdog when restic hangs, or at boot.
RunsClose ==
  \A j \in JobIds : job[j].status = "running" ~>
                    job[j].status # "running" \/ "backup-watchdog" \notin cron

\* "Periodic watchdog: close running backups whose restic heartbeat died"
\* (backup_worker.py 146): a row whose restic has gone silent is closed.
StalledRunsClose ==
  \A j \in JobIds : job[j].status = "running" ~> job[j].status # "running"
=============================================================================
