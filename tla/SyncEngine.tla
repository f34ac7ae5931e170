----------------------------- MODULE SyncEngine -----------------------------
(***************************************************************************)
(* The sync engine of MailFallBack: the sync_jobs and accounts rows in the *)
(* database, the in-memory executor that runs jobs, the mbsync process and *)
(* the sampler thread of each job, the four in-memory markers (killed,     *)
(* budget, deadline, live progress), the request and scheduler threads     *)
(* that create jobs, the watchdog and the boot sweep.                      *)
(*                                                                         *)
(* Every thread has its own database session at READ COMMITTED, so a step  *)
(* is what one thread does between two points where another thread's       *)
(* commit, or its write to a module-level dict, can become visible.        *)
(***************************************************************************)
EXTENDS Naturals, FiniteSets, Sequences

CONSTANTS
  Accounts,    \* rows of the accounts table
  Jobs,        \* ids sync_jobs rows can get; names the bound on jobs created
  AccountOf,   \* the account a job id is for
  Requests,    \* threads serving API, agent, MCP and OAuth-callback requests
  None,        \* no account, no job
  Flags,       \* the gates an account can be behind
  MaxWorkers,  \* settings.sync_max_workers
  MaxCrashes,  \* bound: how often the process dies
  World        \* which of Hazards can happen

AllFlags == {"suspended", "unauthenticated", "migrating", "owner_migrating"}

\* "overlap": two threads may be creating jobs at the same time; "budget":
\* accounts have a daily budget; "raise": I/O of the worker may fail; "hang":
\* mbsync may block without output and without exiting; "stall": a running
\* job may be past sync_stall_grace_s without a tick; "orphan": the sampler's
\* walk may outlast the worker's join; "refuse": the Source's host or the
\* OAuth token may be refused.
Hazards == {"overlap", "budget", "raise", "hang", "stall", "orphan", "refuse"}

\* The scheduler threads: _run_scheduled_sync and _run_pause_expiry_tick.
\* APScheduler runs each with max_instances=1.
Threads == Requests \cup {"cron", "tick"}

ASSUME SyncAssumption ==
  /\ AccountOf \in [Jobs -> Accounts]
  /\ None \notin Accounts \cup Jobs
  /\ {"cron", "tick"} \cap Requests = {}
  /\ Flags \subseteq AllFlags
  /\ MaxWorkers \in Nat \ {0}
  /\ MaxCrashes \in Nat
  /\ World \subseteq Hazards

VARIABLES
  (* database *)
  jstatus,     \* sync_jobs.status ("absent": no row yet)
  acct,        \* the accounts rows
  spent,       \* accounts whose ledger of today has reached the budget
  flags,       \* suspended, migrating, ... as a set per account
  (* process memory *)
  phase,       \* "boot" until recover_zombie_sync_jobs has run, then "up"
  crashes,
  queue,       \* ThreadPoolExecutor's work queue
  pc,          \* where the worker thread of a job is ("none": no thread)
  w,           \* its local variables
  proc,        \* its latest mbsync process: running, or its exit
  hung,        \* jobs whose mbsync is blocked and silent
  registered,  \* keys of _running_procs
  killed,      \* _killed_signals, with who wrote the entry first
  budgetStop,  \* _budget_stops
  deadline,    \* keys of _deadline_stops
  live,        \* keys of _live_progress
  sampler,     \* the sampler thread of a job
  ses,         \* threads that create or stop jobs
  wd           \* the watchdog tick: what it decided, what it read

dbVars  == <<jstatus, acct, spent, flags>>
sysVars == <<phase, crashes>>
marks   == <<killed, budgetStop, deadline>>
procs   == <<proc, hung, registered>>
workers == <<queue, pc, w>>
memVars == <<workers, procs, marks, live, sampler, ses, wd>>
vars    == <<dbVars, memVars, sysVars>>

---------------------------------------------------------------------------
(* Types. *)

\* A failed row whose failure_kind is "interrupted" (written by a recovery
\* sweep) is kept apart from one a worker or a gate has failed.
Active == {"pending", "running"}
Closed == {"completed", "failed", "interrupted"}

\* classify_failure's two kinds, throttled and transient, pause alike and are
\* one reason here: "backoff".
Row == [sync    : {"idle", "syncing", "error", "needs_reauth"},
        pause   : {"none", "expired", "future"},     \* sync_paused_until
        reason  : {"none", "budget", "backoff", "interrupted"},
        err     : {"none", "token", "other"},        \* last_error
        initial : BOOLEAN]    \* initial_sync_completed_at is not NULL

NewAccount == [sync |-> "idle", pause |-> "none", reason |-> "none",
               err |-> "none", initial |-> FALSE]

PCs == {"none", "prep", "spawn", "rearm", "read", "reconcile", "join",
        "commit", "post"}

\* How mbsync exits, with classify_failure's reading of the log tail.
Exits  == {"ok", "backoff", "error"}
Labels == {"none", "raised", "completed", "budget_paused", "deadline",
           "stopped", "backoff", "error"}

Worker == [left    : {0, 1},   \* invocations after the current one
           rc      : {"none", "raised"} \cup Exits,
           retried : BOOLEAN,  \* the pass after a quarantine was started
           out     : Labels,   \* the branch execute_sync_job has chosen
           snap    : Row]      \* the account row its session has loaded

NoWorker == [left |-> 0, rc |-> "none", retried |-> FALSE, out |-> "none",
             snap |-> NewAccount]

Thread == [at   : {"idle", "cleared", "check", "insert", "submit", "stop"},
           acct : Accounts \cup {None},
           job  : Jobs \cup {None},
           clear : BOOLEAN,  \* its transaction holds a cleared pause
           hit  : BOOLEAN]   \* the process it found is still the latest

Doing(at, a, j) ==
  [at |-> at, acct |-> a, job |-> j, clear |-> FALSE, hit |-> at = "stop"]
Idle == Doing("idle", None, None)

NoReap == [doomed |-> {}, redriven |-> {},
           seen |-> [a \in Accounts |-> NewAccount]]

TypeOK ==
  /\ jstatus \in [Jobs -> {"absent"} \cup Active \cup Closed]
  /\ acct \in [Accounts -> Row]
  /\ spent \in SUBSET Accounts
  /\ flags \in [Accounts -> SUBSET Flags]
  /\ phase \in {"boot", "up"}
  /\ crashes \in 0 .. MaxCrashes
  /\ queue \in Seq(Jobs)
  /\ pc \in [Jobs -> PCs]
  /\ w \in [Jobs -> Worker]
  /\ proc \in [Jobs -> {"none", "alive", "term"} \cup Exits]
  /\ hung \in SUBSET Jobs
  /\ registered \in SUBSET Jobs
  /\ killed \in [Jobs -> {"no", "asked", "system"}]
  /\ budgetStop \in SUBSET Jobs
  /\ deadline \in SUBSET Jobs
  /\ live \in SUBSET Jobs
  /\ sampler \in [Jobs -> {"off", "on", "over", "marked"}]
  /\ ses \in [Threads -> Thread]
  /\ \A t \in Threads : ses[t].at \in {"submit", "stop"} => ses[t].job \in Jobs
  /\ wd \in [doomed : SUBSET Jobs, redriven : SUBSET Accounts,
             seen : [Accounts -> Row]]

Init ==
  /\ jstatus = [j \in Jobs |-> "absent"]
  /\ acct = [a \in Accounts |-> NewAccount]
  /\ spent = {}
  /\ flags = [a \in Accounts |-> {}]
  /\ phase = "up"
  /\ crashes = 0
  /\ queue = <<>>
  /\ pc = [j \in Jobs |-> "none"]
  /\ w = [j \in Jobs |-> NoWorker]
  /\ proc = [j \in Jobs |-> "none"]
  /\ hung = {}
  /\ registered = {}
  /\ killed = [j \in Jobs |-> "no"]
  /\ budgetStop = {}
  /\ deadline = {}
  /\ live = {}
  /\ sampler = [j \in Jobs |-> "off"]
  /\ ses = [t \in Threads |-> Idle]
  /\ wd = NoReap

---------------------------------------------------------------------------
(* Helpers. *)

\* Mutant: the guard overlooks rows that wait for the executor.
RunningJobs(a) == {j \in Jobs : AccountOf[j] = a /\ jstatus[j] = "running"}

ActiveJobs(a) == {j \in Jobs : AccountOf[j] = a /\ jstatus[j] \in Active}
FreshJobs(a)  == {j \in Jobs : AccountOf[j] = a /\ jstatus[j] = "absent"}

\* SQLAlchemy's unit of work: a commit writes the columns whose value differs
\* from the one the session loaded, and leaves the others as other sessions
\* have made them.  A pause that was assigned a new timestamp always differs.
Flush(db, snap, new, stamped) ==
  [sync    |-> IF new.sync = snap.sync THEN db.sync ELSE new.sync,
   pause   |-> IF new.pause = snap.pause /\ ~stamped THEN db.pause
                                                     ELSE new.pause,
   reason  |-> IF new.reason = snap.reason THEN db.reason ELSE new.reason,
   err     |-> IF new.err = snap.err THEN db.err ELSE new.err,
   initial |-> IF new.initial = snap.initial THEN db.initial ELSE new.initial]

NoPause(r) == [r EXCEPT !.pause = "none", !.reason = "none"]

\* _redrive_or_keep_pause's condition, _budget_headroom_today
Redrives(a) == ~acct[a].initial /\ a \notin spent

\* Mutant: the account is left as it was.
NotIdled(r, redrive) ==
  IF redrive THEN [r EXCEPT !.pause = "expired", !.reason = "interrupted"]
  ELSE r

\* Mutant: the reason is written and the time is not, so no tick finds it.
NoTime(r, redrive) ==
  [r EXCEPT !.sync = IF @ = "syncing" THEN "idle" ELSE @,
            !.reason = IF redrive THEN "interrupted" ELSE @]

\* What both recovery sweeps do to the account of an interrupted job.
Recovered(r, redrive) ==
  LET idled == [r EXCEPT !.sync = IF @ = "syncing" THEN "idle" ELSE @]
  IN  IF redrive
        THEN [idled EXCEPT !.pause = "expired", !.reason = "interrupted"]
        ELSE idled

\* _pause_account
Paused(r, why) ==
  [r EXCEPT !.sync = "idle", !.err = "none", !.pause = "future",
            !.reason = why]

\* stop_sync_job: SIGTERM, then SIGKILL.
Signalled(j) == [proc EXCEPT ![j] = IF @ = "alive" THEN "term" ELSE @]
Marked(j, who) == [killed EXCEPT ![j] = IF @ = "asked" THEN @ ELSE who]
Running(j) == proc[j] \in {"alive", "term"}
ProcAlive(j) == j \in registered /\ Running(j)

---------------------------------------------------------------------------
(* Threads that create jobs.  create_sync_job reads the active rows of the *)
(* account and then inserts, with nothing to make the two one step; the    *)
(* row is handed to the executor in a third step.                          *)

MayStart(t) ==
  /\ phase = "up"
  /\ ses[t].at = "idle"
  /\ "overlap" \in World \/ \A u \in Threads : ses[u].at \in {"idle", "stop"}

Go(t, at, a) == ses' = [ses EXCEPT ![t] = Doing(at, a, None)]
Leave(t) == ses' = [ses EXCEPT ![t] = Idle]

RestOfTrigger ==
  UNCHANGED <<jstatus, spent, flags, sysVars, workers, procs, marks, live,
              sampler, wd>>

\* _run_scheduled_sync: an expired pause does not gate the periodic path.
CronFires(a) ==
  /\ MayStart("cron")
  /\ flags[a] = {}
  /\ acct[a].sync # "needs_reauth"
  /\ acct[a].pause # "future"
  /\ Go("cron", "check", a)
  /\ UNCHANGED acct
  /\ RestOfTrigger

\* POST /api/sync/{account}: a pause is cleared and committed first.
ManualSync(t, a) ==
  /\ MayStart(t)
  /\ flags[a] \subseteq {"unauthenticated"}
  /\ acct' = [acct EXCEPT ![a] = NoPause(@)]
  /\ Go(t, "check", a)
  /\ RestOfTrigger

\* POST /api/sync/all, for one account of the caller.  The cleared pause is
\* part of the transaction that the insert, or the end of the loop, commits.
SyncAll(t, a) ==
  /\ MayStart(t)
  /\ flags[a] \subseteq {"owner_migrating"}
  /\ acct[a].sync # "syncing"
  /\ ses' = [ses EXCEPT ![t] = [Doing("check", a, None) EXCEPT
                                  !.clear = acct[a] # NoPause(acct[a])]]
  /\ UNCHANGED acct
  /\ RestOfTrigger

\* The agent API and the MCP tool: any pause, even an expired one, refuses.
AgentSync(t, a) ==
  /\ MayStart(t)
  /\ flags[a] \subseteq {"unauthenticated"}
  /\ acct[a].pause = "none" /\ acct[a].reason = "none"
  /\ Go(t, "check", a)
  /\ UNCHANGED acct
  /\ RestOfTrigger

\* _resume_after_reauth: the account had lost its token.
ResumeAfterReauth(t, a) ==
  /\ MayStart(t)
  /\ \/ acct[a].sync = "needs_reauth"
     \/ acct[a].sync = "error" /\ acct[a].err = "token"
  /\ acct' = [acct EXCEPT ![a] = [@ EXCEPT !.sync = "idle", !.err = "none"]]
  /\ Go(t, "check", a)
  /\ RestOfTrigger

\* _run_pause_expiry_tick: the pause is cleared and committed before anything
\* is enqueued.
ExpiryClears(a) ==
  /\ MayStart("tick")
  /\ acct[a].pause = "expired"
  /\ acct' = [acct EXCEPT ![a] = NoPause(@)]
  /\ Go("tick", "cleared", a)
  /\ RestOfTrigger

ExpiryResumes ==
  /\ ses["tick"].at = "cleared"
  /\ LET a == ses["tick"].acct
         resume == /\ ~acct[a].initial
                   /\ flags[a] = {}
                   /\ acct[a].sync # "needs_reauth"
     IN  IF resume THEN Go("tick", "check", a) ELSE Leave("tick")
  /\ UNCHANGED acct
  /\ RestOfTrigger

\* What the thread's commit does to the account row.
Cleared(t) ==
  IF ses[t].clear THEN [acct EXCEPT ![ses[t].acct] = NoPause(@)] ELSE acct

\* create_sync_job: the existing-job guard ...
CheckExisting(t) ==
  /\ ses[t].at = "check"
  /\ IF ActiveJobs(ses[t].acct) = {}
       THEN /\ ses' = [ses EXCEPT ![t].at = "insert"]
            /\ UNCHANGED acct
       ELSE /\ Leave(t)
            /\ acct' = Cleared(t)
  /\ RestOfTrigger

\* ... and the insert.  When the ids run out the thread gives up (a bound).
InsertJob(t) ==
  /\ ses[t].at = "insert"
  /\ \/ \E j \in FreshJobs(ses[t].acct) :
          /\ jstatus' = [jstatus EXCEPT ![j] = "pending"]
          /\ ses' = [ses EXCEPT ![t] = Doing("submit", None, j)]
     \/ /\ FreshJobs(ses[t].acct) = {}
        /\ Leave(t)
        /\ UNCHANGED jstatus
  /\ acct' = Cleared(t)
  /\ UNCHANGED <<spent, flags, sysVars, workers, procs, marks, live,
                 sampler, wd>>

\* Mutant: both the creation and the caller submit the job.
SubmitTwice(t) ==
  /\ ses[t].at = "submit"
  /\ queue' = queue \o <<ses[t].job, ses[t].job>>
  /\ Leave(t)
  /\ UNCHANGED <<dbVars, sysVars, pc, w, procs, marks, live, sampler, wd>>

\* submit_sync_job
SubmitJob(t) ==
  /\ ses[t].at = "submit"
  /\ queue' = Append(queue, ses[t].job)
  /\ Leave(t)
  /\ UNCHANGED <<dbVars, sysVars, pc, w, procs, marks, live, sampler, wd>>

\* POST /api/sync/{account}/stop: stop_sync_job looks the process up ...
StopFindsProc(t) ==
  /\ phase = "up"
  /\ ses[t].at = "idle"
  /\ \E j \in registered :
       /\ jstatus[j] = "running"
       /\ ses' = [ses EXCEPT ![t] = Doing("stop", None, j)]
  /\ UNCHANGED acct
  /\ RestOfTrigger

\* ... then writes the marker and signals the process it found.
StopKills(t) ==
  /\ ses[t].at = "stop"
  /\ LET j == ses[t].job
     IN  /\ killed' = Marked(j, "asked")
         /\ proc' = IF ses[t].hit THEN Signalled(j) ELSE proc
  /\ Leave(t)
  /\ UNCHANGED <<dbVars, sysVars, workers, hung, registered, budgetStop,
                 deadline, live, sampler, wd>>

---------------------------------------------------------------------------
(* The worker thread: execute_sync_job. *)

\* The thread is given back to the pool and its locals are gone.
ThreadEnds(j) ==
  /\ pc' = [pc EXCEPT ![j] = "none"]
  /\ w' = [w EXCEPT ![j] = NoWorker]

\* The thread takes the job and evaluates the gates; one of them closes the
\* row, or the row is running and the account syncing in one commit.
BeginJob(j) ==
  /\ phase = "up"
  /\ queue # <<>> /\ j = Head(queue)
  /\ Cardinality({k \in Jobs : pc[k] # "none"}) < MaxWorkers
  /\ queue' = Tail(queue)
  /\ LET a == AccountOf[j]
         begun == [acct[a] EXCEPT !.sync = "syncing"]
     IN  \/ /\ flags[a] # {}
            /\ jstatus' = [jstatus EXCEPT ![j] = "failed"]
            /\ UNCHANGED <<acct, pc, w>>
         \/ /\ flags[a] = {}   \* the host now resolves to an internal address
            /\ "refuse" \in World
            /\ jstatus' = [jstatus EXCEPT ![j] = "failed"]
            /\ acct' = [acct EXCEPT ![a] = [@ EXCEPT !.sync = "error",
                                                     !.err = "other"]]
            /\ UNCHANGED <<pc, w>>
         \/ /\ flags[a] = {}
            /\ jstatus' = [jstatus EXCEPT ![j] = "running"]
            /\ acct' = [acct EXCEPT ![a] = begun]
            /\ pc' = [pc EXCEPT ![j] = "prep"]
            /\ w' = [w EXCEPT ![j].snap = begun]
  /\ UNCHANGED <<spent, flags, sysVars, procs, marks, live, sampler, ses, wd>>

\* _refresh_oauth_token failed: terminal means the user must sign in again.
TokenFails(j) ==
  /\ pc[j] = "prep"
  /\ "refuse" \in World
  /\ LET a == AccountOf[j]
         s == w[j].snap
     IN  \E state \in {"needs_reauth", "error"} :
           acct' = [acct EXCEPT ![a] =
                     Flush(@, s, [NoPause(s) EXCEPT !.sync = state,
                                                    !.err = "token"], FALSE)]
  /\ jstatus' = [jstatus EXCEPT ![j] = "failed"]
  /\ ThreadEnds(j)
  /\ UNCHANGED <<spent, flags, sysVars, queue, procs, marks, live, sampler,
                 ses, wd>>

\* Decrypting the credentials or generating mbsync's configuration raises:
\* the executor swallows it, and the row stays running without a thread.
PrepEscapes(j) ==
  /\ "raise" \in World
  /\ pc[j] = "prep"
  /\ ThreadEnds(j)
  /\ UNCHANGED <<dbVars, sysVars, queue, procs, marks, live, sampler, ses, wd>>

\* Mutant: the entry of the new run is evicted instead of the stale ones.
EvictOwn(j) == live \ {j}

\* The progress of the account's other jobs is evicted.
Evicted(j) == {k \in live : AccountOf[k] # AccountOf[j] \/ k = j}

\* Token, upstream STATUS pass and configuration are done.  The progress of
\* the account's other jobs is evicted and the sampler starts.  An initial
\* sync has an INBOX pass before the full one, unless INBOX is excluded.  A
\* commit on the way (new token, STATUS totals) reloads the account row.
PrepDone(j) ==
  /\ pc[j] = "prep"
  /\ \E reload \in BOOLEAN, left \in {0, 1} :
       LET row == IF reload THEN acct[AccountOf[j]] ELSE w[j].snap
       IN  /\ row.initial => left = 0
           /\ w' = [w EXCEPT ![j] = [@ EXCEPT !.snap = row, !.left = left]]
  /\ live' = Evicted(j)
  /\ sampler' = [sampler EXCEPT ![j] = "on"]
  /\ pc' = [pc EXCEPT ![j] = "spawn"]
  /\ UNCHANGED <<dbVars, sysVars, queue, procs, marks, ses, wd>>

RestOfRun == UNCHANGED <<dbVars, sysVars, queue, live, wd>>

\* _run_invocations: Popen, then _running_procs[job_id] = proc.  A handle that
\* a Stop request holds is from now on that of a finished process.
Spawn(j) ==
  /\ pc[j] = "spawn"
  /\ proc' = [proc EXCEPT ![j] = "alive"]
  /\ registered' = registered \cup {j}
  /\ ses' = [t \in Threads |-> IF ses[t].job = j
                                 THEN [ses[t] EXCEPT !.hit = FALSE]
                                 ELSE ses[t]]
  /\ w' = [w EXCEPT ![j].rc = "none"]
  /\ pc' = [pc EXCEPT ![j] = "rearm"]
  /\ UNCHANGED <<hung, marks, sampler>>
  /\ RestOfRun

\* Mutant: the markers are not read again.
NoRearm(j) ==
  /\ pc[j] = "rearm"
  /\ pc' = [pc EXCEPT ![j] = "read"]
  /\ UNCHANGED <<w, procs, marks, sampler, ses>>
  /\ RestOfRun

\* The markers are read again after the registration.
Rearm(j) ==
  /\ pc[j] = "rearm"
  /\ IF j \in budgetStop \/ killed[j] # "no"
       THEN /\ killed' = Marked(j, "system")
            /\ proc' = Signalled(j)
       ELSE UNCHANGED <<killed, proc>>
  /\ pc' = [pc EXCEPT ![j] = "read"]
  /\ UNCHANGED <<w, hung, registered, budgetStop, deadline, sampler, ses>>
  /\ RestOfRun

\* _read_until_deadline: the cap is looked at between two lines of output.
DeadlineFires(j) ==
  /\ pc[j] = "read"
  /\ j \notin hung /\ j \notin deadline
  /\ deadline' = deadline \cup {j}
  /\ killed' = Marked(j, "system")
  /\ proc' = Signalled(j)
  /\ UNCHANGED <<pc, w, hung, registered, budgetStop, sampler, ses>>
  /\ RestOfRun

\* EOF and wait.  A clean invocation is followed by the next one, unless the
\* budget has stopped the job in between; of the failures only an unclassified
\* one that nobody asked for makes the worker ask the Source for its folders.
ReadEnds(j) ==
  /\ pc[j] = "read"
  /\ proc[j] \in Exits
  /\ LET rc == proc[j]
         next == CASE rc = "ok" /\ w[j].left = 1 /\ j \notin budgetStop
                        -> "spawn"
                   [] /\ rc = "error" /\ ~w[j].retried
                      /\ j \notin budgetStop /\ killed[j] = "no"
                        -> "reconcile"
                   [] OTHER -> "join"
     IN  /\ pc' = [pc EXCEPT ![j] = next]
         /\ w' = [w EXCEPT ![j] = [@ EXCEPT !.rc = rc, !.left = 0]]
  /\ proc' = [proc EXCEPT ![j] = "none"]
  /\ UNCHANGED <<hung, registered, marks, sampler, ses>>
  /\ RestOfRun

\* _reconcile_removed_folders, and the stop marker is read again before the
\* invocations are run a second time.
Reconcile(j) ==
  /\ pc[j] = "reconcile"
  /\ \E quarantined \in BOOLEAN, left \in {0, 1} :
       /\ w[j].snap.initial => left = 0
       /\ IF quarantined /\ killed[j] = "no"
            THEN /\ pc' = [pc EXCEPT ![j] = "spawn"]
                 /\ w' = [w EXCEPT ![j] = [@ EXCEPT !.retried = TRUE,
                                                    !.left = left]]
            ELSE /\ pc' = [pc EXCEPT ![j] = "join"]
                 /\ UNCHANGED w
  /\ UNCHANGED <<procs, marks, sampler, ses>>
  /\ RestOfRun

\* The try block raises: a directory or log file cannot be made, Popen fails,
\* or a line of output does not decode.  In the last case mbsync lives on.
WorkerRaises(j) ==
  /\ "raise" \in World
  /\ pc[j] \in {"prep", "spawn", "read"}
  /\ w' = [w EXCEPT ![j].rc = "raised"]
  /\ pc' = [pc EXCEPT ![j] = "join"]
  /\ proc' = [proc EXCEPT ![j] = IF @ \in Exits THEN "none" ELSE @]
  /\ UNCHANGED <<hung, registered, marks, sampler, ses>>
  /\ RestOfRun

\* Mutant: the signal is interpreted before the budget marker.
SignalFirst(j) ==
  IF w[j].rc = "ok" THEN "completed"
  ELSE IF killed[j] # "no"
         THEN IF j \in deadline THEN "deadline" ELSE "stopped"
  ELSE IF j \in budgetStop THEN "budget_paused"
  ELSE w[j].rc

\* Which branch of execute_sync_job the run takes.  Budget and cap end mbsync
\* with the same signal as a Stop, so their markers are looked at first.
Verdict(j) ==
  IF j \in budgetStop THEN "budget_paused"
  ELSE IF w[j].rc = "ok" THEN "completed"
  ELSE IF killed[j] # "no"
         THEN IF j \in deadline THEN "deadline" ELSE "stopped"
  ELSE w[j].rc

\* Mutant: the finally forgets the marker of the runtime cap.
DropBudgetOnly(j) == budgetStop' = budgetStop \ {j} /\ UNCHANGED deadline

\* The finally of execute_sync_job, and the consumption of the markers.
DropMarkers(j) == budgetStop' = budgetStop \ {j} /\ deadline' = deadline \ {j}

\* The sampler is told to stop and joined, for 15 seconds at most; then the
\* process handle is dropped, the budget marker is consumed and the job row is
\* read again.  A row another actor has closed is left alone.  When the try
\* block raised nothing is read again.
DecideVerdict(j) ==
  /\ pc[j] = "join"
  /\ sampler[j] = "off" \/ "orphan" \in World
  /\ registered' = registered \ {j}
  /\ \/ /\ w[j].rc = "raised"
        /\ pc' = [pc EXCEPT ![j] = "commit"]
        /\ w' = [w EXCEPT ![j].out = "raised"]
        /\ UNCHANGED marks
     \/ /\ w[j].rc # "raised"
        /\ DropMarkers(j)
        /\ IF jstatus[j] = "running"
             THEN /\ pc' = [pc EXCEPT ![j] = "commit"]
                  /\ w' = [w EXCEPT ![j].out = Verdict(j)]
                  /\ killed' = [killed EXCEPT ![j] = "no"]
             ELSE ThreadEnds(j) /\ UNCHANGED killed
  /\ UNCHANGED <<proc, hung, sampler, ses>>
  /\ RestOfRun

\* The account row as the chosen branch assigns it, over the loaded row.
Assigned(s, out) ==
  CASE out = "raised" -> [s EXCEPT !.sync = "error", !.err = "other"]
    [] out = "completed" ->
         [NoPause(s) EXCEPT !.sync = "idle", !.err = "none", !.initial = TRUE]
    [] out = "budget_paused" -> Paused(s, "budget")
    [] out = "backoff" -> Paused(s, "backoff")
    [] OTHER -> [NoPause(s) EXCEPT !.sync = "error", !.err = "other"]

Pauses == {"budget_paused", "backoff"}

\* The status the branch assigns.  A user stop leaves failure_kind alone.
StatusOf(out, was) ==
  CASE out = "completed" -> "completed"
    [] out = "stopped" /\ was = "interrupted" -> was
    [] OTHER -> "failed"

\* The row is written.  A success commits before its bookkeeping and keeps
\* the thread; every other branch commits in the finally, which also drops
\* the markers.
CommitVerdict(j) ==
  /\ pc[j] = "commit"
  /\ LET a == AccountOf[j]
         s == w[j].snap
         out == w[j].out
     IN  /\ jstatus' = [jstatus EXCEPT ![j] = StatusOf(out, @)]
         /\ acct' = [acct EXCEPT ![a] =
                       Flush(@, s, Assigned(s, out), out \in Pauses)]
         /\ IF out = "completed"
              THEN /\ pc' = [pc EXCEPT ![j] = "post"]
                   /\ w' = [w EXCEPT ![j] = NoWorker]
                   /\ UNCHANGED <<budgetStop, deadline>>
              ELSE ThreadEnds(j) /\ DropMarkers(j)
  /\ UNCHANGED <<spent, flags, sysVars, queue, procs, killed, live, sampler,
                 ses, wd>>

\* Statistics, pruning of old rows and indexing after a success, then the
\* finally.
FinishSuccess(j) ==
  /\ pc[j] = "post"
  /\ ThreadEnds(j)
  /\ DropMarkers(j)
  /\ UNCHANGED <<procs, killed, sampler, ses>>
  /\ RestOfRun

---------------------------------------------------------------------------
(* mbsync itself (external). *)

RestOfProc ==
  UNCHANGED <<dbVars, sysVars, workers, registered, marks, live, sampler, ses,
              wd>>

\* Nobody reads the exit of a process whose worker has stopped reading.
ProcExits(j) ==
  /\ \/ proc[j] = "alive" /\ j \notin hung
     \/ proc[j] = "term"
  /\ \E rc \in IF pc[j] \notin {"rearm", "read"} THEN {"none"}
               ELSE IF proc[j] = "term" THEN {"error"} ELSE Exits :
       proc' = [proc EXCEPT ![j] = rc]
  /\ hung' = hung \ {j}
  /\ RestOfProc

ProcHangs(j) ==
  /\ "hang" \in World
  /\ proc[j] = "alive"
  /\ hung' = hung \cup {j}
  /\ UNCHANGED proc
  /\ RestOfProc

---------------------------------------------------------------------------
(* The sampler thread.  It ends with a final tick once the worker is past  *)
(* the runs; the worker waits for that tick, but not for ever.             *)

StopEvent(j) == pc[j] \in {"join", "commit", "post", "none"}

RestOfSampler ==
  UNCHANGED <<jstatus, acct, flags, sysVars, workers, hung, registered,
              deadline, ses, wd>>

\* One walk of the maildir, booked and published.  Whether the ledger has
\* reached the budget is the environment's choice; a budget once reached
\* stays reached until the next UTC day.
SamplerTick(j) ==
  /\ sampler[j] = "on"
  /\ \E over \in IF "budget" \in World THEN BOOLEAN ELSE {FALSE} :
       /\ spent' = IF over THEN spent \cup {AccountOf[j]} ELSE spent
       /\ sampler' = [sampler EXCEPT ![j] =
                        IF AccountOf[j] \in spent' /\ j \notin budgetStop
                          THEN "over"
                        ELSE IF StopEvent(j) THEN "off" ELSE "on"]
  /\ live' = live \cup {j}
  /\ UNCHANGED <<proc, killed, budgetStop>>
  /\ RestOfSampler

\* The marker first ...
SamplerMarks(j) ==
  /\ sampler[j] = "over"
  /\ budgetStop' = budgetStop \cup {j}
  /\ sampler' = [sampler EXCEPT ![j] = "marked"]
  /\ UNCHANGED <<spent, proc, killed, live>>
  /\ RestOfSampler

\* ... then stop_sync_job.  The tick may have been the final one.
SamplerStops(j) ==
  /\ sampler[j] = "marked"
  /\ IF j \in registered
       THEN /\ killed' = Marked(j, "system")
            /\ proc' = Signalled(j)
       ELSE UNCHANGED <<killed, proc>>
  /\ \E next \in IF StopEvent(j) THEN {"on", "off"} ELSE {"on"} :
       sampler' = [sampler EXCEPT ![j] = next]
  /\ UNCHANGED <<spent, budgetStop, live>>
  /\ RestOfSampler

---------------------------------------------------------------------------
(* Recovery. *)

\* Mutant: only a job with a process handle can be stalled.
StalledProc(j) ==
  "stall" \in World /\ jstatus[j] = "running" /\ j \in registered /\ ~Running(j)

\* recover_stalled_sync_jobs spares a running row with a live process.  That
\* one is past the grace and without a fresh tick is the environment's
\* choice, possible wherever the worker or its sampler can be slow.
Stalled(j) == "stall" \in World /\ jstatus[j] = "running" /\ ~ProcAlive(j)

\* The loop over the running rows.  stop_sync_job is called for each doomed
\* job, and marks one whose process has exited but is registered.
WatchdogDooms ==
  /\ phase = "up"
  /\ wd.doomed = {}
  /\ \E doomed \in (SUBSET {j \in Jobs : Stalled(j)}) \ {{}} :
       LET hit == {AccountOf[j] : j \in doomed}
       IN  /\ wd' = [doomed   |-> doomed,
                     redriven |-> {a \in hit : Redrives(a)},
                     seen     |-> [a \in Accounts |-> IF a \in hit THEN acct[a]
                                                      ELSE NewAccount]]
           /\ killed' = [j \in Jobs |-> IF j \in doomed \cap registered
                                          THEN "asked" ELSE killed[j]]
  /\ UNCHANGED <<dbVars, sysVars, workers, procs, budgetStop, deadline, live,
                 sampler, ses>>

\* One commit after the loop closes them all.
WatchdogCommits ==
  /\ wd.doomed # {}
  /\ jstatus' = [j \in Jobs |-> IF j \in wd.doomed THEN "interrupted"
                                ELSE jstatus[j]]
  /\ acct' = [a \in Accounts |->
               LET redrive == a \in wd.redriven
               IN  IF \E j \in wd.doomed : AccountOf[j] = a
                     THEN Flush(acct[a], wd.seen[a],
                                Recovered(wd.seen[a], redrive), redrive)
                     ELSE acct[a]]
  /\ wd' = NoReap
  /\ UNCHANGED <<spent, flags, sysVars, workers, procs, marks, live, sampler,
                 ses>>

\* The process dies: rows stay, memory and child processes go.
Crash ==
  /\ phase = "up"
  /\ crashes < MaxCrashes
  /\ crashes' = crashes + 1
  /\ phase' = "boot"
  /\ queue' = <<>>
  /\ pc' = [j \in Jobs |-> "none"]
  /\ w' = [j \in Jobs |-> NoWorker]
  /\ proc' = [j \in Jobs |-> "none"]
  /\ hung' = {}
  /\ registered' = {}
  /\ killed' = [j \in Jobs |-> "no"]
  /\ budgetStop' = {}
  /\ deadline' = {}
  /\ live' = {}
  /\ sampler' = [j \in Jobs |-> "off"]
  /\ ses' = [t \in Threads |-> Idle]
  /\ wd' = NoReap
  /\ UNCHANGED dbVars

\* Mutant: rows that never started are not swept.
StartedZombies == {j \in Jobs : jstatus[j] = "running"}

Zombies == {j \in Jobs : jstatus[j] \in Active}

\* recover_zombie_sync_jobs, before the scheduler starts and requests are
\* served: every active row is a zombie.
BootSweep ==
  /\ phase = "boot"
  /\ phase' = "up"
  /\ jstatus' = [j \in Jobs |-> IF j \in Zombies THEN "interrupted"
                                ELSE jstatus[j]]
  /\ acct' = [a \in Accounts |-> IF \E j \in Zombies : AccountOf[j] = a
                                   THEN Recovered(acct[a], Redrives(a))
                                   ELSE acct[a]]
  /\ UNCHANGED <<spent, flags, memVars, crashes>>

---------------------------------------------------------------------------
(* The world: time and the administrators. *)

\* Suspending, signing in, and starting or ending a migration.
FlagFlips(a) ==
  /\ phase = "up"
  /\ \E f \in Flags :
       flags' = [flags EXCEPT ![a] = (@ \ {f}) \cup ({f} \ @)]
  /\ UNCHANGED <<jstatus, acct, spent, memVars, sysVars>>

PauseElapses(a) ==
  /\ acct[a].pause = "future"
  /\ acct' = [acct EXCEPT ![a].pause = "expired"]
  /\ UNCHANGED <<jstatus, spent, flags, memVars, sysVars>>

\* Midnight UTC: the ledger of every account belongs to yesterday.
NewDay ==
  /\ spent # {}
  /\ spent' = {}
  /\ UNCHANGED <<jstatus, acct, flags, memVars, sysVars>>

---------------------------------------------------------------------------
(* The specification. *)

Trigger(t, a) ==
  ManualSync(t, a) \/ SyncAll(t, a) \/ AgentSync(t, a) \/ ResumeAfterReauth(t, a)

ThreadStep(t) ==
  CheckExisting(t) \/ InsertJob(t) \/ SubmitJob(t) \/ StopKills(t)

WorkerStep(j) ==
  \/ BeginJob(j) \/ TokenFails(j) \/ PrepEscapes(j) \/ PrepDone(j)
  \/ Spawn(j) \/ Rearm(j) \/ ReadEnds(j) \/ Reconcile(j) \/ WorkerRaises(j)
  \/ DecideVerdict(j) \/ CommitVerdict(j) \/ FinishSuccess(j)

SamplerStep(j) == SamplerTick(j) \/ SamplerMarks(j) \/ SamplerStops(j)

Next ==
  \/ \E a \in Accounts :
       \/ CronFires(a) \/ ExpiryClears(a)
       \/ FlagFlips(a) \/ PauseElapses(a)
       \/ \E t \in Requests : Trigger(t, a)
  \/ ExpiryResumes
  \/ \E t \in Threads : ThreadStep(t)
  \/ \E t \in Requests : StopFindsProc(t)
  \/ \E j \in Jobs :
       \/ WorkerStep(j) \/ DeadlineFires(j) \/ SamplerStep(j)
       \/ ProcExits(j) \/ ProcHangs(j)
  \/ WatchdogDooms \/ WatchdogCommits
  \/ NewDay \/ Crash \/ BootSweep

Spec == Init /\ [][Next]_vars

\* What the sampler's thread must come to: a budget stop it has begun, and its
\* final tick.  That some tick finds the budget exceeded is not assumed.
SamplerGoesOn(j) ==
  SamplerMarks(j) \/ SamplerStops(j) \/ (StopEvent(j) /\ SamplerTick(j))

\* Threads run, timers fire, and mbsync ends unless it hangs.  Nobody has to
\* press a button, a flag need not change and a crash need not happen.  A
\* stalled job is in the watchdog's loop at the next tick after its grace.
Fairness ==
  /\ \A j \in Jobs :
       /\ WF_vars(WorkerStep(j)) /\ WF_vars(SamplerGoesOn(j))
       /\ WF_vars(ProcExits(j)) /\ WF_vars(DeadlineFires(j))
       /\ WF_vars(WatchdogDooms /\ j \in wd'.doomed)
  /\ \A t \in Threads : WF_vars(ThreadStep(t))
  /\ \A a \in Accounts : WF_vars(ExpiryClears(a)) /\ WF_vars(PauseElapses(a))
  /\ WF_vars(ExpiryResumes)
  /\ WF_vars(WatchdogCommits) /\ WF_vars(BootSweep)

FairSpec == Spec /\ Fairness

---------------------------------------------------------------------------
(* Properties. *)

InQueue(j) == \E i \in 1 .. Len(queue) : queue[i] = j
Submitting(j) == \E t \in Threads : ses[t].at = "submit" /\ ses[t].job = j

\* A pending row always has somebody who will run it: it is in the executor's
\* queue, or the thread that inserted it is about to submit it.  A row without
\* one would refuse every later sync of its account through create_sync_job's
\* guard; the boot sweep is what restores this after a crash.
PendingIsQueued ==
  phase = "up" =>
    \A j \in Jobs : jstatus[j] = "pending" => InQueue(j) \/ Submitting(j)

\* An account is shown as syncing only while one of its jobs is running.  The
\* recovery sweeps heal accounts by way of job rows, so an account syncing
\* without a running row would stay syncing for ever.
SyncingHasRunningJob ==
  \A a \in Accounts :
    acct[a].sync = "syncing" =>
      \E j \in Jobs : AccountOf[j] = a /\ jstatus[j] = "running"

\* The race that _run_invocations' second look at the markers closes: once
\* the worker reads the output of a process, a budget marker without a signal
\* exists only while the sampler is between its marker and its stop.
BudgetStopReachesProc ==
  \A j \in Jobs :
    j \in budgetStop /\ pc[j] = "read" /\ proc[j] = "alive"
      => sampler[j] = "marked"

\* A run is labelled as stopped by a person only when the Stop endpoint (or
\* the watchdog, which calls the same function) stopped it: a budget stop and
\* the runtime cap signal mbsync the same way and must not be read as one.
StopIsAskedFor ==
  [][\A j \in Jobs :
       pc[j] = "join" /\ pc'[j] = "commit" /\ w'[j].out = "stopped"
         => killed[j] = "asked"]_vars

\* No budget or deadline marker outlives its job's worker, however the worker
\* ends, as long as the worker's join waits for the sampler.
MarkersAreDropped ==
  \A j \in Jobs : j \in budgetStop \cup deadline => pc[j] # "none"

\* The job-creation guard does its work when threads do not overlap in it: an
\* account has at most one active row.
OneActiveJob ==
  \A j, k \in Jobs :
    /\ AccountOf[j] = AccountOf[k]
    /\ jstatus[j] \in Active /\ jstatus[k] \in Active
    => j = k

\* A closed row may be relabelled but never becomes active again, so a job is
\* run at most once although execute_sync_job does not look at the status of
\* the row it starts.
ClosedNeverReopens ==
  [][\A j \in Jobs : jstatus[j] \in Closed => jstatus'[j] \in Closed]_vars

\* The sync_jobs table and the accounts' state, as the pages read them.
JobTable == INSTANCE JobLedger WITH
  Owners <- Accounts, ownerOf <- AccountOf,
  busy <- {a \in Accounts : acct[a].sync = "syncing"},
  rows <- [j \in Jobs |-> CASE jstatus[j] \in Active -> "active"
                            [] jstatus[j] \in Closed -> "closed"
                            [] OTHER -> "absent"]

\* The engine implements JobLedger: whoever commits last (worker, watchdog,
\* boot sweep, token refresh), a row is opened once and closed once, and no
\* account is lit without an active one.
JobTableSpec == JobTable!Spec

\* What the watchdog or the boot sweep has decided about a job stands: the
\* worker that comes back later does not overwrite it.
ReaperWins ==
  [][\A j \in Jobs : jstatus[j] = "interrupted" =>
                       jstatus'[j] = "interrupted"]_vars

\* _live_progress holds at most one entry per account: every run evicts what
\* the runs before it have published, and no sampler publishes after its
\* worker has ended (unless it outlives the worker's join).
OneLiveEntry == \A j, k \in live : AccountOf[j] = AccountOf[k] => j = k

\* Every job ends: a worker closes it, or its thread is gone and the watchdog
\* or the next boot does.
JobsClose == \A j \in Jobs : jstatus[j] \in Active ~> jstatus[j] \in Closed

\* mbsync is ended at the latest by the runtime cap.
RunsEnd == \A j \in Jobs : pc[j] = "read" ~> pc[j] # "read"

\* An interrupted initial sync is resumed by the scheduler's minute tick
\* without anybody's help, unless the account is gated or another job of it is
\* already there (or the model's job ids have run out).
InterruptedResumes ==
  \A a \in Accounts :
    (acct[a].reason = "interrupted" /\ ~acct[a].initial)
      ~> \/ ActiveJobs(a) # {}
         \/ acct[a].initial \/ flags[a] # {} \/ acct[a].sync = "needs_reauth"
         \/ FreshJobs(a) = {}
=============================================================================
