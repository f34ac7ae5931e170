# MailFallBack: TLA+ models, checks and proofs

MailFallBack (MFB) mirrors IMAP mailboxes into local maildirs with mbsync, serves
them with Dovecot, and backs them up with restic. This directory holds TLA+
models of its stateful core, TLC configurations that check them on small
instances, and TLAPS proofs of the main invariants for every instance. Paths
below are relative to the repository; `W` is
`src/mailfallback/services/sync_worker.py`, `MS` and `MW` are
`migration_service.py` and `migration_worker.py`.

## 1. Inventory

The program is one Python process: a FastAPI application whose plain endpoints
run on a thread pool, an APScheduler with cron and interval jobs on threads of
their own, thread pools for syncs and for backups, and ad-hoc threads for
migrations, samplers and background tasks. Threads share a database (PostgreSQL
at READ COMMITTED, or SQLite), each through its own session, and a few
module-level dicts and sets. A container restart loses the memory and the child
processes and keeps the database and the disk.

| Component | State | Operations | Talks to | What is hard | What makes it correct |
|---|---|---|---|---|---|
| Sync engine (`sync_worker`, `sync_service`) | `sync_jobs`, sync columns of `accounts`; executor queue, `_running_procs`, `_killed_signals`, `_budget_stops`, `_deadline_stops`, `_live_progress` | create, submit, run, stop, label, finish | mbsync, scheduler, API | six kinds of thread over one run; commits from stale snapshots; markers racing spawns | every job ends; labels are truthful; no row or account is left behind |
| Sync triggers (`scheduler`, `routers/sync`, `routers/agent`, `mcp_server`, `routers/auth`) | pauses, gates | cron, minute tick, manual, all, agent, reconnect, Stop | sync engine | read-then-insert guard, clear-then-enqueue | one active job per account; pauses are honoured and lifted |
| Recovery (`recover_zombie_sync_jobs`, `recover_stalled_sync_jobs`) | none of its own | boot sweep, watchdog | all of the above | decision and commit are apart | what it decides stands; nothing waits for ever |
| Store migration (`migration_service`, `migration_worker`, cancel endpoints, `_resume_migrations`) | `store_migrations`, path and `migrating` flag of the item, the disk, `_cancel_flags` | initiate, copy, verify, repoint, remove, cancel, resume, drain | syncs, Dovecot | crash at any step, partial copies, cancel while removing | no mail is ever lost; the item is blocked while it moves |
| Byte ledger and failure classes (`sync_budget`, `sync_failures`) | ledger columns | book, compare, resume times | sampler, worker | midnight, stale dates | the budget is never under-booked |
| Backup engine (`backup_worker`, `backup_service`, `restic_service`, `scheduler`) | `backup_jobs`, `account_backups`, cron table, pool of two, `_backup_progress`, `_running_backup_procs` | configure, schedule, run, heartbeat, reap, sweep, trim history, alert | restic, index, notifications | success without a re-read, reaping of live processes, a shared alert marker | every run is closed, the light is truthful, an alert is not silenced by an old one |
| Restore and staging (`restore_service`, `restore_worker`, `staging_service`, `routers/restore`) | `restore_jobs`, `_cancel_flags`, temporary IMAP users, staging rows and Maildir | create, run, retry, cancel, stage, push, reconcile, expire | IMAP servers, Dovecot | cancel against completion, lost answers, clean-up after a partial delivery | nothing staged is lost before it is delivered; the report is honest |
| Recoveries and mounts (`recovery_service`, `mount_service`, `routers/restore`) | `recoveries`, directories, temporary users | create, restore, browse, touch, delete, sweep | restic, Dovecot | expiry against use, crash half way | ready means the files are there; nothing unused stays |
| Background tasks (`background_tasks`) | `background_tasks`, a lock | start, run, boot | Dovecot, sync triggers | rows left by a crash | one task of a type at a time, and it ends |
| Mail index (`index_service`, `preview_service`, `search_service`) | index rows, snapshot bits, rebuild state | walk, upsert, mark deleted, record, prune, backfill, preview | sync, backup, restic | files renamed during the walk, several copies of a message | the index settles on the Maildir; what exists can be read |
| People and mailboxes (`user_service`, `group_service`, `account_service`, `store_service`, `ui_admin`, `ui_accounts`, `ui_profile`, `accounts`, `app`) | users, groups, accounts, stores, allowed stores, Dovecot homes | create, edit, toggle, delete, share, sign in, boot | Dovecot, migration | rights checked before an await and used after it; names that fold onto one directory | an administrator is left; nobody's home goes with another's account |
| Sessions and OAuth (`routers/auth`, `oauth2`) | cookies, pending mailbox, nonce, credentials | log in, start, callback, fail | provider, browser | repeated and late callbacks, old cookies | credentials land on their mailbox; a connected mailbox stays |
| Doors (`dependencies`, `app_credential_service`, `routers/agent`, `mcp_server`, `routers/dovecot`, `dovecot_auth`, `search_service`) | tokens, audit rows | verify, list, search, preview, download, log in | all of the tables above | each asks the tables in its own way; the role changes under a request | the doors agree; foreign mail is read only on the record |
| Removed-folder quarantine (`folder_reconcile`) | maildir folders | decide, rename | sync engine | mass removal, refusal | |
| Config backup, statistics, mailbox status, provider discovery, rendering | their tables | single transactions | | little state between steps | |

`PROJECT.json` lists every part with its sources and status, and under
`hazards` the places where this code is hard to test.

## 2. Modules

| Module | Models |
|---|---|
| `SyncEngine` | job rows, account rows, executor, worker, mbsync, sampler, markers, triggers, Stop, watchdog, boot sweep; implements `JobLedger` |
| `MCSyncEngine` | constants of its TLC runs |
| `SyncEngineProofs` | its theorems |
| `StoreMigration` | one item (maildir or home), migration rows, copying thread, cancel, resume, syncs |
| `MCStoreMigration` | constants and symmetry of its runs |
| `StoreMigrationProofs` | its theorems |
| `JobLedger` | abstract: what a table of jobs promises to the pages that read it |
| `BackupEngine` | policies, cron table, backup rows, pool, restic, heartbeat, watchdog, boot sweep, alerts; implements `JobLedger` |
| `RestoreEngine` | restore rows, pool, cancel flags, retries, temporary users, staging area and push |
| `Recoveries`, `BackgroundTasks` | recoveries, mounts and browse requests; tasks |
| `Workspace` | the two in the one process that may die |
| `MailIndex` | index rows, the walk, snapshot bits, retention, backfill, preview |
| `Estate` | users, groups, mailboxes, stores, homes and every request that changes them |
| `Connect` | sessions and OAuth connections, over `Estate` |
| `Surfaces` | what each door shows and serves, over `Estate` |
| `Installation` | every request of the last three against the same tables, from the empty database on |
| `MCBackup`, `MCRestore`, `MCWorkspace`, `MCIndex`, `MCEstate` | constants and scenes of their runs |
| `BackupEngineProofs`, `RestoreEngineProofs`, `WorkspaceProofs`, `MailIndexProofs`, `InstallationProofs` | their theorems |

### SyncEngine

A step is what one thread does between two points at which another thread's
commit, or its write to a module-level dict, becomes visible.

*State.* `jstatus` is `sync_jobs.status`; a failed row with
`failure_kind = "interrupted"` has a value of its own, because which of two
actors closed a row is what several properties are about. `acct` holds the five
account columns that a sync writes: state, pause, pause reason, last error and
whether the initial sync is complete. A pause is absent, expired or in the
future; the clock (`PauseElapses`) moves it on. `spent` says whose ledger has
reached today's budget. `flags` are the gates (suspended, not authenticated,
migrating, owner migrating). The in-memory dicts are sets of job ids;
`killed` remembers in addition whether a person or the watchdog, or only the
budget and the cap, wrote the entry: this is a history value that no action
reads. `proc` is the latest mbsync process of a job: alive, signalled, or its exit.

*Worker.* `BeginJob` is the gates and the commit that starts the job
(`W` 794-858). `PrepDone` covers the token, the STATUS pass, the configuration
and the start of the sampler; `TokenFails`, `PrepEscapes` (an exception before
the `try`) and `WorkerRaises` (inside it) are its other exits. `Spawn`, `Rearm`,
`DeadlineFires` and `ReadEnds` are `_run_invocations`; `Reconcile` is the
quarantine and its retry; `DecideVerdict` joins the sampler and refreshes the
job row; `CommitVerdict` writes the outcome; `FinishSuccess` is what follows a
success.

*Sessions.* SQLAlchemy writes only the columns whose value differs from the one
the session has loaded. `Flush` models this, since which columns a stale session
writes decides whether two writers mix their rows.

*Hazards.* The constant `World` says which of these can happen, so that a
property is checked, and proved, with exactly those it survives: `overlap`
(threads overlap in `create_sync_job`), `budget`, `raise`, `hang`, `stall`,
`orphan` (the sampler outlives the 15-second join) and `refuse` (an internal
host, a refused token).

*Abstractions.* The two self-recovering failures, throttled and transient, are
one (`backoff`). Log text, statistics, the byte counts, notifications and
deletion of accounts are left out. mbsync is external: it exits as it likes, or
hangs, and ends when it is signalled. `SyncAll` is the step for one account of
the caller's loop.

### StoreMigration

Migrations of different items share nothing, so the model has one item, of
`Kind` "account" or "home". `disk` maps each store to the files the item has
there, `dirs` says where its directory exists, `torn` which copies are cut
short, `at` is what the item's row says. The history variable `stored` is every
file that was ever the item's. The thread goes through
`Begin`, `Look`, `CopyFile`..., `CopyDone`, `Verify`, `Settle`, `Repoint`,
`Remove`..., `Done`, each a commit or a file operation of
`execute_account_migration`; `execute_home_migration` is the same code but for
its source (`SourceOf`). `rmtree` removes file by file and may stop anywhere. A
drain (`initiate_store_drain`, `execute_store_drain`) is an `Initiate` per item
and its threads one after the other; a migration that waits for its turn is one
whose thread has not yet taken a step. `World` has `raise`, `torn`, `sync`,
`midsync` (a migration is started beside a running sync), `late_cancel`
(Cancel is pressed during the clean-up) and `late_crash` (the process dies during it, that is between the
commit of the new path and that of the completed row; a crash at any other moment is always possible). The coroutine endpoints do not await
between check and commit, so `Initiate` and `Cancel` are one step each.

### BackupEngine and JobLedger

*State.* `policy` is a row of `account_backups` (what the form saved, the light
`last_status`), `job` a row of `backup_jobs`, `cron` the ids in APScheduler's
table, including `"backup-watchdog"`. `w` is the thread of a run with what its session
has loaded; `restic` is its streamed process, `blocked` says that the command
hangs, `quiet` that its heartbeat is older than the threshold. `slot` is
`accounts.last_notified_state`, one marker for all kinds of problem; `told` remembers
whether the owners heard of a failure since the last good backup.

*Actions.* `InitRepo`, `SnapshotTaken`, `Retain`, `Succeed` and `Raises`, `Refresh`,
`CommitFailure`, `Notify` are `execute_backup`, split at its commits; the trimming of
old rows is part of the last step. The watchdog closes rows, kills and drops entries
(`WatchdogReaps`) and commits later (`WatchdogCommits`), as the code does.
`RefreshScheduler` rebuilds the table from the enabled policies. `World` has `wedge`
(restic hangs), `slow` (a live run is past the threshold), `refresh` and
`overlap` (a cron call and a button run one policy twice).

`JobLedger` is the abstract promise: a row is opened once, closed once, never
disappears while it is active, and an owner's light is on only while a row of it is
active. `BackupEngine!LedgerSpec` and `SyncEngine!JobTableSpec` instantiate it, with a policy's `last_status` and an
account's sync state as the light. Restore rows do not keep it: `execute_restore_job` sets whatever row it is given to
running, also one cancelled while it waited in the queue; what holds of them is `EarlyCancelWins`.

### RestoreEngine

`job` is a row of `restore_jobs` with its manifest and counters, `wk` its thread, `flags`
the in-memory cancel requests, `temps` the temporary IMAP users. The staging area is
`area`, `rows` and `disk`; `wanted` is the history of what the user has staged and
neither got delivered nor given up. A push works through its manifest
message by message: `Delivers` with each outcome of APPEND (refused, done, done with
the answer lost, broken connection and reconnect, duplicate, file gone),
`Cancels` at each look at the flag, `CleanupPushed` after it. `Settles`, `Refreshes` and
`Writes` are the `finally` block, whose look at the flag and final commit are apart.
`add_messages` is three steps, the purge of expired areas two. `World` has `raise`,
`lost`, `race` (two requests create the same job) and `sweep` (the purge overlaps an add).

### Recoveries, BackgroundTasks, Workspace

A recovery's row goes from "restoring" to "ready" and "deleting"; its directory has a
wrapper and the Maildirs restic extracted, and `delete_recovery` commits, removes the tree,
and drops the row as steps of its own. The idle sweep reads its candidates once
(`SweepBegins`) and deletes them one at a time. Browse requests make a temporary user,
connect, and retire it on each exit, except the bare ones. A task is started under the
lock, goes through all users, and may fail for some. `Workspace` adds the crash and
the boot.

### MailIndex

A message has copies (files in different folders) with a stable name and a flag suffix. The walk
(`WalkBegins`, `Visits`, `WalkEnds`) is `upsert_message_set`: skip what is known, insert, move a
pointer whose file has gone, merge the Bcc of another copy, and mark deleted what was not seen;
copies change between its steps. `bits` are `snapshot_messages`. `get_preview` is
an operator on the state: the live file by name or prefix, then the snapshots. `exact` holds the messages whose copies
have not been touched since before the last finished walk began; what moves in other messages does not matter to them.

### Estate, Connect, Surfaces, Installation

`Estate` is the database of people: rows as functions on ids, relations as sets of pairs,
and Dovecot homes as pairs of a store and a folded name. A coroutine handler that awaits its form is a record in
`waiting` with the role it has read; `Opens` is its first half, the handler's own
action its second. Synchronous handlers are one step. `lifespan` is the boot:
first administrator, allowed stores, temporary users, orphaned restore homes, in the order
of `app.py`. `Connect` adds browsers whose cookie a response replaces as a whole, so that a slow one brings an
old cookie back, and the OAuth routes with the exchange of the code as an await.
`Surfaces` has, for each door, the set of mailboxes it answers about, and as actions the
handlers that serve the content of mail. A search in a worker thread and an MCP tool
between verification and query are records in `calls`.
`Installation` is the next-state relation of all three and the specification the theorems are about; it
starts with empty tables, which the first boot fills. A boot loses what is in `waiting`, `flight` and `calls`;
cookies are the browsers' and stay. `MCEstate` starts from tables with a few rows and takes steps of the
same actions, one scene at a time, since their product is too large for TLC.

## 3. Runs

| Run | Shows |
|---|---|
| `SyncCrash` | gates, refusals, failing I/O, a hanging mbsync and a crash: no orphaned pending row, no account left syncing, one active job, one progress entry per account, and the rows are a `JobLedger` |
| `SyncBudget` | budget, cap, Stop, watchdog and exceptions over one run: the budget stop reaches the process, the label is truthful, no marker stays, every job ends |
| `SyncResume` | after one crash the interrupted initial sync is resumed by itself |
| `MigrateAccount` | three migrations to and fro with failures, cancellations, torn copies, syncs and two crashes at any moment but the clean-up: nothing is lost, the item is blocked, no sync beside it |
| `MigrateHome` | homes lose nothing through two crashes at any moment, the clean-up included, and every migration ends |
| `Backup` | hanging and silent restic, watchdog, crash, changes of the schedule, trimming: the light is truthful, the alert marker is current, no entry outlives its run, `JobLedger` is implemented, runs are closed while the watchdog is scheduled |
| `Restore` | nothing staged is lost before delivery, a timely cancel wins, counters account for every message, temporary users end with their job, submitted jobs end |
| `Workspace` | ready recoveries have their files, no tree without a row, unused mounts go away also after a crash, tasks run one at a time and end |
| `Index` | a walk is exact about every message nobody touched meanwhile, whatever came before, the index settles once the Maildir rests, a readable message stays readable but for five named events, bits of forgotten snapshots go |
| `Estate` | OAuth callbacks hit their mailbox and take none, the doors agree, foreign mail is read on the record, the last administrator goes only by a change of role, nobody's home goes with another's account |
| `MigrateCrash` (violation) | a crash in the clean-up, after the path's commit: the resume copies the maildir onto itself and removes the only copy |
| `BackupRefresh` (violation) | a refresh of the scheduler removes the backup watchdog's own entry, and a hanging restic is never reaped |

### Bounds

*Sync.* Two jobs of one account are the least for everything that is about two
rows or two runs (the guard, relabelling, eviction, the resume after a crash);
one job is enough where the race is within one run. One request thread beside the cron and the
tick thread gives three creators. Accounts share nothing but the pool and the
watchdog's commit, and the pool is exhausted with `MaxWorkers = 1`. `SyncBudget` has one job and lets threads
overlap; two workers on one account at once are covered by the theorems, which hold for every
`MaxWorkers` and `World`.

*Migration.* Three files let a mistaken count cancel out
(one stale file, one missing), and three migrations between two stores let one follow a cancelled one back and
another follow it; more stores are left to the theorem. Two crashes let a resumed migration be interrupted again.

*Backup.* Policies share the pool only, so one policy and two jobs give an old run
beside a new one; `Keep = 1` makes the trimming of the history bite.

*Restore.* One job over two files: a partial delivery needs one that arrives and one that does not.
Jobs meet only in the staging area and the target mailbox, and the staging requests,
the webmail and the purge already interfere there. `Quota` equals the number of files, so that the quota can be hit.

*Workspace and index.* Two recoveries; two users and two tasks of one or two types; one message with two copies, two
flags, two changes of the Maildir, two snapshots, one fault. `MCWorkspace`, `MCIndex` and `MCEstate` explore parts that
share no variable a property reads one after the other ("scenes") instead of their product.

*Estate.* Three users, five names of which two fold onto one home and one, not reserved, onto a restore user's, one group, two stores, two mailboxes, one browser
with two nonces and two answers in flight, one token, and one handler that awaits: the other side of each race is
a step, not a second wait.

Deadlock is not checked: with all ids used and no request, these systems rest.

### Where the code departs from its documentation

Besides the two violation runs, the models show these when the property is stated as the
quoted text has it. Properties named here are defined in the modules and can be
put into a configuration.

*Sync.*
* Two threads in `create_sync_job` create two active jobs (`OneActiveJob`, world `overlap`).
* A worker that refreshed first overwrites the watchdog (`ReaperWins`, world `stall`).
* Neither the runtime cap nor the watchdog ends a silent mbsync (`RunsEnd`, world `hang`).
* A crash between the tick's clearing of a pause and its enqueue loses a resume (`scheduler.py` 92).
* A watchdog tick that read a row before the success commit relabels the
  completed job (`W` 1136: "makes completion durable regardless of what follows").
* A Stop that holds the handle of the first invocation signals it after the second
  one's re-check (`W` 701-705).
* In the world `orphan` a sampler publishes after the next job has evicted it
  (`W` 122: "at most one entry per account").
* The internal-host gate and the exception handlers leave a running pause beside an error
  (`W` 1240: "contradictory").

*Migration.*
* A torn copy is kept and its original removed (`NothingTorn`; `MW` 45).
* In the world `midsync` a migration starts beside a running sync (`stores.md` 80).
* In the world `late_cancel` Cancel frees an item that is still moved (`stores.md` 79); with
  two migrations and three stores `NothingLost` then fails without any crash.
* After a crash within rmtree the resumed home migration fails its count and the user stays
  migrating (`stores.md` 87: "No manual intervention is needed.").

*Backup.*
* A success overwrites the verdict of a watchdog that closed the row before (`Succeed`).
* A run reaped during repository initialisation or retention has no process to kill: its thread keeps a slot of the pool and nobody is told.
* In the world `overlap` the alert marker can stay from before the last good backup.
* The form for a policy saves a line that is no crontab, which the scheduler then skips with a warning.

*Restore and recoveries.*
* A cancel between the `finally` block's look at the flag and its commit is overwritten (`CancelStands`; `restore_worker.py` 73: "can never overwrite").
* Two requests can create the same restore job (world `race`); nothing sweeps `restore_jobs` at boot.
* The purge of an expired area removes a file staged meanwhile (world `sweep`).
* A push that an exception aborts does not clean up what it had delivered; a retry after a lost answer can deliver twice.
* A bare `conn.logout()` that raises leaves the temporary user until the next boot.
* Two recoveries made in the same second share a directory (world `samesecond`), and one deleted while restic writes leaves a tree and may be committed "ready" afterwards.
* A task row active at a crash blocks its type for ever.

*Index.*
* The bits of a snapshot come from the index at that moment, not from the snapshot; a crash between forget and prune leaves them.
* A preview looks for a renamed file only in the newest snapshot that matches.

*People and stores.*
* A rename may give a user a reserved `_restore_` name, and the boot then removes him (`dovecot_auth.py` 96: the name is reserved at creation only).
* Deleting a user removes the home before the database refuses because of a group he owns.
* The boot's sweep of restore homes compares directories, so a user called "+restore_x", whose name is not reserved but folds onto
  `_restore_x`, loses his home at every boot (`dovecot_auth.py` 96: "reserves it in create_user, so those directories are the only ones it can claim to own"). `BystandersKeepTheirHome` names the exception;
  the proof of the property without it failed here, and TLC then showed the step.
* A home migration uses the raw username where every other place uses the folded one.
* The only administrator may demote himself; a disabled one stops `ensure_admin_exists`; deleting the default store leaves none.
* The role a handler read before its await is used after it; a response that comes late restores a session that was logged out.
* A reload of an OAuth callback deletes the stub of a mailbox that is not connected yet.
* The account wizard accepts a disabled allowed store where the API refuses it.
* An MCP tool runs to its end after its token was revoked.

### Fairness

`SyncEngine!FairSpec` assumes weak fairness of worker, sampler and request
threads, which the operating system gives (of the sampler only that it finishes a stop it has begun and takes its final
tick: no tick has to find the budget exceeded); of the interval jobs (watchdog, minute
tick), which APScheduler fires every minute; of mbsync's exit unless it
hangs; of the clock; and of the boot sweep, since a container is
restarted. The watchdog's fairness is per job: its loop visits every running row, so a row that stays
stalled is in some tick's set. Nothing is assumed of people, gates, crashes, budget or cron.
`StoreMigration!FairSpec` assumes threads run and the process is restarted.
`BackupEngine!FairSpec` assumes that threads run unless restic blocks them, that a blocked command becomes silent
with time, that APScheduler fires the watchdog while its entry exists, and the restart.
`RestoreEngine` assumes that the pool takes the next job and its thread runs (retries are bounded by `RETRY_DELAYS`).
`Workspace` assumes that the sweep is fired and its deletion goes on, that restic ends, and that task threads run. `MailIndex` assumes that walks are
started by syncs and go on. Nothing is assumed of users, mail clients, failures or crashes.


## 4. Proofs

All theorems are for every set of accounts, jobs, threads, stores, files, people, mailboxes, tokens and
browsers, every pool size and every bound on crashes, faults and requests under way. They rest on the
assumptions the modules name for their constants (`SyncAssumption`, `MigrationAssumption`,
`BackupAssumption`, ...): that bounds are numbers, that `None` is no id, that names fold somewhere. Where a theorem has an
`ASSUME` on `World`, it is proved in the absence of that hazard; section 3 shows that each of these is needed, and
TLC finds the counterexample when the hazard is put back.

A property is rarely inductive, because what it says of
a row depends on what a thread has read of it and will write: the strengthenings are mostly about that.

`SyncEngineProofs`

* `TypeInvariant`: `TypeOK` is inductive; one lemma per kind of record.
* `Lifecycle`: the inductive invariant `LifecycleInv` says who holds a job: an
  absent row nobody; a pending one exactly one place, its inserting thread or one slot of the
  queue; a worker's row is not pending and not queued. From it follow
  `PendingQueued`, `ClosedStaysClosed` and, with `SyncingInv`, the refinement `SyncJobLedger`: every step of every actor opens
  rows, closes rows or does neither, in every world, and no account is lit without an active row (`RowMoves`). It is needed because
  `execute_sync_job` starts whatever id it is given.
* `Syncing`: `SyncingInv` adds to the property what the sessions have loaded: a worker
  before its commit has a snapshot that says syncing, so that its flush always writes the state
  column when it closes a row, and the same for what the watchdog has read. Without this a
  stale snapshot could leave the column as it was.
* `GuardedCreation`: `GuardInv` says that at most one thread is creating a job, and that one
  past the check still sees no active row.
* `BudgetReaches` and `StopLabels` rest on `MarkInv`: a registered handle belongs to a run in progress, a sampler
  between marker and stop has its marker in the set, and a `killed` entry that neither a person nor the
  watchdog wrote comes with a budget or deadline marker.
* `MarkersDropped` rests on `SamplerInv`: without the hazard `orphan` a sampler lives only within its worker's
  run, so nothing can set a marker after the worker's `finally`.
* `OneLive`: the eviction at the start of a run is enough for one progress entry per account when a run is alone on its account
  (`AloneInv`) and no sampler outlives its join (`orphan` excluded). It is alone in a pool of one thread; in a larger one when creation is guarded
  (`overlap` excluded) and the watchdog closes no row whose worker goes on (`stall` excluded), which is `OwnRowInv`.
  With two workers and `stall` TLC finds two entries.

`StoreMigrationProofs`

* `MigrationTypes`, `Rows` (rows against threads, including what a restart will resume),
  `SingleMover`, `Blocked`, `SyncsKeptOut`.
* `NothingIsLost`: `PlaceInv` says where the item is for each value of `pc`, `CopyInv`
  that a thread past the copy has every listed file at the target and past the verification every file of the
  source. For homes the source is a column of the migration row, so it is the same after a
  restart, and the theorem has crashes at any moment. For accounts the restart reads the source from the account's path: `PlaceInv`
  says that until the commit of the new path this is still the old one, with or without a thread, so that any number of
  crashes and resumes do no harm outside the clean-up. Within it (`late_crash`) they do, which is `MigrateCrash`. The assumption
  is thus exactly the window of the defect.

`BackupEngineProofs`

* `BackupTypes`: with the types, `RowsInv`: rows are inserted in the order of their ids, and the ids do not run out before the queue does.
* `LightTruthful` (in every world): `LightInv` names the row that keeps a policy lit. It is the newest of the policy,
  its worker has loaded the light as running and so will write the column when it closes the row, and if the watchdog has doomed the row it is
  about to turn the policy over as well. The property alone is not inductive: closing the one running row must be known to change the light.
* `EntriesDropped` (in every world): the property is inductive, a heartbeat being a step of the thread whose entry it writes.
* `MarkerCurrent` and `BackupLedger` (without `overlap`): `AloneInv`, one queue entry or one worker per policy, and a worker that knows
  whether the alert marker is the backup's own. `BackupLedger` is the refinement: every step of every actor is an opening, a
  closing or a trimming of `JobLedger`, or a stutter, under the mapping of `BackupEngine!Ledger`.

`WorkspaceProofs`

* `WorkspaceTypes` and `OneTask` (every world): ids are never given again (`KnownInv`), and a task has failed for no more users than it has gone through.
* `NoTreesLeft` (every world): `TreeInv`, a directory nothing has gone wrong with has a row whose deletion has not come past the tree.
* `ReadyKeepsFiles` (without `samesecond`): `DirInv`, no two recoveries share a directory.

`RestoreEngineProofs`

* `RestoreTypes`, `ReportsAreHonest` (every world): `RunInv` says at each point of the run what row and worker know together: the counters
  account for what is off the list, a worker past its loop has a row still running only if it went through the list.
* `EarlyCancelsWin` (every world): `CancelInv`, a flagged cancel keeps its flag up until the thread's last look, and the look is remembered until the write.
* `TempUsersOwned` (every world): follows the worker's places.
* `StagedMailStays` (without `sweep`): `StageInv` over the three parties: an add in progress, the area and its purge, and what each push has delivered.

`MailIndexProofs`

* `IndexTypes` and `QuietWalksAreExact`: `WalkInv` is what a walk knows (`Surveyed`) of the visited copies of a message that rests,
  whatever happens to the others; `ExactInv` that a message whose row is exact is not inserted again, so that a crash then loses nothing.
* `BitsOfForgottenGo`, as long as no step failed.
* `PreviewsSurvive`: the action property `PreviewsStay`, by cases on how the message was readable before the step. Through the live file: the
  row's pointer may go stale, but only its flags, and the lookup by stable name still finds it, or the walk moves the row to a copy that is there (`WalkInv`, `PtrInv`).
  Through a snapshot: the lookup takes the newest that is said to hold the message (`Highest`, from the well-founded
  order on numbers), and only a new bit or a forgotten snapshot changes which one it is; `BookInv` says that bits and
  hooks are about snapshots restic has made. TLC checks one message with two copies; the theorem is for any messages, copies and snapshots.

`InstallationProofs`

* `EstateTypes`: every pair of the four relations leads to rows, and everybody and every mailbox lives on a store that exists (`Housed`). The second half is needed for
  the first: a boot adds to the allowed stores the one a user lives on.
* `DoorsAgree` follows from it, since the doors differ in which end of a relation they start from: they
  agree only while no pair dangles.
* `CallbacksHit`: `NonceInv`, every cookie, also one that a slow answer will bring back, holds its nonce together with
  the mailbox the nonce was made for.
* `EscalationsAreLogged`: `LoggedInv`, a search under way that was let in with the role has its row in the log. It is what makes the
  re-read of the role after the commit safe (`RoleNow`).
* `ConnectedStay`, `AdminsLeaveByRole`, `HomesStay`: action properties, one case per request.

Only model-checked: the liveness properties (`JobsClose`, `InterruptedResumes`,
`MigrationEnds`, `RunsClose`, `SubmittedJobsEnd`, `MountsExpire`, `TasksClose`, `IndexConverges`), which
are out of the prover's reach (they need fairness and ENABLED), and the two violations. Every invariant, action
property and refinement that a passing run checks is stated by a theorem.

## 5. What could follow

1. The pause columns of an account: which gate or verdict may leave a pause beside an error, with a property for the hazard listed without one.
2. The byte ledger and `folder_reconcile` as operators against reference definitions. What they compute is by induction over data, so this is for TLC.
3. Once the code resumes an account migration from the migration row, as it does for homes: `MigrateCrash` becomes a
   passing run, and `NothingIsLost` loses its assumption on `late_crash`.

## 6. Not modelled

* Arithmetic of the byte ledger and of resume times; the quarantine's choice of folders; the precedence of the mailbox
  status: functions without state between steps.
* The scan for orphaned directories of a store, and volumes that are not mounted.
* Config backup and restore, statistics, provider discovery, connection checks, the S3 probe, the audit pages: one request,
  one row, nothing else reads it.
* Text: generated Dovecot and mbsync configuration, folder names and their encodings, templates, messages.
* Attachments beyond whether they were indexed; the text extractor; ranking.
* Ciphers, password rules, and the refresh of provider tokens beyond its failure.
