--------------------------- MODULE RestoreEngine ---------------------------
(***************************************************************************)
(* Restores: the restore_jobs rows and the pool of restore threads, the    *)
(* cancel flags, the temporary IMAP users restores read their source       *)
(* through, and the staging area of one user, whose Maildir feeds the      *)
(* "staging push" jobs.                                                    *)
(*                                                                         *)
(* A member of Files is one message and the one file it is staged as; it   *)
(* is staged at most once.  All files have size 1, so that bytes_used of a *)
(* reconciled area is the number of its rows.  A job has one folder.       *)
(***************************************************************************)
EXTENDS Naturals, FiniteSets, Sequences, SequencesExt

CONSTANTS
  Accounts,
  Files,
  OriginOf,    \* source_account_id of a message
  MaxJobs,     \* bound: restore_jobs rows ever inserted
  MaxWorkers,  \* max_workers of the executor
  MaxCancels,  \* bound: cancel requests
  Bars,        \* why an account may be barred: "suspended", "migrating"
  Quota,       \* staging_max_bytes
  MaxCrashes,  \* bound: how often the process dies
  World        \* which of Hazards can happen

\* "raise": files and connections fail; "lost": an APPEND takes effect and its
\* answer is lost; "race": a job is created while another request that has
\* inserted the same one has not committed; "sweep": an add overlaps the
\* purge of the expired area it replaces.
Hazards == {"raise", "lost", "race", "sweep"}

JobIds == 1 .. MaxJobs

ASSUME RestoreAssumption ==
  /\ Accounts # {} /\ OriginOf \in [Files -> Accounts]
  /\ IsFiniteSet(Files) /\ IsFiniteSet(Accounts)
  /\ MaxJobs \in Nat /\ MaxCrashes \in Nat /\ Quota \in Nat
  /\ MaxWorkers \in Nat \ {0} /\ MaxCancels \in Nat
  /\ World \subseteq Hazards /\ Bars \subseteq {"suspended", "migrating"}

VARIABLES
  (* database *)
  gate,      \* accounts: suspended or migrating
  job,       \* restore_jobs rows
  temps,     \* temporary users, by the job they were made for
  area,      \* the staging_areas row
  rows,      \* staging_messages rows
  (* disk and remote servers *)
  disk,      \* files in cur/ and new/ of the staging Maildir
  upstream,  \* what has arrived in the mailbox of an account
  (* process memory *)
  flags,     \* _cancel_flags
  queue,     \* the executor's work queue
  wk,        \* the thread that runs a job
  cancel,    \* the cancel request of a job
  add,       \* the request that stages messages
  sweep,     \* the purge of expired areas
  crashes,
  (* history *)
  used,      \* files that were staged at some time
  wanted     \* staged, not yet delivered, and not given up by the user

stage == <<area, rows, disk, used, wanted>>
mem   == <<flags, queue, wk, cancel>>
vars  == <<gate, job, temps, stage, upstream, mem, add, sweep, crashes>>

---------------------------------------------------------------------------
(* Types. *)

Active == {"pending", "running"}
Statuses == Active \cup {"absent", "completed", "failed", "cancelled"}
Counts == 0 .. Cardinality(Files)
Job == [status : Statuses, push : BOOLEAN, src : Accounts, tgt : Accounts,
        sel : SUBSET Files, restored : Counts, skipped : Counts,
        failed : Counts]

\* existing: the Message-Ids found in the target folder; pushed: delivered or
\* duplicate; cancelled: was_cancelled; seen: the status that was refreshed.
PCs == {"none", "queued", "open", "loop", "settle", "refresh", "write", "done"}
Worker == [pc : PCs, todo : SUBSET Files, existing : SUBSET Files,
           pushed : SUBSET Files, cancelled : BOOLEAN, seen : Statuses]
NoWorker == [pc |-> "none", todo |-> {}, existing |-> {}, pushed |-> {},
             cancelled |-> FALSE, seen |-> "absent"]
At(pc) == [NoWorker EXCEPT !.pc = pc]

\* base: the state of the area the request found; gone: that area was deleted.
Add == [pc : {"idle", "copy", "commit"}, files : SUBSET Files,
        base : {"none", "live", "expired"}, gone : BOOLEAN]
NoAdd == [pc |-> "idle", files |-> {}, base |-> "none", gone |-> FALSE]

TypeOK ==
  /\ gate \in [Accounts -> {"ok", "suspended", "migrating"}]
  /\ job \in [JobIds -> Job]
  /\ temps \subseteq JobIds
  /\ area \in {"none", "live", "expired"}
  /\ rows \subseteq Files /\ disk \subseteq Files
  /\ used \subseteq Files /\ wanted \subseteq Files
  /\ upstream \in [Accounts -> SUBSET Files]
  /\ flags \subseteq JobIds
  /\ queue \in Seq(JobIds)
  /\ wk \in [JobIds -> Worker]
  /\ cancel \in [JobIds -> {"no", "flagged", "early", "late", "refused"}]
  /\ add \in Add
  /\ sweep \in {"idle", "read"}
  /\ crashes \in 0 .. MaxCrashes

Init ==
  /\ gate = [a \in Accounts |-> "ok"]
  /\ job = [j \in JobIds |->
              [status |-> "absent", push |-> FALSE,
               src |-> CHOOSE a \in Accounts : TRUE,
               tgt |-> CHOOSE a \in Accounts : TRUE,
               sel |-> {}, restored |-> 0, skipped |-> 0, failed |-> 0]]
  /\ temps = {}
  /\ area = "none" /\ rows = {} /\ disk = {} /\ used = {} /\ wanted = {}
  /\ upstream = [a \in Accounts |-> {}]
  /\ flags = {} /\ queue = <<>>
  /\ wk = [j \in JobIds |-> NoWorker]
  /\ cancel = [j \in JobIds |-> "no"]
  /\ add = NoAdd /\ sweep = "idle"
  /\ crashes = 0

---------------------------------------------------------------------------
(* Temporary users. *)

create_temp_imap_user(who) == temps \cup {who}
\* Mutant: the temporary user is left to the next boot.
KeepsTempUser(who) == temps
delete_temp_imap_user(who) == temps \ {who}

\* At boot: those older than an hour, whoever they were made for.
cleanup_temp_imap_users == temps' \in SUBSET temps

---------------------------------------------------------------------------
(* Staging. *)

\* reconcile: drop the rows whose file has vanished.
Reconciled == IF area = "live" THEN rows \cap disk ELSE rows

\* get_status, which the workspace polls.
get_status ==
  /\ area = "live" /\ rows # Reconciled
  /\ rows' = Reconciled
  /\ UNCHANGED <<gate, job, temps, area, disk, used, wanted, upstream, mem,
                 add, sweep, crashes>>

\* add_messages up to the quota check: what it can read, and is not staged
\* yet, goes on to be copied.
AddChecks(S) ==
  /\ add.pc = "idle" /\ (sweep = "idle" \/ "sweep" \in World)
  /\ S # {} /\ S \cap used = {}
  /\ Cardinality(S) + (IF area = "live" THEN Cardinality(Reconciled) ELSE 0)
       <= Quota
  /\ rows' = Reconciled
  /\ add' = [NoAdd EXCEPT !.pc = "copy", !.files = S]
  /\ UNCHANGED <<gate, job, temps, area, disk, used, wanted, upstream, mem,
                 sweep, crashes>>

\* _get_or_create_area and the copies: an expired area is cleared away first.
\* The deletion of its row and the new row are not committed yet.
AddCopies ==
  /\ add.pc = "copy"
  /\ \E ok \in SUBSET add.files :
       /\ ok = add.files \/ "raise" \in World
       /\ disk' = (IF area = "expired" THEN {} ELSE disk) \cup ok
       /\ add' = [add EXCEPT !.pc = "commit", !.files = ok, !.base = area]
       /\ used' = used \cup ok
       /\ wanted' = wanted \cup ok
  /\ UNCHANGED <<gate, job, temps, area, rows, upstream, mem, sweep, crashes>>

\* The commit fails when the live area it adds to was deleted meanwhile.  An
\* area that expired meanwhile promises nothing any more.
AddCommits ==
  /\ add.pc = "commit"
  /\ IF add.base = "live" /\ add.gone
     THEN /\ wanted' = wanted \ add.files
          /\ UNCHANGED <<area, rows>>
     ELSE /\ area' = IF add.base = "live" THEN area ELSE "live"
          /\ rows' = (IF add.base = "live" THEN rows ELSE {}) \cup add.files
          /\ wanted' = IF add.base = "live" /\ area = "expired"
                       THEN wanted \ add.files ELSE wanted
  /\ add' = NoAdd
  /\ UNCHANGED <<gate, job, temps, disk, used, upstream, mem, sweep, crashes>>

\* empty: the Maildir and the area go, whatever is going on.
api_staging_empty ==
  /\ area # "none" \/ disk # {}
  /\ disk' = {} /\ wanted' = {}
  /\ area' = "none" /\ rows' = {}
  /\ add' = [add EXCEPT !.gone = (add.pc = "commit")]
  /\ UNCHANGED <<gate, job, temps, used, upstream, mem, sweep, crashes>>

\* The user deletes a staged message in the webmail.
WebmailDeletes(f) ==
  /\ f \in disk
  /\ disk' = disk \ {f} /\ wanted' = wanted \ {f}
  /\ UNCHANGED <<gate, job, temps, area, rows, used, upstream, mem, add, sweep, crashes>>

\* expires_at passes: from now on the user is told that nothing is staged.
AreaExpires ==
  /\ area = "live"
  /\ area' = "expired" /\ wanted' = {}
  /\ UNCHANGED <<gate, job, temps, rows, disk, used, upstream, mem, add, sweep, crashes>>

\* cleanup_expired reads the expired areas ...
SweepReads ==
  /\ sweep = "idle" /\ area = "expired"
  /\ add.pc = "idle" \/ "sweep" \in World
  /\ sweep' = "read"
  /\ UNCHANGED <<gate, job, temps, stage, upstream, mem, add, crashes>>

\* ... and removes their Maildirs and rows.  The row may have been replaced.
SweepRemoves ==
  /\ sweep = "read"
  /\ sweep' = "idle"
  /\ disk' = {}
  /\ IF area = "expired"
     THEN /\ area' = "none" /\ rows' = {}
          /\ add' = [add EXCEPT !.gone = (add.pc = "commit")]
     ELSE UNCHANGED <<area, rows, add>>
  /\ UNCHANGED <<gate, job, temps, used, wanted, upstream, mem, crashes>>

---------------------------------------------------------------------------
(* Jobs. *)

Present == {j \in JobIds : job[j].status # "absent"}

\* create_restore_job's checks.  They look for a pending or running job of the
\* pair; one that was inserted a moment ago is not visible yet.
MayCreate(s, t) ==
  /\ gate[s] = "ok" /\ gate[t] = "ok"
  /\ \A j \in Present :
       job[j].src = s /\ job[j].tgt = t /\ job[j].status \in Active
         => "race" \in World /\ wk[j].pc = "queued"

\* Rows for a sequence of orders, inserted and submitted one after the other.
Insert(orders) ==
  LET n == Cardinality(Present)
  IN /\ orders # <<>> /\ n + Len(orders) <= MaxJobs
     /\ job' = [j \in JobIds |->
                  IF j \in n + 1 .. n + Len(orders)
                  THEN [status |-> "pending", push |-> orders[j - n].push,
                        src |-> orders[j - n].src, tgt |-> orders[j - n].tgt,
                        sel |-> orders[j - n].sel,
                        restored |-> 0, skipped |-> 0, failed |-> 0]
                  ELSE job[j]]
     /\ queue' = queue \o [i \in 1 .. Len(orders) |-> n + i]
     /\ wk' = [j \in JobIds |-> IF j \in n + 1 .. n + Len(orders)
                                THEN At("queued")
                                ELSE wk[j]]

Order(push, s, t, S) == [push |-> push, src |-> s, tgt |-> t, sel |-> S]

\* The manifests of a push, one per target that can take a job; destination is
\* an account or "origin".
Manifests(dest, staged) ==
  LET Target(f) == IF dest = "origin" THEN OriginOf[f] ELSE dest
      targets == {t \in {Target(f) : f \in staged} : MayCreate(t, t)}
  IN [i \in 1 .. Cardinality(targets) |->
        LET t == SetToSeq(targets)[i]
        IN Order(TRUE, t, t, {f \in staged : Target(f) = t})]

\* staging_service.push behind its route: reconcile first, so that deletions
\* win; rows and files stay staged until they are delivered.
api_staging_push(dest) ==
  /\ area = "live" /\ Reconciled # {}
  /\ rows' = Reconciled
  /\ Insert(Manifests(dest, Reconciled))
  /\ UNCHANGED <<gate, temps, area, disk, used, wanted, upstream, flags,
                 cancel, add, sweep, crashes>>

\* A restore from the live mailbox of an account into another one.
create_restore(s, t) ==
  /\ MayCreate(s, t)
  /\ Insert(<<Order(FALSE, s, t, {f \in Files : OriginOf[f] = s})>>)
  /\ UNCHANGED <<gate, temps, stage, upstream, flags, cancel, add, sweep, crashes>>

\* POST /{job_id}/cancel raises the flag ...
cancel_restore(j) ==
  /\ j \in Present /\ cancel[j] = "no"
  /\ Cardinality({i \in JobIds : cancel[i] # "no"}) < MaxCancels
  /\ cancel' = [cancel EXCEPT ![j] = "flagged"]
  /\ flags' = flags \cup {j}
  /\ UNCHANGED <<gate, job, temps, stage, upstream, queue, wk, add, sweep, crashes>>

\* ... and then closes the row, unless it is closed already.  "early": the
\* worker has not yet looked at the flag for the last time.
cancel_restore_job(j) ==
  /\ cancel[j] = "flagged"
  /\ IF job[j].status \in Active
     THEN /\ job' = [job EXCEPT ![j].status = "cancelled"]
          /\ cancel' = [cancel EXCEPT ![j] =
               IF wk[j].pc \in {"refresh", "write", "done"} THEN "late"
                                                            ELSE "early"]
     ELSE /\ cancel' = [cancel EXCEPT ![j] = "refused"]
          /\ UNCHANGED job
  /\ UNCHANGED <<gate, temps, stage, upstream, flags, queue, wk, add, sweep, crashes>>

---------------------------------------------------------------------------
(* The worker. *)

Busy == {j \in JobIds : wk[j].pc \notin {"none", "queued", "done"}}

\* Mutant: a job starts with a clean flag.
StartsClean ==
  /\ queue # <<>> /\ Cardinality(Busy) < MaxWorkers
  /\ LET j == Head(queue)
     IN /\ job' = [job EXCEPT ![j].status = "running"]
        /\ wk' = [wk EXCEPT ![j].pc = "open"]
        /\ flags' = flags \ {j}
  /\ queue' = Tail(queue)
  /\ UNCHANGED <<gate, temps, stage, upstream, cancel, add, sweep, crashes>>

\* execute_restore_job up to its try: the row becomes running whatever its
\* status was.  A refusal returns before the finally clause.
Start ==
  /\ queue # <<>> /\ Cardinality(Busy) < MaxWorkers
  /\ LET j == Head(queue)
         barred == "suspended" \in {gate[job[j].src], gate[job[j].tgt]}
     IN /\ job' = [job EXCEPT ![j].status =
                     IF barred THEN "failed" ELSE "running"]
        /\ wk' = [wk EXCEPT ![j].pc = IF barred THEN "done" ELSE "open"]
  /\ queue' = Tail(queue)
  /\ UNCHANGED <<gate, temps, stage, upstream, flags, cancel, add, sweep, crashes>>

\* _fail_job, and on to the finally clause.
Fails(j) ==
  /\ job' = [job EXCEPT ![j].status = "failed"]
  /\ wk' = [wk EXCEPT ![j] = At("settle")]

\* _get_existing_message_ids: an answer that is not OK counts as empty, and a
\* batch of headers that cannot be read is left out.
TargetIds(j) ==
  {ids \in SUBSET upstream[job[j].tgt] :
     ids = upstream[job[j].tgt] \/ "raise" \in World}

\* Tokens, temporary user, connections, folders: any of it may fail.  The
\* Message-Ids of the target folder are read once.
Opens(j) ==
  /\ wk[j].pc = "open"
  /\ temps' = IF job[j].push THEN temps ELSE create_temp_imap_user(j)
  /\ \/ "raise" \in World /\ Fails(j)
     \/ \E ids \in TargetIds(j) :
          /\ wk' = [wk EXCEPT ![j] = [@ EXCEPT !.pc = "loop",
                                               !.existing = ids,
                                               !.todo = job[j].sel]]
          /\ UNCHANGED job
  /\ UNCHANGED <<gate, stage, upstream, flags, queue, cancel, add, sweep, crashes>>

\* Mutant: the whole manifest is cleaned up, delivered or not.
CleanupManifest(j) ==
  /\ rows' = rows \ job[j].sel /\ disk' = disk \ job[j].sel
  /\ UNCHANGED <<area, add>>

\* _cleanup_pushed: rows and files of what was delivered; the area dies when
\* neither rows nor files are left.
CleanupPushed(j) ==
  LET left == rows \ wk[j].pushed
      keep == disk \ (wk[j].pushed \cap rows)
      dies == left = {} /\ keep = {}
  IN IF ~job[j].push \/ area = "none"
     THEN UNCHANGED <<area, rows, disk, add>>
     ELSE /\ rows' = left /\ disk' = keep
          /\ area' = IF dies THEN "none" ELSE area
          /\ add' = IF dies THEN [add EXCEPT !.gone = (add.pc = "commit")]
                            ELSE add

\* APPEND under _retry_imap: whether it ends well, and whether the message has
\* arrived (then maybe more than once, which is not counted).
Appends ==
  {[ok |-> TRUE, arrives |-> TRUE]}
    \cup (IF "raise" \in World THEN {[ok |-> FALSE, arrives |-> FALSE]} ELSE {})
    \cup (IF "lost" \in World THEN {[ok |-> FALSE, arrives |-> TRUE]} ELSE {})

\* A staged file is looked for in cur/ and new/, by its flag-less prefix.
locate_staged_file(f) == f \in disk

\* By Message-Id, against what the folder held when the job looked.
is_duplicate(j, f) == f \in wk[j].existing

\* What happens to message f: the counter it goes to, whether a push may
\* remove it, and whether it arrives.
Outcomes(j, f) ==
  LET gone == job[j].push /\ ~locate_staged_file(f)
      dup  == is_duplicate(j, f)
  IN CASE gone -> {[count |-> "skipped", done |-> FALSE, arrives |-> FALSE]}
       [] ~gone /\ dup ->
            {[count |-> "skipped", done |-> TRUE, arrives |-> FALSE]}
       [] OTHER ->
            {[count |-> IF a.ok THEN "restored" ELSE "failed",
              done |-> a.ok, arrives |-> a.arrives] : a \in Appends}

\* The row after one more message of the kind.
Counted(r, count) ==
  CASE count = "restored" -> [r EXCEPT !.restored = @ + 1]
    [] count = "skipped"  -> [r EXCEPT !.skipped = @ + 1]
    [] count = "failed"   -> [r EXCEPT !.failed = @ + 1]

\* One message, between two looks at the cancel flag.
Delivers(j) ==
  /\ wk[j].pc = "loop" /\ j \notin flags
  /\ \E f \in wk[j].todo : \E o \in Outcomes(j, f) :
          /\ upstream' = [upstream EXCEPT ![job[j].tgt] =
                            IF o.arrives THEN @ \cup {f} ELSE @]
          /\ job' = [job EXCEPT ![j] = Counted(@, o.count)]
          /\ wk' = [wk EXCEPT ![j] =
                       [@ EXCEPT !.todo = wk[j].todo \ {f},
                                 !.pushed = wk[j].pushed \cup
                                              (IF o.done THEN {f} ELSE {})]]
          /\ wanted' = IF job[j].push /\ o.done THEN wanted \ {f} ELSE wanted
  /\ UNCHANGED <<gate, temps, area, rows, disk, used, flags, queue, cancel,
                 add, sweep, crashes>>

\* Mutant: a job that has delivered something does not see the flag.
CancelsUntouched(j) ==
  /\ wk[j].pc = "loop" /\ wk[j].todo # {} /\ j \in flags
  /\ wk[j].pushed = {}
  /\ CleanupPushed(j)
  /\ job' = [job EXCEPT ![j].status = "cancelled"]
  /\ wk' = [wk EXCEPT ![j] = At("settle")]
  /\ UNCHANGED <<gate, temps, used, wanted, upstream, flags, queue, cancel,
                 sweep, crashes>>

\* The flag is seen: what has landed is cleaned up, the rest stays staged.
Cancels(j) ==
  /\ wk[j].pc = "loop" /\ wk[j].todo # {} /\ j \in flags
  /\ CleanupPushed(j)
  /\ job' = [job EXCEPT ![j].status = "cancelled"]
  /\ wk' = [wk EXCEPT ![j] = At("settle")]
  /\ UNCHANGED <<gate, temps, used, wanted, upstream, flags, queue, cancel,
                 sweep, crashes>>

Finishes(j) ==
  /\ wk[j].pc = "loop" /\ wk[j].todo = {}
  /\ CleanupPushed(j)
  /\ wk' = [wk EXCEPT ![j] = At("settle")]
  /\ UNCHANGED <<gate, job, temps, used, wanted, upstream, flags, queue,
                 cancel, sweep, crashes>>

\* Mutant: the exception is swallowed.
Swallows(j) ==
  /\ "raise" \in World /\ wk[j].pc = "loop"
  /\ wk' = [wk EXCEPT ![j] = At("settle")]
  /\ UNCHANGED <<gate, job, temps, stage, upstream, flags, queue, cancel, add,
                 sweep, crashes>>

\* An exception that is not of a single message: what has landed is not
\* cleaned up; the next push finds it upstream.
Breaks(j) ==
  /\ "raise" \in World /\ wk[j].pc = "loop"
  /\ Fails(j)
  /\ UNCHANGED <<gate, temps, stage, upstream, flags, queue, cancel, add,
                 sweep, crashes>>

\* The finally clause: look at the flag, then drop it; retire the temporary
\* user ...
Settles(j) ==
  /\ wk[j].pc = "settle"
  /\ wk' = [wk EXCEPT ![j] = [@ EXCEPT !.pc = "refresh",
                                       !.cancelled = j \in flags]]
  /\ flags' = flags \ {j}
  /\ temps' = delete_temp_imap_user(j)
  /\ UNCHANGED <<gate, job, stage, upstream, queue, cancel, add, sweep, crashes>>

\* ... read the row again ...
Refreshes(j) ==
  /\ wk[j].pc = "refresh"
  /\ wk' = [wk EXCEPT ![j] = [@ EXCEPT !.pc = "write",
                                       !.seen = job[j].status]]
  /\ UNCHANGED <<gate, job, temps, stage, upstream, flags, queue, cancel, add,
                 sweep, crashes>>

\* _finalize_running_job.
Finalized(j) ==
  IF wk[j].cancelled THEN "cancelled"
  ELSE IF job[j].restored = 0 /\ job[j].failed > 0 THEN "failed"
  ELSE "completed"

\* ... and close it if it was running.
Writes(j) ==
  /\ wk[j].pc = "write"
  /\ job' = IF wk[j].seen = "running"
            THEN [job EXCEPT ![j].status = Finalized(j)] ELSE job
  /\ wk' = [wk EXCEPT ![j] = At("done")]
  /\ UNCHANGED <<gate, temps, stage, upstream, flags, queue, cancel, add,
                 sweep, crashes>>

---------------------------------------------------------------------------
(* The rest of the system. *)

\* An account is suspended, or begins to migrate, and stays so.
AccountBarred(a) ==
  /\ gate[a] = "ok"
  /\ \E g \in Bars : gate' = [gate EXCEPT ![a] = g]
  /\ UNCHANGED <<job, temps, stage, upstream, mem, add, sweep, crashes>>

\* The process dies and boots: _cleanup_temp_restore_users retires temporary
\* users that are older than an hour.  Nothing looks at restore_jobs.
CrashAndBoot ==
  /\ crashes < MaxCrashes
  /\ crashes' = crashes + 1
  /\ cleanup_temp_imap_users
  /\ flags' = {} /\ queue' = <<>>
  /\ wk' = [j \in JobIds |-> NoWorker]
  /\ cancel' = [j \in JobIds |->
                  IF cancel[j] = "flagged" THEN "no" ELSE cancel[j]]
  /\ wanted' = wanted \ add.files
  /\ add' = NoAdd /\ sweep' = "idle"
  /\ UNCHANGED <<gate, job, area, rows, disk, used, upstream>>

WorkerStep(j) ==
  \/ Opens(j) \/ Delivers(j) \/ Cancels(j) \/ Finishes(j)
  \/ Settles(j) \/ Refreshes(j) \/ Writes(j)

Next ==
  \/ get_status \/ AddCopies \/ AddCommits \/ api_staging_empty \/ AreaExpires
  \/ SweepReads \/ SweepRemoves
  \/ \E S \in SUBSET Files : AddChecks(S)
  \/ \E f \in Files : WebmailDeletes(f)
  \/ \E d \in Accounts \cup {"origin"} : api_staging_push(d)
  \/ \E s, t \in Accounts : create_restore(s, t)
  \/ \E j \in JobIds : cancel_restore(j) \/ cancel_restore_job(j)
  \/ Start \/ \E j \in JobIds : WorkerStep(j) \/ Breaks(j)
  \/ \E a \in Accounts : AccountBarred(a)
  \/ CrashAndBoot

Spec == Init /\ [][Next]_vars

\* Threads of the pool that are not blocked go on; no failure is relied on.
Fairness == WF_vars(Start) /\ \A j \in JobIds : WF_vars(WorkerStep(j))
FairSpec == Spec /\ Fairness

---------------------------------------------------------------------------
(* Properties. *)

\* "The worker removes them only after confirmed delivery": a message the user
\* has staged is in the staging Maildir until it is delivered, deleted in the
\* webmail, or given up with the whole area, whatever pushes, retries, clean-
\* ups and crashes do.
StagedUntilDelivered == wanted \subseteq disk

\* A cancel that the API confirms before the worker looks at the flag for the
\* last time wins over completion, also for a job that had not started when it
\* was cancelled and is set to running afterwards.
EarlyCancelWins ==
  \A j \in JobIds : cancel[j] = "early" => job[j].status # "completed"

\* The counters of a job that ended by itself account for every message of
\* its manifest, and no more messages are reported restored than arrived.
HonestReport ==
  \A j \in JobIds : job[j].status = "completed" =>
    /\ job[j].restored + job[j].skipped + job[j].failed
         = Cardinality(job[j].sel)
    /\ job[j].restored
         <= Cardinality(job[j].sel \cap upstream[job[j].tgt])

\* A temporary user, which can read every mail of its account, lives only as
\* long as the job it was made for, unless the process dies.
TempUsersAreOwned ==
  crashes = 0 =>
    \A j \in temps : wk[j].pc \in {"open", "loop", "settle"}

\* A submitted job is run to its end unless the process dies: no message, file
\* or flag can make a restore thread go round for ever.
SubmittedJobsEnd ==
  \A j \in JobIds : wk[j].pc = "queued" ~> wk[j].pc \in {"none", "done"}

\* _finalize_running_job: "the worker can never overwrite an intended
\* `cancelled` with `completed`".
CancelStands ==
  \A j \in JobIds :
    cancel[j] \in {"early", "late"} => job[j].status # "completed"
=============================================================================
