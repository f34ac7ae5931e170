--------------------------- MODULE BackgroundTasks --------------------------
(***************************************************************************)
(* The tasks an administrator, or the boot, starts in a thread of their    *)
(* own: "fts_reindex" and "force_resync".  A task goes through all users,  *)
(* and a user that fails does not stop it.                                 *)
(***************************************************************************)
EXTENDS Naturals

CONSTANTS
  MaxTasks,  \* bound: background_tasks rows ever inserted
  NumUsers

ASSUME TasksAssumption == MaxTasks \in Nat /\ NumUsers \in Nat

Types == {"fts_reindex", "force_resync"}
Tasks == 1 .. MaxTasks

VARIABLES
  task,    \* background_tasks rows
  thread,  \* whether the thread of a task runs, and its list of errors
  live     \* keys of _task_progress

taskvars == <<task, thread, live>>

Task == [status : {"none", "pending", "running", "completed", "failed"},
         type : Types, done : 0 .. NumUsers]
Thread == [alive : BOOLEAN, errors : 0 .. NumUsers, i : 0 .. NumUsers]

TaskTypeOK ==
  /\ task \in [Tasks -> Task]
  /\ thread \in [Tasks -> Thread]
  /\ live \subseteq Tasks

TaskInit ==
  /\ task = [t \in Tasks |->
               [status |-> "none", type |-> "fts_reindex", done |-> 0]]
  /\ thread = [t \in Tasks |-> [alive |-> FALSE, errors |-> 0, i |-> 0]]
  /\ live = {}

\* Mutant: a task that has not started yet does not count.
RunningOnly(t) == task[t].status = "running"

Active(t) == task[t].status \in {"pending", "running"}

\* start_task, under its lock, and the thread of submit_*: refused while a task
\* of the type is active.
start_task(ty) ==
  /\ ~\E t \in Tasks : task[t].type = ty /\ Active(t)
  /\ \E t \in Tasks :
       /\ task[t].status = "none" /\ \A u \in 1 .. t - 1 : task[u].status # "none"
       /\ task' = [task EXCEPT ![t] = [status |-> "pending", type |-> ty,
                                       done |-> 0]]
       /\ thread' = [thread EXCEPT ![t].alive = TRUE]
  /\ UNCHANGED live

submit_fts_reindex == start_task("fts_reindex")
submit_force_resync == start_task("force_resync")

\* The task is set to running and counts the users.
TaskBegins(t) ==
  /\ thread[t].alive /\ task[t].status = "pending"
  /\ task' = [task EXCEPT ![t].status = "running"]
  /\ live' = live \cup {t}
  /\ UNCHANGED thread

\* One user: fts_rescan and index_user, or force_resync.  The row follows
\* at every fifth user.
TaskUser(t) ==
  /\ thread[t].alive /\ task[t].status = "running" /\ thread[t].i < NumUsers
  /\ \E bad \in 0 .. 1 :
       thread' = [thread EXCEPT ![t] = [alive |-> TRUE, errors |-> @.errors + bad,
                                        i |-> @.i + 1]]
  /\ task' = IF (thread[t].i + 1) % 5 = 0
             THEN [task EXCEPT ![t].done = thread[t].i + 1] ELSE task
  /\ UNCHANGED live

TaskVerdict(t) == IF thread[t].errors = 0 THEN "completed" ELSE "failed"

Close(t, verdict, n) ==
  /\ task' = [task EXCEPT ![t].status = verdict, ![t].done = n]
  /\ thread' = [thread EXCEPT ![t].alive = FALSE]
  /\ live' = live \ {t}

\* Mutant: a task with errors is not closed.
TaskEndsWell(t) ==
  /\ thread[t].alive /\ task[t].status = "running" /\ thread[t].i = NumUsers
  /\ thread[t].errors = 0
  /\ Close(t, "completed", NumUsers)

TaskEnds(t) ==
  /\ thread[t].alive /\ task[t].status = "running" /\ thread[t].i = NumUsers
  /\ Close(t, TaskVerdict(t), NumUsers)

\* An exception closes the task as failed.
TaskRaises(t) ==
  /\ thread[t].alive
  /\ Close(t, "failed", task[t].done)

\* The process dies; no boot step looks at the rows.
TasksDie ==
  /\ thread' = [t \in Tasks |-> [thread[t] EXCEPT !.alive = FALSE]]
  /\ live' = {}
  /\ UNCHANGED task

TaskStep(t) == TaskBegins(t) \/ TaskUser(t) \/ TaskEnds(t)

TaskNext ==
  \/ submit_fts_reindex \/ submit_force_resync
  \/ \E t \in Tasks : TaskStep(t) \/ TaskRaises(t)

TaskFairness == \A t \in Tasks : WF_taskvars(TaskStep(t))
=============================================================================
