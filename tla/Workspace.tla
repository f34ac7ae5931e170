----------------------------- MODULE Workspace ------------------------------
(***************************************************************************)
(* The recoveries and the background tasks in the one process that runs    *)
(* both, which may die at any time.                                        *)
(***************************************************************************)
EXTENDS Recoveries, BackgroundTasks

CONSTANT MaxCrashes  \* bound: how often the process dies

ASSUME WorkspaceAssumption == MaxCrashes \in Nat

VARIABLE crashes

vars == <<recvars, taskvars, crashes>>

TypeOK == RecTypeOK /\ TaskTypeOK /\ crashes \in 0 .. MaxCrashes

Init == RecInit /\ TaskInit /\ crashes = 0

Crash ==
  /\ crashes < MaxCrashes
  /\ crashes' = crashes + 1
  /\ RecDies /\ TasksDie

Next ==
  \/ (RecNext \/ BrowseNext) /\ UNCHANGED <<taskvars, crashes>>
  \/ TaskNext /\ UNCHANGED <<recvars, crashes>>
  \/ Crash

Spec == Init /\ [][Next]_vars
FairSpec == Spec /\ RecFairness /\ TaskFairness

---------------------------------------------------------------------------

\* Of each type at most one task is active.  Unless the process dies it has a
\* thread, so that it will end and let the next one in; and one that completed
\* has failed for no user.
OneActiveTask ==
  \A t \in Tasks :
    /\ Active(t) =>
         /\ \A u \in Tasks : Active(u) /\ task[u].type = task[t].type => u = t
         /\ crashes = 0 => thread[t].alive
    /\ task[t].status = "completed" => thread[t].errors = 0

\* A task whose thread has started is closed in the end, unless the process
\* dies.
TasksClose == \A t \in Tasks : thread[t].alive ~> ~thread[t].alive
=============================================================================
