---------------------------- MODULE MCWorkspace -----------------------------
(***************************************************************************)
(* The recoveries, the browse requests and the tasks share nothing but the *)
(* life of the process, and no property is about two of them: each is      *)
(* explored with the others at rest, instead of their product.             *)
(***************************************************************************)
EXTENDS Workspace

CONSTANTS s1, s2

VARIABLE scene

MCInit == Init /\ scene \in {"recoveries", "requests", "tasks"}

MCNext ==
  /\ \/ scene = "recoveries" /\ RecNext /\ UNCHANGED <<taskvars, crashes>>
     \/ scene = "requests" /\ BrowseNext /\ UNCHANGED <<taskvars, crashes>>
     \/ scene = "tasks" /\ TaskNext /\ UNCHANGED <<recvars, crashes>>
     \/ Crash
  /\ UNCHANGED scene

MCSpec ==
  MCInit /\ [][MCNext]_<<vars, scene>> /\ RecFairness /\ TaskFairness
=============================================================================
