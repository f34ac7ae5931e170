---------------------------- MODULE MCSyncEngine ----------------------------
(* Instances of SyncEngine for TLC: one account and one or two jobs of it. *)
EXTENDS SyncEngine

CONSTANTS a1, j1, j2, r1

OneAccount == [j \in Jobs |-> a1]
=============================================================================
