----------------------------- MODULE MCRestore -----------------------------
(* Constants for the TLC runs of RestoreEngine: one message of each account. *)
EXTENDS RestoreEngine

CONSTANTS a1, a2, f1, f2

OneEach == [f \in Files |-> IF f = f2 /\ a2 \in Accounts THEN a2 ELSE a1]
=============================================================================
