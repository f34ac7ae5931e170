-------------------------- MODULE MCStoreMigration --------------------------
(* Instances of StoreMigration for TLC: up to three stores and files.      *)
EXTENDS StoreMigration, TLC

CONSTANTS s1, s2, s3, f1, f2, f3, m1, m2, m3

\* Stores and files are interchangeable.
Symmetry == Permutations(Stores) \cup Permutations(Files)
=============================================================================
