------------------------------ MODULE MCBackup ------------------------------
(* Constants for the TLC runs of BackupEngine. *)
EXTENDS BackupEngine
=============================================================================
