------------------------ MODULE StoreMigrationProofs ------------------------
(***************************************************************************)
(* Theorems about store migrations, for every number of stores, files and  *)
(* migrations.  That nothing is lost is proved for any number of crashes,  *)
(* anywhere in the home flow and anywhere in the account flow but between  *)
(* the commit of the new path and that of the completed row, when no       *)
(* migration starts during a sync and no Cancel falls into the cleaning    *)
(* phase: the model checker refutes it without any one of these.           *)
(***************************************************************************)
EXTENDS StoreMigration, TLAPS

(* Every variable keeps its type. *)
THEOREM MigrationTypes == Spec => []TypeOK
<1>1. Init => TypeOK
  <2> SUFFICES ASSUME Init PROVE TypeOK
    OBVIOUS
  <2>1. disk \in [Stores -> SUBSET Files] /\ dirs \in SUBSET Stores
    BY DEF Init
  <2>2. 0 \in 0 .. MaxCrashes
    BY MigrationAssumption
  <2> QED
    BY <2>1, <2>2, MigrationAssumption DEF Init, TypeOK, PCs, Incomplete
<1>2. TypeOK /\ [Next]_vars => TypeOK'
  <2> SUFFICES ASSUME TypeOK, [Next]_vars PROVE TypeOK'
    OBVIOUS
  <2> USE MigrationAssumption DEF TypeOK, PCs, Incomplete, rows, item, fs, locals, sys
  <2>1. ASSUME NEW m \in Migrations, NEW s \in Stores, Initiate(m, s)
        PROVE  TypeOK'
    BY <2>1 DEF Initiate
  <2>2. CASE Cancel
    BY <2>2 DEF Cancel
  <2>3. ASSUME NEW m \in Migrations, Begin(m) PROVE TypeOK'
    BY <2>3 DEF Begin, SourceOf
  <2>4. ASSUME NEW m \in Migrations, Look(m) PROVE TypeOK'
    BY <2>4 DEF Look
  <2>5. ASSUME NEW m \in Migrations, CopyFile(m) PROVE TypeOK'
    <3>1. to[m] \in Stores
      BY <2>5 DEF CopyFile
    <3>2. /\ disk' \in [Stores -> SUBSET Files]
          /\ torn' \in SUBSET (Stores \X Files)
          /\ seen' \in [Migrations -> SUBSET Files]
          /\ dirs' = dirs
      BY <2>5, <3>1 DEF CopyFile
    <3>3. CASE Cancelled(m)
      <4>1. /\ status' \in [Migrations -> {"absent", "completed", "failed"}
                                             \cup Incomplete]
            /\ pc' \in [Migrations -> PCs] /\ cancel' \in SUBSET Migrations
            /\ migrating' \in BOOLEAN
        BY <3>3 DEF Cancelled
      <4>2. \A n \in Migrations :
              /\ status'[n] # "absent" => status[n] # "absent" \/ n = m
              /\ pc'[n] # "none" => pc'[n] = pc[n] /\ status'[n] = status[n]
        BY <3>3 DEF Cancelled
      <4>3. pc[m] # "none"
        BY <2>5 DEF CopyFile
      <4> QED
        BY <3>2, <3>3, <4>1, <4>2, <4>3 DEF Cancelled
    <3>4. CASE UNCHANGED <<rows, item, pc, src, listing, sys, cancel, writing,
                           stored>>
      BY <3>2, <3>4
    <3> QED
      BY <2>5, <3>3, <3>4 DEF CopyFile
  <2>6. ASSUME NEW m \in Migrations, CopyCut(m) PROVE TypeOK'
    BY <2>6 DEF CopyCut
  <2>7. ASSUME NEW m \in Migrations, CopyDone(m) PROVE TypeOK'
    BY <2>7 DEF CopyDone
  <2>8. ASSUME NEW m \in Migrations, Verify(m) PROVE TypeOK'
    BY <2>8 DEF Verify, Cancelled, Failed
  <2>9. ASSUME NEW m \in Migrations, Settle(m) PROVE TypeOK'
    BY <2>9 DEF Settle, Cancelled
  <2>10. ASSUME NEW m \in Migrations, Repoint(m) PROVE TypeOK'
    BY <2>10 DEF Repoint
  <2>11. ASSUME NEW m \in Migrations, Remove(m) PROVE TypeOK'
    BY <2>11 DEF Remove, OldPath
  <2>12. ASSUME NEW m \in Migrations, Done(m) PROVE TypeOK'
    BY <2>12 DEF Done
  <2>13. ASSUME NEW m \in Migrations, Raises(m) PROVE TypeOK'
    BY <2>13 DEF Raises, Failed
  <2>14. CASE Crash
    BY <2>14 DEF Crash
  <2>15. CASE BootResumes
    BY <2>15 DEF BootResumes, Resumable
  <2>16. CASE SyncStarts \/ SyncDelivers \/ SyncEnds
    BY <2>16 DEF SyncStarts, SyncDelivers, SyncEnds
  <2>17. CASE UNCHANGED vars
    BY <2>17 DEF vars
  <2> QED
    BY <2>1, <2>2, <2>3, <2>4, <2>5, <2>6, <2>7, <2>8, <2>9, <2>10, <2>11,
       <2>12, <2>13, <2>14, <2>15, <2>16, <2>17 DEF Next, ThreadStep
<1> QED
  BY <1>1, <1>2, PTL DEF Spec

---------------------------------------------------------------------------
(* Who moves the item. *)

\* At most one migration is incomplete, and the flag is up as long as one is.
\* This is said of the rows and not of the threads: after a crash the rows
\* are all that is left, and the resume starts a thread for each of them.
RowsInv ==
  /\ \A m \in Migrations : pc[m] # "none" => status[m] \in Incomplete
  /\ \A m, n \in Migrations :
       status[m] \in Incomplete /\ status[n] \in Incomplete => m = n
  /\ (\E m \in Migrations : status[m] \in Incomplete) => migrating

\* No sync runs beside a migration, and one that runs writes where the item is.
SyncInv ==
  /\ (\E m \in Migrations : status[m] \in Incomplete) => writing = None
  /\ writing # None => writing = at

\* Where the source and the target are, and on which of them the item is.  An
\* account is at its source also when a crash has left no thread: that is what
\* makes the resumed copy start from the right directory.
PlaceInv ==
  \A m \in Migrations : status[m] \in Incomplete =>
    /\ phase = "boot" => pc[m] = "none"
    /\ from[m] # to[m]
    /\ at \in {from[m], to[m]}
    /\ Kind = "account" /\ pc[m] \notin {"remove", "done"} => at = from[m]
    /\ pc[m] \notin {"none", "start"} => src[m] = from[m]
    /\ pc[m] \in {"remove", "done"} => at = to[m]

\* How far the copy is.
CopyInv ==
  /\ \A s \in Stores : s \notin dirs => disk[s] = {}
  /\ \A m \in Migrations :
       /\ pc[m] \in {"copy", "cut"} => to[m] \in dirs
       /\ pc[m] \in {"copy", "cut"} => seen[m] \subseteq disk[to[m]]
       /\ pc[m] \in {"copy", "cut"} /\ at = from[m] => stored \subseteq listing[m]
       /\ pc[m] \in {"verify", "settle", "repoint"} => stored \subseteq disk[to[m]]

(* With no Cancel during the clean-up, the flag and the uniqueness of the  *)
(* incomplete row survive every step: a thread that ends takes its row out *)
(* of the incomplete ones in the same commit.                              *)
LEMMA RowsStep ==
  ASSUME "late_cancel" \notin World, TypeOK, RowsInv, [Next]_vars
  PROVE  RowsInv'
<1> USE DEF RowsInv, TypeOK, Incomplete, rows, item, locals
<1>1. ASSUME NEW m \in Migrations, NEW s \in Stores, Initiate(m, s)
      PROVE  RowsInv'
  BY <1>1 DEF Initiate, MayMigrate
<1>2. CASE Cancel
  BY <1>2 DEF Cancel, Cancellable
<1>3. ASSUME NEW m \in Migrations, Begin(m) PROVE RowsInv'
  BY <1>3 DEF Begin, SourceOf
<1>4. ASSUME NEW m \in Migrations, Look(m) PROVE RowsInv'
  BY <1>4 DEF Look
<1>5. ASSUME NEW m \in Migrations, CopyFile(m) PROVE RowsInv'
  BY <1>5 DEF CopyFile, Cancelled
<1>6. ASSUME NEW m \in Migrations, CopyCut(m) PROVE RowsInv'
  BY <1>6 DEF CopyCut
<1>7. ASSUME NEW m \in Migrations, CopyDone(m) PROVE RowsInv'
  BY <1>7 DEF CopyDone
<1>8. ASSUME NEW m \in Migrations, Verify(m) PROVE RowsInv'
  BY <1>8 DEF Verify, Cancelled, Failed
<1>9. ASSUME NEW m \in Migrations, Settle(m) PROVE RowsInv'
  BY <1>9 DEF Settle, Cancelled
<1>10. ASSUME NEW m \in Migrations, Repoint(m) PROVE RowsInv'
  BY <1>10 DEF Repoint
<1>11. ASSUME NEW m \in Migrations, Remove(m) PROVE RowsInv'
  BY <1>11 DEF Remove, OldPath
<1>12. ASSUME NEW m \in Migrations, Done(m) PROVE RowsInv'
  BY <1>12 DEF Done
<1>13. ASSUME NEW m \in Migrations, Raises(m) PROVE RowsInv'
  BY <1>13 DEF Raises, Failed
<1>14. CASE Crash
  BY <1>14 DEF Crash
<1>15. CASE BootResumes
  BY <1>15 DEF BootResumes, Resumable
<1>16. CASE SyncStarts \/ SyncDelivers \/ SyncEnds
  BY <1>16 DEF SyncStarts, SyncDelivers, SyncEnds
<1>17. CASE UNCHANGED vars
  BY <1>17 DEF vars
<1> QED
  BY <1>1, <1>2, <1>3, <1>4, <1>5, <1>6, <1>7, <1>8, <1>9, <1>10, <1>11,
     <1>12, <1>13, <1>14, <1>15, <1>16, <1>17 DEF Next, ThreadStep

(* The flag goes up with the row and comes down with it, whatever the      *)
(* crashes and resumes in between.                                         *)
THEOREM Rows ==
  ASSUME "late_cancel" \notin World
  PROVE  Spec => []RowsInv
<1>1. Init => RowsInv
  BY DEF Init, RowsInv, Incomplete
<1>2. TypeOK /\ RowsInv /\ [Next]_vars => RowsInv'
  BY RowsStep
<1> QED
  BY <1>1, <1>2, MigrationTypes, PTL DEF Spec

(* One thread moves the item, for any number of crashes and resumes. *)
THEOREM SingleMover ==
  ASSUME "late_cancel" \notin World
  PROVE  Spec => []OneMover
<1>1. RowsInv => OneMover
  BY DEF RowsInv, OneMover
<1> QED
  BY <1>1, Rows, PTL

(* Syncs and logins are locked out for as long as the item is moved. *)
THEOREM Blocked ==
  ASSUME "late_cancel" \notin World
  PROVE  Spec => []BlockedWhileMoving
<1>1. RowsInv => BlockedWhileMoving
  BY DEF RowsInv, BlockedWhileMoving
<1> QED
  BY <1>1, Rows, PTL

(* No sync starts while the flag is up, and no migration while one runs.   *)
LEMMA SyncStep ==
  ASSUME "late_cancel" \notin World, "midsync" \notin World,
         TypeOK, RowsInv, SyncInv, [Next]_vars
  PROVE  SyncInv'
<1> USE DEF SyncInv, RowsInv, TypeOK, Incomplete, rows, item, locals
<1>1. ASSUME NEW m \in Migrations, NEW s \in Stores, Initiate(m, s)
      PROVE  SyncInv'
  BY <1>1 DEF Initiate
<1>2. CASE Cancel
  BY <1>2 DEF Cancel
<1>3. ASSUME NEW m \in Migrations, Begin(m) PROVE SyncInv'
  BY <1>3 DEF Begin, SourceOf
<1>4. ASSUME NEW m \in Migrations, Look(m) PROVE SyncInv'
  BY <1>4 DEF Look
<1>5. ASSUME NEW m \in Migrations, CopyFile(m) PROVE SyncInv'
  BY <1>5 DEF CopyFile, Cancelled
<1>6. ASSUME NEW m \in Migrations, CopyCut(m) PROVE SyncInv'
  BY <1>6 DEF CopyCut
<1>7. ASSUME NEW m \in Migrations, CopyDone(m) PROVE SyncInv'
  BY <1>7 DEF CopyDone
<1>8. ASSUME NEW m \in Migrations, Verify(m) PROVE SyncInv'
  BY <1>8 DEF Verify, Cancelled, Failed
<1>9. ASSUME NEW m \in Migrations, Settle(m) PROVE SyncInv'
  BY <1>9 DEF Settle, Cancelled
<1>10. ASSUME NEW m \in Migrations, Repoint(m) PROVE SyncInv'
  BY <1>10 DEF Repoint
<1>11. ASSUME NEW m \in Migrations, Remove(m) PROVE SyncInv'
  BY <1>11 DEF Remove, OldPath
<1>12. ASSUME NEW m \in Migrations, Done(m) PROVE SyncInv'
  BY <1>12 DEF Done
<1>13. ASSUME NEW m \in Migrations, Raises(m) PROVE SyncInv'
  BY <1>13 DEF Raises, Failed
<1>14. CASE Crash
  BY <1>14 DEF Crash
<1>15. CASE BootResumes
  BY <1>15 DEF BootResumes
<1>16. CASE SyncStarts \/ SyncDelivers \/ SyncEnds
  BY <1>16 DEF SyncStarts, SyncDelivers, SyncEnds, SyncGate
<1>17. CASE UNCHANGED vars
  BY <1>17 DEF vars
<1> QED
  BY <1>1, <1>2, <1>3, <1>4, <1>5, <1>6, <1>7, <1>8, <1>9, <1>10, <1>11,
     <1>12, <1>13, <1>14, <1>15, <1>16, <1>17 DEF Next, ThreadStep

(* The gate keeps syncs out of a migration, when none is running at its    *)
(* start.                                                                  *)
THEOREM SyncsKeptOut ==
  ASSUME "late_cancel" \notin World, "midsync" \notin World
  PROVE  Spec => []NoSyncWhileMoving
<1>1. Init => SyncInv
  BY DEF Init, SyncInv, Incomplete
<1>2. TypeOK /\ RowsInv /\ SyncInv /\ [Next]_vars => SyncInv'
  BY SyncStep
<1>3. RowsInv /\ SyncInv => NoSyncWhileMoving
  BY DEF RowsInv, SyncInv, NoSyncWhileMoving
<1> QED
  BY <1>1, <1>2, <1>3, MigrationTypes, Rows, PTL DEF Spec

---------------------------------------------------------------------------
(* Nothing is lost. *)

\* What the proof assumes of the environment; see the head of the module.
Sheltered ==
  /\ "late_cancel" \notin World /\ "midsync" \notin World
  /\ Kind = "home" \/ "late_crash" \notin World

(* Source, target and the item keep their places through every step; only  *)
(* the commit of the new path moves the item, from source to target.       *)
LEMMA PlaceStep ==
  ASSUME Sheltered, TypeOK, RowsInv, PlaceInv, [Next]_vars
  PROVE  PlaceInv'
<1> USE MigrationAssumption
    DEF PlaceInv, RowsInv, TypeOK, Incomplete, rows, item, locals, sys
<1>1. ASSUME NEW m \in Migrations, NEW s \in Stores, Initiate(m, s)
      PROVE  PlaceInv'
  BY <1>1 DEF Initiate, MayMigrate
<1>2. CASE Cancel
  BY <1>2 DEF Cancel
<1>3. ASSUME NEW m \in Migrations, Begin(m) PROVE PlaceInv'
  BY <1>3 DEF Begin, SourceOf
<1>4. ASSUME NEW m \in Migrations, Look(m) PROVE PlaceInv'
  BY <1>4 DEF Look
<1>5. ASSUME NEW m \in Migrations, CopyFile(m) PROVE PlaceInv'
  BY <1>5 DEF CopyFile, Cancelled
<1>6. ASSUME NEW m \in Migrations, CopyCut(m) PROVE PlaceInv'
  BY <1>6 DEF CopyCut
<1>7. ASSUME NEW m \in Migrations, CopyDone(m) PROVE PlaceInv'
  BY <1>7 DEF CopyDone
<1>8. ASSUME NEW m \in Migrations, Verify(m) PROVE PlaceInv'
  BY <1>8 DEF Verify, Cancelled, Failed
<1>9. ASSUME NEW m \in Migrations, Settle(m) PROVE PlaceInv'
  BY <1>9 DEF Settle, Cancelled
<1>10. ASSUME NEW m \in Migrations, Repoint(m) PROVE PlaceInv'
  BY <1>10 DEF Repoint
<1>11. ASSUME NEW m \in Migrations, Remove(m) PROVE PlaceInv'
  BY <1>11 DEF Remove, OldPath
<1>12. ASSUME NEW m \in Migrations, Done(m) PROVE PlaceInv'
  BY <1>12 DEF Done
<1>13. ASSUME NEW m \in Migrations, Raises(m) PROVE PlaceInv'
  BY <1>13 DEF Raises, Failed
<1>14. CASE Crash
  BY <1>14 DEF Crash, InCleanup, Sheltered
<1>15. CASE BootResumes
  BY <1>15 DEF BootResumes, Resumable, Sheltered
<1>16. CASE SyncStarts \/ SyncDelivers \/ SyncEnds
  BY <1>16 DEF SyncStarts, SyncDelivers, SyncEnds
<1>17. CASE UNCHANGED vars
  BY <1>17 DEF vars
<1> QED
  BY <1>1, <1>2, <1>3, <1>4, <1>5, <1>6, <1>7, <1>8, <1>9, <1>10, <1>11,
     <1>12, <1>13, <1>14, <1>15, <1>16, <1>17 DEF Next, ThreadStep

(* The copy brings every file of the item to the target before the path is *)
(* changed, and what is removed afterwards is not what the path names.     *)
LEMMA CopyStep ==
  ASSUME Sheltered, TypeOK, RowsInv, SyncInv, PlaceInv, CopyInv, NothingLost,
         [Next]_vars
  PROVE  CopyInv' /\ NothingLost'
<1> USE DEF CopyInv, NothingLost, TypeOK, rows, item, fs, locals, sys
<1>i. \A m \in Migrations : pc[m] # "none" => status[m] \in Incomplete
  BY DEF RowsInv
<1>p. \A m \in Migrations : pc[m] # "none" =>
        /\ from[m] # to[m] /\ at \in {from[m], to[m]}
        /\ pc[m] # "start" => src[m] = from[m]
        /\ pc[m] \in {"remove", "done"} => at = to[m]
  BY <1>i DEF PlaceInv
<1>o. \A m, n \in Migrations : pc[m] # "none" /\ pc[n] # "none" => m = n
  BY <1>i DEF RowsInv
<1>1. ASSUME NEW m \in Migrations, NEW s \in Stores, Initiate(m, s)
      PROVE  CopyInv' /\ NothingLost'
  BY <1>1 DEF Initiate
<1>2. CASE Cancel
  BY <1>2 DEF Cancel
<1>3. ASSUME NEW m \in Migrations, Begin(m) PROVE CopyInv' /\ NothingLost'
  BY <1>3, <1>p, <1>o DEF Begin, SourceOf
<1>4. ASSUME NEW m \in Migrations, Look(m) PROVE CopyInv' /\ NothingLost'
  BY <1>4, <1>p, <1>o DEF Look
<1>5. ASSUME NEW m \in Migrations, CopyFile(m) PROVE CopyInv' /\ NothingLost'
  BY <1>5, <1>p, <1>o DEF CopyFile, Cancelled
<1>6. ASSUME NEW m \in Migrations, CopyCut(m) PROVE CopyInv' /\ NothingLost'
  BY <1>6, <1>p, <1>o DEF CopyCut
<1>7. ASSUME NEW m \in Migrations, CopyDone(m) PROVE CopyInv' /\ NothingLost'
  BY <1>7, <1>p, <1>o DEF CopyDone
<1>8. ASSUME NEW m \in Migrations, Verify(m) PROVE CopyInv' /\ NothingLost'
  BY <1>8, <1>p, <1>o DEF Verify, Cancelled, Failed
<1>9. ASSUME NEW m \in Migrations, Settle(m) PROVE CopyInv' /\ NothingLost'
  BY <1>9, <1>p, <1>o DEF Settle, Cancelled
<1>10. ASSUME NEW m \in Migrations, Repoint(m) PROVE CopyInv' /\ NothingLost'
  BY <1>10, <1>p, <1>o DEF Repoint
<1>11. ASSUME NEW m \in Migrations, Remove(m) PROVE CopyInv' /\ NothingLost'
  BY <1>11, <1>p, <1>o DEF Remove, OldPath
<1>12. ASSUME NEW m \in Migrations, Done(m) PROVE CopyInv' /\ NothingLost'
  BY <1>12, <1>p, <1>o DEF Done
<1>13. ASSUME NEW m \in Migrations, Raises(m) PROVE CopyInv' /\ NothingLost'
  BY <1>13, <1>p, <1>o DEF Raises, Failed
<1>14. CASE Crash
  BY <1>14 DEF Crash
<1>15. CASE BootResumes
  BY <1>15 DEF BootResumes, Resumable
<1>16. CASE SyncStarts \/ SyncDelivers \/ SyncEnds
  BY <1>16, <1>i DEF SyncStarts, SyncDelivers, SyncEnds, SyncGate, SyncInv
<1>17. CASE UNCHANGED vars
  BY <1>17 DEF vars
<1> QED
  BY <1>1, <1>2, <1>3, <1>4, <1>5, <1>6, <1>7, <1>8, <1>9, <1>10, <1>11,
     <1>12, <1>13, <1>14, <1>15, <1>16, <1>17 DEF Next, ThreadStep

(* The row of the item never points at a directory that lacks one of its   *)
(* files, for any number of crashes and resumes: of homes at any moment,   *)
(* of accounts at any moment but between the two commits of the clean-up.  *)
THEOREM NothingIsLost ==
  ASSUME Sheltered
  PROVE  Spec => []NothingLost
<1>w. "late_cancel" \notin World /\ "midsync" \notin World
  BY DEF Sheltered
<1>1. Init => SyncInv /\ PlaceInv /\ CopyInv /\ NothingLost
  BY DEF Init, SyncInv, PlaceInv, CopyInv, NothingLost, Incomplete
<1>2. TypeOK /\ RowsInv /\ SyncInv /\ [Next]_vars => SyncInv'
  BY <1>w, SyncStep
<1>3. TypeOK /\ RowsInv /\ PlaceInv /\ [Next]_vars => PlaceInv'
  BY PlaceStep
<1>4. /\ TypeOK /\ RowsInv /\ SyncInv /\ PlaceInv /\ CopyInv /\ NothingLost
      /\ [Next]_vars
      => CopyInv' /\ NothingLost'
  BY CopyStep
<1>5. Spec => []RowsInv
  BY <1>w, Rows
<1> QED
  BY <1>1, <1>2, <1>3, <1>4, <1>5, MigrationTypes, PTL DEF Spec
=============================================================================
