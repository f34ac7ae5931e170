--------------------------- MODULE StoreMigration ---------------------------
(***************************************************************************)
(* Moving one item, an account's maildir or a user's Dovecot home, from    *)
(* one mail store to another: the store_migrations rows, the thread that   *)
(* copies, verifies, repoints and removes, the cancel endpoint, the resume *)
(* at startup and the syncs that the migrating flag is meant to keep out.  *)
(* Migrations of different items share nothing, so one item is enough; a   *)
(* store drain is one migration per item, run one after the other.         *)
(***************************************************************************)
EXTENDS Naturals, FiniteSets

CONSTANTS
  Kind,        \* "account" or "home": which of the two flows
  Stores,      \* mail stores
  Files,       \* names of the item's files
  Migrations,  \* ids of store_migrations rows; bounds how many are started
  None,        \* no store
  MaxCrashes,  \* bound: how often the process dies
  World        \* which of Hazards can happen

\* "raise": file operations may fail; "torn": a copy may be cut in the middle
\* of a file; "sync": the account is synced; "midsync": a migration may be
\* started while a sync is running; "late_cancel": an admin may press Cancel
\* while the thread is cleaning up; "late_crash": the process may die between
\* the commit of the new path and that of the completed row.
Hazards == {"raise", "torn", "sync", "midsync", "late_cancel", "late_crash"}

ASSUME MigrationAssumption ==
  /\ Kind \in {"account", "home"}
  /\ None \notin Stores
  /\ IsFiniteSet(Files)
  /\ MaxCrashes \in Nat
  /\ World \subseteq Hazards

VARIABLES
  (* database *)
  status,     \* store_migrations.status ("absent": no row yet)
  from,       \* source_store_id
  to,         \* target_store_id
  at,         \* store_id of the item, and maildir_path of an account
  migrating,  \* the item's migrating flag
  (* disk *)
  disk,       \* the files of the item on each store
  dirs,       \* the stores on which the item's directory exists
  torn,       \* <<store, file>> pairs whose content is cut short
  (* process memory *)
  phase,      \* "boot" until _resume_migrations has run, then "up"
  crashes,
  pc,         \* where the thread of a migration is ("none": no thread)
  src,        \* its source_path or source_home
  listing,    \* what copy_tree found in the source directory
  seen,       \* the files it has visited
  cancel,     \* _cancel_flags
  writing,    \* the store a running mbsync writes to
  (* history *)
  stored      \* every file that was ever the item's

rows   == <<status, from, to>>
item   == <<at, migrating>>
fs     == <<disk, dirs, torn>>
locals == <<pc, src, listing, seen>>
sys    == <<phase, crashes>>
vars   == <<rows, item, fs, locals, sys, cancel, writing, stored>>

Incomplete == {"pending", "copying", "verifying", "cleaning"}

\* Mutant: a migration whose thread has not begun is not looked for.
Begun == {"copying", "verifying"}

Cancellable == {"pending", "copying", "verifying"}
PCs == {"none", "start", "look", "copy", "cut", "verify", "settle", "repoint",
        "remove", "done"}

TypeOK ==
  /\ status \in [Migrations -> {"absent", "completed", "failed"} \cup Incomplete]
  /\ from \in [Migrations -> Stores \cup {None}]
  /\ to \in [Migrations -> Stores \cup {None}]
  /\ at \in Stores
  /\ migrating \in BOOLEAN
  /\ disk \in [Stores -> SUBSET Files]
  /\ dirs \in SUBSET Stores
  /\ torn \in SUBSET (Stores \X Files)
  /\ phase \in {"boot", "up"}
  /\ crashes \in 0 .. MaxCrashes
  /\ pc \in [Migrations -> PCs]
  /\ src \in [Migrations -> Stores \cup {None}]
  /\ listing \in [Migrations -> SUBSET Files]
  /\ seen \in [Migrations -> SUBSET Files]
  /\ cancel \in SUBSET Migrations
  /\ writing \in Stores \cup {None}
  /\ stored \in SUBSET Files
  /\ \A m \in Migrations :
       /\ status[m] # "absent" => from[m] \in Stores /\ to[m] \in Stores
       /\ pc[m] # "none" => status[m] # "absent"
       /\ pc[m] \notin {"none", "start"} => src[m] \in Stores

\* The item lies on some store; an account that was never synced has no
\* directory yet.
Init ==
  /\ status = [m \in Migrations |-> "absent"]
  /\ from = [m \in Migrations |-> None]
  /\ to = [m \in Migrations |-> None]
  /\ at \in Stores
  /\ migrating = FALSE
  /\ stored \in SUBSET Files
  /\ disk = [s \in Stores |-> IF s = at THEN stored ELSE {}]
  /\ dirs \in {{}, {at}} /\ (stored # {} => dirs = {at})
  /\ torn = {}
  /\ phase = "up"
  /\ crashes = 0
  /\ pc = [m \in Migrations |-> "none"]
  /\ src = [m \in Migrations |-> None]
  /\ listing = [m \in Migrations |-> {}]
  /\ seen = [m \in Migrations |-> {}]
  /\ cancel = {}
  /\ writing = None

---------------------------------------------------------------------------
(* Requests.  The endpoints are coroutines that do not await between their *)
(* checks and their commit.                                                *)

MayMigrate == ~migrating

\* initiate_account_migration, initiate_home_migration, and the start of the
\* thread.  Nobody looks whether a sync of the account is running.
Initiate(m, s) ==
  /\ phase = "up"
  /\ status[m] = "absent"
  /\ s # at
  /\ MayMigrate
  /\ "midsync" \in World \/ writing = None
  /\ migrating' = TRUE
  /\ status' = [status EXCEPT ![m] = "pending"]
  /\ from' = [from EXCEPT ![m] = at]
  /\ to' = [to EXCEPT ![m] = s]
  /\ pc' = [pc EXCEPT ![m] = "start"]
  /\ UNCHANGED <<at, fs, src, listing, seen, sys, cancel, writing, stored>>

\* The cancel endpoints: a flag for the active migration, or, when there is
\* none, the end of a migrating flag that a failure has left behind.
Cancel ==
  /\ phase = "up"
  /\ migrating
  /\ LET active == {m \in Migrations : status[m] \in Cancellable}
     IN  \/ \E m \in active :
              /\ cancel' = cancel \cup {m}
              /\ UNCHANGED migrating
         \/ /\ active = {}
            /\ \/ "late_cancel" \in World
               \/ \A m \in Migrations : status[m] # "cleaning"
            /\ migrating' = FALSE
            /\ UNCHANGED cancel
  /\ UNCHANGED <<rows, at, fs, locals, sys, writing, stored>>

---------------------------------------------------------------------------
(* The thread: execute_account_migration, execute_home_migration. *)

\* Mutant: the home flow, too, starts from where the item is now.
CurrentStore(m) == at

\* An account is copied from its maildir_path, a home from the store that the
\* migration row names.
SourceOf(m) == IF Kind = "account" THEN at ELSE from[m]

Begin(m) ==
  /\ pc[m] = "start"
  /\ status' = [status EXCEPT ![m] = "copying"]
  /\ src' = [src EXCEPT ![m] = SourceOf(m)]
  /\ pc' = [pc EXCEPT ![m] = "look"]
  /\ UNCHANGED <<from, to, item, fs, listing, seen, sys, cancel, writing, stored>>

\* A source that does not exist is not copied; prescan counts one that does,
\* and copy_tree makes the target directory and scans the source.
Look(m) ==
  /\ pc[m] = "look"
  /\ IF src[m] \in dirs
       THEN /\ pc' = [pc EXCEPT ![m] = "copy"]
            /\ listing' = [listing EXCEPT ![m] = disk[src[m]]]
            /\ dirs' = dirs \cup {to[m]}
       ELSE /\ pc' = [pc EXCEPT ![m] = "settle"]
            /\ UNCHANGED <<listing, dirs>>
  /\ seen' = [seen EXCEPT ![m] = {}]
  /\ UNCHANGED <<rows, item, disk, torn, src, sys, cancel, writing, stored>>

\* MigrationCancelled: the item is free again.
Cancelled(m) ==
  /\ status' = [status EXCEPT ![m] = "failed"]
  /\ migrating' = FALSE
  /\ cancel' = cancel \ {m}
  /\ pc' = [pc EXCEPT ![m] = "none"]
  /\ UNCHANGED <<from, to, at, src, listing, sys, writing, stored>>

\* Any other failure: the row is failed and the item stays migrating.
Failed(m) ==
  /\ status' = [status EXCEPT ![m] = "failed"]
  /\ cancel' = cancel \ {m}
  /\ pc' = [pc EXCEPT ![m] = "none"]
  /\ UNCHANGED <<from, to, item, src, listing, sys, writing, stored>>

\* One file of copy_tree: copied unless the target has one of that name, then
\* on_progress, which looks for the cancel flag.
CopyFile(m) ==
  /\ pc[m] = "copy"
  /\ \E f \in disk[src[m]] \ seen[m] :
       /\ disk' = [disk EXCEPT ![to[m]] = @ \cup {f}]
       /\ torn' = IF f \notin disk[to[m]] /\ <<src[m], f>> \in torn
                    THEN torn \cup {<<to[m], f>>} ELSE torn
       /\ seen' = [seen EXCEPT ![m] = @ \cup {f}]
  /\ IF m \in cancel THEN Cancelled(m)
     ELSE UNCHANGED <<rows, item, pc, src, listing, sys, cancel, writing, stored>>
  /\ UNCHANGED dirs

\* copy2 ends in the middle of a file: the disk is full, or the process is
\* about to die.
CopyCut(m) ==
  /\ "torn" \in World
  /\ pc[m] = "copy"
  /\ \E f \in disk[src[m]] \ seen[m] :
       /\ f \notin disk[to[m]]
       /\ disk' = [disk EXCEPT ![to[m]] = @ \cup {f}]
       /\ torn' = torn \cup {<<to[m], f>>}
  /\ pc' = [pc EXCEPT ![m] = "cut"]
  /\ UNCHANGED <<rows, item, dirs, src, listing, seen, sys, cancel, writing, stored>>

CopyDone(m) ==
  /\ pc[m] = "copy"
  /\ listing[m] \subseteq seen[m]
  /\ status' = [status EXCEPT ![m] = "verifying"]
  /\ pc' = [pc EXCEPT ![m] = "verify"]
  /\ UNCHANGED <<from, to, item, fs, src, listing, seen, sys, cancel, writing, stored>>

\* verify_copy counts; it compares neither names nor content.
SameCount(m) == Cardinality(disk[src[m]]) = Cardinality(disk[to[m]])

Verify(m) ==
  /\ pc[m] = "verify"
  /\ IF m \in cancel THEN Cancelled(m)
     ELSE IF SameCount(m)
       THEN /\ pc' = [pc EXCEPT ![m] = "settle"]
            /\ UNCHANGED <<rows, item, src, listing, sys, cancel, writing, stored>>
       ELSE Failed(m)
  /\ UNCHANGED <<fs, seen>>

\* The last look at the cancel flag.
Settle(m) ==
  /\ pc[m] = "settle"
  /\ IF m \in cancel THEN Cancelled(m)
     ELSE /\ status' = [status EXCEPT ![m] = "cleaning"]
          /\ pc' = [pc EXCEPT ![m] = "repoint"]
          /\ UNCHANGED <<from, to, item, src, listing, sys, cancel, writing, stored>>
  /\ UNCHANGED <<fs, seen>>

\* The item's row is pointed at the target, in a commit of its own.
Repoint(m) ==
  /\ pc[m] = "repoint"
  /\ at' = to[m]
  /\ pc' = [pc EXCEPT ![m] = "remove"]
  /\ UNCHANGED <<rows, migrating, fs, src, listing, seen, sys, cancel, writing, stored>>

\* Mutant: the path is read again after it was updated.
PathNow(m) == at

\* source_path, read before the copy.
OldPath(m) == src[m]

\* rmtree(source, ignore_errors=True): file by file, then the directory; what
\* cannot be removed stays.
Remove(m) ==
  /\ pc[m] = "remove"
  /\ LET s == OldPath(m)
     IN  \/ \E f \in disk[s] :
              /\ disk' = [disk EXCEPT ![s] = @ \ {f}]
              /\ torn' = torn \ {<<s, f>>}
              /\ UNCHANGED <<dirs, pc>>
         \/ /\ disk[s] = {}
            /\ dirs' = dirs \ {s}
            /\ pc' = [pc EXCEPT ![m] = "done"]
            /\ UNCHANGED <<disk, torn>>
         \/ /\ "raise" \in World
            /\ pc' = [pc EXCEPT ![m] = "done"]
            /\ UNCHANGED fs
  /\ UNCHANGED <<rows, item, src, listing, seen, sys, cancel, writing, stored>>

Done(m) ==
  /\ pc[m] = "done"
  /\ status' = [status EXCEPT ![m] = "completed"]
  /\ migrating' = FALSE
  /\ cancel' = cancel \ {m}
  /\ pc' = [pc EXCEPT ![m] = "none"]
  /\ UNCHANGED <<from, to, at, fs, src, listing, seen, sys, writing, stored>>

\* Another migration of the item has removed the source.
Vanished(m) ==
  IF pc[m] = "copy" THEN ~(listing[m] \subseteq seen[m] \cup disk[src[m]])
  ELSE src[m] \notin dirs

\* An OSError from a scan or a copy.
Raises(m) ==
  /\ pc[m] \in {"look", "copy", "cut", "verify"}
  /\ "raise" \in World \/ pc[m] = "cut" \/ (pc[m] # "look" /\ Vanished(m))
  /\ Failed(m)
  /\ UNCHANGED <<fs, seen>>

---------------------------------------------------------------------------
(* Crash and restart. *)

\* The new path is committed and the row is not completed yet.
InCleanup == \E m \in Migrations : pc[m] \in {"remove", "done"}

Crash ==
  /\ phase = "up"
  /\ crashes < MaxCrashes
  /\ "late_crash" \in World \/ ~InCleanup
  /\ crashes' = crashes + 1
  /\ phase' = "boot"
  /\ pc' = [m \in Migrations |-> "none"]
  /\ src' = [m \in Migrations |-> None]
  /\ listing' = [m \in Migrations |-> {}]
  /\ seen' = [m \in Migrations |-> {}]
  /\ cancel' = {}
  /\ writing' = None
  /\ UNCHANGED <<rows, item, fs, stored>>

\* Mutant: a migration that was already cleaning up is not resumed.
NotCleaning == Incomplete \ {"cleaning"}

Resumable == Incomplete

\* _resume_migrations: a thread for every migration that is not over.
BootResumes ==
  /\ phase = "boot"
  /\ phase' = "up"
  /\ pc' = [m \in Migrations |-> IF status[m] \in Resumable THEN "start"
                                 ELSE "none"]
  /\ UNCHANGED <<rows, item, fs, src, listing, seen, crashes, cancel, writing,
                 stored>>

---------------------------------------------------------------------------
(* Syncs of the account, as far as the migration sees them: the gate, and  *)
(* an mbsync that writes to the path its configuration was made with.      *)

\* Mutant: the triggers do not look at the flag.
Ungated == "sync" \in World /\ phase = "up"

SyncGate == "sync" \in World /\ phase = "up" /\ ~migrating

SyncStarts ==
  /\ SyncGate
  /\ writing = None
  /\ writing' = at
  /\ dirs' = dirs \cup {at}
  /\ UNCHANGED <<rows, item, disk, torn, locals, sys, cancel, stored>>

SyncDelivers ==
  /\ writing # None
  /\ \E f \in Files \ stored :
       /\ disk' = [disk EXCEPT ![writing] = @ \cup {f}]
       /\ stored' = stored \cup {f}
  /\ dirs' = dirs \cup {writing}
  /\ UNCHANGED <<rows, item, torn, locals, sys, cancel, writing>>

SyncEnds ==
  /\ writing # None
  /\ writing' = None
  /\ UNCHANGED <<rows, item, fs, locals, sys, cancel, stored>>

---------------------------------------------------------------------------
(* The specification. *)

ThreadStep(m) ==
  \/ Begin(m) \/ Look(m) \/ CopyFile(m) \/ CopyCut(m) \/ CopyDone(m)
  \/ Verify(m) \/ Settle(m) \/ Repoint(m) \/ Remove(m) \/ Done(m) \/ Raises(m)

Next ==
  \/ \E m \in Migrations : ThreadStep(m) \/ \E s \in Stores : Initiate(m, s)
  \/ Cancel \/ Crash \/ BootResumes
  \/ SyncStarts \/ SyncDelivers \/ SyncEnds

Spec == Init /\ [][Next]_vars

\* A thread that can run does, and a dead process is started again.
FairSpec ==
  /\ Spec
  /\ \A m \in Migrations : WF_vars(ThreadStep(m))
  /\ WF_vars(BootResumes)

---------------------------------------------------------------------------
(* Properties. *)

\* The item is where its row says, all of it: no cancellation, failed copy,
\* verification by counts or removal of the source ever leaves the row
\* pointing at a directory without one of the files.
NothingLost == stored \subseteq disk[at]

\* Nothing the row points at is cut short.
NothingTorn == \A f \in stored : <<at, f>> \notin torn

\* While a thread moves the item its migrating flag is up, so that syncs and
\* logins stay out.
BlockedWhileMoving == (\E m \in Migrations : pc[m] # "none") => migrating

\* No sync of the account runs while its migration does.
NoSyncWhileMoving ==
  (\E m \in Migrations : pc[m] # "none") => writing = None

\* An item is moved by one thread at a time, also after a restart has resumed
\* whatever was incomplete.
OneMover ==
  \A m, n \in Migrations : pc[m] # "none" /\ pc[n] # "none" => m = n

\* Every migration ends, whatever restarts happen on the way.
MigrationEnds ==
  \A m \in Migrations :
    status[m] \in Incomplete ~> status[m] \in {"completed", "failed"}
=============================================================================
