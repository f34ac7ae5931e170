----------------------------- MODULE Recoveries -----------------------------
(***************************************************************************)
(* Snapshots restored to disk ("recoveries"): persistent ones, made from   *)
(* the account page, and ephemeral ones ("mounts"), made by the workspace  *)
(* search and removed when nobody has used them for a while.  Also the     *)
(* temporary IMAP users the browse requests connect with.                  *)
(*                                                                         *)
(* One account.  A directory is named by the account and the second it was *)
(* made in; it holds a wrapper and, below it, the Maildirs that restic     *)
(* extracted.                                                              *)
(***************************************************************************)
EXTENDS Naturals, FiniteSets

CONSTANTS
  Snapshots,
  MaxRecs,   \* bound: recoveries rows ever inserted
  World      \* which of Hazards can happen

\* "raise": restic fails; "samesecond": two recoveries are made in one second;
\* "logout": a connection breaks before LOGOUT; "rmtree": removal fails.
Hazards == {"raise", "samesecond", "logout", "rmtree"}

Recs == 1 .. MaxRecs
Dirs == 1 .. MaxRecs

\* The requests that browse over IMAP.  Those of Bare log out unguarded before
\* they delete their user.
Bare == {"list_mailboxes", "list_messages", "search_messages"}
Guarded == {"workspace_search", "resolve_uids"}
Requests == Bare \cup Guarded

ASSUME RecoveriesAssumption ==
  MaxRecs \in Nat /\ Snapshots # {} /\ World \subseteq Hazards

VARIABLES
  (* database and disk *)
  rec,      \* recoveries rows
  wrapper,  \* directories that exist
  mail,     \* the snapshots extracted in a directory
  temps,    \* temporary users of browse requests
  (* process memory *)
  making,   \* create_recovery calls that have not returned
  del,      \* delete_recovery calls: "no", "marked", "removed"
  sweep,    \* cleanup_idle_mounts: its candidates and the one it deletes
  open,     \* browse requests with a connection
  (* history *)
  asked,    \* rows whose deletion was begun
  torn      \* directories whose removal failed, or that restic was writing to

store   == <<rec, wrapper, mail, asked, torn>>
process == <<making, del, sweep>>
recvars == <<store, process, temps, open>>

Row == [status : {"none", "restoring", "ready", "failed", "deleting"},
        snap : Snapshots, eph : BOOLEAN, dir : Dirs, idle : BOOLEAN]
NoSweep == [todo |-> {}, idle |-> {}, fresh |-> FALSE, cur |-> 0]

\* A sweep with nothing left to do is over.
Rest(s) == IF s.todo = {} /\ s.cur = 0 THEN NoSweep ELSE s

RecTypeOK ==
  /\ rec \in [Recs -> Row]
  /\ wrapper \subseteq Dirs /\ mail \in [Dirs -> SUBSET Snapshots]
  /\ temps \subseteq Requests /\ open \subseteq Requests
  /\ making \subseteq Recs
  /\ del \in [Recs -> {"no", "marked", "removed"}]
  /\ sweep \in [todo : SUBSET Recs, idle : SUBSET Recs,
                fresh : BOOLEAN, cur : Recs \cup {0}]
  /\ asked \subseteq Recs /\ torn \subseteq Dirs

RecInit ==
  /\ rec = [r \in Recs |->
              [status |-> "none", snap |-> CHOOSE s \in Snapshots : TRUE,
               eph |-> FALSE, dir |-> 1, idle |-> FALSE]]
  /\ wrapper = {} /\ mail = [d \in Dirs |-> {}]
  /\ temps = {} /\ open = {}
  /\ making = {} /\ del = [r \in Recs |-> "no"] /\ sweep = NoSweep
  /\ asked = {} /\ torn = {}

Rows == {r \in Recs : rec[r].status # "none"}

---------------------------------------------------------------------------
(* Making a recovery. *)

\* _build_restore_root: unique up to the second.
Fresh(d) ==
  "samesecond" \in World \/ \A r \in asked \cup Rows : d # rec[r].dir

\* create_recovery up to the commit of the restoring row.
Begin(s, eph) ==
  LET r == Cardinality(asked \cup Rows) + 1
  IN /\ r \in Recs
     /\ \E d \in Dirs :
          /\ Fresh(d)
          /\ wrapper' = wrapper \cup {d}
          /\ rec' = [rec EXCEPT ![r] = [status |-> "restoring", snap |-> s,
                                        eph |-> eph, dir |-> d,
                                        idle |-> FALSE]]
     /\ making' = making \cup {r}
  /\ UNCHANGED <<mail, asked, torn, del, sweep, temps, open>>

\* The account page restores a snapshot of the policy's repository or of an
\* attached prefix.
account_backup_restore(s) == Begin(s, FALSE)
account_attachment_restore(s) == Begin(s, FALSE)

\* ensure_mounted: a ready recovery of the snapshot is used again ...
MountFound(r) ==
  /\ rec[r].status = "ready" /\ rec[r].idle
  /\ rec' = [rec EXCEPT ![r].idle = FALSE]
  /\ UNCHANGED <<wrapper, mail, asked, torn, process, temps, open>>

\* ... and otherwise one is made.  One that is being made does not count.
MountMissing(s) ==
  /\ ~\E r \in Recs : rec[r].status = "ready" /\ rec[r].snap = s
  /\ Begin(s, TRUE)

\* touch_mount, which defers the cleanup.
touch_mount(r) ==
  /\ r \in Rows /\ rec[r].idle
  /\ rec' = [rec EXCEPT ![r].idle = FALSE]
  /\ UNCHANGED <<wrapper, mail, asked, torn, process, temps, open>>

\* Mutant: an error of restic is taken for success.
EndsReady(r, ok) == "ready"

\* What create_recovery writes when restic has ended.
Verdict(r, ok) == IF ok THEN "ready" ELSE "failed"

\* restic has written its tree, or has failed; restore_path becomes the
\* Maildir.  The commit fails when the row is gone, and it overwrites the
\* verdict "deleting".
Extracted(r) ==
  /\ r \in making
  /\ making' = making \ {r}
  /\ \E ok \in {TRUE} \cup (IF "raise" \in World THEN {FALSE} ELSE {}) :
       /\ IF ok THEN /\ mail' = [mail EXCEPT ![rec[r].dir] = @ \cup {rec[r].snap}]
                     /\ wrapper' = wrapper \cup {rec[r].dir}
                ELSE UNCHANGED <<mail, wrapper>>
       /\ rec' = IF r \in Rows
                 THEN [rec EXCEPT ![r].status = Verdict(r, ok)]
                 ELSE rec
  /\ UNCHANGED <<asked, torn, del, sweep, temps, open>>

---------------------------------------------------------------------------
(* Removing one. *)

\* delete_recovery marks the row, whatever its status ...
Mark(r) ==
  /\ r \in Rows /\ del[r] = "no"
  /\ rec' = [rec EXCEPT ![r].status = "deleting"]
  /\ del' = [del EXCEPT ![r] = "marked"]
  /\ asked' = asked \cup {r}

account_recovery_delete(r) ==
  /\ Mark(r)
  /\ UNCHANGED <<wrapper, mail, torn, making, sweep, temps, open>>

\* Mutant: only the path of the row goes, which is the extracted Maildir.
MaildirOnly(r) == wrapper

\* The wrapper above restore_path goes.
Unwrapped(r) == wrapper \ {rec[r].dir}

\* ... removes the tree ...
TreeRemoved(r) ==
  LET d == rec[r].dir
  IN /\ del[r] = "marked"
     /\ del' = [del EXCEPT ![r] = "removed"]
     /\ \/ /\ wrapper' = Unwrapped(r) /\ mail' = [mail EXCEPT ![d] = {}]
           /\ torn' = IF r \in making THEN torn \cup {d} ELSE torn
        \/ /\ "rmtree" \in World
           /\ torn' = torn \cup {d}
           /\ UNCHANGED <<wrapper, mail>>
     /\ UNCHANGED <<rec, asked, making, sweep, temps, open>>

\* ... and drops the row.
RowDropped(r) ==
  /\ del[r] = "removed"
  /\ rec' = [rec EXCEPT ![r].status = "none"]
  /\ del' = [del EXCEPT ![r] = "no"]
  /\ sweep' = Rest([sweep EXCEPT !.cur = IF @ = r THEN 0 ELSE @])
  /\ UNCHANGED <<wrapper, mail, asked, torn, making, temps, open>>

\* Mutant: only mounts that were completed are swept.
ReadyMounts == {r \in Rows : rec[r].eph /\ rec[r].status = "ready"}

\* What cleanup_idle_mounts looks at, whatever its status.
Candidates == {r \in Rows : rec[r].eph}

\* cleanup_idle_mounts reads its candidates ...
SweepBegins ==
  /\ sweep.todo = {} /\ Candidates # {}
  /\ sweep.cur = 0
  /\ sweep' = [todo |-> Candidates, fresh |-> FALSE, cur |-> 0,
               idle |-> {r \in Candidates : rec[r].idle}]
  /\ UNCHANGED <<store, making, del, temps, open>>

\* ... and takes them one after the other.  Rows are read again once a commit
\* has expired them; one that has gone since then ends the sweep.  A deletion
\* that is already going on is joined.
SweepTakes(r) ==
  /\ r \in sweep.todo
  /\ sweep.cur = 0
  /\ IF sweep.fresh /\ r \notin Rows
     THEN sweep' = NoSweep /\ UNCHANGED <<rec, del, asked>>
     ELSE IF r \in Rows /\ (IF sweep.fresh THEN rec[r].idle ELSE r \in sweep.idle)
     THEN /\ IF del[r] = "no" THEN Mark(r) ELSE UNCHANGED <<rec, del, asked>>
          /\ sweep' = [todo |-> sweep.todo \ {r}, idle |-> {}, fresh |-> TRUE,
                       cur |-> r]
     ELSE /\ sweep' = Rest([sweep EXCEPT !.todo = @ \ {r}, !.idle = @ \ {r}])
          /\ UNCHANGED <<rec, del, asked>>
  /\ UNCHANGED <<wrapper, mail, torn, making, temps, open>>

\* ttl_minutes pass without access.
Idles(r) ==
  /\ r \in Rows /\ rec[r].eph /\ ~rec[r].idle
  /\ rec' = [rec EXCEPT ![r].idle = TRUE]
  /\ UNCHANGED <<wrapper, mail, asked, torn, process, temps, open>>

---------------------------------------------------------------------------
(* Browsing over IMAP. *)

\* What is left of the temporary user when the connection fails.
AfterFailure(q) == temps

\* _connect_dovecot_for_account.  Bound: one request at a time.
Connects(q) ==
  /\ open = {} /\ temps = {}
  /\ \/ open' = open \cup {q} /\ temps' = temps \cup {q}
     \/ "logout" \in World /\ temps' = AfterFailure(q) /\ UNCHANGED open
  /\ UNCHANGED <<store, process>>

list_mailboxes == Connects("list_mailboxes")
list_messages == Connects("list_messages")
search_messages == Connects("search_messages")
workspace_search == Connects("workspace_search")
resolve_uids_for_account == Connects("resolve_uids")

\* A request ends, by a result or an exception: LOGOUT, then the user goes.
Ends(q) ==
  /\ q \in open
  /\ open' = open \ {q}
  /\ \/ temps' = temps \ {q}
     \/ "logout" \in World /\ q \in Bare /\ UNCHANGED temps
  /\ UNCHANGED <<store, process>>

---------------------------------------------------------------------------
\* The process dies: requests, restores and the sweep are gone.
RecDies ==
  /\ making' = {} /\ del' = [r \in Recs |-> "no"] /\ sweep' = NoSweep
  /\ open' = {}
  /\ temps' \in SUBSET temps
  /\ UNCHANGED store

RecNext ==
  \/ \E s \in Snapshots : account_backup_restore(s)
       \/ account_attachment_restore(s) \/ MountMissing(s)
  \/ \E r \in Recs : MountFound(r) \/ touch_mount(r) \/ Extracted(r)
       \/ account_recovery_delete(r) \/ TreeRemoved(r) \/ RowDropped(r)
       \/ SweepTakes(r) \/ Idles(r)
  \/ SweepBegins

BrowseNext ==
  \/ list_mailboxes \/ list_messages \/ search_messages \/ workspace_search
  \/ resolve_uids_for_account
  \/ \E q \in Requests : Ends(q)

\* The scheduler runs the sweep every few minutes, and calls go on.
RecFairness ==
  /\ WF_recvars(SweepBegins)
  /\ \A r \in Recs : /\ WF_recvars(TreeRemoved(r)) /\ WF_recvars(RowDropped(r))
                     /\ WF_recvars(SweepTakes(r)) /\ WF_recvars(Extracted(r))

---------------------------------------------------------------------------
(* Properties. *)

\* A ready recovery that nobody has begun to delete has its snapshot on disk,
\* whatever other recoveries of the account are removed meanwhile.
ReadyHasFiles ==
  \A r \in Recs \ asked :
    rec[r].status = "ready" => rec[r].snap \in mail[rec[r].dir]

\* No directory survives the row it was made for, unless its removal failed
\* or it was removed while restic wrote to it.
NoOrphanTrees ==
  \A d \in wrapper \ torn : \E r \in Rows : rec[r].dir = d

\* An ephemeral recovery that nobody uses any more goes away, also one that a
\* crash has left restoring or half deleted.
MountsExpire ==
  \A r \in Recs :
    (rec[r].eph /\ rec[r].status # "none")
      ~> (rec[r].status = "none" \/ ~rec[r].idle)
=============================================================================
