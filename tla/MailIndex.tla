------------------------------ MODULE MailIndex -----------------------------
(***************************************************************************)
(* The mail index of one account: one row per message (by the hash of its  *)
(* Message-Id), which points at one of the message's files; the walk that  *)
(* reconciles the rows with the Maildir after every sync, while mail       *)
(* clients rename and delete files; the bits that say which messages a     *)
(* snapshot holds; and the previews that read a message through all this.  *)
(*                                                                         *)
(* A copy is one file of a message, in a folder of its own.  Its name is a *)
(* stable prefix (the copy) and a flag suffix, a member of Flags.          *)
(***************************************************************************)
EXTENDS Naturals, FiniteSets

CONSTANTS
  Copies,
  MsgOf,       \* the message a copy is of
  HasBcc,      \* the copies that carry the Bcc header
  Flags,
  MaxChanges,  \* bound: changes of the Maildir
  MaxSnaps,    \* bound: snapshots ever made
  MaxFaults,   \* bound: walks and other steps that fail, and crashes
  Attempts     \* MAX_SNAPSHOT_ATTEMPTS

Messages == {MsgOf[c] : c \in Copies}
Snaps == 1 .. MaxSnaps
Coords == Copies \X Flags

ASSUME IndexAssumption ==
  /\ IsFiniteSet(Copies) /\ Copies # {} /\ HasBcc \subseteq Copies
  /\ IsFiniteSet(Flags) /\ Flags # {} /\ "gone" \notin Flags
  /\ MaxChanges \in Nat /\ MaxSnaps \in Nat /\ MaxFaults \in Nat
  /\ Attempts \in Nat \ {0}

VARIABLES
  (* disk and repository *)
  disk,     \* the flags of a copy, or "gone"
  snap,     \* what a snapshot holds, and whether it is in the repository
  (* database *)
  rows,     \* mail_index.messages
  bits,     \* mail_index.snapshot_messages
  state,    \* rebuild_status.state
  (* process memory *)
  walk,     \* the walk of upsert_message_set
  job,      \* the backup's index hooks: "none", "taken", "forgot"
  (* bounds and history *)
  changes, faults,
  exact     \* the messages of which no copy has changed since the last walk
            \* that ended began

vars == <<disk, snap, rows, bits, state, walk, job, changes, faults, exact>>

None == [st |-> "none"]
Rows == [st : {"alive", "deleted"}, ptr : Coords, bcc : BOOLEAN,
         recip : BOOLEAN, att : {"no", "meta", "text"}]
Known(m) == rows[m].st # "none"
Alive(m) == rows[m].st = "alive"
OnDisk == {k \in Coords : disk[k[1]] = k[2]}

\* files: seen_files; hashes: seen_hashes; moved: the copies that changed since
\* the walk began; fresh: the messages whose rows it has inserted.
Walk == [on : BOOLEAN, todo : SUBSET Copies, files : SUBSET Coords,
         hashes : SUBSET Messages, reloc : SUBSET Coords,
         dup : SUBSET Messages, moved : SUBSET Copies, fresh : SUBSET Messages]
NoWalk == [on |-> FALSE, todo |-> {}, files |-> {}, hashes |-> {},
           reloc |-> {}, dup |-> {}, moved |-> {}, fresh |-> {}]

TypeOK ==
  /\ disk \in [Copies -> Flags \cup {"gone"}]
  /\ snap \in [Snaps -> [in : BOOLEAN, files : SUBSET Coords]]
  /\ rows \in [Messages -> Rows \cup {None}]
  /\ bits \in [Snaps -> SUBSET Messages]
  /\ state \in {"idle", "live_indexing", "failed"}
  /\ walk \in Walk
  /\ job \in [Snaps -> {"none", "taken", "forgot"}]
  /\ changes \in 0 .. MaxChanges /\ faults \in 0 .. MaxFaults
  /\ exact \in SUBSET Messages

\* A database that was indexed before the recipients were, or an empty one.
Init ==
  /\ \E f \in Flags : disk = [c \in Copies |-> f]
  /\ \/ rows = [m \in Messages |-> None]
     \/ \E p \in [Messages -> Coords] :
          /\ \A m \in Messages : MsgOf[p[m][1]] = m
          /\ rows = [m \in Messages |->
                       [st |-> "alive", ptr |-> p[m], bcc |-> FALSE,
                        recip |-> FALSE, att |-> "no"]]
  /\ snap = [s \in Snaps |-> [in |-> FALSE, files |-> {}]]
  /\ bits = [s \in Snaps |-> {}]
  /\ state = "idle" /\ walk = NoWalk /\ job = [s \in Snaps |-> "none"]
  /\ changes = 0 /\ faults = 0 /\ exact = {}

---------------------------------------------------------------------------
(* The Maildir changes under the walk: sync, webmail, quarantine. *)

Changes(c) ==
  /\ changes < MaxChanges
  /\ changes' = changes + 1
  /\ \E f \in (Flags \cup {"gone"}) \ {disk[c]} : disk' = [disk EXCEPT ![c] = f]
  /\ walk' = [walk EXCEPT !.moved = IF walk.on THEN @ \cup {c} ELSE @]
  /\ exact' = exact \ {MsgOf[c]}
  /\ UNCHANGED <<snap, rows, bits, state, job, faults>>

---------------------------------------------------------------------------
(* upsert_message_set. *)

\* The status row, and one bulk read: nobody else writes coordinates, so that
\* rows is what was read, plus what the walk inserts.
WalkBegins ==
  /\ ~walk.on
  /\ state' = "live_indexing"
  /\ walk' = [NoWalk EXCEPT !.on = TRUE, !.todo = Copies]
  /\ UNCHANGED <<disk, snap, rows, bits, job, changes, faults, exact>>

\* _walk_maildir: a file that is renamed or removed meanwhile may be listed
\* under its old or its new name, or not at all.
Listed(c) ==
  IF c \in walk.moved THEN SUBSET ({c} \X Flags)
                      ELSE {OnDisk \cap ({c} \X Flags)}

\* A listed name that the row has: the file is not opened, except once for the
\* recipients, which then replace those of the row.
Skips(m, k) ==
  /\ walk' = [walk EXCEPT !.todo = @ \ {k[1]}, !.files = @ \cup {k},
                          !.hashes = @ \cup {m}]
  /\ rows' = IF ~rows[m].recip /\ k \in OnDisk
             THEN [rows EXCEPT ![m] = [@ EXCEPT !.recip = TRUE,
                                                !.bcc = k[1] \in HasBcc]]
             ELSE rows

\* The row of a new message; its attachments may fail to parse.
Inserted(k) ==
  {[st |-> "alive", ptr |-> k, bcc |-> k[1] \in HasBcc, recip |-> TRUE,
    att |-> a] : a \in {"no", "meta"}}

\* A name that no row has: unless it is gone again, its headers are parsed.
Parses(m, k) ==
  LET next == [walk EXCEPT !.todo = @ \ {k[1]}, !.files = @ \cup {k}]
  IN \/ /\ k \notin OnDisk
        /\ walk' = next
        /\ UNCHANGED rows
     \/ /\ k \in OnDisk /\ Known(m)
        /\ walk' = [next EXCEPT !.hashes = @ \cup {m},
              !.reloc = IF \E q \in @ : MsgOf[q[1]] = m THEN @ ELSE @ \cup {k},
              !.dup = IF k[1] \in HasBcc THEN @ \cup {m} ELSE @]
        /\ UNCHANGED rows
     \/ /\ k \in OnDisk /\ ~Known(m)
        /\ walk' = [next EXCEPT !.hashes = @ \cup {m}, !.fresh = @ \cup {m}]
        /\ \E r \in Inserted(k) : rows' = [rows EXCEPT ![m] = r]

\* One file of the walk.
Visits(c) ==
  /\ walk.on /\ c \in walk.todo
  /\ \E ks \in Listed(c) :
       IF ks = {}
       THEN walk' = [walk EXCEPT !.todo = @ \ {c}] /\ UNCHANGED rows
       ELSE \E k \in ks :
              LET m == MsgOf[c]
              IN IF Known(m) /\ rows[m].ptr = k THEN Skips(m, k)
                                                ELSE Parses(m, k)
  /\ UNCHANGED <<disk, snap, bits, state, job, changes, faults, exact>>

\* Mutant: a row comes back to life only when its file has moved.
StaleOnly(m) ==
  LET r == rows[m]
      stale == Known(m) /\ r.ptr \notin walk.files
      new == {k \in walk.reloc : MsgOf[k[1]] = m}
  IN IF m \in walk.hashes
     THEN IF stale /\ new # {}
          THEN [r EXCEPT !.st = "alive", !.ptr = CHOOSE k \in new : TRUE]
          ELSE r
     ELSE IF r.st = "alive" THEN [r EXCEPT !.st = "deleted"] ELSE r

\* Relocations and un-deletes: a pointer that still exists stays.  Soft
\* deletion of what was seen nowhere.
Reconciled(m) ==
  LET r == rows[m]
      stale == r.ptr \notin walk.files
      new == {k \in walk.reloc : MsgOf[k[1]] = m}
  IN IF ~Known(m) THEN r
     ELSE IF m \notin walk.hashes THEN [r EXCEPT !.st = "deleted"]
     ELSE IF stale /\ new = {} THEN r
     ELSE [r EXCEPT !.st = "alive",
                    !.ptr = IF stale THEN CHOOSE k \in new : TRUE ELSE @]

\* Mutant: the Bcc of a second copy is dropped.
FirstCopy(m, r) == r

\* Bcc addresses seen on other copies are added.
MergeBcc(m, r) ==
  IF Known(m) /\ m \in walk.dup THEN [r EXCEPT !.bcc = TRUE] ELSE r

\* No copy of the message has changed since the walk began.
Rested(m) == \A c \in walk.moved : MsgOf[c] # m

WalkEnds ==
  /\ walk.on /\ walk.todo = {}
  /\ rows' = [m \in Messages |-> MergeBcc(m, Reconciled(m))]
  /\ state' = "idle"
  /\ exact' = {m \in Messages : Rested(m)}
  /\ walk' = NoWalk
  /\ UNCHANGED <<disk, snap, bits, job, changes, faults>>

\* An exception: what was inserted is committed, nothing is reconciled.
WalkRaises ==
  /\ walk.on /\ faults < MaxFaults
  /\ faults' = faults + 1
  /\ state' = "failed"
  /\ walk' = NoWalk
  /\ UNCHANGED <<disk, snap, rows, bits, job, changes, exact>>

---------------------------------------------------------------------------
(* Attachments. *)

\* By exact name only: a file that was renamed is left to the next walk.
backfill_attachments(m) ==
  /\ Alive(m) /\ rows[m].att = "no" /\ rows[m].ptr \in OnDisk
  /\ rows' = [rows EXCEPT ![m].att = "meta"]
  /\ UNCHANGED <<disk, snap, bits, state, walk, job, changes, faults, exact>>

\* Mutant: the name of the row only.
ExactName(m) == rows[m].ptr \in OnDisk

\* _locate_live_file: the name of the row, then any name with its prefix.
locate_live_file(m) == disk[rows[m].ptr[1]] # "gone"

backfill_attachment_content(m) ==
  /\ Alive(m) /\ rows[m].att = "meta" /\ locate_live_file(m)
  /\ rows' = [rows EXCEPT ![m].att = "text"]
  /\ UNCHANGED <<disk, snap, bits, state, walk, job, changes, faults, exact>>

---------------------------------------------------------------------------
(* Snapshots. *)

\* restic has made a snapshot.
Taken(s) ==
  /\ \A t \in Snaps : t < s <=> snap[t].files # {} \/ snap[t].in
  /\ OnDisk # {}
  /\ \A t \in Snaps : job[t] = "none"
  /\ snap' = [snap EXCEPT ![s] = [in |-> TRUE, files |-> OnDisk]]
  /\ job' = [job EXCEPT ![s] = "taken"]
  /\ UNCHANGED <<disk, rows, bits, state, walk, changes, faults, exact>>

\* record_snapshot: every message alive in the index now; its failure is only
\* logged.
record_snapshot(s) ==
  /\ job[s] = "taken"
  /\ job' = [job EXCEPT ![s] = "none"]
  /\ \/ /\ bits' = [bits EXCEPT ![s] = @ \cup {m \in Messages : Alive(m)}]
        /\ UNCHANGED faults
     \/ /\ faults < MaxFaults
        /\ faults' = faults + 1
        /\ UNCHANGED bits
  /\ UNCHANGED <<disk, snap, rows, state, walk, changes, exact>>

\* restic forget removes a snapshot ...
Forgets(s) ==
  /\ snap[s].in
  /\ \A t \in Snaps : job[t] = "none"
  /\ snap' = [snap EXCEPT ![s].in = FALSE]
  /\ job' = [job EXCEPT ![s] = "forgot"]
  /\ UNCHANGED <<disk, rows, bits, state, walk, changes, faults, exact>>

\* Mutant: the bits of a snapshot that is gone stay.
KeepsBits(s) == bits

Pruned(s) == [bits EXCEPT ![s] = {}]

\* ... and prune_snapshot drops its bits.
prune_snapshot(s) ==
  /\ job[s] = "forgot"
  /\ bits' = Pruned(s)
  /\ job' = [job EXCEPT ![s] = "none"]
  /\ UNCHANGED <<disk, snap, rows, state, walk, changes, faults, exact>>

\* backfill_snapshots: for the snapshots without bits, the alive rows whose
\* file name prefix is in the snapshot.
BackfillBits(s) ==
  IF snap[s].in /\ bits[s] = {}
  THEN {m \in Messages : Alive(m) /\ \E k \in snap[s].files : k[1] = rows[m].ptr[1]}
  ELSE bits[s]

backfill_snapshots ==
  /\ ~walk.on
  /\ \E s \in Snaps : BackfillBits(s) # bits[s]
  /\ bits' = [s \in Snaps |-> BackfillBits(s)]
  /\ UNCHANGED <<disk, snap, rows, state, walk, job, changes, faults, exact>>

---------------------------------------------------------------------------
(* Previews. *)

\* Newest first, those that are said to hold the message.
Matching(m) == {s \in Snaps : snap[s].in /\ m \in bits[s]}
Newest(S) == CHOOSE s \in S : \A t \in S : t <= s

\* _snapshot_bytes: exact names in the newest matching snapshots, then any name
\* with the prefix in the newest of them.
snapshot_bytes(m) ==
  \/ \E s \in Matching(m) :
       /\ Cardinality({t \in Matching(m) : t > s}) < Attempts
       /\ rows[m].ptr \in snap[s].files
  \/ /\ Matching(m) # {}
     /\ \E k \in snap[Newest(Matching(m))].files : k[1] = rows[m].ptr[1]

get_preview(m) ==
  Known(m) /\ ((Alive(m) /\ locate_live_file(m)) \/ snapshot_bytes(m))

---------------------------------------------------------------------------
\* The process dies: batches of inserts may have been committed.
Dies ==
  /\ faults < MaxFaults
  /\ faults' = faults + 1
  /\ \E lost \in SUBSET walk.fresh :
       rows' = [m \in Messages |-> IF m \in lost THEN None ELSE rows[m]]
  /\ walk' = NoWalk /\ job' = [s \in Snaps |-> "none"]
  /\ UNCHANGED <<disk, snap, bits, state, changes, exact>>

WalkStep == WalkBegins \/ (\E c \in Copies : Visits(c)) \/ WalkEnds

Next ==
  \/ \E c \in Copies : Changes(c)
  \/ WalkStep \/ WalkRaises \/ Dies
  \/ \E m \in Messages : backfill_attachments(m) \/ backfill_attachment_content(m)
  \/ \E s \in Snaps : Taken(s) \/ record_snapshot(s) \/ Forgets(s) \/ prune_snapshot(s)
  \/ backfill_snapshots

Spec == Init /\ [][Next]_vars

\* Syncs run on a schedule, and each ends with a walk that goes on by itself.
FairSpec == Spec /\ WF_vars(WalkStep)

---------------------------------------------------------------------------
(* Properties. *)

\* The row of a message is as the Maildir is: alive exactly when some copy
\* exists, and its pointer is the current name of a file.
RowInSync(m) ==
  LET copies == {k \in OnDisk : MsgOf[k[1]] = m}
  IN /\ copies # {} <=> Alive(m)
     /\ Alive(m) => rows[m].ptr \in copies

InSync == \A m \in Messages : RowInSync(m)

\* A walk leaves the row of every message that nobody touched meanwhile as the
\* Maildir is, whatever earlier walks, failures, crashes and moves have left in
\* it and whatever happens to other messages, and it stays so until a copy of
\* that message changes.
QuietWalkExact == \A m \in exact : RowInSync(m)

\* Once the Maildir rests, the index settles on it: rows and pointers, the
\* recipients of every alive row, and the Bcc of any copy.
IndexConverges ==
  <>[](/\ InSync
       /\ \A m \in Messages : Alive(m) =>
            /\ rows[m].recip
            /\ (\E k \in OnDisk : MsgOf[k[1]] = m /\ k[1] \in HasBcc)
                 => rows[m].bcc)

\* A message that can be read stays readable through walks, hooks, backfills,
\* renames, failures and crashes.  What takes it away is one of these: a copy
\* of it is removed, or renamed under the walk that now ends; a snapshot said
\* to hold it is forgotten; a snapshot that does not hold its file under the
\* current name is now said to hold it, and comes before one that does; or the
\* process dies before the row of a new message is committed.
PreviewsStay ==
  [][\A m \in Messages : get_preview(m) /\ ~get_preview(m)' =>
       \/ \E c \in Copies : MsgOf[c] = m /\ disk[c] # "gone" /\ disk'[c] = "gone"
       \/ \E c \in walk.moved : MsgOf[c] = m /\ ~walk'.on
       \/ \E s \in Snaps : m \in bits[s] /\ snap[s].in /\ ~snap'[s].in
       \/ \E s \in Snaps : m \in bits'[s] \ bits[s] /\ rows[m].ptr \notin snap[s].files
       \/ m \in walk.fresh]_vars

\* No message is said to be in a snapshot that retention removed, unless a
\* failure came in between.
NoBitsOfForgotten ==
  faults = 0 =>
    \A s \in Snaps : bits[s] # {} => snap[s].in \/ job[s] = "forgot"
=============================================================================
