------------------------------ MODULE JobLedger ------------------------------
(***************************************************************************)
(* What the tables of jobs promise to the pages that read them, whichever  *)
(* engine fills them.  A row is opened once and closed once: it never      *)
(* becomes active again and never disappears while it is active.  And the  *)
(* denormalised "in progress" light of an owner (accounts.sync_state,      *)
(* account_backups.last_status) is on only while a row of that owner is    *)
(* active, so that no dashboard shows work nobody does.                    *)
(***************************************************************************)
CONSTANTS
  Jobs,     \* ids rows can get
  Owners    \* accounts, or backup policies

VARIABLES
  rows,     \* status of each row, as far as the promise is concerned
  ownerOf,  \* whose row it is
  busy      \* owners whose light is on

ledger == <<rows, ownerOf, busy>>

Later(s) ==
  CASE s = "absent" -> {"absent", "active"}
    [] s = "active" -> {"active", "closed"}
    [] s = "closed" -> {"closed", "gone"}
    [] s = "gone"   -> {"gone"}

\* The owners that have an active row.
Occupied == {ownerOf[j] : j \in {i \in Jobs : rows[i] = "active"}}

Init ==
  /\ rows = [j \in Jobs |-> "absent"]
  /\ busy = {}

\* Any number of rows is opened, closed or dropped by one commit; a row keeps
\* its owner from the moment it is opened.
Next ==
  /\ \A j \in Jobs : rows'[j] \in Later(rows[j])
  /\ \A j \in Jobs : rows[j] # "absent" => ownerOf'[j] = ownerOf[j]
  /\ busy' \subseteq Owners
  /\ busy' \subseteq Occupied'

Spec == Init /\ [][Next]_ledger
=============================================================================
