------------------------------ MODULE MCIndex -------------------------------
(***************************************************************************)
(* One message with two copies, of which the second carries a Bcc.         *)
(* Snapshots and attachments change no row's state or pointer, so the walk *)
(* against a changing Maildir is explored without them ("walk"), and they  *)
(* with walks that nothing disturbs ("snapshots").                         *)
(***************************************************************************)
EXTENDS MailIndex

CONSTANTS c1, c2, m1

OneMessage == [c \in {c1, c2} |-> m1]

VARIABLE scene

MCInit == Init /\ scene \in {"walk", "snapshots"}

MCNext ==
  /\ \/ \E c \in Copies : Changes(c) /\ (scene = "walk" \/ ~walk.on)
     \/ WalkStep
     \/ scene = "walk" /\ (WalkRaises \/ Dies)
     \/ /\ scene = "snapshots"
        /\ \/ \E m \in Messages :
                backfill_attachments(m) \/ backfill_attachment_content(m)
           \/ \E s \in Snaps :
                Taken(s) \/ record_snapshot(s) \/ Forgets(s) \/ prune_snapshot(s)
           \/ backfill_snapshots
           \/ ~walk.on /\ Dies
  /\ UNCHANGED scene

MCSpec == MCInit /\ [][MCNext]_<<vars, scene>> /\ WF_vars(WalkStep)
=============================================================================
