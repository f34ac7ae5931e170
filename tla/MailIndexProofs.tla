-------------------------- MODULE MailIndexProofs ---------------------------
(***************************************************************************)
(* Theorems about the mail index, for every set of copies, messages, flags *)
(* and snapshots and any number of changes and failures.                   *)
(***************************************************************************)
EXTENDS MailIndex, FiniteSetTheorems, WellFoundedInduction, TLAPS

\* A row points at a file of its own message.
PtrInv == \A m \in Messages : Known(m) => MsgOf[rows[m].ptr[1]] = m

\* What a walk knows of a message that nobody has touched since it began: the
\* files of the copies it has visited, that there are any, and a name that
\* exists, in the row or in the list of relocations.
Walked == {k \in OnDisk : k[1] \notin walk.todo}
Found(m) ==
  Known(m) /\ (rows[m].ptr \in walk.files \/ \E k \in walk.reloc : MsgOf[k[1]] = m)
Surveyed(m) ==
  /\ \A k \in Coords : MsgOf[k[1]] = m => (k \in walk.files <=> k \in Walked)
  /\ m \in walk.hashes <=> \E k \in Walked : MsgOf[k[1]] = m
  /\ \A k \in walk.reloc : MsgOf[k[1]] = m => k \in walk.files
  /\ m \in walk.hashes => Found(m)
WalkInv == walk.on => \A m \in Messages : Rested(m) => Surveyed(m)

\* A message whose row is exact is not inserted again, so that a crash does
\* not lose it.
ExactInv ==
  /\ \A m \in exact : RowInSync(m) /\ Rested(m) /\ m \notin walk.fresh
  /\ ~walk.on => walk = NoWalk

IndexInv == TypeOK /\ PtrInv /\ WalkInv /\ ExactInv

---------------------------------------------------------------------------

(* Every copy is a copy of a message. *)
LEMMA CopyMessage == \A c \in Copies : MsgOf[c] \in Messages
  BY DEF Messages

(* A coordinate is a copy under one of the flags. *)
LEMMA CoordParts ==
  ASSUME NEW k \in Coords
  PROVE  k[1] \in Copies /\ k[2] \in Flags /\ k = <<k[1], k[2]>>
  BY DEF Coords

(* A known message has a row, an unknown one none. *)
LEMMA KnownRow ==
  ASSUME TypeOK, NEW m \in Messages
  PROVE  /\ Known(m) <=> rows[m] \in Rows
         /\ Alive(m) => Known(m)
         /\ ~Known(m) => rows[m] = None
  BY DEF TypeOK, Known, Alive, Rows, None

(* When no walk is on, nothing moved in it. *)
LEMMA OffWalk == NoWalk \in Walk /\ ~NoWalk.on /\ NoWalk.moved = {} /\ NoWalk.fresh = {}
  BY DEF NoWalk, Walk

(* A listed name that the row has. *)
LEMMA SkipStep ==
  ASSUME TypeOK, NEW m \in Messages, NEW k \in Coords, Known(m), Skips(m, k)
  PROVE  /\ walk' \in Walk /\ walk'.on = walk.on /\ walk'.moved = walk.moved
         /\ walk'.fresh = walk.fresh /\ walk'.reloc = walk.reloc
         /\ walk'.todo = walk.todo \ {k[1]} /\ walk'.files = walk.files \cup {k}
         /\ walk'.hashes = walk.hashes \cup {m}
         /\ rows' \in [Messages -> Rows \cup {None}]
         /\ \A n \in Messages : /\ rows'[n].st = rows[n].st
                                /\ Known(n) => rows'[n].ptr = rows[n].ptr
<1>t. walk \in Walk /\ rows \in [Messages -> Rows \cup {None}] /\ rows[m] \in Rows
  BY KnownRow DEF TypeOK
<1>1. walk' = [walk EXCEPT !.todo = @ \ {k[1]}, !.files = @ \cup {k}, !.hashes = @ \cup {m}]
  BY DEF Skips
<1>2. /\ walk' \in Walk /\ walk'.on = walk.on /\ walk'.moved = walk.moved
      /\ walk'.fresh = walk.fresh /\ walk'.reloc = walk.reloc
      /\ walk'.todo = walk.todo \ {k[1]} /\ walk'.files = walk.files \cup {k}
      /\ walk'.hashes = walk.hashes \cup {m}
  BY <1>1, <1>t DEF Walk
<1> DEFINE b == k[1] \in HasBcc
           r == [rows[m] EXCEPT !.recip = TRUE, !.bcc = b]
<1>3. b \in BOOLEAN /\ (rows' = rows \/ rows' = [rows EXCEPT ![m] = r])
  BY DEF Skips
<1> HIDE DEF b
<1>4. r \in Rows /\ r.st = rows[m].st /\ r.ptr = rows[m].ptr
  BY <1>t, <1>3 DEF Rows
<1> HIDE DEF r
<1>5. /\ rows' \in [Messages -> Rows \cup {None}]
      /\ \A n \in Messages : /\ rows'[n].st = rows[n].st
                             /\ rows'[n].ptr = rows[n].ptr
  BY <1>3, <1>4, <1>t
<1> QED
  BY <1>2, <1>5

(* A name that no row has. *)
LEMMA ParseStep ==
  ASSUME TypeOK, NEW m \in Messages, NEW k \in Coords, MsgOf[k[1]] = m, Parses(m, k)
  PROVE  /\ walk' \in Walk /\ walk'.on = walk.on /\ walk'.moved = walk.moved
         /\ walk'.todo = walk.todo \ {k[1]} /\ walk'.files = walk.files \cup {k}
         /\ walk'.reloc \in {walk.reloc, walk.reloc \cup {k}}
         /\ walk'.fresh = walk.fresh \/
              (k \in OnDisk /\ ~Known(m) /\ walk'.fresh = walk.fresh \cup {m})
         /\ walk'.hashes \in {walk.hashes, walk.hashes \cup {m}}
         /\ k \in OnDisk =>
              /\ walk'.hashes = walk.hashes \cup {m}
              /\ Known(m)' /\ (rows'[m].ptr = k \/ \E q \in walk'.reloc : MsgOf[q[1]] = m)
         /\ rows' \in [Messages -> Rows \cup {None}]
         /\ \A n \in Messages :
              \/ rows'[n] = rows[n]
              \/ n = m /\ ~Known(m) /\ k \in OnDisk /\ rows'[m].ptr = k
<1>t. walk \in Walk /\ rows \in [Messages -> Rows \cup {None}]
  BY DEF TypeOK
<1> DEFINE next == [walk EXCEPT !.todo = @ \ {k[1]}, !.files = @ \cup {k}]
<1>1. /\ next \in Walk /\ next.on = walk.on /\ next.moved = walk.moved
      /\ next.todo = walk.todo \ {k[1]} /\ next.files = walk.files \cup {k}
      /\ next.reloc = walk.reloc /\ next.fresh = walk.fresh /\ next.hashes = walk.hashes
      /\ next.dup = walk.dup
  BY <1>t DEF Walk
<1> DEFINE rel == IF \E q \in next.reloc : MsgOf[q[1]] = m THEN next.reloc ELSE next.reloc \cup {k}
           du == IF k[1] \in HasBcc THEN next.dup \cup {m} ELSE next.dup
<1>2. \/ k \notin OnDisk /\ walk' = next /\ rows' = rows
      \/ /\ k \in OnDisk /\ Known(m) /\ rows' = rows
         /\ walk' = [next EXCEPT !.hashes = next.hashes \cup {m}, !.reloc = rel, !.dup = du]
      \/ /\ k \in OnDisk /\ ~Known(m)
         /\ walk' = [next EXCEPT !.hashes = next.hashes \cup {m}, !.fresh = next.fresh \cup {m}]
         /\ \E r \in Inserted(k) : rows' = [rows EXCEPT ![m] = r]
  BY DEF Parses
<1> HIDE DEF next
<1>3. /\ rel \in {walk.reloc, walk.reloc \cup {k}} /\ rel \in SUBSET Coords
      /\ du \in SUBSET Messages /\ \E q \in rel : MsgOf[q[1]] = m
  BY <1>1 DEF Walk
<1> HIDE DEF rel, du
<1>4. CASE k \notin OnDisk /\ walk' = next /\ rows' = rows
  BY <1>1, <1>4, <1>t
<1>5. CASE /\ k \in OnDisk /\ Known(m) /\ rows' = rows
           /\ walk' = [next EXCEPT !.hashes = next.hashes \cup {m}, !.reloc = rel, !.dup = du]
  <2>1. /\ walk' \in Walk /\ walk'.on = next.on /\ walk'.moved = next.moved
        /\ walk'.todo = next.todo /\ walk'.files = next.files /\ walk'.fresh = next.fresh
        /\ walk'.reloc = rel /\ walk'.hashes = next.hashes \cup {m}
    BY <1>1, <1>3, <1>5 DEF Walk
  <2>2. Known(m)' /\ \A n \in Messages : rows'[n] = rows[n]
    BY <1>5 DEF Known
  <2> QED
    BY <1>1, <1>3, <1>5, <1>t, <2>1, <2>2
<1>6. CASE /\ k \in OnDisk /\ ~Known(m)
           /\ walk' = [next EXCEPT !.hashes = next.hashes \cup {m}, !.fresh = next.fresh \cup {m}]
           /\ \E r \in Inserted(k) : rows' = [rows EXCEPT ![m] = r]
  <2>1. /\ walk' \in Walk /\ walk'.on = next.on /\ walk'.moved = next.moved
        /\ walk'.todo = next.todo /\ walk'.files = next.files
        /\ walk'.reloc = next.reloc /\ walk'.hashes = next.hashes \cup {m}
        /\ walk'.fresh = next.fresh \cup {m}
    BY <1>1, <1>6 DEF Walk
  <2>2. PICK r \in Inserted(k) : rows' = [rows EXCEPT ![m] = r]
    BY <1>6
  <2>3. r \in Rows /\ r.st = "alive" /\ r.ptr = k
    <3> DEFINE b == k[1] \in HasBcc
    <3>1. b \in BOOLEAN
      OBVIOUS
    <3> HIDE DEF b
    <3>2. PICK a \in {"no", "meta"} :
            r = [st |-> "alive", ptr |-> k, bcc |-> b, recip |-> TRUE, att |-> a]
      BY <2>2 DEF Inserted, b
    <3> QED
      BY <3>1, <3>2 DEF Rows
  <2>4. /\ rows' \in [Messages -> Rows \cup {None}] /\ rows'[m] = r
        /\ \A n \in Messages : n # m => rows'[n] = rows[n]
    BY <2>2, <2>3, <1>t
  <2>5. Known(m)' /\ rows'[m].ptr = k
    BY <2>3, <2>4 DEF Known
  <2> QED
    BY <1>1, <1>6, <2>1, <2>4, <2>5
<1> QED
  BY <1>2, <1>4, <1>5, <1>6

(* Rows that keep their state and pointer keep what is said of them. *)
LEMMA SameRows ==
  ASSUME disk' = disk,
         \A n \in Messages : rows'[n].st = rows[n].st /\ (Known(n) => rows'[n].ptr = rows[n].ptr)
  PROVE  /\ PtrInv => PtrInv'
         /\ \A n \in Messages : RowInSync(n) => RowInSync(n)'
         /\ OnDisk' = OnDisk
         /\ \A n \in Messages : Known(n)' <=> Known(n)
<1>1. OnDisk' = OnDisk
  BY DEF OnDisk
<1>2. \A n \in Messages : /\ Known(n)' <=> Known(n)
                          /\ Alive(n)' <=> Alive(n)
                          /\ Alive(n) => rows'[n].ptr = rows[n].ptr
  BY DEF Known, Alive
<1>3. PtrInv => PtrInv'
  BY <1>2 DEF PtrInv
<1>4. \A n \in Messages : RowInSync(n) => RowInSync(n)'
  BY <1>1, <1>2 DEF RowInSync
<1> QED
  BY <1>1, <1>2, <1>3, <1>4

(* One file of the walk. *)
LEMMA VisitStep ==
  ASSUME IndexInv, NEW c \in Copies, Visits(c)
  PROVE  IndexInv'
<1>t. TypeOK /\ PtrInv /\ WalkInv /\ ExactInv /\ walk \in Walk
  BY DEF IndexInv, TypeOK
<1>0. /\ walk.on /\ c \in walk.todo /\ UNCHANGED <<disk, snap, bits, state, job, changes, faults, exact>>
  BY DEF Visits
<1>d. OnDisk' = OnDisk
  BY <1>0 DEF OnDisk
<1> DEFINE m == MsgOf[c]
<1>m. m \in Messages
  BY CopyMessage
<1> HIDE DEF m
<1>1. PICK ks \in Listed(c) :
       IF ks = {}
       THEN walk' = [walk EXCEPT !.todo = @ \ {c}] /\ UNCHANGED rows
       ELSE \E k \in ks : IF Known(m) /\ rows[m].ptr = k THEN Skips(m, k) ELSE Parses(m, k)
  BY DEF Visits, m
<1>2. /\ \A k \in ks : k \in Coords /\ k[1] = c
      /\ c \notin walk.moved => \A k \in Coords : k \in ks <=> k \in OnDisk /\ k[1] = c
  <2>1. \A k : k \in {c} \X Flags <=> k \in Coords /\ k[1] = c
    BY DEF Coords
  <2>2. OnDisk \subseteq Coords
    BY DEF OnDisk
  <2> QED
    BY <1>1, <2>1, <2>2 DEF Listed
<1>r. Rested(m) => c \notin walk.moved
  BY DEF Rested, m
<1>e. exact \subseteq Messages
  BY <1>t DEF TypeOK
<1>3. CASE ks = {}
  <2>1. walk' = [walk EXCEPT !.todo = @ \ {c}] /\ rows' = rows
    BY <1>1, <1>3
  <2>2. /\ walk' \in Walk /\ walk'.on = walk.on /\ walk'.moved = walk.moved
        /\ walk'.fresh = walk.fresh /\ walk'.reloc = walk.reloc
        /\ walk'.todo = walk.todo \ {c} /\ walk'.files = walk.files
        /\ walk'.hashes = walk.hashes
    BY <1>t, <2>1 DEF Walk
  <2>3. \A n \in Messages : Rested(n) =>
          \A k \in Coords : MsgOf[k[1]] = n => (k \in Walked' <=> k \in Walked)
    <3>1. Rested(m) => \A k \in OnDisk : k[1] # c
      BY <1>2, <1>3, <1>r DEF OnDisk
    <3>2. \A n \in Messages : Rested(n) =>
            \A k \in OnDisk : MsgOf[k[1]] = n => k[1] # c
      BY <3>1 DEF m
    <3> QED
      BY <1>d, <2>2, <3>2 DEF Walked
  <2>4. TypeOK'
    BY <1>t, <1>0, <2>1, <2>2 DEF TypeOK
  <2>5. PtrInv' /\ \A n \in Messages : RowInSync(n) => RowInSync(n)'
    BY <1>t, <1>0, <2>1, SameRows
  <2>r. \A n : Rested(n)' <=> Rested(n)
    BY <2>2 DEF Rested
  <2>6. WalkInv'
    <3> SUFFICES ASSUME NEW n \in Messages, Rested(n) PROVE Surveyed(n)'
      BY <2>r DEF WalkInv
    <3>1. Surveyed(n)
      BY <1>t, <1>0 DEF WalkInv
    <3>2. Found(n)' <=> Found(n)
      BY <2>1, <2>2 DEF Found, Known
    <3>3. \A k \in Coords : MsgOf[k[1]] = n => (k \in Walked' <=> k \in Walked)
      BY <2>3
    <3>4. Walked \subseteq Coords /\ Walked' \subseteq Coords
      BY <1>d DEF Walked, OnDisk
    <3> QED
      BY <2>2, <3>1, <3>2, <3>3, <3>4 DEF Surveyed
  <2>7. ExactInv'
    BY <1>t, <1>e, <1>0, <2>2, <2>5, <2>r DEF ExactInv
  <2> QED
    BY <2>4, <2>5, <2>6, <2>7 DEF IndexInv
<1>4. ASSUME NEW k \in ks, IF Known(m) /\ rows[m].ptr = k THEN Skips(m, k) ELSE Parses(m, k)
      PROVE  IndexInv'
  <2>0. k \in Coords /\ k[1] = c /\ MsgOf[k[1]] = m
    BY <1>2 DEF m
  <2>1. /\ walk' \in Walk /\ walk'.on = walk.on /\ walk'.moved = walk.moved
        /\ walk'.todo = walk.todo \ {c} /\ walk'.files = walk.files \cup {k}
        /\ walk'.reloc \in {walk.reloc, walk.reloc \cup {k}}
        /\ walk'.fresh = walk.fresh \/
             (k \in OnDisk /\ ~Known(m) /\ walk'.fresh = walk.fresh \cup {m})
        /\ walk'.hashes \in {walk.hashes, walk.hashes \cup {m}}
        /\ k \in OnDisk =>
             /\ walk'.hashes = walk.hashes \cup {m}
             /\ Known(m)' /\ (rows'[m].ptr = k \/ \E q \in walk'.reloc : MsgOf[q[1]] = m)
        /\ rows' \in [Messages -> Rows \cup {None}]
        /\ \A n \in Messages :
             \/ rows'[n].st = rows[n].st /\ (Known(n) => rows'[n].ptr = rows[n].ptr)
             \/ n = m /\ ~Known(m) /\ k \in OnDisk /\ rows'[m].ptr = k
    <3>1. CASE Known(m) /\ rows[m].ptr = k
      <4>1. Skips(m, k)
        BY <1>4, <3>1
      <4>2. rows'[m].st = rows[m].st /\ rows'[m].ptr = k
        BY <1>m, <1>t, <2>0, <3>1, <4>1, SkipStep
      <4>3. Known(m)'
        BY <3>1, <4>2 DEF Known
      <4> QED
        BY <1>m, <1>t, <2>0, <3>1, <4>1, <4>2, <4>3, SkipStep
    <3>2. CASE ~(Known(m) /\ rows[m].ptr = k)
      <4>1. Parses(m, k)
        BY <1>4, <3>2
      <4> QED
        BY <1>m, <1>t, <2>0, <4>1, ParseStep
    <3> QED
      BY <3>1, <3>2
  <2>2. \A n \in Messages : Known(n) => Known(n)' /\ rows'[n].ptr = rows[n].ptr
    BY <2>1 DEF Known
  <2>3. PtrInv'
    <3> SUFFICES ASSUME NEW n \in Messages, Known(n)' PROVE MsgOf[rows'[n].ptr[1]] = n
      BY DEF PtrInv
    <3>1. CASE Known(n)
      BY <1>t, <2>2, <3>1 DEF PtrInv
    <3>2. CASE ~Known(n)
      <4>1. n = m /\ rows'[m].ptr = k
        BY <2>1, <3>2 DEF Known
      <4> QED
        BY <2>0, <4>1
    <3> QED
      BY <3>1, <3>2
  <2>r. \A n : Rested(n)' <=> Rested(n)
    BY <2>1 DEF Rested
  <2>4. WalkInv'
    <3> SUFFICES ASSUME NEW n \in Messages, Rested(n) PROVE Surveyed(n)'
      BY <2>r DEF WalkInv
    <3>0. Surveyed(n) /\ Walked \subseteq Coords /\ Walked' \subseteq Coords
      BY <1>t, <1>0, <1>d DEF WalkInv, Walked, OnDisk
    <3>1. CASE n = m
      <4>1. k \in OnDisk /\ \A q \in OnDisk : q[1] = c => q = k
        <5>1. k \in OnDisk
          BY <1>2, <1>r, <2>0, <3>1
        <5>2. ASSUME NEW q \in OnDisk, q[1] = c PROVE q = k
          <6>1. q \in Coords /\ disk[q[1]] = q[2] /\ disk[k[1]] = k[2]
            BY <5>1 DEF OnDisk
          <6>2. q = <<q[1], q[2]>> /\ k = <<k[1], k[2]>>
            BY <2>0, <6>1, CoordParts
          <6> QED
            BY <2>0, <5>2, <6>1, <6>2
        <5> QED
          BY <5>1, <5>2
      <4>2. Walked' = Walked \cup {k}
        BY <1>d, <2>0, <2>1, <4>1 DEF Walked
      <4>3. \A q \in Coords : MsgOf[q[1]] = n => (q \in walk'.files <=> q \in Walked')
        BY <2>1, <3>0, <4>2 DEF Surveyed
      <4>4. n \in walk'.hashes /\ \E q \in Walked' : MsgOf[q[1]] = n
        BY <2>0, <2>1, <3>1, <4>1, <4>2
      <4>5. \A q \in walk'.reloc : MsgOf[q[1]] = n => q \in walk'.files
        BY <2>1, <3>0 DEF Surveyed
      <4>6. Found(n)'
        BY <2>1, <3>1, <4>1 DEF Found
      <4> QED
        BY <4>3, <4>4, <4>5, <4>6 DEF Surveyed
    <3>2. CASE n # m
      <4>1. \A q \in Coords : MsgOf[q[1]] = n => q # k /\ (q \in Walked' <=> q \in Walked)
        <5>1. \A q \in Coords : MsgOf[q[1]] = n => q # k /\ q[1] # c
          BY <2>0, <3>2 DEF m
        <5> QED
          BY <1>d, <2>1, <5>1 DEF Walked
      <4>2. n \in walk'.hashes <=> n \in walk.hashes
        BY <2>1, <3>2
      <4>3. \A q \in walk'.reloc : MsgOf[q[1]] = n => q \in walk.reloc
        BY <2>0, <2>1, <3>2
      <4>4. Found(n) => Found(n)'
        BY <2>1, <2>2 DEF Found
      <4> QED
        BY <2>1, <3>0, <4>1, <4>2, <4>3, <4>4 DEF Surveyed
    <3> QED
      BY <3>1, <3>2
  <2>5. ExactInv'
    <3> SUFFICES ASSUME NEW n \in exact PROVE RowInSync(n)' /\ Rested(n)' /\ n \notin walk'.fresh
      BY <1>t, <1>0, <2>1 DEF ExactInv
    <3>1. n \in Messages /\ RowInSync(n) /\ Rested(n) /\ n \notin walk.fresh
      BY <1>t, <1>e DEF ExactInv
    <3>2. n = m /\ k \in OnDisk => Known(m)
      BY <2>0, <3>1 DEF RowInSync, Alive, Known
    <3>3. rows'[n].st = rows[n].st /\ (Known(n) => rows'[n].ptr = rows[n].ptr)
      BY <2>1, <3>1, <3>2
    <3>4. /\ Alive(n)' <=> Alive(n)
          /\ Alive(n) => rows'[n].ptr = rows[n].ptr
      BY <3>3 DEF Alive, Known
    <3>5. RowInSync(n)'
      BY <1>d, <3>1, <3>4 DEF RowInSync
    <3> QED
      BY <2>1, <2>r, <3>1, <3>2, <3>5
  <2>6. TypeOK'
    BY <1>t, <1>0, <2>1 DEF TypeOK
  <2> QED
    BY <2>3, <2>4, <2>5, <2>6 DEF IndexInv
<1> QED
  BY <1>1, <1>3, <1>4

(* What the end of a walk makes of a row. *)
LEMMA EndRow ==
  ASSUME IndexInv, NEW m \in Messages, walk.on
  PROVE  LET r == MergeBcc(m, Reconciled(m))
         IN  /\ r \in Rows \cup {None}
             /\ r.st # "none" => Known(m) /\ MsgOf[r.ptr[1]] = m
             /\ Rested(m) /\ walk.todo = {} =>
                  LET copies == {k \in OnDisk : MsgOf[k[1]] = m}
                  IN /\ copies # {} <=> r.st = "alive"
                     /\ r.st = "alive" => r.ptr \in copies
<1>t. TypeOK /\ PtrInv /\ WalkInv /\ walk \in Walk /\ rows[m] \in Rows \cup {None}
  BY DEF IndexInv, TypeOK
<1> DEFINE new == {k \in walk.reloc : MsgOf[k[1]] = m}
           stale == rows[m].ptr \notin walk.files
           best == CHOOSE k \in new : TRUE
           p == IF stale THEN best ELSE rows[m].ptr
           q == Reconciled(m)
           r == MergeBcc(m, q)
           copies == {k \in OnDisk : MsgOf[k[1]] = m}
<1>n. new # {} => best \in new
  OBVIOUS
<1>c. new \subseteq Coords
  BY <1>t DEF Walk
<1>w. Rested(m) /\ walk.todo = {} =>
        /\ \A k \in Coords : MsgOf[k[1]] = m => (k \in walk.files <=> k \in OnDisk)
        /\ m \in walk.hashes <=> copies # {}
        /\ new \subseteq copies
        /\ m \in walk.hashes => Found(m)
  <2> SUFFICES ASSUME Rested(m), walk.todo = {} PROVE
        /\ \A k \in Coords : MsgOf[k[1]] = m => (k \in walk.files <=> k \in OnDisk)
        /\ m \in walk.hashes <=> copies # {}
        /\ new \subseteq copies
        /\ m \in walk.hashes => Found(m)
    OBVIOUS
  <2>1. Walked = OnDisk
    BY DEF Walked
  <2>2. Surveyed(m)
    BY <1>t DEF WalkInv
  <2> QED
    BY <1>c, <2>1, <2>2 DEF Surveyed
<1> HIDE DEF best
<1>1. CASE ~Known(m)
  <2>1. rows[m] = None /\ rows[m].st = "none"
    BY <1>1, <1>t, KnownRow DEF None
  <2>2. r = rows[m]
    BY <1>1 DEF Reconciled, MergeBcc
  <2>3. Rested(m) /\ walk.todo = {} => copies = {}
    BY <1>1, <1>w DEF Found
  <2> QED
    BY <1>t, <2>1, <2>2, <2>3
<1>2. CASE Known(m)
  <2>t. rows[m] \in Rows /\ rows[m].ptr \in Coords /\ MsgOf[rows[m].ptr[1]] = m
    BY <1>2, <1>t, KnownRow DEF Rows, PtrInv
  <2>1. /\ q \in Rows
        /\ m \notin walk.hashes => q.st = "deleted" /\ q.ptr = rows[m].ptr
        /\ m \in walk.hashes /\ stale /\ new = {} => q = rows[m]
        /\ m \in walk.hashes /\ ~(stale /\ new = {}) =>
             /\ q.st = "alive" /\ (stale => q.ptr = best /\ q.ptr \in new)
             /\ ~stale => q.ptr = rows[m].ptr
    <3>1. CASE m \notin walk.hashes
      <4>1. q = [rows[m] EXCEPT !.st = "deleted"]
        BY <1>2, <3>1 DEF Reconciled
      <4> HIDE DEF q
      <4> QED
        BY <2>t, <3>1, <4>1 DEF Rows
    <3>2. CASE m \in walk.hashes /\ stale /\ new = {}
      BY <1>2, <2>t, <3>2 DEF Reconciled
    <3>3. CASE m \in walk.hashes /\ ~(stale /\ new = {})
      <4>1. q = [rows[m] EXCEPT !.st = "alive", !.ptr = p]
        BY <1>2, <3>3 DEF Reconciled, best
      <4>2. p \in Coords
        BY <1>n, <1>c, <2>t, <3>3
      <4> HIDE DEF p, q
      <4>3. q \in Rows /\ q.st = "alive" /\ q.ptr = p
        BY <2>t, <4>1, <4>2 DEF Rows
      <4> QED
        BY <1>n, <3>3, <4>3 DEF p
    <3> QED
      BY <3>1, <3>2, <3>3
  <2> HIDE DEF q
  <2>2. r \in Rows /\ r.st = q.st /\ r.ptr = q.ptr
    BY <2>1 DEF MergeBcc, Rows
  <2>3. MsgOf[q.ptr[1]] = m
    BY <2>t, <2>1
  <2>4. ASSUME Rested(m), walk.todo = {}
        PROVE  (copies # {} <=> q.st = "alive") /\ (q.st = "alive" => q.ptr \in copies)
    <3>1. /\ ~stale => rows[m].ptr \in OnDisk
          /\ m \in walk.hashes <=> copies # {}
          /\ new \subseteq copies
          /\ m \in walk.hashes => ~(stale /\ new = {})
      BY <1>w, <2>t, <2>4 DEF Found
    <3>2. CASE m \in walk.hashes
      <4>1. q.st = "alive" /\ q.ptr \in OnDisk
        BY <2>1, <3>1, <3>2
      <4> QED
        BY <2>3, <3>1, <3>2, <4>1
    <3>3. CASE m \notin walk.hashes
      BY <2>1, <3>1, <3>3
    <3> QED
      BY <3>2, <3>3
  <2> HIDE DEF r
  <2>5. r.st # "none" => Known(m) /\ MsgOf[r.ptr[1]] = m
    BY <1>2, <2>2, <2>3
  <2> QED
    BY <2>2, <2>4, <2>5 DEF r, q
<1> QED
  BY <1>1, <1>2

(* The end of a walk marks what it has not met. *)
LEMMA EndStep ==
  ASSUME IndexInv, WalkEnds
  PROVE  IndexInv'
<1>0. /\ walk.on /\ walk.todo = {} /\ walk' = NoWalk /\ state' = "idle"
      /\ rows' = [m \in Messages |-> MergeBcc(m, Reconciled(m))]
      /\ exact' = {m \in Messages : Rested(m)}
      /\ UNCHANGED <<disk, snap, bits, job, changes, faults>>
  BY DEF WalkEnds
<1>1. \A m \in Messages :
         /\ rows'[m] \in Rows \cup {None}
         /\ rows'[m].st # "none" => MsgOf[rows'[m].ptr[1]] = m
         /\ Rested(m) =>
              LET copies == {k \in OnDisk : MsgOf[k[1]] = m}
              IN /\ copies # {} <=> rows'[m].st = "alive"
                 /\ rows'[m].st = "alive" => rows'[m].ptr \in copies
  BY <1>0, EndRow
<1>2. OnDisk' = OnDisk
  BY <1>0 DEF OnDisk
<1>3. \A m \in Messages : Rested(m) => RowInSync(m)'
  BY <1>1, <1>2 DEF RowInSync, Alive
<1>4. PtrInv'
  BY <1>1 DEF PtrInv, Known
<1>5. TypeOK'
  <2>1. rows' \in [Messages -> Rows \cup {None}]
    BY <1>0, <1>1
  <2>2. exact' \in SUBSET Messages
    BY <1>0
  <2> QED
    BY <1>0, <2>1, <2>2, OffWalk DEF IndexInv, TypeOK
<1>6. \A m : Rested(m)'
  BY <1>0, OffWalk DEF Rested
<1> QED
  BY <1>0, <1>3, <1>4, <1>5, <1>6, OffWalk DEF IndexInv, WalkInv, ExactInv

(* Steps that leave the Maildir, the walk and the rows' names alone. *)
LEMMA QuietStep ==
  ASSUME IndexInv, TypeOK', UNCHANGED <<disk, walk, exact>>,
         \A n \in Messages : rows'[n].st = rows[n].st /\ (Known(n) => rows'[n].ptr = rows[n].ptr)
  PROVE  IndexInv'
<1>1. /\ PtrInv' /\ OnDisk' = OnDisk
      /\ \A n \in Messages : RowInSync(n) => RowInSync(n)'
      /\ \A n \in Messages : Known(n)' <=> Known(n)
  BY SameRows DEF IndexInv
<1>2. Walked' = Walked
  BY <1>1 DEF Walked
<1>3. \A n \in Messages : Found(n) => Found(n)'
  BY <1>1 DEF Found
<1>r. \A n : Rested(n)' <=> Rested(n)
  BY DEF Rested
<1>4. \A n \in Messages : Surveyed(n) => Surveyed(n)'
  BY <1>2, <1>3 DEF Surveyed
<1>5. WalkInv'
  BY <1>4, <1>r DEF IndexInv, WalkInv
<1>6. ExactInv'
  BY <1>1, <1>r DEF IndexInv, ExactInv, TypeOK
<1> QED
  BY <1>1, <1>5, <1>6 DEF IndexInv

(* Walks, the mail world and searches keep the index's invariant. *)
LEMMA IndexStep ==
  ASSUME IndexInv, [Next]_vars
  PROVE  IndexInv'
<1>t. TypeOK /\ PtrInv /\ WalkInv /\ ExactInv /\ walk \in Walk
      /\ rows \in [Messages -> Rows \cup {None}]
      /\ faults \in 0 .. MaxFaults /\ changes \in 0 .. MaxChanges /\ MaxFaults \in Nat /\ MaxChanges \in Nat
  BY IndexAssumption DEF IndexInv, TypeOK
<1>1. ASSUME NEW c \in Copies, Changes(c) PROVE IndexInv'
  <2>1. PICK f \in Flags \cup {"gone"} : disk' = [disk EXCEPT ![c] = f]
    BY <1>1 DEF Changes
  <2>2. /\ walk' = [walk EXCEPT !.moved = IF walk.on THEN @ \cup {c} ELSE @]
        /\ exact' = exact \ {MsgOf[c]} /\ changes < MaxChanges /\ changes' = changes + 1
        /\ UNCHANGED <<snap, rows, bits, state, job, faults>>
    BY <1>1 DEF Changes
  <2>3. /\ walk' \in Walk /\ walk'.on = walk.on
        /\ walk'.files = walk.files /\ walk'.hashes = walk.hashes
        /\ walk'.reloc = walk.reloc /\ walk'.todo = walk.todo /\ walk'.fresh = walk.fresh
        /\ walk.on => walk'.moved = walk.moved \cup {c}
        /\ ~walk.on => walk' = walk
    BY <1>t, <2>2 DEF Walk
  <2>4. TypeOK'
    <3>1. disk' \in [Copies -> Flags \cup {"gone"}]
      BY <1>t, <2>1 DEF TypeOK
    <3>2. changes' \in 0 .. MaxChanges
      BY <1>t, <2>2
    <3> QED
      BY <1>t, <2>2, <2>3, <3>1, <3>2 DEF TypeOK
  <2>5. PtrInv'
    BY <1>t, <2>2 DEF PtrInv, Known
  <2>6. \A n \in Messages : n # MsgOf[c] =>
          \A k \in Coords : MsgOf[k[1]] = n => (k \in OnDisk' <=> k \in OnDisk)
    <3>1. \A k \in Coords : k[1] # c => disk'[k[1]] = disk[k[1]]
      BY <1>t, <2>1, CoordParts DEF TypeOK
    <3> QED
      BY <3>1 DEF OnDisk
  <2>7. OnDisk \subseteq Coords /\ OnDisk' \subseteq Coords
    BY DEF OnDisk
  <2>8. ASSUME NEW n \in Messages, n # MsgOf[c] PROVE RowInSync(n) => RowInSync(n)'
    <3>1. {k \in OnDisk' : MsgOf[k[1]] = n} = {k \in OnDisk : MsgOf[k[1]] = n}
      BY <2>6, <2>7, <2>8
    <3> QED
      BY <2>2, <3>1 DEF RowInSync, Alive
  <2>9. WalkInv'
    <3> SUFFICES ASSUME walk.on, NEW n \in Messages, Rested(n)' PROVE Surveyed(n)'
      BY <2>3 DEF WalkInv
    <3>1. n # MsgOf[c] /\ Rested(n)
      BY <2>3 DEF Rested
    <3>2. Surveyed(n)
      BY <1>t, <3>1 DEF WalkInv
    <3>3. \A k \in Coords : MsgOf[k[1]] = n => (k \in Walked' <=> k \in Walked)
      BY <2>3, <2>6, <3>1 DEF Walked
    <3>4. Walked \subseteq Coords /\ Walked' \subseteq Coords
      BY <2>7 DEF Walked
    <3>5. Found(n) => Found(n)'
      BY <2>2, <2>3 DEF Found, Known
    <3> QED
      BY <2>3, <3>2, <3>3, <3>4, <3>5 DEF Surveyed
  <2>10. ExactInv'
    <3>1. ASSUME NEW n \in exact' PROVE RowInSync(n)' /\ Rested(n)' /\ n \notin walk'.fresh
      <4>1. n \in Messages /\ n \in exact /\ n # MsgOf[c]
        BY <1>t, <2>2 DEF TypeOK
      <4>2. Rested(n)'
        <5>1. CASE walk.on
          BY <1>t, <2>3, <4>1, <5>1 DEF ExactInv, Rested
        <5>2. CASE ~walk.on
          BY <1>t, <2>3, <4>1, <5>2 DEF ExactInv, Rested
        <5> QED
          BY <5>1, <5>2
      <4> QED
        BY <1>t, <2>3, <2>8, <4>1, <4>2 DEF ExactInv
    <3> QED
      BY <1>t, <2>3, <3>1 DEF ExactInv
  <2> QED
    BY <2>4, <2>5, <2>9, <2>10 DEF IndexInv
<1>2. CASE WalkBegins
  <2>1. /\ walk' = [NoWalk EXCEPT !.on = TRUE, !.todo = Copies] /\ state' = "live_indexing"
        /\ UNCHANGED <<disk, snap, rows, bits, job, changes, faults, exact>>
    BY <1>2 DEF WalkBegins
  <2>2. /\ walk' \in Walk /\ walk'.on = TRUE /\ walk'.todo = Copies /\ walk'.files = {}
        /\ walk'.hashes = {} /\ walk'.reloc = {} /\ walk'.moved = {} /\ walk'.fresh = {}
    BY <2>1 DEF NoWalk, Walk
  <2>3. TypeOK'
    BY <1>t, <2>1, <2>2 DEF TypeOK
  <2>4. PtrInv' /\ \A n \in Messages : RowInSync(n) => RowInSync(n)'
    BY <1>t, <2>1, SameRows
  <2>5. Walked' = {}
    BY <2>2, CoordParts DEF Walked, OnDisk
  <2>6. \A n : Rested(n)' /\ Surveyed(n)'
    BY <2>2, <2>5 DEF Rested, Surveyed
  <2>7. ExactInv'
    BY <1>t, <2>1, <2>2, <2>4, <2>6 DEF ExactInv, TypeOK
  <2> QED
    BY <2>3, <2>4, <2>6, <2>7 DEF IndexInv, WalkInv
<1>3. ASSUME NEW c \in Copies, Visits(c) PROVE IndexInv'
  BY <1>3, VisitStep
<1>4. CASE WalkEnds
  BY <1>4, EndStep
<1>5. CASE WalkRaises
  <2>1. /\ walk' = NoWalk /\ faults < MaxFaults /\ faults' = faults + 1 /\ state' = "failed"
        /\ UNCHANGED <<disk, snap, rows, bits, job, changes, exact>>
    BY <1>5 DEF WalkRaises
  <2>2. TypeOK'
    BY <1>t, <2>1, OffWalk DEF TypeOK
  <2>3. PtrInv' /\ \A n \in Messages : RowInSync(n) => RowInSync(n)'
    BY <1>t, <2>1, SameRows
  <2>4. \A n : Rested(n)'
    BY <2>1, OffWalk DEF Rested
  <2>5. ExactInv'
    BY <1>t, <2>1, <2>3, <2>4, OffWalk DEF ExactInv, TypeOK
  <2> QED
    BY <2>1, <2>2, <2>3, <2>5, OffWalk DEF IndexInv, WalkInv
<1>6. CASE Dies
  <2>1. PICK lost \in SUBSET walk.fresh :
          rows' = [m \in Messages |-> IF m \in lost THEN None ELSE rows[m]]
    BY <1>6 DEF Dies
  <2>2. /\ walk' = NoWalk /\ faults < MaxFaults /\ faults' = faults + 1
        /\ job' = [s \in Snaps |-> "none"]
        /\ UNCHANGED <<disk, snap, bits, state, changes, exact>>
    BY <1>6 DEF Dies
  <2>3. TypeOK'
    <3>1. rows' \in [Messages -> Rows \cup {None}]
      BY <1>t, <2>1
    <3>2. job' \in [Snaps -> {"none", "taken", "forgot"}] /\ faults' \in 0 .. MaxFaults
      BY <1>t, <2>2
    <3> QED
      BY <1>t, <2>2, <3>1, <3>2, OffWalk DEF TypeOK
  <2>4. \A m \in Messages : Known(m)' => Known(m) /\ rows'[m] = rows[m]
    BY <2>1 DEF Known, None
  <2>5. PtrInv'
    BY <1>t, <2>4 DEF PtrInv
  <2>6. ASSUME NEW n \in exact PROVE RowInSync(n)'
    <3>1. n \in Messages /\ RowInSync(n) /\ rows'[n] = rows[n]
      BY <1>t, <2>1 DEF ExactInv, TypeOK
    <3> QED
      BY <2>2, <3>1 DEF RowInSync, Alive, OnDisk
  <2>7. \A n : Rested(n)'
    BY <2>2, OffWalk DEF Rested
  <2>8. ExactInv'
    BY <2>2, <2>6, <2>7, OffWalk DEF ExactInv
  <2> QED
    BY <2>2, <2>3, <2>5, <2>8, OffWalk DEF IndexInv, WalkInv
<1>7. ASSUME NEW m \in Messages, backfill_attachments(m) \/ backfill_attachment_content(m)
      PROVE  IndexInv'
  <2>1. PICK a \in {"meta", "text"} : rows' = [rows EXCEPT ![m].att = a]
    BY <1>7 DEF backfill_attachments, backfill_attachment_content
  <2>2. UNCHANGED <<disk, snap, bits, state, walk, job, changes, faults, exact>> /\ rows[m] \in Rows
    BY <1>7, <1>t, KnownRow DEF backfill_attachments, backfill_attachment_content
  <2>3. /\ rows' \in [Messages -> Rows \cup {None}]
        /\ \A n \in Messages : rows'[n].st = rows[n].st /\ rows'[n].ptr = rows[n].ptr
    BY <1>t, <2>1, <2>2 DEF Rows
  <2>4. TypeOK'
    BY <1>t, <2>2, <2>3 DEF TypeOK
  <2> QED
    BY <2>2, <2>3, <2>4, QuietStep
<1>8. ASSUME UNCHANGED <<disk, rows, walk, exact, state, changes>>,
             snap' \in [Snaps -> [in : BOOLEAN, files : SUBSET Coords]],
             bits' \in [Snaps -> SUBSET Messages],
             job' \in [Snaps -> {"none", "taken", "forgot"}], faults' \in 0 .. MaxFaults
      PROVE  IndexInv'
  <2>1. TypeOK'
    BY <1>8, <1>t DEF TypeOK
  <2> QED
    BY <1>8, <2>1, QuietStep
<1>s. /\ snap \in [Snaps -> [in : BOOLEAN, files : SUBSET Coords]]
      /\ bits \in [Snaps -> SUBSET Messages]
      /\ job \in [Snaps -> {"none", "taken", "forgot"}] /\ OnDisk \in SUBSET Coords
  BY <1>t DEF TypeOK, OnDisk
<1>9. ASSUME NEW s \in Snaps, Taken(s) PROVE IndexInv'
  <2>1. snap' \in [Snaps -> [in : BOOLEAN, files : SUBSET Coords]]
    BY <1>9, <1>s DEF Taken
  <2> QED
    BY <1>8, <1>9, <1>s, <1>t, <2>1 DEF Taken
<1>10. ASSUME NEW s \in Snaps, record_snapshot(s) PROVE IndexInv'
  <2> DEFINE alive == {m \in Messages : Alive(m)}
  <2>1. /\ bits' = [bits EXCEPT ![s] = @ \cup alive] \/ bits' = bits
        /\ faults' = faults \/ (faults < MaxFaults /\ faults' = faults + 1)
    BY <1>10 DEF record_snapshot
  <2>2. alive \in SUBSET Messages
    OBVIOUS
  <2> HIDE DEF alive
  <2>3. bits' \in [Snaps -> SUBSET Messages] /\ faults' \in 0 .. MaxFaults
    BY <1>s, <1>t, <2>1, <2>2
  <2> QED
    BY <1>8, <1>10, <1>s, <1>t, <2>3 DEF record_snapshot
<1>11. ASSUME NEW s \in Snaps, Forgets(s) PROVE IndexInv'
  BY <1>8, <1>11, <1>s, <1>t DEF Forgets
<1>12. ASSUME NEW s \in Snaps, prune_snapshot(s) PROVE IndexInv'
  BY <1>8, <1>12, <1>s, <1>t DEF prune_snapshot, Pruned
<1>13. CASE backfill_snapshots
  <2>1. bits' = [s \in Snaps |-> BackfillBits(s)]
    BY <1>13 DEF backfill_snapshots
  <2>2. \A s \in Snaps : BackfillBits(s) \in SUBSET Messages
    BY <1>s DEF BackfillBits
  <2>3. bits' \in [Snaps -> SUBSET Messages]
    BY <2>1, <2>2
  <2> QED
    BY <1>8, <1>13, <1>s, <1>t, <2>3 DEF backfill_snapshots
<1>14. CASE UNCHANGED vars
  BY <1>8, <1>14, <1>s, <1>t DEF vars
<1> QED
  BY <1>1, <1>2, <1>3, <1>4, <1>5, <1>6, <1>7, <1>9, <1>10, <1>11, <1>12, <1>13, <1>14
     DEF Next, WalkStep

---------------------------------------------------------------------------

(* Type correctness, and the invariant that ties rows, walk and Maildir. *)
THEOREM IndexTypes == Spec => []IndexInv
<1>1. Init => IndexInv
  <2> SUFFICES ASSUME Init PROVE IndexInv
    OBVIOUS
  <2>1. /\ walk = NoWalk /\ exact = {} /\ state = "idle" /\ changes = 0 /\ faults = 0
        /\ snap = [s \in Snaps |-> [in |-> FALSE, files |-> {}]]
        /\ bits = [s \in Snaps |-> {}] /\ job = [s \in Snaps |-> "none"]
    BY DEF Init
  <2>2. disk \in [Copies -> Flags \cup {"gone"}]
    BY DEF Init
  <2>3. rows \in [Messages -> Rows \cup {None}] /\ PtrInv
    <3>1. CASE rows = [m \in Messages |-> None]
      BY <3>1 DEF PtrInv, Known, None
    <3>2. ASSUME NEW p \in [Messages -> Coords],
                 \A m \in Messages : MsgOf[p[m][1]] = m,
                 rows = [m \in Messages |-> [st |-> "alive", ptr |-> p[m], bcc |-> FALSE,
                                             recip |-> FALSE, att |-> "no"]]
          PROVE  rows \in [Messages -> Rows \cup {None}] /\ PtrInv
      <4>1. \A m \in Messages : rows[m] \in Rows /\ rows[m].ptr = p[m]
        BY <3>2 DEF Rows
      <4>2. rows \in [Messages -> Rows]
        BY <3>2, <4>1
      <4> QED
        BY <3>2, <4>1, <4>2 DEF PtrInv
    <3> QED
      BY <3>1, <3>2 DEF Init
  <2>4. TypeOK
    <3>1. 0 \in 0 .. MaxChanges /\ 0 \in 0 .. MaxFaults
      BY IndexAssumption
    <3>2. snap \in [Snaps -> [in : BOOLEAN, files : SUBSET Coords]]
      BY <2>1
    <3> QED
      BY <2>1, <2>2, <2>3, <3>1, <3>2, OffWalk DEF TypeOK
  <2> QED
    BY <2>1, <2>3, <2>4, OffWalk DEF IndexInv, WalkInv, ExactInv
<1>2. IndexInv /\ [Next]_vars => IndexInv'
  BY IndexStep
<1> QED
  BY <1>1, <1>2, PTL DEF Spec

(* A walk leaves the row of every message that nobody touched meanwhile as the
   Maildir is, whatever the walks, failures, crashes and moves before it left
   behind and whatever is done to other messages, and it stays so until one of
   the message's copies changes, also while later walks run, fail or die. *)
THEOREM QuietWalksAreExact == Spec => []QuietWalkExact
<1>1. IndexInv => QuietWalkExact
  BY DEF IndexInv, ExactInv, QuietWalkExact
<1> QED
  BY <1>1, IndexTypes, PTL

(* While no step has failed, no message is said to be in a snapshot that
   retention has removed: the bits go with the snapshot, and neither the hook
   of a finished backup nor the backfill writes bits for one that is gone. *)
THEOREM BitsOfForgottenGo == Spec => []NoBitsOfForgotten
<1> DEFINE J == NoBitsOfForgotten /\ \A s \in Snaps : job[s] = "taken" => snap[s].in
<1>1. Init => J
  BY DEF Init, NoBitsOfForgotten
<1>2. IndexInv /\ J /\ [Next]_vars => J'
  <2> SUFFICES ASSUME TypeOK, J, [Next]_vars PROVE J'
    BY DEF IndexInv
  <2>t. /\ snap \in [Snaps -> [in : BOOLEAN, files : SUBSET Coords]]
        /\ bits \in [Snaps -> SUBSET Messages]
        /\ job \in [Snaps -> {"none", "taken", "forgot"}] /\ faults \in Nat
    BY IndexAssumption DEF TypeOK
  <2>1. CASE UNCHANGED <<snap, bits, job>> /\ faults' \in {faults, faults + 1}
    BY <2>1, <2>t DEF NoBitsOfForgotten
  <2>2. ASSUME NEW s \in Snaps, Taken(s) PROVE J'
    <3>1. /\ snap'[s].in /\ job'[s] = "taken" /\ bits' = bits /\ faults' = faults
          /\ \A t \in Snaps : t # s => snap'[t] = snap[t] /\ job'[t] = job[t]
      BY <2>2, <2>t DEF Taken
    <3> QED
      BY <3>1 DEF NoBitsOfForgotten
  <2>3. ASSUME NEW s \in Snaps, record_snapshot(s) PROVE J'
    <3>1. /\ job[s] = "taken" /\ snap' = snap /\ faults' \in {faults, faults + 1}
          /\ job'[s] = "none" /\ \A t \in Snaps : t # s => bits'[t] = bits[t] /\ job'[t] = job[t]
      BY <2>3, <2>t DEF record_snapshot
    <3> QED
      BY <2>t, <3>1 DEF NoBitsOfForgotten
  <2>4. ASSUME NEW s \in Snaps, Forgets(s) PROVE J'
    <3>1. /\ bits' = bits /\ faults' = faults /\ job'[s] = "forgot"
          /\ \A t \in Snaps : t # s => snap'[t] = snap[t] /\ job'[t] = job[t]
      BY <2>4, <2>t DEF Forgets
    <3> QED
      BY <3>1 DEF NoBitsOfForgotten
  <2>5. ASSUME NEW s \in Snaps, prune_snapshot(s) PROVE J'
    <3>1. /\ bits'[s] = {} /\ snap' = snap /\ faults' = faults /\ job'[s] = "none"
          /\ \A t \in Snaps : t # s => bits'[t] = bits[t] /\ job'[t] = job[t]
      BY <2>5, <2>t DEF prune_snapshot, Pruned
    <3> QED
      BY <3>1 DEF NoBitsOfForgotten
  <2>6. CASE backfill_snapshots
    <3>1. snap' = snap /\ faults' = faults /\ job' = job
      BY <2>6 DEF backfill_snapshots
    <3>2. \A s \in Snaps : bits'[s] = bits[s] \/ snap[s].in
      BY <2>6 DEF backfill_snapshots, BackfillBits
    <3> QED
      BY <3>1, <3>2 DEF NoBitsOfForgotten
  <2>7. CASE Dies
    <3>1. snap' = snap /\ faults' = faults + 1 /\ \A s \in Snaps : job'[s] = "none"
      BY <2>7 DEF Dies
    <3>2. faults' # 0
      BY <2>t, <3>1
    <3> QED
      BY <3>1, <3>2 DEF NoBitsOfForgotten
  <2>8. CASE \/ \E c \in Copies : Changes(c)
             \/ WalkStep \/ WalkRaises
             \/ \E m \in Messages : backfill_attachments(m) \/ backfill_attachment_content(m)
             \/ UNCHANGED vars
    <3>1. UNCHANGED <<snap, bits, job>> /\ faults' \in {faults, faults + 1}
      BY <2>8 DEF Changes, WalkStep, WalkBegins, Visits, WalkEnds, WalkRaises,
                  backfill_attachments, backfill_attachment_content, vars
    <3> QED
      BY <2>1, <3>1
  <2> QED
    BY <2>2, <2>3, <2>4, <2>5, <2>6, <2>7, <2>8 DEF Next
<1> QED
  BY <1>1, <1>2, IndexTypes, PTL DEF Spec

---------------------------------------------------------------------------
(* Previews. *)

\* A snapshot that is in the repository, or that some hook or bit is about, is
\* one that restic has made, and a hook that drops bits is about one that is
\* gone.
BookInv ==
  \A s \in Snaps :
    /\ snap[s].in \/ job[s] # "none" \/ bits[s] # {} => snap[s].files # {}
    /\ job[s] = "forgot" => ~snap[s].in

(* A set of snapshots that is not empty has a newest one. *)
LEMMA Highest ==
  ASSUME NEW N \in Nat, NEW S \in SUBSET (1 .. N), S # {}
  PROVE  \E s \in S : \A t \in S : t <= s
<1> DEFINE R == OpToRel(<, Nat)
           T == {n \in Nat : N - n \in S}
<1>1. IsWellFoundedOn(R, Nat)
  BY NatLessThanWellFounded, Zenon
<1>2. \A x, y \in Nat : <<x, y>> \in R <=> x < y
  BY DEF OpToRel
<1> HIDE DEF R
<1>3. T \subseteq Nat /\ T # {}
  <2>1. PICK s \in S : TRUE
    OBVIOUS
  <2>2. s \in 1 .. N
    OBVIOUS
  <2>3. N - s \in Nat /\ N - (N - s) = s
    BY <2>2
  <2> QED
    BY <2>1, <2>3
<1>4. PICK x \in T : \A y \in T : ~(<<y, x>> \in R)
  <2> HIDE DEF T
  <2> QED
    BY <1>1, <1>3, WFMin
<1>5. \A y \in T : <<y, x>> \in R <=> y < x
  BY <1>2, <1>3, <1>4
<1>6. ASSUME NEW t \in S PROVE t <= N - x
  <2>1. t \in 1 .. N /\ N - t \in Nat /\ N - (N - t) = t
    OBVIOUS
  <2>2. N - t \in T
    BY <2>1
  <2>3. ~(N - t < x)
    BY <1>4, <1>5, <2>2
  <2> QED
    BY <2>1, <2>3
<1> QED
  BY <1>6

(* The newest of a set of snapshots is in it and no older than any other. *)
LEMMA NewestOf ==
  ASSUME NEW S \in SUBSET Snaps, S # {}
  PROVE  Newest(S) \in S /\ \A t \in S : t <= Newest(S)
<1>1. \E s \in S : \A t \in S : t <= s
  BY IndexAssumption, Highest DEF Snaps
<1> QED
  BY <1>1 DEF Newest

(* A message that a snapshot gives back is still given back when more
   snapshots are said to hold it, if these hold its file under the name that
   the row has: the newest of them is tried before the old one. *)
LEMMA StillThere ==
  ASSUME NEW m \in Messages, rows'[m].ptr = rows[m].ptr, snapshot_bytes(m),
         Matching(m) \subseteq Matching(m)',
         \A s \in Matching(m) : snap'[s].files = snap[s].files,
         \A s \in Matching(m)' : s \in Matching(m) \/ rows[m].ptr \in snap'[s].files
  PROVE  snapshot_bytes(m)'
<1>n. /\ \A s \in Snaps : s \in Nat
      /\ Attempts \in Nat
  BY IndexAssumption DEF Snaps
<1>s. Matching(m) \subseteq Snaps /\ Matching(m)' \subseteq Snaps
  BY DEF Matching
<1>f. IsFiniteSet(Snaps)
  BY IndexAssumption, FS_Interval DEF Snaps
<1>1. ASSUME NEW s \in Matching(m),
             Cardinality({t \in Matching(m) : t > s}) < Attempts,
             rows[m].ptr \in snap[s].files
      PROVE  snapshot_bytes(m)'
  <2> DEFINE S == {t \in Matching(m)' : t \notin Matching(m)} \cup {s}
  <2>1. PICK w \in S : \A t \in S : t <= w
    <3>1. S \in SUBSET Snaps /\ S # {}
      BY <1>s
    <3> HIDE DEF S
    <3> QED
      BY <3>1, NewestOf
  <2>2. w \in Matching(m)' /\ rows'[m].ptr \in snap'[w].files /\ s <= w
    BY <1>1, <2>1
  <2> DEFINE A == {t \in Matching(m)' : t > w}
             B == {t \in Matching(m) : t > s}
  <2>3. A \subseteq B
    <3> SUFFICES ASSUME NEW t \in Matching(m)', t > w PROVE t \in B
      OBVIOUS
    <3>0. t \in Nat /\ w \in Nat /\ s \in Nat
      BY <1>n, <1>s, <2>2
    <3>1. t \notin S
      BY <2>1, <3>0
    <3> QED
      BY <2>2, <3>0, <3>1
  <2>4. IsFiniteSet(B) /\ B \in SUBSET Snaps
    BY <1>f, <1>s, FS_Subset
  <2>5. /\ Cardinality(A) \in Nat /\ Cardinality(B) \in Nat
        /\ Cardinality(A) <= Cardinality(B)
    <3> HIDE DEF A, B
    <3> QED
      BY <2>3, <2>4, FS_Subset, FS_CardinalityType
  <2>6. Cardinality(A) < Attempts
    BY <1>1, <1>n, <2>5
  <2> QED
    BY <2>2, <2>6 DEF snapshot_bytes
<1>2. ASSUME Matching(m) # {},
             NEW k \in snap[Newest(Matching(m))].files, k[1] = rows[m].ptr[1]
      PROVE  snapshot_bytes(m)'
  <2> DEFINE u == Newest(Matching(m))
             M == Matching(m)'
             v == Newest(M)
  <2>1. u \in Matching(m) /\ \A t \in Matching(m) : t <= u
    BY <1>2, <1>s, NewestOf
  <2>2. M \in SUBSET Snaps /\ M # {} /\ u \in M
    BY <1>s, <2>1
  <2>3. v \in M /\ \A t \in M : t <= v
    <3> HIDE DEF M, u
    <3> QED
      BY <2>2, NewestOf
  <2>4. v \in Matching(m) => v = u
    <3>1. v \in Nat /\ u \in Nat /\ u <= v
      BY <1>n, <2>2, <2>3
    <3> QED
      BY <2>1, <3>1
  <2>5. \E q \in snap'[v].files : q[1] = rows'[m].ptr[1]
    <3>1. CASE v \in Matching(m)
      BY <1>2, <2>1, <2>4, <3>1
    <3>2. CASE v \notin Matching(m)
      BY <2>3, <3>2
    <3> QED
      BY <3>1, <3>2
  <2>6. Newest(Matching(m))' = v
    BY DEF Newest
  <2> QED
    BY <2>2, <2>5, <2>6 DEF snapshot_bytes
<1> QED
  BY <1>1, <1>2 DEF snapshot_bytes

(* A preview survives a step that leaves the row's state and pointer and the
   file it names, and that takes no snapshot and adds only good ones. *)
LEMMA PreviewKept ==
  ASSUME NEW m \in Messages, get_preview(m),
         rows'[m].st = rows[m].st, rows'[m].ptr = rows[m].ptr,
         disk[rows[m].ptr[1]] # "gone" => disk'[rows[m].ptr[1]] # "gone",
         Matching(m) \subseteq Matching(m)',
         \A s \in Matching(m) : snap'[s].files = snap[s].files,
         \A s \in Matching(m)' : s \in Matching(m) \/ rows[m].ptr \in snap'[s].files
  PROVE  get_preview(m)'
<1>1. Known(m) /\ Known(m)' /\ (Alive(m) => Alive(m)')
  BY DEF get_preview, Known, Alive
<1>2. CASE Alive(m) /\ locate_live_file(m)
  BY <1>1, <1>2 DEF get_preview, locate_live_file
<1>3. CASE snapshot_bytes(m)
  BY <1>1, <1>3, StillThere DEF get_preview
<1> QED
  BY <1>2, <1>3 DEF get_preview

(* A visit changes the state and the pointer of no row that exists. *)
LEMMA VisitRows ==
  ASSUME TypeOK, NEW c \in Copies, Visits(c), NEW n \in Messages, Known(n)
  PROVE  rows'[n].st = rows[n].st /\ rows'[n].ptr = rows[n].ptr
<1> DEFINE m == MsgOf[c]
<1>m. m \in Messages
  BY CopyMessage
<1> HIDE DEF m
<1>1. PICK ks \in Listed(c) :
       IF ks = {}
       THEN walk' = [walk EXCEPT !.todo = @ \ {c}] /\ UNCHANGED rows
       ELSE \E k \in ks : IF Known(m) /\ rows[m].ptr = k THEN Skips(m, k) ELSE Parses(m, k)
  BY DEF Visits, m
<1>2. \A k \in ks : k \in Coords /\ k[1] = c
  <2>1. \A k : k \in {c} \X Flags => k \in Coords /\ k[1] = c
    BY DEF Coords
  <2> QED
    BY <1>1, <2>1 DEF Listed
<1>3. CASE ks = {}
  BY <1>1, <1>3
<1>4. ASSUME NEW k \in ks, IF Known(m) /\ rows[m].ptr = k THEN Skips(m, k) ELSE Parses(m, k)
      PROVE  rows'[n].st = rows[n].st /\ rows'[n].ptr = rows[n].ptr
  <2>0. k \in Coords /\ MsgOf[k[1]] = m
    BY <1>2 DEF m
  <2>1. CASE Known(m) /\ rows[m].ptr = k
    <3>1. Skips(m, k)
      BY <1>4, <2>1
    <3> QED
      BY <1>m, <2>0, <2>1, <3>1, SkipStep
  <2>2. CASE ~(Known(m) /\ rows[m].ptr = k)
    <3>1. Parses(m, k)
      BY <1>4, <2>2
    <3>2. rows'[n] = rows[n]
      BY <1>m, <2>0, <3>1, ParseStep
    <3> QED
      BY <3>2
  <2> QED
    BY <2>1, <2>2
<1> QED
  BY <1>1, <1>3, <1>4

(* The end of a walk takes no preview of a message that rested: the row is at
   a file that exists, or, when there is none, where it was. *)
LEMMA EndKeepsPreview ==
  ASSUME IndexInv, WalkEnds, NEW m \in Messages, Rested(m), get_preview(m)
  PROVE  get_preview(m)'
<1>t. /\ TypeOK /\ PtrInv /\ WalkInv /\ walk.on /\ walk.todo = {} /\ rows[m] \in Rows
      /\ MsgOf[rows[m].ptr[1]] = m /\ rows[m].ptr \in Coords
  <2>1. TypeOK /\ PtrInv /\ WalkInv /\ walk.on /\ walk.todo = {} /\ Known(m)
    BY DEF IndexInv, WalkEnds, get_preview
  <2>2. rows[m] \in Rows
    BY <2>1, KnownRow
  <2> QED
    BY <2>1, <2>2 DEF PtrInv, Rows
<1>d. UNCHANGED <<disk, snap, bits>> /\ OnDisk' = OnDisk /\ OnDisk \subseteq Coords
  BY DEF WalkEnds, OnDisk
<1> DEFINE r == MergeBcc(m, Reconciled(m))
           copies == {k \in OnDisk : MsgOf[k[1]] = m}
<1>r. rows'[m] = r
  BY DEF WalkEnds
<1>1. /\ copies # {} <=> r.st = "alive"
      /\ r.st = "alive" => r.ptr \in copies
  BY <1>t, EndRow
<1>2. CASE copies # {}
  <2>1. rows'[m].st = "alive" /\ rows'[m].ptr \in OnDisk
    BY <1>1, <1>2, <1>r
  <2>2. rows'[m].ptr \in Coords /\ disk[rows'[m].ptr[1]] = rows'[m].ptr[2]
    BY <2>1 DEF OnDisk
  <2>3. disk[rows'[m].ptr[1]] # "gone"
    BY <2>2, IndexAssumption, CoordParts
  <2> QED
    BY <1>d, <2>1, <2>3 DEF get_preview, Known, Alive, locate_live_file
<1>3. CASE copies = {}
  <2>1. disk[rows[m].ptr[1]] = "gone"
    <3> SUFFICES ASSUME disk[rows[m].ptr[1]] # "gone" PROVE FALSE
      OBVIOUS
    <3> DEFINE q == <<rows[m].ptr[1], disk[rows[m].ptr[1]]>>
    <3>1. rows[m].ptr[1] \in Copies
      BY <1>t, CoordParts
    <3>2. disk[rows[m].ptr[1]] \in Flags
      BY <1>t, <3>1 DEF TypeOK
    <3>3. q \in OnDisk /\ q[1] = rows[m].ptr[1]
      BY <3>1, <3>2 DEF OnDisk, Coords
    <3> QED
      BY <1>3, <1>t, <3>3
  <2>2. snapshot_bytes(m) /\ Known(m)
    BY <2>1 DEF get_preview, locate_live_file
  <2>3. m \notin walk.hashes
    <3>1. Surveyed(m)
      BY <1>t DEF WalkInv
    <3> QED
      BY <1>3, <3>1 DEF Surveyed, Walked
  <2> DEFINE q == Reconciled(m)
  <2>4. q = [rows[m] EXCEPT !.st = "deleted"]
    BY <2>2, <2>3 DEF Reconciled
  <2> HIDE DEF q
  <2>5. q \in Rows /\ q.st = "deleted" /\ q.ptr = rows[m].ptr
    BY <1>t, <2>4 DEF Rows
  <2>6. MergeBcc(m, q).st = "deleted" /\ MergeBcc(m, q).ptr = rows[m].ptr
    BY <2>5 DEF MergeBcc, Rows
  <2>7. rows'[m].st = "deleted" /\ rows'[m].ptr = rows[m].ptr
    BY <1>r, <2>6 DEF q
  <2>8. Matching(m)' = Matching(m) /\ \A s \in Matching(m) : snap'[s].files = snap[s].files
    BY <1>d DEF Matching
  <2>9. snapshot_bytes(m)'
    BY <2>2, <2>7, <2>8, StillThere
  <2> QED
    BY <2>7, <2>9 DEF get_preview, Known
<1> QED
  BY <1>2, <1>3

(* The hooks are about snapshots that were made, and prune only those that are
   gone. *)
LEMMA Book == Spec => []BookInv
<1>1. Init => BookInv
  BY DEF Init, BookInv
<1>2. IndexInv /\ BookInv /\ [Next]_vars => BookInv'
  <2> SUFFICES ASSUME TypeOK, BookInv, [Next]_vars PROVE BookInv'
    BY DEF IndexInv
  <2>t. /\ snap \in [Snaps -> [in : BOOLEAN, files : SUBSET Coords]]
        /\ bits \in [Snaps -> SUBSET Messages]
        /\ job \in [Snaps -> {"none", "taken", "forgot"}]
    BY DEF TypeOK
  <2>2. ASSUME NEW s \in Snaps, Taken(s) PROVE BookInv'
    <3>1. /\ snap'[s].files = OnDisk /\ OnDisk # {} /\ job'[s] = "taken" /\ bits' = bits
          /\ \A t \in Snaps : t # s => snap'[t] = snap[t] /\ job'[t] = job[t]
      BY <2>2, <2>t DEF Taken
    <3> QED
      BY <3>1 DEF BookInv
  <2>3. ASSUME NEW s \in Snaps, record_snapshot(s) PROVE BookInv'
    <3>1. /\ job[s] = "taken" /\ snap' = snap /\ job'[s] = "none"
          /\ \A t \in Snaps : t # s => bits'[t] = bits[t] /\ job'[t] = job[t]
      BY <2>3, <2>t DEF record_snapshot
    <3> QED
      BY <3>1 DEF BookInv
  <2>4. ASSUME NEW s \in Snaps, Forgets(s) PROVE BookInv'
    <3>1. /\ bits' = bits /\ snap[s].in /\ job'[s] = "forgot"
          /\ ~snap'[s].in /\ snap'[s].files = snap[s].files
          /\ \A t \in Snaps : t # s => snap'[t] = snap[t] /\ job'[t] = job[t]
      BY <2>4, <2>t DEF Forgets
    <3> QED
      BY <3>1 DEF BookInv
  <2>5. ASSUME NEW s \in Snaps, prune_snapshot(s) PROVE BookInv'
    <3>1. /\ bits'[s] = {} /\ snap' = snap /\ job'[s] = "none"
          /\ \A t \in Snaps : t # s => bits'[t] = bits[t] /\ job'[t] = job[t]
      BY <2>5, <2>t DEF prune_snapshot, Pruned
    <3> QED
      BY <3>1 DEF BookInv
  <2>6. CASE backfill_snapshots
    <3>1. snap' = snap /\ job' = job /\ \A s \in Snaps : bits'[s] = bits[s] \/ snap[s].in
      BY <2>6 DEF backfill_snapshots, BackfillBits
    <3> QED
      BY <3>1 DEF BookInv
  <2>7. CASE Dies
    BY <2>7 DEF Dies, BookInv
  <2>8. CASE \/ \E c \in Copies : Changes(c)
             \/ WalkStep \/ WalkRaises
             \/ \E m \in Messages : backfill_attachments(m) \/ backfill_attachment_content(m)
             \/ UNCHANGED vars
    <3>1. UNCHANGED <<snap, bits, job>>
      BY <2>8 DEF Changes, WalkStep, WalkBegins, Visits, WalkEnds, WalkRaises,
                  backfill_attachments, backfill_attachment_content, vars
    <3> QED
      BY <3>1 DEF BookInv
  <2> QED
    BY <2>2, <2>3, <2>4, <2>5, <2>6, <2>7, <2>8 DEF Next
<1> QED
  BY <1>1, <1>2, IndexTypes, PTL DEF Spec

(* A message that can be read stays readable, unless one of its copies goes or
   is renamed under a walk, a snapshot of it is forgotten, a snapshot without
   its file is said to hold it, or its row was not committed yet when the
   process died: neither walks nor hooks nor backfills take it away. *)
THEOREM PreviewsSurvive == Spec => PreviewsStay
<1> DEFINE Excused(m) ==
      \/ \E c \in Copies : MsgOf[c] = m /\ disk[c] # "gone" /\ disk'[c] = "gone"
      \/ \E c \in walk.moved : MsgOf[c] = m /\ ~walk'.on
      \/ \E s \in Snaps : m \in bits[s] /\ snap[s].in /\ ~snap'[s].in
      \/ \E s \in Snaps : m \in bits'[s] \ bits[s] /\ rows[m].ptr \notin snap[s].files
      \/ m \in walk.fresh
           A == \A m \in Messages : get_preview(m) /\ ~get_preview(m)' => Excused(m)
<1>1. IndexInv /\ BookInv /\ [Next]_vars => [A]_vars
  <2> SUFFICES ASSUME IndexInv, BookInv, [Next]_vars,
                      NEW m \in Messages, get_preview(m), ~Excused(m)
               PROVE  get_preview(m)'
    OBVIOUS
  <2>t. /\ TypeOK /\ PtrInv /\ Known(m) /\ rows[m] \in Rows
        /\ rows[m].ptr \in Coords /\ rows[m].ptr[1] \in Copies
        /\ MsgOf[rows[m].ptr[1]] = m
    <3>1. TypeOK /\ PtrInv /\ Known(m)
      BY DEF IndexInv, get_preview
    <3>2. rows[m] \in Rows
      BY <3>1, KnownRow
    <3>3. rows[m].ptr \in Coords
      BY <3>2 DEF Rows
    <3> QED
      BY <3>1, <3>2, <3>3, CoordParts DEF PtrInv
  <2>s. /\ snap \in [Snaps -> [in : BOOLEAN, files : SUBSET Coords]]
        /\ bits \in [Snaps -> SUBSET Messages]
        /\ job \in [Snaps -> {"none", "taken", "forgot"}]
        /\ rows \in [Messages -> Rows \cup {None}]
    BY <2>t DEF TypeOK
  <2>d. disk[rows[m].ptr[1]] # "gone" => disk'[rows[m].ptr[1]] # "gone"
    BY <2>t
  <2> DEFINE SameRow == rows'[m].st = rows[m].st /\ rows'[m].ptr = rows[m].ptr
  <2>1. ASSUME SameRow, UNCHANGED <<snap, bits>> PROVE get_preview(m)'
    <3>1. /\ Matching(m) \subseteq Matching(m)'
          /\ \A s \in Matching(m) : snap'[s].files = snap[s].files
          /\ \A s \in Matching(m)' : s \in Matching(m)
      BY <2>1 DEF Matching
    <3> QED
      BY <2>1, <2>d, <3>1, PreviewKept
  <2>2. CASE \E c \in Copies : Changes(c)
    BY <2>1, <2>2 DEF Changes
  <2>3. CASE WalkBegins \/ WalkRaises \/ UNCHANGED vars
    BY <2>1, <2>3 DEF WalkBegins, WalkRaises, vars
  <2>4. ASSUME NEW c \in Copies, Visits(c) PROVE get_preview(m)'
    <3>1. UNCHANGED <<snap, bits>>
      BY <2>4 DEF Visits
    <3> QED
      BY <2>1, <2>4, <2>t, <3>1, VisitRows
  <2>5. CASE WalkEnds
    <3>1. Rested(m)
      <4>1. ~walk'.on
        BY <2>5, OffWalk DEF WalkEnds
      <4> QED
        BY <4>1 DEF Rested
    <3> QED
      BY <2>5, <3>1, EndKeepsPreview
  <2>6. CASE Dies
    <3>1. PICK lost \in SUBSET walk.fresh :
            rows' = [n \in Messages |-> IF n \in lost THEN None ELSE rows[n]]
      BY <2>6 DEF Dies
    <3>2. rows'[m] = rows[m] /\ UNCHANGED <<snap, bits>>
      BY <2>6, <3>1 DEF Dies
    <3> QED
      BY <2>1, <3>2
  <2>7. ASSUME NEW n \in Messages, backfill_attachments(n) \/ backfill_attachment_content(n)
        PROVE  get_preview(m)'
    <3>1. PICK a \in {"meta", "text"} : rows' = [rows EXCEPT ![n].att = a]
      BY <2>7 DEF backfill_attachments, backfill_attachment_content
    <3>2. UNCHANGED <<snap, bits>>
      BY <2>7 DEF backfill_attachments, backfill_attachment_content
    <3>3. SameRow
      BY <2>s, <2>t, <3>1 DEF Rows
    <3> QED
      BY <2>1, <3>2, <3>3
  <2>8. ASSUME UNCHANGED <<disk, rows>>,
               \A s \in Snaps : m \in bits[s] /\ snap[s].in => m \in bits'[s],
               \A s \in Snaps : snap'[s] = snap[s] \/ m \notin bits'[s] \/ ~snap'[s].in
        PROVE  get_preview(m)'
    <3>1. \A s \in Matching(m) : m \in bits'[s] /\ snap[s].in /\ snap'[s].in /\ snap'[s] = snap[s]
      BY <2>8 DEF Matching
    <3>2. \A s \in Matching(m)' : s \in Matching(m) \/ rows[m].ptr \in snap'[s].files
      <4> SUFFICES ASSUME NEW s \in Matching(m)', rows[m].ptr \notin snap'[s].files
                   PROVE  s \in Matching(m)
        OBVIOUS
      <4>1. s \in Snaps /\ snap'[s].in /\ m \in bits'[s] /\ snap'[s] = snap[s]
        BY <2>8 DEF Matching
      <4>2. m \in bits[s]
        BY <4>1
      <4> QED
        BY <4>1, <4>2 DEF Matching
    <3>3. Matching(m) \subseteq Matching(m)' /\ \A s \in Matching(m) : snap'[s].files = snap[s].files
      BY <3>1 DEF Matching
    <3> QED
      BY <2>8, <2>d, <3>2, <3>3, PreviewKept
  <2>9. ASSUME NEW s \in Snaps, Taken(s) PROVE get_preview(m)'
    <3>1. bits[s] = {}
      <4>1. ~(snap[s].files # {} \/ snap[s].in)
        <5>1. s \in Nat /\ ~(s < s)
          BY IndexAssumption DEF Snaps
        <5> QED
          BY <2>9, <5>1 DEF Taken
      <4> QED
        BY <4>1 DEF BookInv
    <3>2. /\ UNCHANGED <<disk, rows, bits>>
          /\ \A t \in Snaps : t # s => snap'[t] = snap[t]
      BY <2>9, <2>s DEF Taken
    <3> QED
      BY <2>8, <3>1, <3>2
  <2>10. ASSUME NEW s \in Snaps, record_snapshot(s) PROVE get_preview(m)'
    <3>1. UNCHANGED <<disk, rows, snap>> /\ \A t \in Snaps : bits[t] \subseteq bits'[t]
      BY <2>10, <2>s DEF record_snapshot
    <3> QED
      BY <2>8, <3>1
  <2>11. ASSUME NEW s \in Snaps, Forgets(s) PROVE get_preview(m)'
    <3>1. /\ UNCHANGED <<disk, rows, bits>> /\ ~snap'[s].in
          /\ \A t \in Snaps : t # s => snap'[t] = snap[t]
      BY <2>11, <2>s DEF Forgets
    <3> QED
      BY <2>8, <3>1
  <2>12. ASSUME NEW s \in Snaps, prune_snapshot(s) PROVE get_preview(m)'
    <3>1. /\ UNCHANGED <<disk, rows, snap>> /\ job[s] = "forgot"
          /\ \A t \in Snaps : t # s => bits'[t] = bits[t]
      BY <2>12, <2>s DEF prune_snapshot, Pruned
    <3>2. ~snap[s].in
      BY <3>1 DEF BookInv
    <3> QED
      BY <2>8, <3>1, <3>2
  <2>13. CASE backfill_snapshots
    <3>1. UNCHANGED <<disk, rows, snap>> /\ \A t \in Snaps : bits[t] \subseteq bits'[t]
      BY <2>13 DEF backfill_snapshots, BackfillBits
    <3> QED
      BY <2>8, <3>1
  <2> QED
    BY <2>2, <2>3, <2>4, <2>5, <2>6, <2>7, <2>9, <2>10, <2>11, <2>12, <2>13
       DEF Next, WalkStep
<1> QED
  BY <1>1, IndexTypes, Book, PTL DEF Spec, PreviewsStay
=============================================================================
