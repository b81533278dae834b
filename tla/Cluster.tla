------------------------------ MODULE Cluster ------------------------------
(***************************************************************************)
(* What a daemon computes for the cluster: verify_chain_segment, which     *)
(* judges the audit records another node reports, and the comparison of    *)
(* rule epochs in guard.cluster.epoch.sync.                                *)
(*                                                                         *)
(* The node that wrote the records numbered them 1, 2, ...; record i holds *)
(* the SHA-256 of record i - 1, the first one the empty string.  Nobody    *)
(* forges a MAC: an altered record fails its check.  Records are dropped,  *)
(* repeated and reordered at will, and degraded ones carry no chain fields.*)
(***************************************************************************)
EXTENDS Integers, Sequences

CONSTANT MaxSegment  \* bound: the records of one segment

ASSUME SegmentAssumption == MaxSegment \in Nat \ {0}

\* The records a segment may hold: record i as written or altered, and one
\* without chain fields.
Received ==
  {[id |-> 1, intact |-> TRUE, chained |-> FALSE]}
  \cup [id : 1 .. MaxSegment, intact : BOOLEAN, chained : {TRUE}]

\* The predecessor a record names; 0 is the empty string.
PrevHash(r) == r.id - 1

NoAnchor == -1

Judge_linksOverBaseline(s, r) ==
  IF ~r.chained THEN [s EXCEPT !.baseline = @ + 1]
  ELSE IF ~r.intact \/ (s.anchor # NoAnchor /\ PrevHash(r) \notin {0, s.anchor})
    THEN [s EXCEPT !.broken = @ + 1, !.anchor = NoAnchor,
                   !.first = IF @ = 0 THEN s.at ELSE @]
  ELSE [s EXCEPT !.verified = @ + 1, !.anchor = r.id]

\* One turn of the loop: baseline records and broken ones reset the anchor,
\* the next record is then taken as it comes.
Judge(s, r) ==
  IF ~r.chained THEN [s EXCEPT !.baseline = @ + 1, !.anchor = NoAnchor]
  ELSE IF ~r.intact \/ (s.anchor # NoAnchor /\ PrevHash(r) \notin {0, s.anchor})
    THEN [s EXCEPT !.broken = @ + 1, !.anchor = NoAnchor,
                   !.first = IF @ = 0 THEN s.at ELSE @]
  ELSE [s EXCEPT !.verified = @ + 1, !.anchor = r.id]

\* verify_chain_segment; first is 0 for None, otherwise counted from 1.
VerifySegment(seg) ==
  LET after[i \in 0 .. Len(seg)] ==
        IF i = 0
        THEN [anchor |-> NoAnchor, verified |-> 0, broken |-> 0, baseline |-> 0,
              first |-> 0, at |-> 0]
        ELSE Judge([after[i - 1] EXCEPT !.at = i], seg[i])
  IN after[Len(seg)]

\* What the answer of epoch.sync says, and does.
Reconcile(local, cluster) ==
  IF local > cluster THEN "advance"
  ELSE IF local < cluster THEN "local_behind" ELSE "in_sync"

-----------------------------------------------------------------------------
(* A reference for VerifySegment, without a running state.                   *)

\* Two neighbours that are intact and still do not follow each other.
Mislinked(seg, i) ==
  /\ i > 1 /\ seg[i - 1].chained /\ seg[i - 1].intact /\ seg[i].chained /\ seg[i].intact
  /\ seg[i].id \notin {1, seg[i - 1].id + 1}

\* The verdict on a segment is right: it is reported exactly when a record was
\* altered or two intact neighbours do not follow each other, the first place
\* reported is the first such place, and every record is counted once.
JudgedRight(seg, v) ==
  LET Bad == {i \in 1 .. Len(seg) :
                (seg[i].chained /\ ~seg[i].intact) \/ Mislinked(seg, i)}
  IN /\ v.broken > 0 <=> Bad # {}
     /\ v.first = IF Bad = {} THEN 0 ELSE CHOOSE i \in Bad : \A j \in Bad : i <= j
     /\ v.broken <= Len(seg)
     /\ v.verified + v.broken + v.baseline = Len(seg)
=============================================================================
