----------------------------- MODULE ScanStages -----------------------------
(***************************************************************************)
(* What the tokenizer (shell commands) and the semantic stage (code) of    *)
(* fg-rules report, as the levels of their hits.                           *)
(*                                                                         *)
(* Parsing is not modelled.  A command is known by what its checks answer, *)
(* segment by segment; a source by what each candidate grammar finds.      *)
(***************************************************************************)
EXTENDS Flatten

L1 == 0
L2 == 1
L3 == 2
L4 == 3

\* What check_segment's tests answer; binary is that of the first word that is
\* not an assignment, "none" if every word is one.
Segment ==
  [redirect : BOOLEAN, splits : BOOLEAN, inline : BOOLEAN, target : BOOLEAN,
   binary : {"none", "destructive", "unlisted", "interpreter", "listed"}]

\* A nonblank command is refused whole, or judged by its segments.
Command ==
  [blank : BOOLEAN, substitution : BOOLEAN, unmodelled : BOOLEAN, segments : Seq(Segment)]

\* One grammar's answer: the levels of the dangerous calls, and had_error.
Grammar == [calls : Seq({L3, L4}), error : BOOLEAN]
Source == [blank : BOOLEAN, large : BOOLEAN, grammars : Seq(Grammar)]

-----------------------------------------------------------------------------
\* check_segment; L1 where the code returns None.
CheckSegment(s) ==
  IF s.redirect THEN L4
  ELSE IF ~s.splits THEN L3
  ELSE IF \/ s.binary \in {"destructive", "unlisted"}
          \/ s.binary = "interpreter" /\ s.inline
          \/ s.binary \in {"interpreter", "listed"} /\ s.target
       THEN L4
  ELSE L1

\* The levels of the hits of some segments.
SegmentHits(segments) ==
  FlattenSeq([i \in DOMAIN segments |->
               LET risk == CheckSegment(segments[i]) IN IF risk = L1 THEN << >> ELSE <<risk>>])

TokenizeCheck_firstSegment(c) ==
  IF c.blank THEN << >>
  ELSE IF c.substitution THEN <<L3>>
  ELSE IF c.unmodelled THEN <<L4>>
  ELSE SegmentHits([i \in DOMAIN c.segments \cap {1} |-> c.segments[i]])
\* Every segment is judged: a hit of one does not end the scan.
TokenizeCheck(c) ==
  IF c.blank THEN << >>
  ELSE IF c.substitution THEN <<L3>>
  ELSE IF c.unmodelled THEN <<L4>>
  ELSE SegmentHits(c.segments)

\* A grammar that parses the source is believed before one that does not; a
\* source that none parses and none objects to is an L2 hit, not a clean one.
SemanticCheck(s) ==
  LET clean == {i \in DOMAIN s.grammars : ~s.grammars[i].error}
      found == {i \in DOMAIN s.grammars : s.grammars[i].calls # << >>} IN
  IF s.blank THEN << >>
  ELSE IF s.large THEN <<L2>>
  ELSE IF clean \cap found # {} THEN s.grammars[Min(clean \cap found)].calls
  ELSE IF clean # {} THEN << >>
  ELSE IF found # {} THEN s.grammars[Min(found)].calls
  ELSE <<L2>>
=============================================================================
