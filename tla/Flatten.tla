------------------------------- MODULE Flatten ------------------------------
(***************************************************************************)
(* One sequence after the other: what a loop that extends a vector builds. *)
(* The operator has the name and the meaning of the one in SequencesExt,   *)
(* which is not extended: it would put Bags and other modules into the     *)
(* context of every proof step about Redactor.                             *)
(***************************************************************************)
EXTENDS Integers, Sequences, FiniteSetsExt

FlattenSeq(ss) ==
  LET upTo[i \in 0 .. Len(ss)] == IF i = 0 THEN << >> ELSE upTo[i - 1] \o ss[i]
  IN upTo[Len(ss)]
=============================================================================
