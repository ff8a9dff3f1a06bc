-------------------------------- MODULE Lists --------------------------------
(***************************************************************************)
(* What the modules share about lists.                                     *)
(***************************************************************************)
EXTENDS Naturals, Sequences, SequencesExt

\* The elements that are not gone, in their order (`filter`).
Without(list, gone) ==
  FoldLeft(LAMBDA kept, x : IF x \in gone THEN kept ELSE Append(kept, x), <<>>, list)
=============================================================================
