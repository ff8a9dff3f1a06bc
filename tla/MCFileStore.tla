----------------------------- MODULE MCFileStore -----------------------------
(***************************************************************************)
(* Instances of FileStore for TLC.  Call slots are interchangeable; the    *)
(* events they would append are among them, so EventIds is permuted too.   *)
(***************************************************************************)
EXTENDS FileStore, TLC

AllButSave == Kinds \ {"save"}

\* An annotation one agent has acknowledged, and no file at all.
Acknowledged ==
  [ content |-> 1, status |-> "in_progress", rev |-> 2,
    lifecycle |-> <<[type |-> "created", id |-> Null], [type |-> "acknowledged", id |-> Null]>> ]
Empty == [id \in Ids |-> Null]
EmptyOrFull == {Empty, [id \in Ids |-> Acknowledged]}
HalfFull == {[Empty EXCEPT ![CHOOSE id \in Ids : TRUE] = Acknowledged]}
OnlyFull == {[id \in Ids |-> Acknowledged]}

Symmetry == Permutations(Calls)
=============================================================================
