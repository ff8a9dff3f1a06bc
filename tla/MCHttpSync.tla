----------------------------- MODULE MCHttpSync -----------------------------
(***************************************************************************)
(* Instances of HttpSync for TLC: one or two annotations, one mergeable    *)
(* field, a server that starts empty or with a pending annotation.         *)
(***************************************************************************)
EXTENDS HttpSync, TLC

Pending ==
  [ fields |-> [f \in Fields |-> <<"init", 0>>], status |-> "pending", rev |-> 1,
    lifecycle |-> <<Event("created", "init", 0)>> ]

OnePending == {[id \in Ids |-> Pending]}
NoStore == {EmptyStore}
NoneOrPending == {EmptyStore, [id \in Ids |-> Pending]}
=============================================================================
