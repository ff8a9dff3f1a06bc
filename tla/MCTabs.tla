-------------------------------- MODULE MCTabs --------------------------------
(***************************************************************************)
(* Two tabs and two projects; an older widget left one write.              *)
(***************************************************************************)
EXTENDS Tabs

CONSTANTS a

MCWrites == {<<"put", a>>}
MCBuffered == {<<a>>}

Symmetry == Permutations(TabNames) \cup Permutations(Projects)
=============================================================================
