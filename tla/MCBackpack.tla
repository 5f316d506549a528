----------------------------- MODULE MCBackpack -----------------------------
(* Backpack on a bag of five slots. *)
EXTENDS Backpack, TLC

\* Into an occupied slot, to a free one, onto itself, of a row that is not there.
MCRequests == {<<3, 0>>, <<1, 3>>, <<2, 4>>, <<2, 1>>, <<7, 2>>}

Symmetry == Permutations(Connections)
=============================================================================
