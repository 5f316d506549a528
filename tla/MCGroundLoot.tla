---------------------------- MODULE MCGroundLoot ----------------------------
(* GroundLoot on a few sessions and drops. *)
EXTENDS GroundLootRefinement, TLC

Symmetry == Permutations(Sessions) \cup Permutations(Drops)
              \cup Permutations(Characters)
=============================================================================
