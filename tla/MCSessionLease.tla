--------------------------- MODULE MCSessionLease ---------------------------
(* Small instances of SessionLease for TLC. *)
EXTENDS SessionLeaseRefinement, TLC

MCSelectors == 0..1

Symmetry ==
    Permutations(Connections) \cup Permutations(SessionIds)
        \cup Permutations(CharacterIds) \cup Permutations(Fingerprints)
        \cup Permutations(Accounts)
=============================================================================
