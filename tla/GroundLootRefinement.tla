------------------------ MODULE GroundLootRefinement ------------------------
(***************************************************************************)
(* Floor, cells and pickups of GroundLoot implement DropOwnership while one *)
(* session is served at a time.  A drop is in the hand between the take and *)
(* the commit, and on the ground while any row, claim or reading of the     *)
(* floor could still lead to it.                                            *)
(***************************************************************************)
EXTENDS GroundLoot

InHand(s, d) == session[s].at = "commits" /\ session[s].item = d

Reachable(d) ==
    \/ \E k \in Keys : floor[k].drop = d
    \/ \E s \in Sessions :
         \/ session[s].claim = d
         \/ \E k \in Keys : session[s].rows[k].drop = d \/ session[s].standing[k] = d

PlaceOf(d) ==
    IF killer[d] = None THEN "unfallen"
    ELSE IF \E s \in Sessions : InHand(s, d) THEN "in hand"
    ELSE IF carried[d] # 0 THEN "kept"
    ELSE IF Reachable(d) THEN "fallen"
    ELSE "gone"

HandOf(d) ==
    IF \E s \in Sessions : InHand(s, d)
      THEN session[CHOOSE s \in Sessions : InHand(s, d)].character
      ELSE None

Ownership == INSTANCE DropOwnership WITH
    Nobody <- None,
    place <- [d \in Drops |-> PlaceOf(d)],
    owner <- killer,
    hand <- [d \in Drops |-> HandOf(d)],
    rows <- carried

\* Every step of the floor, the cells and the pickup is a step of the abstract
\* ground or leaves it as it is: no claim, sweep, return or recomposition of a
\* scene brings back a drop that is lost or kept, a drop reaches the hand of its
\* killer only, and a commit makes the one row that was taken.
ImplementsOwnership == Ownership!OwnershipSpec
=============================================================================
