--------------------------- MODULE DropOwnership ---------------------------
(***************************************************************************)
(* What the ground promises a player, without keys, floor, cells or clocks: *)
(* a drop falls once and for one character, nobody else ever gets it into   *)
(* the hand, out of the hand it becomes one row of a bag or is lost, and    *)
(* what is lost or kept does not lie on the ground again.  Any number of    *)
(* drops may be lost at any moment.                                         *)
(***************************************************************************)
EXTENDS Naturals

CONSTANTS Drops, Characters, Nobody

VARIABLES
    place,  \* where a drop is
    owner,  \* the character it fell for
    hand,   \* the character that holds it
    rows    \* how many bag rows were made of it

dropVars == <<place, owner, hand, rows>>

Init ==
    /\ place = [d \in Drops |-> "unfallen"]
    /\ owner = [d \in Drops |-> Nobody]
    /\ hand = [d \in Drops |-> Nobody]
    /\ rows = [d \in Drops |-> 0]

Losable == {d \in Drops : place[d] \in {"fallen", "in hand"}}

\* The places when d goes to p and the lost ones go.
Moved(d, p, lost) ==
    [x \in Drops |-> IF x = d THEN p ELSE IF x \in lost THEN "gone" ELSE place[x]]

Fall(d, lost) ==
    /\ place[d] = "unfallen"
    /\ place' = Moved(d, "fallen", lost)
    /\ owner' \in {[owner EXCEPT ![d] = c] : c \in Characters}
    /\ UNCHANGED <<hand, rows>>

PickUp(d, lost) ==
    /\ place[d] = "fallen"
    /\ place' = Moved(d, "in hand", lost)
    /\ hand' = [hand EXCEPT ![d] = owner[d]]
    /\ UNCHANGED <<owner, rows>>

Keep(d, lost) ==
    /\ place[d] = "in hand"
    /\ place' = Moved(d, "kept", lost)
    /\ hand' = [hand EXCEPT ![d] = Nobody]
    /\ rows' = [rows EXCEPT ![d] = @ + 1]
    /\ UNCHANGED owner

Lose(lost) ==
    /\ place' = [x \in Drops |-> IF x \in lost THEN "gone" ELSE place[x]]
    /\ hand' = [x \in Drops |-> IF x \in lost THEN Nobody ELSE hand[x]]
    /\ UNCHANGED <<owner, rows>>

Next ==
    \E lost \in SUBSET Losable :
        \/ Lose(lost)
        \/ \E d \in Drops : Fall(d, lost) \/ PickUp(d, lost) \/ Keep(d, lost)

OwnershipSpec == Init /\ [][Next]_dropVars
=============================================================================
