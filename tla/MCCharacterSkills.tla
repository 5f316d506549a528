------------------------- MODULE MCCharacterSkills -------------------------
(* CharacterSkills with two classes, and a skill dearer than anybody can pay. *)
EXTENDS CharacterSkills, TLC

CONSTANTS k1, k2, s1, s2

MCKit == k1 :> {s1} @@ k2 :> {s2}
MCCost == s1 :> 2 @@ s2 :> 1
=============================================================================
