----------------------------- MODULE MCMobLife -----------------------------
(* MobLife with two scenes that share a monster's identity. *)
EXTENDS MobLife, TLC

CONSTANTS f, g, m, n

MCRoster == f :> {m, n} @@ g :> {m}
=============================================================================
