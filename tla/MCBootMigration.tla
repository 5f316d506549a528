-------------------------- MODULE MCBootMigration --------------------------
(* BootMigration with two releases of three files and one with an edited file. *)
EXTENDS BootMigration

FirstRelease == <<1, 0, 0>>
NextRelease == <<1, 2, 3>>
EditedRelease == <<4, 2, 3>>

MCReleases == {FirstRelease, NextRelease, EditedRelease}
MCOldest == FirstRelease
MCRebuilds == {2}
=============================================================================
