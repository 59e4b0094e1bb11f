----------------------------- MODULE MCFolders ------------------------------
(* Two folders, one inside the other, with a file each, and a place to move *)
(* them to, for Folders.tla.                                                *)
EXTENDS Folders, TLC

CONSTANTS m1, m2, r1, r2

MCDirs     == {<<"a">>, <<"a", "b">>, <<"c">>, <<"c", "b">>}
MCHomes    == (m1 :> <<"a">>) @@ (m2 :> <<"a", "b">>)
Symmetry   == Permutations(Roots)
=============================================================================
