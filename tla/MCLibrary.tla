------------------------------ MODULE MCLibrary -------------------------------
(* Two copies of one image in two folders below the data root, for           *)
(* Library.tla.                                                              *)
EXTENDS Library, TLC

CONSTANTS c1, c2, i1, i2, u, v

MCMd5      == (c1 :> "h") @@ (c2 :> "h")
MCHomes    == (c1 :> "A") @@ (c2 :> "B")
MCRootPath == [p \in {"root", "A", "B"} |-> "root"]
Symmetry   == {f @@ g : f \in Permutations(Ids), g \in Permutations(Callers)}
=============================================================================
