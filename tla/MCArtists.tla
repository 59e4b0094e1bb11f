------------------------------ MODULE MCArtists -------------------------------
(* One artist with two platforms, for Artists.tla: three posts, and three    *)
(* addresses of profile images, two of them of the same image.               *)
EXTENDS Artists, TLC

CONSTANTS u, v

MCContentOf == ("first" :> "x") @@ ("again" :> "x") @@ ("other" :> "y")
Symmetry    == Permutations(Callers)
=============================================================================
