------------------------------ MODULE MCRestore ------------------------------
(* Restore with the user database, the library database and the sidecars.      *)
EXTENDS Restore

CONSTANTS user, library, sidecars

AllComponents == {user, library, sidecars}
AllDatabases == {user, library}

===============================================================================
