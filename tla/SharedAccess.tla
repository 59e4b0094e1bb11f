----------------------------- MODULE SharedAccess -----------------------------
(***************************************************************************)
(* What the docstrings of backend/database_connections.py promise: any     *)
(* number of requests share the databases, and a restore has them to       *)
(* itself.                                                                 *)
(***************************************************************************)
CONSTANTS Threads

VARIABLE access   \* [Threads -> {"none", "shared", "exclusive"}]

SInit == access = [t \in Threads |-> "none"]

Share(t) ==
    /\ access[t] = "none"
    /\ \A u \in Threads : access[u] # "exclusive"
    /\ access' = [access EXCEPT ![t] = "shared"]

Exclude(t) ==
    /\ \A u \in Threads : access[u] = "none"
    /\ access' = [access EXCEPT ![t] = "exclusive"]

Leave(t) ==
    /\ access[t] # "none"
    /\ access' = [access EXCEPT ![t] = "none"]

SNext == \E t \in Threads : Share(t) \/ Exclude(t) \/ Leave(t)

SSpec == SInit /\ [][SNext]_access

===============================================================================
