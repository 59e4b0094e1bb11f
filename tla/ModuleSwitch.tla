----------------------------- MODULE ModuleSwitch ------------------------------
(***************************************************************************)
(* What live enable and disable promise the requests of an optional module *)
(* (docs/user/data-layout.md, "Disabling a module"): the switch moves only *)
(* between requests, and a request is served only while it is on.  The     *)
(* exception is a restore, which replaces the choice and asks for a        *)
(* restart.                                                                *)
(***************************************************************************)
CONSTANTS Requests

VARIABLES on,       \* the persisted choice
          replaced, \* a restore replaced it since the last start
          serving   \* requests admitted to the module

switch == <<on, replaced, serving>>

SwitchInit == on \in BOOLEAN /\ replaced = FALSE /\ serving = {}

Toggle ==
    /\ serving = {}
    /\ on' = ~on
    /\ UNCHANGED <<replaced, serving>>

Serve(r) ==
    /\ on \/ replaced
    /\ r \notin serving
    /\ serving' = serving \cup {r}
    /\ UNCHANGED <<on, replaced>>

Answer(r) ==
    /\ r \in serving
    /\ serving' = serving \ {r}
    /\ UNCHANGED <<on, replaced>>

\* The server dies with the requests it was serving.
Die ==
    /\ serving' = {}
    /\ replaced' = FALSE
    /\ UNCHANGED on

\* What is being served goes on.
Replace ==
    /\ ~replaced
    /\ replaced' = TRUE
    /\ on' \in BOOLEAN
    /\ UNCHANGED serving

SwitchNext == Toggle \/ Die \/ Replace \/ \E r \in Requests : Serve(r) \/ Answer(r)

SwitchSpec == SwitchInit /\ [][SwitchNext]_switch

===============================================================================
