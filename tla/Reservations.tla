----------------------------- MODULE Reservations -----------------------------
(***************************************************************************)
(* What backend/maintenance.py promises its callers, with no lock in it.   *)
(* Four kinds of work reserve the library: an exclusive window (backup,    *)
(* restore, automatic library check, publication of a download), a module  *)
(* transition (live enable or disable), a module operation (a request to   *)
(* an optional module) and one tool (the import pipeline).  A reservation  *)
(* is granted only while every reservation held is compatible with it.     *)
(***************************************************************************)
EXTENDS Naturals

CONSTANTS Threads, Tools, NoTool

VARIABLES windows,      \* threads inside an exclusive window
          transitions,  \* threads inside a module transition
          operations,   \* threads inside a module operation
          tool          \* the reserved tool, or NoTool

reserved == <<windows, transitions, operations, tool>>

RInit ==
    /\ windows = {}
    /\ transitions = {}
    /\ operations = {}
    /\ tool = NoTool

OpenWindow(t) ==
    /\ windows = {} /\ transitions = {} /\ tool = NoTool
    /\ windows' = {t}
    /\ UNCHANGED <<transitions, operations, tool>>

CloseWindow(t) ==
    /\ t \in windows
    /\ windows' = windows \ {t}
    /\ UNCHANGED <<transitions, operations, tool>>

BeginTransition(t) ==
    /\ windows = {} /\ transitions = {} /\ operations = {} /\ tool = NoTool
    /\ transitions' = {t}
    /\ UNCHANGED <<windows, operations, tool>>

EndTransition(t) ==
    /\ t \in transitions
    /\ transitions' = transitions \ {t}
    /\ UNCHANGED <<windows, operations, tool>>

AdmitOperation(t) ==
    /\ windows = {} /\ transitions = {} /\ t \notin operations
    /\ operations' = operations \cup {t}
    /\ UNCHANGED <<windows, transitions, tool>>

EndOperation(t) ==
    /\ t \in operations
    /\ operations' = operations \ {t}
    /\ UNCHANGED <<windows, transitions, tool>>

\* A tool may start from an admitted operation, or from inside the window of
\* the thread that starts it (the automatic library check).
StartTool(t, k) ==
    /\ tool = NoTool /\ transitions = {} /\ windows \subseteq {t}
    /\ t \in windows \cup operations
    /\ tool' = k
    /\ UNCHANGED <<windows, transitions, operations>>

EndTool ==
    /\ tool # NoTool
    /\ tool' = NoTool
    /\ UNCHANGED <<windows, transitions, operations>>

RNext ==
    \/ EndTool
    \/ \E t \in Threads :
          \/ OpenWindow(t) \/ CloseWindow(t)
          \/ BeginTransition(t) \/ EndTransition(t)
          \/ AdmitOperation(t) \/ EndOperation(t)
          \/ \E k \in Tools : StartTool(t, k)

RSpec == RInit /\ [][RNext]_reserved

===============================================================================
