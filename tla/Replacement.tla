----------------------------- MODULE Replacement -----------------------------
(* What the restore of a backup bundle promises about the data it replaces:    *)
(* all of the chosen components change together or none does, an error leaves  *)
(* everything as it was, and whatever an interrupted or half rolled back       *)
(* restore takes away is in the recovery directory.                            *)
EXTENDS Integers

CONSTANTS
    Components,     \* the parts of the metadata a bundle may hold
    Data,           \* what a component may contain
    absent          \* nothing, one of Data

VARIABLES
    data,           \* data[c]: the contents of component c
    saved,          \* <<c, d>>: a verified copy of d is in the recovery directory
    answer          \* what the last restore told its caller

rvars == <<data, saved, answer>>

RInit ==
    /\ data \in [Components -> Data]
    /\ saved = {}
    /\ answer = "none"

\* Every component of S that changes has its old contents saved, or had none.
Recoverable(S) ==
    \A c \in S : data'[c] = data[c] \/ data[c] = absent \/ <<c, data[c]>> \in saved'

Begin ==
    /\ answer' = "busy"
    /\ UNCHANGED <<data, saved>>

\* Copies are only added.
Save ==
    /\ answer = "busy"
    /\ saved \subseteq saved'
    /\ UNCHANGED <<data, answer>>

\* One version replaces the components of S, and nothing else changes.
Replace ==
    /\ answer = "busy"
    /\ answer' \in {"restored", "unfinished"}
    /\ \E S \in SUBSET Components, d \in Data \ {absent} :
          data' = [c \in Components |-> IF c \in S THEN d ELSE data[c]]
    /\ Recoverable(Components)
    /\ UNCHANGED saved

Keep ==
    /\ answer = "busy"
    /\ answer' = "failed"
    /\ UNCHANGED <<data, saved>>

\* A crash, or a rollback that failed and says so.
Damage ==
    /\ answer = "busy"
    /\ answer' \in {"needs recovery", "crashed"}
    /\ data' \in [Components -> Data]
    /\ Recoverable(Components)
    /\ UNCHANGED saved

\* The library at work, and a start that creates what is missing.
Use ==
    /\ answer # "busy"
    /\ answer' = "none"
    /\ data' \in [Components -> Data]
    /\ UNCHANGED saved

RNext == Begin \/ Save \/ Replace \/ Keep \/ Damage \/ Use

ReplacementSpec == RInit /\ [][RNext]_rvars

===============================================================================
