------------------------------- MODULE Restore -------------------------------
(* restore_backup_bundle of backup_bundle.py: the replacement of live          *)
(* databases and directories by those of a bundle, its rollback, and a crash   *)
(* at any step.                                                                *)
(*                                                                             *)
(* A component is a directory (one path, "main") or an SQLite database (its    *)
(* file and its journals; -wal and -shm are handled alike and are one path     *)
(* here).  Contents are version numbers; reading and checking the archive,     *)
(* which changes nothing live, precedes Begin.  The maintenance window and the *)
(* database gate, which Maintenance and DatabaseGate model, keep the library   *)
(* from writing while a restore runs, hence Edit's guard.  Components are      *)
(* taken in any order; the code's is fixed.                                    *)
EXTENDS Integers, Sequences, SequencesExt

CONSTANTS
    Components,     \* what a bundle may hold
    Databases,      \* the components that are SQLite files
    absent,         \* the contents of a path where nothing is
    fresh,          \* the contents of an empty database, which a start creates
    MaxVersion      \* bound: versions written in a behaviour

ASSUME ComponentsAssumption == Databases \subseteq Components
ASSUME VersionAssumption == MaxVersion \in Nat

ASSUME ContentsAssumption == absent \notin Nat /\ fresh \notin Nat /\ absent # fresh

VARIABLES
    live,           \* live[c][p]: what is at path p of component c
    previous,       \* previous[c][p]: what the running restore moved aside
    recovery,       \* <<c, d>>: copies in the recovery directory, kept for ever
    last,           \* the newest version
    pc,             \* the restore's position, "idle" or "down"
    left,           \* components not replaced yet
    at,             \* the component being replaced
    chosen,         \* all components of the running restore
    applied,        \* the moves to undo, oldest first
    failures,       \* an undo failed
    outcome,        \* what the caller is told
    base            \* history: live when the restore began

vars == <<live, previous, recovery, last, pc, left, at, chosen, applied,
          failures, outcome, base>>

Path == {"main", "journal"}
Versions == 0..MaxVersion
Data == Versions \cup {fresh, absent}
Nothing == [c \in Components |-> [p \in Path |-> absent]]
Steps == {"next", "save", "main", "journal", "install", "cleanup", "rollback"}
Outcomes == {"none", "busy", "restored", "unfinished", "failed",
             "needs recovery", "crashed"}
Running == pc \in Steps

Put(f, c, p, d) == [f EXCEPT ![c][p] = d]

Init ==
    /\ live \in {[c \in Components |->
                    [p \in Path |-> IF p = "main" THEN first[c] ELSE absent]] :
                 first \in {f \in [Components -> {0, absent}] :
                              \A c \in Databases : f[c] = 0}}
    /\ previous = Nothing
    /\ recovery = {}
    /\ last = 0
    /\ pc = "idle"
    /\ left = {}
    /\ at \in Components
    /\ chosen = {}
    /\ applied = <<>>
    /\ failures = FALSE
    /\ outcome = "none"
    /\ base = live

-------------------------------------------------------------------------------
(* The restore.                                                               *)

\* A bundle that holds version last + 1 of the components of S.
Begin(S) ==
    /\ pc = "idle"
    /\ last < MaxVersion
    /\ last' = last + 1
    /\ pc' = "next"
    /\ left' = S
    /\ chosen' = S
    /\ previous' = Nothing
    /\ applied' = <<>>
    /\ failures' = FALSE
    /\ outcome' = "busy"
    /\ base' = live
    /\ UNCHANGED <<live, recovery, at>>

\* The checkpoint empties the journal of a database; closing its only
\* connection deletes it.  Then the new contents are copied beside the old.
Prepare(c) ==
    /\ pc = "next"
    /\ c \in left
    /\ left' = left \ {c}
    /\ at' = c
    /\ pc' = "save"
    /\ live' \in IF c \in Databases /\ live[c]["main"] # absent
                 THEN {live, Put(live, c, "journal", absent)}
                 ELSE {live}
    /\ UNCHANGED <<previous, recovery, last, chosen, applied, failures, outcome, base>>

\* Mutant: every restore uses one recovery directory and keeps what is there.
SaveLiveOnce ==
    /\ pc = "save"
    /\ pc' = "main"
    /\ recovery' = IF \E d \in Data : <<at, d>> \in recovery
                   THEN recovery
                   ELSE recovery \cup ({<<at, live[at]["main"]>>} \ {<<at, absent>>})
    /\ UNCHANGED <<live, previous, last, left, at, chosen, applied, failures,
                   outcome, base>>

SaveLive ==
    /\ pc = "save"
    /\ pc' = "main"
    /\ recovery' = recovery \cup ({<<at, live[at]["main"]>>} \ {<<at, absent>>})
    /\ UNCHANGED <<live, previous, last, left, at, chosen, applied, failures,
                   outcome, base>>

\* The iteration for path p: it is recorded whether or not there is something.
MoveAside(p) ==
    /\ live' = Put(live, at, p, absent)
    /\ previous' = Put(previous, at, p, live[at][p])
    /\ applied' = Append(applied, <<at, p>>)

\* Mutant: the journals of a database stay where they are.
MoveMainAlone ==
    /\ pc = "main"
    /\ MoveAside("main")
    /\ pc' = "install"
    /\ UNCHANGED <<recovery, last, left, at, chosen, failures, outcome, base>>

MoveMain ==
    /\ pc = "main"
    /\ MoveAside("main")
    /\ pc' = IF at \in Databases THEN "journal" ELSE "install"
    /\ UNCHANGED <<recovery, last, left, at, chosen, failures, outcome, base>>

MoveJournal ==
    /\ pc = "journal"
    /\ MoveAside("journal")
    /\ pc' = "install"
    /\ UNCHANGED <<recovery, last, left, at, chosen, failures, outcome, base>>

Install ==
    /\ pc = "install"
    /\ live' = Put(live, at, "main", last)
    /\ pc' = "next"
    /\ UNCHANGED <<previous, recovery, last, left, at, chosen, applied, failures,
                   outcome, base>>

\* The final checks open each new database, may leave journals beside it and
\* may find it damaged.
Check ==
    /\ pc = "next"
    /\ left = {}
    /\ pc' \in {"cleanup", "rollback"}
    /\ \E opened \in SUBSET (chosen \cap Databases) :
          live' = [c \in Components |-> IF c \in opened
                                        THEN [live[c] EXCEPT !["journal"] = last]
                                        ELSE live[c]]
    /\ UNCHANGED <<previous, recovery, last, left, at, chosen, applied, failures,
                   outcome, base>>

\* Any step may raise: a busy database, a full disk, a refused rename, a copy
\* that does not verify.
Fail ==
    /\ pc \in {"next", "save", "main", "journal", "install"}
    /\ pc' = "rollback"
    /\ UNCHANGED <<live, previous, recovery, last, left, at, chosen, applied,
                   failures, outcome, base>>

\* Mutant: a path that was empty is not undone.
UndoReplaced ==
    /\ pc = "rollback"
    /\ applied # <<>>
    /\ \E c \in Components, p \in Path :
          /\ Last(applied) = <<c, p>>
          /\ live' = IF previous[c][p] = absent THEN live
                     ELSE Put(live, c, p, previous[c][p])
    /\ applied' = Front(applied)
    /\ UNCHANGED <<previous, recovery, last, pc, left, at, chosen, failures,
                   outcome, base>>

\* Undo the newest move.  An error before the first rename leaves the path as it
\* is; an error of the second leaves nothing there.  Both are remembered.
Undo ==
    /\ pc = "rollback"
    /\ applied # <<>>
    /\ \E c \in Components, p \in Path :
          /\ Last(applied) = <<c, p>>
          /\ \/ /\ live' = Put(live, c, p, previous[c][p])
                /\ UNCHANGED failures
             \/ /\ live[c][p] # absent
                /\ failures' = TRUE
                /\ UNCHANGED live
             \/ /\ previous[c][p] # absent
                /\ live' = Put(live, c, p, absent)
                /\ failures' = TRUE
    /\ applied' = Front(applied)
    /\ UNCHANGED <<previous, recovery, last, pc, left, at, chosen, outcome, base>>

\* Mutant: the errors of the rollback are only logged.
EndRollbackAnyway ==
    /\ pc = "rollback"
    /\ applied = <<>>
    /\ pc' = "idle"
    /\ outcome' = "failed"
    /\ left' = {}
    /\ failures' = FALSE
    /\ previous' = Nothing
    /\ UNCHANGED <<live, recovery, last, at, chosen, applied, base>>

\* The error is raised again; the local copies are deleted unless an undo failed.
EndRollback ==
    /\ pc = "rollback"
    /\ applied = <<>>
    /\ pc' = "idle"
    /\ outcome' = IF failures THEN "needs recovery" ELSE "failed"
    /\ left' = {}
    /\ failures' = FALSE
    /\ previous' = Nothing
    /\ UNCHANGED <<live, recovery, last, at, chosen, applied, base>>

\* The originals beside the live data are deleted.  When that raises, the caller
\* is told of an error although everything is installed ("unfinished").
Cleanup ==
    /\ pc = "cleanup"
    /\ pc' = "idle"
    /\ previous' = Nothing
    /\ applied' = <<>>
    /\ outcome' \in {"restored", "unfinished"}
    /\ UNCHANGED <<live, recovery, last, left, at, chosen, failures, base>>

-------------------------------------------------------------------------------
(* The library around it.                                                     *)

Crash ==
    /\ Running
    /\ pc' = "down"
    /\ outcome' = "crashed"
    /\ left' = {}
    /\ applied' = <<>>
    /\ failures' = FALSE
    /\ previous' = Nothing
    /\ UNCHANGED <<live, recovery, last, at, chosen, base>>

\* init_user_db and init_data_db create what is missing; SQLite opens each
\* database and discards a journal that the checkpoint emptied.
Start ==
    /\ pc \in {"down", "idle"}
    /\ pc' = "idle"
    /\ outcome' = "none"
    /\ live' = [c \in Components |->
                  IF c \in Databases
                  THEN [p \in Path |-> IF p = "journal" THEN absent
                                       ELSE IF live[c][p] = absent THEN fresh
                                       ELSE live[c][p]]
                  ELSE live[c]]
    /\ base' = live'
    /\ chosen' = {}
    /\ UNCHANGED <<previous, recovery, last, left, at, applied, failures>>

\* The library writes component c; a database may keep a journal.
Edit(c) ==
    /\ pc = "idle"
    /\ last < MaxVersion
    /\ c \in Databases => live[c]["main"] # absent
    /\ last' = last + 1
    /\ outcome' = "none"
    /\ live' \in {Put(Put(live, c, "main", last + 1), c, "journal", j) :
                  j \in IF c \in Databases THEN {absent, last + 1} ELSE {absent}}
    /\ base' = live'
    /\ chosen' = {}
    /\ UNCHANGED <<previous, recovery, pc, left, at, applied, failures>>

Next ==
    \/ \E S \in SUBSET Components \ {{}} : Begin(S)
    \/ \E c \in Components : Prepare(c) \/ Edit(c)
    \/ SaveLive \/ MoveMain \/ MoveJournal \/ Install \/ Check
    \/ Fail \/ Undo \/ EndRollback \/ Cleanup
    \/ Crash \/ Start

Spec == Init /\ [][Next]_vars

-------------------------------------------------------------------------------
(* Properties.                                                                *)

TypeOK ==
    /\ live \in [Components -> [Path -> Data]]
    /\ previous \in [Components -> [Path -> Data]]
    /\ recovery \subseteq Components \X (Data \ {absent})
    /\ last \in Versions
    /\ pc \in Steps \cup {"idle", "down"}
    /\ left \subseteq Components
    /\ at \in Components
    /\ chosen \subseteq Components
    /\ applied \in Seq(Components \X Path)
    /\ failures \in BOOLEAN
    /\ outcome \in Outcomes
    /\ base \in [Components -> [Path -> Data]]

\* At every step, crashes included, the contents a restore found are still in
\* place or have a copy in the recovery directory: "Previous data is copied and
\* verified in suite recovery before installation".
NothingLost ==
    Running \/ pc = "down" =>
        \A c \in Components :
            \/ live[c]["main"] = base[c]["main"]
            \/ base[c]["main"] = absent
            \/ <<c, base[c]["main"]>> \in recovery

\* A restore that answers is true to its answer: after an error every path is
\* what it was, except for a journal that the checkpoint removed; after success
\* exactly the chosen components are new.
AnswerIsTrue ==
    pc = "idle" =>
        /\ outcome = "failed" =>
             \A c \in Components :
                /\ live[c]["main"] = base[c]["main"]
                /\ live[c]["journal"] \in {absent, base[c]["journal"]}
        /\ outcome \in {"restored", "unfinished"} =>
             \A c \in Components :
                live[c]["main"] = IF c \in chosen THEN last ELSE base[c]["main"]

\* No installed database is left beside the journal of the replaced one.
JournalsBelong ==
    pc = "idle" /\ outcome \in {"restored", "unfinished"} =>
        \A c \in chosen \cap Databases :
            live[c]["journal"] \in {absent, live[c]["main"]}

\* What every state of a restore has to satisfy, besides the two above.
Sound == TypeOK /\ JournalsBelong

\* The detailed restore is an all-or-nothing replacement.  While it runs, the
\* data are those it found.
R == INSTANCE Replacement WITH
        data <- [c \in Components |-> IF Running THEN base[c]["main"]
                                      ELSE live[c]["main"]],
        saved <- recovery,
        answer <- outcome

IsAReplacement == R!ReplacementSpec

===============================================================================
