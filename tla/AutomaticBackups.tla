--------------------------- MODULE AutomaticBackups ---------------------------
(* run_automatic_backup of automatic_backups.py with create_backup_bundle of   *)
(* backup_bundle.py: an archive, the ledger of the archives the application    *)
(* owns, and the retention that deletes old ones, against failures, crashes    *)
(* and a user who deletes and changes files.                                   *)
(*                                                                             *)
(* The loop runs one backup at a time, in a maintenance window, and configuring *)
(* takes such a window too.  Automatic bundles are numbered in the order they  *)
(* are made, and recorded in that order: a list of records is the set of their *)
(* numbers.  Manual ones never enter the ledger and are left out.  A file that *)
(* is a symbolic link or leads elsewhere is passed over like a changed one.    *)
EXTENDS Integers, FiniteSets

CONSTANTS
    MaxBundles,     \* bound: automatic bundles in a behaviour
    Directories,    \* backup locations the user may configure
    Retentions,     \* numbers of bundles the user may ask to keep
    MaxEvents       \* bound: changes by the user and crashes in a behaviour

ASSUME BundleAssumption == MaxBundles \in Nat \ {0} /\ MaxEvents \in Nat
ASSUME RetentionAssumption == Retentions \subseteq Nat \ {0}

VARIABLES
    file,           \* file[b]: what is on disk of bundle b
    place,          \* place[b]: the directory it was made in
    digest,         \* digest[b]: the contents its ledger entry names
    made,           \* bundles begun so far
    ledger,         \* the owned bundles on record
    result,         \* the last run's result on record
    stage,          \* the run's position
    state,          \* the run's copy of the ledger
    entries,        \* recorded bundles that retention still has to look at
    removed,        \* those whose record is to be dropped
    stuck,          \* history: bundles this run could not delete
    enabled, retention, directory,      \* the configuration
    signature,      \* the configuration the schedule has seen, if any
    next,           \* the schedule's next attempt
    events          \* bound

fileVars   == <<file, place, made>>
ledgerVars == <<ledger, result>>
runVars    == <<stage, state, entries, removed, stuck>>
options    == <<enabled, retention, directory>>
schedule   == <<signature, next>>
backupVars == <<fileVars, digest, ledgerVars, runVars, options, schedule, events>>

Bundles == 1..MaxBundles
Contents == {"none", "partial", "whole", "changed"}
Local(s) == {b \in s : place[b] = directory}
First(s) == CHOOSE b \in s : \A c \in s : b <= c

\* All but the newest few.
Oldest(s, keep) == {b \in s : Cardinality({n \in s : n > b}) >= keep}

BackupInit ==
    /\ file = [b \in Bundles |-> "none"]
    /\ directory \in Directories
    /\ place = [b \in Bundles |-> directory]
    /\ digest = [b \in Bundles |-> "none"]
    /\ made = 0
    /\ ledger = {}
    /\ result = "none"
    /\ stage = "idle"
    /\ state = {}
    /\ entries = {}
    /\ removed = {}
    /\ stuck = {}
    /\ enabled \in BOOLEAN
    /\ retention \in Retentions
    /\ signature = {} /\ next = "never"
    /\ events = 0

-------------------------------------------------------------------------------
(* The schedule, which the loop looks at every few seconds.                   *)

\* A change of the configuration starts the countdown anew.
Reschedule ==
    /\ stage = "idle"
    /\ signature # {enabled}
    /\ signature' = {enabled}
    /\ next' = IF enabled THEN "later" ELSE "never"
    /\ UNCHANGED <<fileVars, digest, ledgerVars, runVars, options, events>>

Elapse ==
    /\ next = "later" /\ stage = "idle"
    /\ next' = "now"
    /\ UNCHANGED <<fileVars, digest, ledgerVars, runVars, options, signature, events>>

\* While another operation is active the window is refused, and once backups
\* were disabled nothing is made: the run is put off.
Deferred ==
    /\ stage = "idle"
    /\ next = "now"
    /\ next' = "later"
    /\ UNCHANGED <<fileVars, digest, ledgerVars, runVars, options, signature, events>>

\* The next attempt, whatever became of this one, is an interval away.
EndRun ==
    /\ stage' = "idle"
    /\ next' = "later"
    /\ UNCHANGED signature

-------------------------------------------------------------------------------
(* The run.                                                                   *)

\* It is due, the window is granted and backups are enabled still.
EnterWindow ==
    /\ stage = "idle"
    /\ next = "now" /\ enabled
    /\ made < MaxBundles
    /\ stage' = "create"
    /\ stuck' = {}
    /\ UNCHANGED <<fileVars, digest, ledgerVars, state, entries, removed,
                   options, schedule, events>>

\* The archive is written under a name that no file and no earlier attempt has.
WriteArchive ==
    /\ stage = "create"
    /\ made' = made + 1
    /\ file' = [file EXCEPT ![made + 1] = "partial"]
    /\ place' = [place EXCEPT ![made + 1] = directory]
    /\ stage' = "archive"
    /\ UNCHANGED <<digest, ledgerVars, state, entries, removed, stuck, options, schedule, events>>

\* It is verified and renamed.
PublishArchive ==
    /\ stage = "archive"
    /\ file[made] = "partial"
    /\ file' = [file EXCEPT ![made] = "whole"]
    /\ stage' = "record"
    /\ UNCHANGED <<place, made, digest, ledgerVars, state, entries, removed, stuck,
                   options, schedule, events>>

\* What is read of the ledger: an unreadable one counts as empty.
Readings == {ledger, {}}

\* The entry of the new bundle is added and retention is due for the recorded
\* bundles of list, but the newest few.
Recording(list, keep) ==
    /\ stage = "record"
    /\ file[made] # "none"
    /\ digest' = [digest EXCEPT ![made] = file[made]]
    /\ entries' = Oldest(list, keep)
    /\ removed' = {}
    /\ stage' = "retain"
    /\ UNCHANGED <<fileVars, stuck, options, schedule, events>>

Persisting == ledger' = state' /\ result' = "success"
Appending == \E read \in Readings : state' = read \cup {made}

\* Mutant: one bundle more is kept than the user asked for.
RecordLong == Appending /\ Recording(Local(state'), retention + 1) /\ Persisting

\* Mutant: retention looks at the bundles of every location.
RecordEverywhere == Appending /\ Recording(state', retention) /\ Persisting

\* Mutant: the ledger is written only after retention.
RecordLater == Appending /\ Recording(Local(state'), retention) /\ UNCHANGED ledgerVars

\* The new bundle is on record before retention looks at the others.
Record == Appending /\ Recording(Local(state'), retention) /\ Persisting

\* A bundle that is gone is dropped from the record.  One that is as recorded is
\* about to be deleted.  One that was changed, or that cannot be read, stays.
Inspect ==
    /\ stage = "retain"
    /\ entries # {}
    /\ LET b == First(entries)
       IN \/ /\ file[b] = digest[b]
             /\ stage' = "unlink"
             /\ UNCHANGED <<entries, removed, stuck>>
          \/ /\ entries' = entries \ {b}
             /\ removed' = IF file[b] = "none" THEN removed \cup {b} ELSE removed
             /\ stuck' = IF file[b] = digest[b] THEN stuck \cup {b} ELSE stuck
             /\ UNCHANGED stage
    /\ UNCHANGED <<fileVars, digest, ledgerVars, state, options, schedule, events>>

\* Mutant: the record is dropped whether or not the file could be deleted.
UnlinkAnyway ==
    /\ stage = "unlink"
    /\ stage' = "retain"
    /\ entries' = entries \ {First(entries)}
    /\ removed' = removed \cup {First(entries)}
    /\ file' \in {file, [file EXCEPT ![First(entries)] = "none"]}
    /\ UNCHANGED <<place, made, digest, ledgerVars, state, stuck, options, schedule, events>>

\* An error, a file that is gone by now included, leaves the entry on record.
Unlink ==
    /\ stage = "unlink"
    /\ stage' = "retain"
    /\ entries' = entries \ {First(entries)}
    /\ LET b == First(entries)
       IN \/ /\ file[b] # "none"
             /\ file' = [file EXCEPT ![b] = "none"]
             /\ removed' = removed \cup {b}
             /\ UNCHANGED stuck
          \/ /\ stuck' = stuck \cup {b}
             /\ UNCHANGED <<file, removed>>
    /\ UNCHANGED <<place, made, digest, ledgerVars, state, options, schedule, events>>

WriteBack ==
    /\ stage = "retain"
    /\ entries = {}
    /\ ledger' = state \ removed
    /\ EndRun
    /\ UNCHANGED <<fileVars, digest, result, state, entries, removed, stuck,
                   options, events>>

\* An archive, a digest or a write of the ledger may raise.
BackupFails ==
    /\ \/ stage \in {"create", "archive", "record"}
       \/ stage = "retain" /\ entries = {}
    /\ stage' = "failed"
    /\ UNCHANGED <<fileVars, digest, ledgerVars, state, entries, removed, stuck,
                   options, schedule, events>>

\* The failure is recorded beside what can be read of the ledger, if it can be
\* written.
RecordFailure ==
    /\ stage = "failed"
    /\ EndRun
    /\ \/ ledger' \in Readings /\ result' = "failed"
       \/ UNCHANGED ledgerVars
    /\ UNCHANGED <<fileVars, digest, state, entries, removed, stuck, options, events>>

Run == Reschedule \/ Elapse \/ Deferred \/ EnterWindow \/ WriteArchive \/ PublishArchive \/ Record \/ Inspect \/ Unlink
       \/ WriteBack \/ BackupFails \/ RecordFailure

-------------------------------------------------------------------------------
(* The user and the machine.                                                  *)

Event == events < MaxEvents /\ events' = events + 1

UserDelete(b) ==
    /\ Event
    /\ file[b] # "none"
    /\ file' = [file EXCEPT ![b] = "none"]
    /\ UNCHANGED <<place, made, digest, ledgerVars, runVars, options, schedule>>

UserChange(b) ==
    /\ Event
    /\ file[b] = "whole"
    /\ file' = [file EXCEPT ![b] = "changed"]
    /\ UNCHANGED <<place, made, digest, ledgerVars, runVars, options, schedule>>

\* Their frequency, which the schedule looks at too, may be changed as well.
Configure ==
    /\ Event
    /\ stage = "idle"
    /\ enabled' \in BOOLEAN
    /\ retention' \in Retentions
    /\ directory' \in Directories
    /\ options' # options
    /\ signature' \in {signature, {}}
    /\ UNCHANGED <<fileVars, digest, ledgerVars, runVars, next>>

\* The ledger is replaced by a rename: a crash leaves the old one or the new.
BackupCrash ==
    /\ Event
    /\ stage # "idle"
    /\ stage' = "idle"
    /\ signature' = {} /\ next' = "never"
    /\ UNCHANGED <<fileVars, digest, ledgerVars, state, entries, removed, stuck, options>>

BackupNext ==
    \/ Run
    \/ \E b \in Bundles : UserDelete(b) \/ UserChange(b)
    \/ Configure
    \/ BackupCrash

BackupSpec == BackupInit /\ [][BackupNext]_backupVars

-------------------------------------------------------------------------------
(* Properties.                                                                *)

BackupTypeOK ==
    /\ file \in [Bundles -> Contents]
    /\ place \in [Bundles -> Directories]
    /\ digest \in [Bundles -> Contents \ {"partial"}]
    /\ made \in 0..MaxBundles
    /\ ledger \subseteq Bundles /\ state \subseteq Bundles /\ entries \subseteq Bundles
    /\ removed \subseteq Bundles /\ stuck \subseteq Bundles
    /\ result \in {"none", "success", "failed"}
    /\ stage \in {"idle", "create", "archive", "record", "retain", "unlink", "failed"}
    /\ enabled \in BOOLEAN
    /\ retention \in Retentions
    /\ directory \in Directories
    /\ signature \in SUBSET BOOLEAN /\ next \in {"never", "later", "now"}
    /\ events \in 0..MaxEvents

\* Whenever the program is about to delete a bundle, the newest one is on record
\* and so are as many newer ones of that directory as the user asked to keep: "A
\* verified newer backup already exists".
NewerAreOnRecord ==
    stage = "unlink" =>
        LET b == First(entries)
        IN /\ {b, made} \subseteq ledger
           /\ retention <= Cardinality({n \in ledger :
                                           n > b /\ place[n] = directory})

\* What every state of the automatic backups has to satisfy.
BackupSound == BackupTypeOK /\ NewerAreOnRecord

\* What disappears, unless the user deletes it, is a bundle on record that was
\* made in the location configured now: nothing in an older location is touched,
\* and nothing an unreadable ledger or a crash kept off the record.
RetiresOnlyItsOwn ==
    [][\A b \in Bundles :
         file[b] # "none" /\ file'[b] = "none" /\ events' = events =>
             /\ b \in ledger
             /\ place[b] = directory]_backupVars

\* Retention forgets a bundle only when nothing is left of it, so what it fails
\* to delete is tried again.
ForgetsOnlyTheGone ==
    [][stage = "retain" =>
         \A b \in ledger : file[b] # "none" => b \in ledger']_backupVars

\* When a run ends without an error, no more bundles of the configured location
\* are on record unchanged than the user asked for, except those that could not
\* be deleted.
NoMoreThanRetention ==
    [][stage = "retain" /\ stage' = "idle" /\ events' = events =>
         Cardinality({b \in ledger' :
                        /\ place[b] = directory
                        /\ file[b] = digest[b]
                        /\ b \notin stuck}) <= retention]_backupVars

===============================================================================
