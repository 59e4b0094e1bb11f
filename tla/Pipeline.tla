------------------------------- MODULE Pipeline -------------------------------
(***************************************************************************)
(* Danbooru's pipeline (backend/modules/danbooru/pipeline.py): the child   *)
(* processes that a library tool (routers/tools.py) runs one after the     *)
(* other, over a folder of media files, their sidecars, and the index in   *)
(* danbooru.sqlite.  Only one tool runs at a time (Maintenance.tla).  The  *)
(* user changes the folder while it runs, and it can be killed between any *)
(* two steps.                                                              *)
(*                                                                         *)
(* The stamp of a file is its modification time with its size.  A stage    *)
(* commits a batch of files at once: that a batch may end after any file   *)
(* is what a commit per file stands for.  A killed stage has no other      *)
(* effect than the files it committed.  For the index that is an           *)
(* abstraction: a rebuild writes it without a journal (connect_sqlite), so *)
(* that a kill within a commit, or while pages are written ahead of it,    *)
(* may leave a file that SQLite cannot read; such an index is not a state  *)
(* of this module.                                                         *)
(***************************************************************************)
EXTENDS Integers, Sequences, FiniteSets

CONSTANTS
    Files,         \* the media files of one registered folder
    Versions,      \* contents a media file may have, each with its stamp
    Damaged,       \* contents that cannot be decoded
    Revs,          \* revisions of a file's post on Danbooru
    TagsOf,        \* the tags of a revision
    Tools,         \* the tools the user runs
    LegacyRevs,    \* what sidecars in the older layout may hold
    FailureLimit,  \* consecutive network failures that stop a run (3)
    MaxJobs, MaxEdits, MaxStamp    \* bounds

ASSUME VersionAssumption ==
    Versions \subseteq Nat \ {0} /\ Damaged \subseteq Versions /\ Versions \ Damaged # {}
ASSUME RevAssumption == Revs \subseteq Nat \ {0} /\ DOMAIN TagsOf = Revs /\ LegacyRevs \subseteq Revs
ASSUME FileAssumption == "none" \notin Files
ASSUME BoundAssumption ==
    {MaxJobs, MaxEdits} \subseteq Nat /\ {FailureLimit, MaxStamp} \subseteq Nat \ {0}

VARIABLES
    drive,     \* the folder: "here", "gone" (renamed), or on an "unplugged" drive
    media,     \* the content of each file, 0 for none
    json,      \* <file>.danbooru.json, in the current and in the older layout
    tags,      \* the stamp of <file>.tags.txt, 0 for none
    archive,   \* the copies in sidecar_archive/
    row, manifest, ledger,  \* files and posts, sync_manifest, ingest_state
    removals,  \* tag_removals in user.sqlite
    status,    \* the task's status, shown to the user
    job,       \* the running tool, its process and what that process has read
    migration, \* the background move to the current layout
    stamp, jobs, edits, \* the last sidecar stamp, and counters for the bounds
    newest,    \* history: the newest content each file had, 0 for none
    reverted,  \* history: files that got an older content back
    touched,   \* history: files the user touched since the job began
    raced      \* history: files whose new sidecars the migration replaced

disk == <<drive, media, newest, reverted, json, tags, archive>>
db   == <<row, manifest, ledger>>
vars == <<disk, db, removals, status, job, migration, stamp, jobs, edits, touched, raced>>

Layouts == {"root", "legacy"}
NoCard  == [md5 |-> 0, rev |-> 0, pending |-> FALSE, ok |-> TRUE, stamp |-> 0]
NoRow   == [md5 |-> 0, rev |-> 0, seen |-> FALSE]
NoEntry == [at |-> "none", card |-> 0, media |-> 0]
NoState == [status |-> "none", enriched |-> FALSE, metadata |-> FALSE]

\* The processes of an import's phases, and of the other tools.
ImportSteps == [import |-> <<"discover", "enrich", "backfill", "finalize">>,
                update |-> <<"discover", "enrich", "finalize">>,
                retry  |-> <<"discover", "enrich", "backfill", "finalize">>]
BackfillSteps == [backfill |-> <<"backfill">>]
ToolSteps == [sync |-> <<"sync">>, rebuild |-> <<"sqlite", "sync">>, clean |-> <<"clean">>,
              refresh |-> <<"backfill", "sync">>]
Steps ==
    [t \in DOMAIN ImportSteps \cup DOMAIN BackfillSteps \cup DOMAIN ToolSteps |->
        IF t \in DOMAIN ImportSteps THEN ImportSteps[t]
        ELSE IF t \in DOMAIN BackfillSteps THEN BackfillSteps[t] ELSE ToolSteps[t]]

ASSUME ToolAssumption == Tools \subseteq DOMAIN Steps

Idle == [tool |-> "none", steps |-> <<>>, at |-> "idle", todo |-> {}, file |-> "none",
         media |-> <<>>, cards |-> <<>>, md5s |-> <<>>, post |-> NoCard, wrong |-> FALSE,
         kind |-> "none", failures |-> 0, incomplete |-> FALSE]

Cards == [md5 : Versions \cup {0}, rev : Revs \cup {0}, pending : BOOLEAN, ok : BOOLEAN,
          stamp : 0..MaxStamp]

\* Every variable has its type; a tool that does not run holds nothing; rows
\* and manifest rows are of files, and a post is never without its file.
TypeOK ==
    /\ drive \in {"here", "gone", "unplugged"}
    /\ {media, newest} \subseteq [Files -> Versions \cup {0}]
    /\ json \in [Layouts \X Files -> Cards]
    /\ tags \in [Layouts \X Files -> 0..MaxStamp]
    /\ \A a \in archive : a.file \in Files /\ a.card \in Cards /\ a.run \in 0..MaxJobs
    /\ row \in [Files -> [md5 : Versions \cup {0}, rev : Revs \cup {0}, seen : BOOLEAN]]
    /\ \A f \in Files : row[f].seen \/ row[f] = NoRow
    /\ manifest \in [Files -> [at : Layouts \cup {"none", "media"}, card : 0..MaxStamp,
                               media : Versions \cup {0}]]
    /\ \A f \in Files : ledger[f].status \in {"none", "done", "error", "no_match", "partial"}
    /\ removals \in [Files -> SUBSET UNION {TagsOf[r] : r \in Revs}]
    /\ job.at = "idle" <=> job = Idle
    /\ stamp \in 0..MaxStamp /\ jobs \in 0..MaxJobs /\ edits \in 0..MaxEdits
    /\ touched \subseteq Files /\ reverted \subseteq Files

\* A library from before the current layout, or an empty one.
Init ==
    /\ drive = "here"
    /\ media \in [Files -> {0, CHOOSE v \in Versions : v \notin Damaged}]
    /\ newest = media /\ reverted = {}
    /\ \E old \in [Files -> LegacyRevs \cup {0}] :
           /\ json = [k \in Layouts \X Files |->
                         IF k[1] = "root" \/ old[k[2]] = 0 THEN NoCard
                         ELSE [NoCard EXCEPT !.md5 = media[k[2]], !.rev = old[k[2]], !.stamp = 1]]
           /\ tags = [k \in Layouts \X Files |-> json[k].stamp]
    /\ archive = {}
    /\ row = [f \in Files |-> NoRow]
    /\ manifest = [f \in Files |-> NoEntry]
    /\ ledger = [f \in Files |-> NoState]
    /\ removals = [f \in Files |-> {}]
    /\ job = Idle /\ status = "idle"
    /\ migration = [at |-> "off", todo |-> {}, key |-> <<>>]
    /\ stamp = 1 /\ jobs = 0 /\ edits = 0 /\ touched = {} /\ raced = {}

Exists(k)  == json[k].stamp # 0
CardAt(k)  == IF k[1] = "none" THEN NoCard ELSE json[k]
Readable(k) == CardAt(k).stamp # 0 /\ CardAt(k).ok
Present(f) == drive = "here" /\ media[f] # 0

\* sidecar_files(), and scan_media_tree(): a listing with stamps.
CardFiles == {k \in Layouts \X Files : Exists(k)}
Scanned   == [f \in Files |-> IF drive = "here" THEN media[f] ELSE 0]

\* existing_metadata_path_for(): the current layout, then the older ones.
Existing(f) ==
    IF Exists(<<"root", f>>) THEN <<"root", f>>
    ELSE IF Exists(<<"legacy", f>>) THEN <<"legacy", f>> ELSE <<"none", f>>

\* sidecar_for() in run_sync: the older layouts, then the current one.
Indexed(f) ==
    IF Exists(<<"legacy", f>>) THEN <<"legacy", f>>
    ELSE IF Exists(<<"root", f>>) THEN <<"root", f>> ELSE <<"none", f>>

-----------------------------------------------------------------------------
(* The user, and what ends a process early.                                *)

Edit(S) == edits < MaxEdits /\ edits' = edits + 1 /\ touched' = touched \cup S

\* A file is added, replaced, taken away or put back, as it was or as it was
\* before (a greater content has a later stamp).
ChangeMedia ==
    \E f \in Files, v \in Versions \cup {0} :
        /\ v # media[f] /\ drive = "here"
        /\ Edit({f})
        /\ media' = [media EXCEPT ![f] = v]
        /\ newest' = IF v > newest[f] THEN [newest EXCEPT ![f] = v] ELSE newest
        /\ reverted' = IF v # 0 /\ v < newest[f] THEN reverted \cup {f} ELSE reverted
        /\ UNCHANGED <<drive, json, tags, archive, db, removals, status, job, migration, stamp, jobs, raced>>

MoveFolder ==
    \E d \in {"here", "gone", "unplugged"} \ {drive} :
        /\ Edit(Files)
        /\ drive' = d
        /\ UNCHANGED <<media, newest, reverted, json, tags, archive, db, removals, status, job, migration, stamp, jobs, raced>>

\* A sidecar that another program left unreadable.
DamageCard ==
    \E k \in Layouts \X Files :
        /\ Exists(k) /\ json[k].ok /\ stamp < MaxStamp
        /\ Edit({k[2]})
        /\ stamp' = stamp + 1
        /\ json' = [json EXCEPT ![k].ok = FALSE, ![k].stamp = stamp + 1]
        /\ UNCHANGED <<drive, media, newest, reverted, tags, archive, db, removals, status, job, migration, jobs, raced>>

\* Cancel, or the end of the whole application with its children, between two
\* writes.
Kill ==
    /\ job # Idle
    /\ job' = Idle /\ status' = "cancelled"
    /\ UNCHANGED <<disk, db, removals, migration, stamp, jobs, edits, touched, raced>>

-----------------------------------------------------------------------------
(* run_import(), run_tool(), _run(): a tool and its steps.                 *)

\* A tool starts if none runs.
Start(t) ==
    /\ job = Idle /\ jobs < MaxJobs
    /\ jobs' = jobs + 1
    /\ touched' = {} /\ status' = "running"
    /\ job' = [Idle EXCEPT !.tool = t, !.steps = Steps[t], !.at = Head(Steps[t])]
    /\ UNCHANGED <<disk, db, removals, migration, stamp, edits, raced>>

\* The user starts one, over the folder.
Launch == drive = "here" /\ \E t \in Tools : Start(t)

\* find_changed_media_candidates(): the manifest has no row, or another stamp.
Candidates == {f \in Files : Present(f) /\ manifest[f].media # media[f]}

\* The automatic check starts a sync for files that are new or changed.
AutomaticCheck == Candidates # {} /\ Start("sync")

Lost(old, new) == TagsOf[old.rev] \ TagsOf[new.rev]

\* record_removed_tags_from_archive(), after the last step of a refresh: a file
\* with copies in two layouts is compared with the one that is walked last.
RemovedTags(f) ==
    LET old == {a.card : a \in {a \in archive : a.run = jobs /\ a.file = f /\ a.card.ok}}
        new == CardAt(Existing(f))
    IN  IF old = {} \/ Existing(f)[1] = "none" \/ ~new.ok THEN {removals[f]}
        ELSE {Lost(c, new) : c \in old}

\* A process exits: the next step, the end of the tool, or an error.  Exit code
\* 3, "incomplete", lets an import go on; the other tools do not ask for it.
Exit(code) ==
    LET left == Tail(job.steps)
    IN  /\ job' = IF code = 1 \/ left = <<>> THEN Idle
                  ELSE [Idle EXCEPT !.tool = job.tool, !.steps = left, !.at = Head(left),
                                    !.incomplete = job.incomplete \/ code = 3]
        /\ status' = IF code = 1 THEN "error" ELSE IF left # <<>> THEN status
                     ELSE IF job.incomplete \/ code = 3 THEN "partial" ELSE "done"
        /\ IF job.tool = "refresh" /\ left = <<>> /\ code = 0
           THEN removals' \in {m \in [Files -> SUBSET UNION {TagsOf[r] : r \in Revs}] :
                                   \A f \in Files : m[f] \in RemovedTags(f)}
           ELSE removals' = removals

Importing == job.tool \in {"import", "update", "retry"}
Incomplete == IF Importing THEN 3 ELSE 1

Stay == UNCHANGED <<removals, status>>
Goto(at, todo) == job' = [job EXCEPT !.at = at, !.todo = todo] /\ Stay

\* What the steps of a process leave alone.
Outside == UNCHANGED <<drive, media, newest, reverted, migration, jobs, edits, touched, raced>>
CardsKept == UNCHANGED <<json, tags, archive, stamp>>

-----------------------------------------------------------------------------
(* import-discover: directory listings only.                               *)

DiscoverScan ==
    /\ job.at = "discover"
    /\ job' = [job EXCEPT !.at = "discovered", !.media = Scanned,
                          !.todo = {f \in Files : Present(f)}]
    /\ UNCHANGED <<db, removals, status>> /\ Outside /\ CardsKept

\* Mutant: INSERT OR REPLACE for the manifest row.
DiscoverReplaces ==
    \E f \in job.todo :
        /\ job.at = "discovered"
        /\ Goto("discovered", job.todo \ {f})
        /\ row' = [row EXCEPT ![f].seen = TRUE]
        /\ ledger' = [ledger EXCEPT ![f] = IF @ = NoState THEN [@ EXCEPT !.status = "done"] ELSE @]
        /\ manifest' = [manifest EXCEPT ![f] = [at |-> "media", card |-> 0, media |-> job.media[f]]]
        /\ Outside /\ CardsKept

\* Known rows keep their hash and dimensions, and the ledger its phases; a
\* manifest row is only added.
DiscoverFile ==
    \E f \in job.todo :
        /\ job.at = "discovered"
        /\ Goto("discovered", job.todo \ {f})
        /\ row' = [row EXCEPT ![f].seen = TRUE]
        /\ ledger' = [ledger EXCEPT ![f] = IF @ = NoState THEN [@ EXCEPT !.status = "done"] ELSE @]
        /\ manifest' = [manifest EXCEPT ![f] =
                           IF @ = NoEntry THEN [at |-> "media", card |-> 0, media |-> job.media[f]] ELSE @]
        /\ Outside /\ CardsKept

DiscoverEnd ==
    /\ job.at = "discovered" /\ job.todo = {}
    /\ Exit(0)
    /\ UNCHANGED db /\ Outside /\ CardsKept

-----------------------------------------------------------------------------
(* import-enrich: hash and inspect the files that never were.              *)

EnrichList ==
    /\ job.at = "enrich"
    /\ Goto("enriching", {f \in Files : row[f].seen /\ ~ledger[f].enriched /\ Present(f)})
    /\ UNCHANGED db /\ Outside /\ CardsKept

\* _enrich_file(): a file that is gone or damaged is an error.
Inspects(f) == Present(f) /\ media[f] \notin Damaged

\* The workers finish in any order.
EnrichFile ==
    \E f \in job.todo :
        /\ job.at = "enriching"
        /\ Goto("enriching", job.todo \ {f})
        /\ IF ~Inspects(f)
           THEN /\ ledger' = [ledger EXCEPT ![f].status = IF @ = "none" THEN @ ELSE "error"]
                /\ row' = row
           ELSE /\ row' = [row EXCEPT ![f].md5 = media[f]]
                /\ ledger' = [ledger EXCEPT ![f] =
                                 IF @ = NoState THEN @ ELSE [@ EXCEPT !.status = "done", !.enriched = TRUE]]
        /\ UNCHANGED manifest /\ Outside /\ CardsKept

EnrichEnd ==
    /\ job.at = "enriching" /\ job.todo = {}
    /\ Exit(0)
    /\ UNCHANGED db /\ Outside /\ CardsKept

-----------------------------------------------------------------------------
(* backfill: posts from Danbooru into sidecars.  Only an import gives it   *)
(* the index, for its hashes and for its ledger.                           *)

\* Mutant: a sidecar that cannot be read counts as none.
NeedsReadable(f) ==
    /\ job.tool = "refresh" \/ ~Readable(Existing(f)) \/ CardAt(Existing(f)).pending
    /\ ~(job.tool = "retry" /\ ledger[f].status = "no_match")

\* Complete or unreadable sidecars are left alone, unless this is a refresh.
NeedsPost(f) ==
    LET card == CardAt(Existing(f))
        partial == card.ok /\ card.pending
    IN  /\ job.tool = "refresh" \/ Existing(f)[1] = "none" \/ partial
        /\ ~(job.tool = "retry" /\ ledger[f].status = "no_match")

BackfillList ==
    /\ job.at = "backfill"
    /\ job' = [job EXCEPT !.at = "match",
          !.todo = {f \in Files : Present(f) /\ NeedsPost(f)},
          !.cards = [f \in Files |-> IF job.tool = "refresh" \/ Existing(f)[1] = "none"
                                     THEN NoCard ELSE CardAt(Existing(f))],
          !.md5s = [f \in Files |-> IF Importing THEN row[f].md5 ELSE 0]]
    /\ UNCHANGED <<db, removals, status>> /\ Outside /\ CardsKept

\* The status a file gets in the ledger, and the end of its turn.
Settle(f, found) ==
    /\ ledger' = [ledger EXCEPT ![f] =
           IF ~Importing \/ @ = NoState THEN @
           ELSE [@ EXCEPT !.status = found, !.metadata = @ \/ found = "done"]]
    /\ UNCHANGED <<row, manifest>>

\* What read_json() raises once its retries are used up.  "soft": the connection,
\* the server.  "hard": credentials, certificates, a rate limit, a long wait.
Failures == {"soft", "hard", "other"}

\* The turn of a file ends.  A hard failure ends the run, as do a few soft ones
\* in a row.
EndTurn(f, kind, wrong) ==
    LET n == IF kind = "soft" THEN job.failures + 1 ELSE 0
        stop == kind = "hard" \/ n >= FailureLimit
    IN  /\ job' = [job EXCEPT !.at = "match", !.failures = n, !.post = NoCard, !.file = "none",
                              !.kind = "none", !.wrong = @ \/ wrong,
                              !.todo = IF stop THEN {} ELSE @ \ {f}]
        /\ Stay

Previous(f) == job.cards[f].ok /\ job.cards[f].pending

\* find_post_by_md5(): a post, none (0), or a failure.  A partial sidecar has one.
Answers(f) ==
    IF Previous(f) THEN {<<job.cards[f].rev, "none">>}
    ELSE ((Revs \cup {0}) \X {"none"}) \cup ({0} \X Failures)

MatchPost ==
    /\ job.at = "match"
    /\ \E f \in job.todo : \E a \in Answers(f) :
           IF a[1] # 0
           THEN /\ job' = [job EXCEPT !.at = "extra", !.file = f, !.post = [NoCard EXCEPT !.rev = a[1]]]
                /\ UNCHANGED <<db, removals, status>>
           ELSE /\ Settle(f, IF a[2] = "none" THEN "no_match" ELSE "error")
                /\ EndTurn(f, a[2], a[2] # "none")
    /\ Outside /\ CardsKept

\* md5_candidates(), md5_file(): the hash of the index, or of the file itself.
HashOf(f) == IF job.md5s[f] # 0 THEN job.md5s[f] ELSE media[f]

NewCard(f, pending) == [job.post EXCEPT !.md5 = HashOf(f), !.pending = pending]

\* add_extra_metadata() and build_payload().  Without the extra details the
\* sidecar is pending, except that a refresh first reads the saved ones, which
\* fails for an unreadable sidecar.  The file must still be there.
BuildCard ==
    \E kind \in {"none"} \cup Failures :
        LET f == job.file
            old == Existing(f)
            unreadable == kind # "none" /\ ~Previous(f) /\ old[1] # "none" /\ ~CardAt(old).ok
        IN  /\ job.at = "extra"
            /\ IF unreadable \/ ~Present(f)
               THEN Settle(f, "error") /\ EndTurn(f, IF unreadable THEN "none" ELSE kind, TRUE)
               ELSE /\ job' = [job EXCEPT !.at = "save", !.kind = kind,
                                          !.post = NewCard(f, kind # "none")]
                    /\ UNCHANGED <<db, removals, status>>
            /\ Outside /\ CardsKept

\* write_sidecars(): what is there is archived, then the tags file is replaced,
\* and only then the JSON, which marks the pair as complete.
Archived(f) ==
    IF job.tool = "refresh" \/ Previous(f) \/ Exists(<<"root", f>>) \/ tags[<<"root", f>>] # 0
    THEN {[file |-> f, card |-> json[<<l, f>>], run |-> IF job.tool = "refresh" THEN jobs ELSE 0] :
             l \in {l \in Layouts : Exists(<<l, f>>)}}
    ELSE {}

\* Mutant: the JSON first.
WriteJsonFirst ==
    LET f == job.file
        card == [job.post EXCEPT !.stamp = stamp + 1]
    IN  /\ job.at = "save" /\ stamp < MaxStamp
        /\ stamp' = stamp + 1
        /\ archive' = archive \cup Archived(f)
        /\ json' = [json EXCEPT ![<<"root", f>>] = card]
        /\ job' = [job EXCEPT !.at = "json", !.post = card]
        /\ UNCHANGED <<tags, db, removals, status>> /\ Outside

WriteTags ==
    LET f == job.file
    IN  /\ job.at = "save" /\ stamp < MaxStamp
        /\ stamp' = stamp + 1
        /\ archive' = archive \cup Archived(f)
        /\ tags' = [tags EXCEPT ![<<"root", f>>] = stamp + 1]
        /\ job' = [job EXCEPT !.at = "json", !.post.stamp = stamp + 1]
        /\ UNCHANGED <<json, db, removals, status>> /\ Outside

WriteJson ==
    /\ job.at = "json"
    /\ json' = [json EXCEPT ![<<"root", job.file>>] = job.post]
    /\ job' = [job EXCEPT !.at = "settle"]
    /\ UNCHANGED <<tags, archive, stamp, db, removals, status>> /\ Outside

SettleFile ==
    /\ job.at = "settle"
    /\ Settle(job.file, IF job.post.pending THEN "partial" ELSE "done")
    /\ EndTurn(job.file, job.kind, job.post.pending)
    /\ Outside /\ CardsKept

\* The disk is full: what has been replaced stays.
WriteFails ==
    /\ job.at \in {"save", "json"}
    /\ Settle(job.file, "error")
    /\ EndTurn(job.file, "none", TRUE)
    /\ Outside /\ CardsKept

BackfillEnd ==
    /\ job.at = "match" /\ job.todo = {}
    /\ Exit(IF job.wrong THEN Incomplete ELSE 0)
    /\ UNCHANGED db /\ Outside /\ CardsKept

-----------------------------------------------------------------------------
(* sync, and import-finalize, which is a sync and then the ledger.         *)

\* The folders that are there; with none of them there is nothing to do.
SyncFolders ==
    /\ job.at \in {"sync", "finalize"}
    /\ IF drive = "here" THEN Goto("scan", {}) ELSE Exit(0)
    /\ UNCHANGED db /\ Outside /\ CardsKept

Entry(f, seen, cards) ==
    IF cards[f].at = "none" THEN [at |-> "media", card |-> 0, media |-> seen[f]]
    ELSE [at |-> cards[f].at, card |-> cards[f].stamp, media |-> seen[f]]

\* Mutant: only the stamp of the media file counts.
UnchangedMedia(f, entry) ==
    manifest[f] # NoEntry /\ row[f].seen /\ manifest[f].media = entry.media

\* A file with a sidecar is unchanged when its sidecar is.
Unchanged(f, entry) ==
    /\ manifest[f] # NoEntry /\ row[f].seen
    /\ IF entry.at = "media" THEN manifest[f] = entry
       ELSE manifest[f].at = entry.at /\ manifest[f].card = entry.card

\* The scan looks at stamps only; what it saw of each file goes into the manifest.
SyncScan ==
    LET cards == [f \in Files |-> [at |-> Indexed(f)[1],
                                   stamp |-> CardAt(Indexed(f)).stamp]]
    IN  /\ job.at = "scan"
        /\ job' = [job EXCEPT !.at = "index", !.media = Scanned, !.cards = cards,
                      !.todo = {f \in Files : Scanned[f] # 0 /\ ~Unchanged(f, Entry(f, Scanned, cards))}]
        /\ UNCHANGED <<db, removals, status>> /\ Outside /\ CardsKept

\* import_payload_to_sqlite() and import_minimal_media().
CardRow(k)    == [seen |-> TRUE, md5 |-> json[k].md5, rev |-> json[k].rev]
MinimalRow(f) == [seen |-> TRUE, md5 |-> media[f], rev |-> 0]

\* The row of a file and what the scan saw of it, into the manifest.  What cannot be read now, or is gone, is a failure.
SyncFile ==
    \E f \in job.todo :
        LET entry == Entry(f, job.media, job.cards)
            minimal == entry.at = "media"
        IN  /\ job.at = "index"
            /\ IF (minimal /\ Present(f)) \/ (~minimal /\ Readable(<<entry.at, f>>))
               THEN /\ row' = [row EXCEPT ![f] =
                                  IF minimal THEN MinimalRow(f) ELSE CardRow(<<entry.at, f>>)]
                    /\ manifest' = [manifest EXCEPT ![f] = entry]
                    /\ Goto("index", job.todo \ {f})
               ELSE /\ job' = [job EXCEPT !.todo = @ \ {f}, !.wrong = TRUE]
                    /\ UNCHANGED <<row, manifest, removals, status>>
            /\ UNCHANGED ledger /\ Outside /\ CardsKept

\* Last, the rows of files the scan did not find.  Their ledger rows stay.
SyncStale ==
    LET stale == {f \in Files : job.media[f] = 0}
    IN  /\ job.at = "index" /\ job.todo = {}
        /\ row' = [f \in Files |-> IF f \in stale THEN NoRow ELSE row[f]]
        /\ manifest' = [f \in Files |-> IF f \in stale THEN NoEntry ELSE manifest[f]]
        /\ IF Head(job.steps) = "finalize" /\ ~job.wrong THEN Goto("mark", {})
           ELSE Exit(IF job.wrong THEN 1 ELSE 0)
        /\ UNCHANGED ledger /\ Outside /\ CardsKept

FinalizeMark ==
    LET scope == IF drive = "here" THEN {f \in Files : ledger[f] # NoState} ELSE {}
    IN  /\ job.at = "mark"
        /\ ledger' = [f \in Files |->
               IF f \in scope /\ Existing(f)[1] # "none" THEN [ledger[f] EXCEPT !.metadata = TRUE]
               ELSE ledger[f]]
        /\ Exit(IF \E f \in scope : ledger[f].status \in {"error", "partial"} THEN 3 ELSE 0)
        /\ UNCHANGED <<row, manifest>> /\ Outside /\ CardsKept

-----------------------------------------------------------------------------
(* sqlite --replace: a new index from every sidecar there is.              *)

\* Without the old database, the layout migration is to be done again.
SqliteReplace ==
    /\ job.at = "sqlite"
    /\ Goto("import", CardFiles)
    /\ row' = [f \in Files |-> NoRow]
    /\ manifest' = [f \in Files |-> NoEntry]
    /\ ledger' = [f \in Files |-> NoState]
    /\ migration' = IF migration.at = "done" THEN [migration EXCEPT !.at = "off"] ELSE migration
    /\ UNCHANGED <<drive, media, newest, reverted, jobs, edits, touched, raced>> /\ CardsKept

\* record_manifest(): the stamps after the import.
EntryOf(k) == [at |-> k[1], card |-> json[k].stamp, media |-> Scanned[k[2]]]

\* A sidecar that cannot be read is skipped; one without its file is imported.
SqliteFile ==
    \E k \in job.todo :
        /\ job.at = "import"
        /\ Goto("import", job.todo \ {k})
        /\ IF Readable(k)
           THEN /\ row' = [row EXCEPT ![k[2]] = CardRow(k)]
                /\ manifest' = [manifest EXCEPT ![k[2]] = EntryOf(k)]
           ELSE UNCHANGED <<row, manifest>>
        /\ UNCHANGED ledger /\ Outside /\ CardsKept

SqliteEnd ==
    /\ job.at = "import" /\ job.todo = {}
    /\ Exit(0)
    /\ UNCHANGED db /\ Outside /\ CardsKept

-----------------------------------------------------------------------------
(* clean-sidecars: those of files that are gone, on drives that are there. *)

Has(kind, k) == IF kind = "json" THEN Exists(k) ELSE tags[k] # 0

Orphans ==
    {u \in {"json", "tags"} \X (Layouts \X Files) :
        Has(u[1], u[2]) /\ ~Present(u[2][2]) /\ drive # "unplugged"}

CleanScan ==
    /\ job.at = "clean"
    /\ Goto("unlink", Orphans)
    /\ UNCHANGED db /\ Outside /\ CardsKept

\* By name: the JSON of a file before its tags.
CleanFile ==
    \E u \in job.todo :
        /\ job.at = "unlink"
        /\ u[1] = "tags" => <<"json", u[2]>> \notin job.todo
        /\ Goto("unlink", job.todo \ {u})
        /\ IF u[1] = "json" THEN json' = [json EXCEPT ![u[2]] = NoCard] /\ UNCHANGED tags
           ELSE tags' = [tags EXCEPT ![u[2]] = 0] /\ UNCHANGED json
        /\ UNCHANGED <<archive, stamp, db>> /\ Outside

CleanEnd ==
    /\ job.at = "unlink" /\ job.todo = {}
    /\ Exit(0)
    /\ UNCHANGED db /\ Outside /\ CardsKept

-----------------------------------------------------------------------------
(* migrate_existing_sidecars(), once per index, beside whatever tool runs: *)
(* a verified copy into the current layout, with the stamp of the original. *)

MigrationKept == UNCHANGED <<drive, media, newest, reverted, archive, db, removals, status, job, stamp, jobs, edits, touched>>

\* The module's start, when no tool runs yet.
MigrationStart ==
    /\ migration.at = "off" /\ job = Idle
    /\ migration' = [at |-> "look", key |-> <<>>,
                     todo |-> {"json", "tags"} \X {f \in Files : row[f].seen}]
    /\ UNCHANGED <<json, tags, raced>> /\ MigrationKept

MigrateLook ==
    \E u \in migration.todo :
        /\ migration.at = "look"
        /\ u[1] = "tags" => <<"json", u[2]>> \notin migration.todo
        /\ migration' = [at |-> IF Has(u[1], <<"legacy", u[2]>>) /\ ~Has(u[1], <<"root", u[2]>>)
                                THEN "copy" ELSE "look",
                         key |-> u, todo |-> migration.todo \ {u}]
        /\ UNCHANGED <<json, tags, raced>> /\ MigrationKept

\* An original that has gone is a failure: the migration is not marked done.
MigrateCopy ==
    LET f == migration.key[2]
        kind == migration.key[1]
    IN  /\ migration.at = "copy"
        /\ IF Has(kind, <<"legacy", f>>)
           THEN /\ IF kind = "json"
                   THEN json' = [json EXCEPT ![<<"root", f>>] = json[<<"legacy", f>>]] /\ UNCHANGED tags
                   ELSE tags' = [tags EXCEPT ![<<"root", f>>] = tags[<<"legacy", f>>]] /\ UNCHANGED json
                /\ migration' = [migration EXCEPT !.at = "look"]
                /\ raced' = IF Has(kind, <<"root", f>>) THEN raced \cup {f} ELSE raced
           ELSE /\ migration' = [at |-> "failed", todo |-> {}, key |-> <<>>]
                /\ UNCHANGED <<json, tags, raced>>
        /\ MigrationKept

MigrationEnd ==
    /\ migration.at = "look" /\ migration.todo = {}
    /\ migration' = [migration EXCEPT !.at = "done", !.key = <<>>]
    /\ UNCHANGED <<json, tags, raced>> /\ MigrationKept

Process ==
    \/ DiscoverScan \/ DiscoverFile \/ DiscoverEnd
    \/ EnrichList \/ EnrichFile \/ EnrichEnd
    \/ BackfillList \/ MatchPost \/ BuildCard \/ WriteTags \/ WriteJson \/ SettleFile
    \/ WriteFails \/ BackfillEnd
    \/ SyncFolders \/ SyncScan \/ SyncFile \/ SyncStale \/ FinalizeMark
    \/ SqliteReplace \/ SqliteFile \/ SqliteEnd
    \/ CleanScan \/ CleanFile \/ CleanEnd

Migration == MigrationStart \/ MigrateLook \/ MigrateCopy \/ MigrationEnd

Next == ChangeMedia \/ MoveFolder \/ DamageCard \/ Kill \/ AutomaticCheck \/ Launch \/ Process \/ Migration

Spec == Init /\ [][Next]_vars

-----------------------------------------------------------------------------
(* What the pipeline promises.                                             *)

\* A readable sidecar that a tool wrote (the older layout has stamp 1) is
\* complete: its tags file was written before it.
JsonMarksCompletion ==
    \A f \in Files \ raced : Readable(<<"root", f>>) /\ json[<<"root", f>>].stamp > 1 =>
        tags[<<"root", f>>] >= json[<<"root", f>>].stamp

\* What every state of the sidecars and the index has to satisfy.
Sound == TypeOK /\ JsonMarksCompletion

\* A tool never loses a sidecar's content: it replaces one only when an archived
\* copy is there, a complete or unreadable one only in a refresh that the user
\* asked for, and deletes one only when its file is gone.
NothingLost ==
    [][job # Idle => \A k \in Layouts \X Files :
          LET old == json[k]
              new == json'[k]
          IN  Exists(k) /\ new # old /\ k[2] \notin touched' \cup raced /\ migration' = migration =>
              IF new.stamp = 0 THEN ~Present(k[2])
              ELSE /\ \E a \in archive : a.file = k[2] /\ a.card = old
                   /\ job.tool # "refresh" => old.ok /\ old.pending]_vars

\* The index is not stale unnoticed: where the manifest has the stamp of the
\* sidecar that a sync looks at, the row holds that sidecar's post; where it has
\* the stamp of the bare file, the row was made of no other content (unless an
\* older content came back with its own stamp: stamps are only compared for
\* equality, and the one of a scan may be kept with the hash of a later content).
StampsAreHonest ==
    \A f \in Files : manifest[f] # NoEntry =>
        LET k == <<manifest[f].at, f>>
        IN  /\ row[f].seen
            /\ manifest[f].at # "media" /\ Readable(k) /\ json[k].stamp = manifest[f].card =>
                   row[f].rev = json[k].rev
            /\ manifest[f].at = "media" /\ media[f] = manifest[f].media =>
                   row[f].rev = 0 /\ (f \in reverted \/ row[f].md5 \in {0, media[f]})

\* A tool that reports success has indexed the folder as it is: every file the
\* user left alone has a row if and only if it is there, with the post of its
\* sidecar.  An import with metadata also has none that still waits for details,
\* and a sidecar or a recorded "no match" for each.
Succeeds == status = "running" /\ status' = "done" /\ edits' = edits

SuccessIsTrue ==
    [][Succeeds /\ job.at \in {"index", "mark"} /\ drive = "here" => \A f \in Files \ touched :
          /\ row'[f].seen <=> Present(f)
          /\ Present(f) /\ Readable(Indexed(f)) => row'[f].rev = CardAt(Indexed(f)).rev
          /\ Present(f) /\ job.tool = "import" =>
                /\ Existing(f)[1] # "none" \/ ledger'[f].status = "no_match"
                /\ Readable(Existing(f)) => ~CardAt(Existing(f)).pending]_vars

=============================================================================
