# Keivotos: TLA+ verification of the server

Keivotos is a local library suite: a FastAPI server (`backend/`) with a required
base module (Files), optional modules (Danbooru, YouTube, Video, Manga,
Language), two kinds of SQLite databases (the user database and the rebuildable
indexes), long background work (an import pipeline, downloads, automatic
backups) and a Svelte frontend. Requests run on a thread pool, modules on one
event loop, downloads and imports in child processes. This directory models the
parts where these meet: who may work beside whom, what a crash or a failed step
leaves behind, and what must end.

All modules are translated from the source; `PROJECT.json` maps each definition
to the lines it stands for. Paths below are relative to `backend/`.

## 1. Inventory

| Part | State it keeps | Operations | What is hard |
|---|---|---|---|
| Maintenance exclusion, `maintenance.py` | operation lock, transition flag, operation counter, active tool | exclusive window, module transition, module operation | four kinds of reservation tested one after the other under two locks; a flag held without a lock |
| Pipeline tools, `modules/danbooru/tools.py` | task registry, process registry | launch, run steps, cancel | a worker that outlives its request; cancel between `Popen` and registration; failures that skip `wait()` |
| Automatic check, `modules/danbooru/automation.py` | last run, candidate count | tick, loop | launches a tool from inside its own window; asks the manifest what is new |
| Database gate, `database_connections.py` | readers, writer, depth, waiting writers | read, write (both nest) | condition variable, writer preference, nesting |
| Module runtime, `lifecycle.py` | tasks and state per module | start, stop, change, worker callback, lifespan | event loop against request threads; crashes of workers during a switch |
| Enablement, `suite_modules.py`, `routers/suite.py`, `server.py` | row per enabled module | enable, disable, retry, guard | persisted choice and runtime must agree whatever step fails |
| YouTube queue, `modules/youtube/jobs.py` | download records, pending list, queue task | create, retry, cancel, execute, publish, recover | unlocked read-then-write, shielded awaits, publication thread, restart |
| Backups and restore, `backup_bundle.py` | archives, rollback copies | create, inspect, restore | all-or-nothing replacement of several files; crash in the middle |
| Automatic backups, `automatic_backups.py` | ledger of owned backups, schedule | tick, run, retain | ledger and files updated separately |
| Recovery checkpoints, `local_recovery.py` | rotating snapshots, preserved legacy copies | create, rotate, preserve | order of snapshots, crash between publish and rotate |
| Thumbnail cache, `thumbnails.py` | derived files, prune state | ensure, prune, clear, clean up | test outside the lock, in-place save |
| File index, `files_base/index.py`, `hashing.py` | index rows, lazy hashes | scan, refresh, hash, drop | a hash that outlives the bytes it was computed from |
| Sources, annotations, attachments, `files_base/` | sources, notes, content-addressed bytes | register, upsert, attach, delete | identity by path and by hash; reference counts against files |
| Folder assignment, `services/folder_roles.py`, `modules/danbooru/routers/folders.py` | shared list of sources, registered roots, rows of two indexes | apply batch, scan, import, release, relocate, publish | three stores changed one short transaction at a time; a batch that fails midway across modules |
| Danbooru pipeline, `modules/danbooru/pipeline.py` | media, sidecars, ingestion ledger, index, manifest | discover, enrich, backfill, finalize, refresh, sync, clean | resumption after a kill between any two writes; three layouts of sidecars; a folder the user edits meanwhile |
| Danbooru user library, `modules/danbooru/routers/user_library.py`, `collections.py`, `images_media.py`, `image_activity.py` | favourites, collections, own tags, counts | toggle, pin, put, take, tag, view, heart, move | rows named by id, path or hash over an index that renumbers; reads before the transaction; moves over disk and two databases |
| Artists, `modules/danbooru/tag_wiki.py`, `artist_follows.py`, `artist_profiles.py`, `routers/artists.py` | cached pages, follows, posts seen, archived images | view, follow, list, check, mark seen, refresh | network answers between two looks at the tables; failures that must not be cached |
| Danbooru catalogue, `modules/danbooru/search.py` and others | caches | queries | presentation of the index |
| Configuration and layout, `config.py`, `storage_layout.py` | JSON configuration, migrated files | load, save, promote | migration interrupted by a crash |
| Frontend, `frontend/src` | stores, sessions | views | out-of-order responses |

How they interact: every request to an optional module holds a *module
operation*; enabling and disabling hold a *module transition*; backup, restore,
the automatic check and the publication of a download hold an *exclusive
window*; the import pipeline holds the *tool* reservation from its launch to the
`finally` of its worker. Backup and restore then take the write side of the
database gate, and every connection takes its read side. Module switches submit
coroutines to the event loop and wait for them; the loop runs the module's
workers, among them the YouTube queue.

What makes each part correct is stated, property by property, in section 4; what
is hard to test is listed line by line under `hazards` in `PROJECT.json`.

## 2. Modules

| Module | Models | Kind |
|---|---|---|
| `Reservations` | what `maintenance.py` promises | abstract specification |
| `Maintenance` | `maintenance.py`, `tools.py`, the tick of `automation.py` | detailed; implements `Reservations` |
| `MaintenanceProofs` | theorems about `Maintenance` | proofs |
| `SharedAccess` | what the database gate promises | abstract specification |
| `DatabaseGate` | `database_connections.py` | detailed; implements `SharedAccess` |
| `ModuleSwitch` | what live enable and disable promise to requests | abstract specification |
| `ModuleRuntime` | `lifecycle.py`, `suite_modules.py`, `routers/suite.py`, `module_guard` | detailed; implements `ModuleSwitch` |
| `RuntimeProofs` | theorems about `ModuleRuntime` | proofs |
| `YouTubeJobs` | `modules/youtube/jobs.py`, `worker.py`, the role of the destination | detailed |
| `Replacement` | what restoring a bundle promises | abstract specification |
| `Restore` | `restore_backup_bundle` of `backup_bundle.py` | detailed; implements `Replacement` |
| `AutomaticBackups` | `automatic_backups.py` with its schedule, `create_backup_bundle` | detailed |
| `DatabaseProofs` | theorems about `DatabaseGate`, `Restore` and `AutomaticBackups` | proofs |
| `Attachments` | notes and attachments of `files_base/annotations.py`, `attachment_store.py`, their handlers in `routers/files.py` | detailed |
| `AttachmentsProofs` | theorems about `Attachments` | proofs |
| `Pipeline` | the stages of `modules/danbooru/pipeline.py`, the tools of `routers/tools.py`, the candidates of `automation.py`, the migration of `storage_layout.py` | detailed |
| `PipelineProofs` | theorems about `Pipeline` | proofs |
| `Folders` | `services/folder_roles.py`, `files_base/sources.py`, `modules/danbooru/routers/folders.py`, the import as far as folders go | detailed |
| `FoldersProofs` | theorems about `Folders` | proofs |
| `Library` | favourites, collections, tags, counts and moves in `modules/danbooru/` | detailed |
| `LibraryProofs` | theorems about `Library` | proofs |
| `Artists` | `tag_wiki.py`, `artist_follows.py`, `artist_profiles.py`, `routers/artists.py` | detailed |
| `FetchingProofs` | theorems about `YouTubeJobs` and `Artists` | proofs |
| `MC*` | constants for TLC | instances |

### Maintenance

A thread is a request or a background thread. `lock` is the owner of
`_tool_operation_lock`; each acquisition is a step (`Acquire`, `Reacquire`)
because a non-blocking caller is refused merely by finding the lock held
(`Refuse`). What a caller tests under the lock is one step (`EnterWindow`,
`EnterTransition`, `EnterOperation`, `Launch`). Sections under
`_tool_state_lock` never block and are atomic. The worker `_run` is one action
per section between its locks: `NextStep`, `Spawn`, `Register`, `Reap`,
`AfterSteps`, `Finish`, `Fail`, `Cleanup`. `_cancel_tool` is two steps, `Cancel`
and `Terminate`, because the process is terminated outside the lock; the thread
holds a reference to the process it saw, which may be gone. `ReadFails` is an
exception between `Popen` and `wait()`; the process it leaves is in `orphans`.
Output, progress and the contents of a command are left out: a step only
succeeds, fails or reports "partial". That the worker's thread cannot be started
after the reservation was made (tools.py:364) is not modelled: nothing would give
the reservation back.

### DatabaseGate

Every section under the condition variable is one step. A thread that waits is
asleep until a `notify_all` marks it woken (`phase` says where it is), and then tests its condition again
(`RetryRead`, `RetryWrite`), as the `while` loops do. `reads` counts the
connections a thread holds, `depth` the nesting of the writer. A request may open
a second connection inside its first: the code does so in several routers.

### ModuleRuntime

A toggle is a request thread: it takes `module_change_lock`, reads the choice,
enters the transition, initializes the storage (two steps, with the state in
between), submits a coroutine to the loop and waits. `change` is that coroutine;
`ChangeStart`, `ChangeStop` and `StopFinishes` are its pieces between awaits.
A worker that ends leaves its callback in `unseen` until the loop runs
`_worker_done`. A worker that was cancelled ends, crashes, or goes on and is "deaf"
(`WorkerGoesOn`): nobody cancels a task twice, and the one worker whose code can do
that, the YouTube queue, is modelled in `YouTubeJobs`. `Boot`, `Close`, `Exit` and `Crash` are the phases of
`lifespan`; `Restore` is a restore that replaces the user database under a running
server; `restored` remembers it until the restart the restore asks for, because
until then the choice on disk and the runtime may differ.

### YouTubeJobs

The queue task and its event reader share the loop; the publication and the
requests are threads. A status read and the write that depends on it are two
steps wherever the code does not hold `_lock` around both. `asked` is a
cancellation the task has not noticed; `Launch` and `PublishReturns` are the two
shielded awaits. `Disable`, `Shutdown`, `Stopped`, `Crash` and `Start` are what
`ModuleRuntime` does to the module. `role` is the role of the destination folder:
a download is accepted only into a folder of this module (`Adopt`), which may be
released, shared or change while the job runs; the publication looks it up again
(`Destination`). `Retry` makes a new record of a finished one; `Terminate` is the
second half of a cancellation. Progress, titles and paths are left out.

### Restore

`live` is what is at each path; a component is a directory or a database with
its journals (`-wal` and `-shm` are treated alike by the code and are one path).
Every step that can be cut off is an action: the checkpoint and the copy of the
new contents (`Prepare`), the copy of the old contents to the recovery directory
(`SaveLive`), one rename per path (`MoveMain`, `MoveJournal`), the rename into
place (`Install`), the final checks, one undo per recorded move, and the cleanup.
`applied` is the list the rollback reads backwards, with entries for paths where
there was nothing. `Fail` is an exception of any step, `Undo` may fail before its
first or its second rename, `Crash` may come anywhere, and `Start` is what the
next start does: it opens or creates databases and looks for no copies, so after
a crash between two renames the library goes on with an empty database, and the
contents are in `recovery` only. Reading the archive changes nothing live and
precedes `Begin`. An error of the cleanup, after everything is installed, is the
outcome "unfinished". A second connection of another program that opens between
the checkpoint and the rename, and the attachments, are not modelled.

### AutomaticBackups

Retention compares a bundle with its record, then reads the whole archive, then
deletes by name; a file the user replaces in between is deleted. The model has
that step, so `RetiresOnlyItsOwn` promises a bundle on record, not its contents.
Bundles are numbered in the order they are made, and recorded in that order too, so
the lists of the ledger are sets of numbers: the first entry is the least one
(`First`). `file` is what is on disk,
`digest` what the ledger entry recorded. `state` is the run's copy of the ledger
and `ledger` the file, so that a crash or a failed write between them shows.
`Inspect` is the test of one entry (existence, digest, contents) and `Unlink` its
deletion: the archive is read in between. `Readings` says that an unreadable
ledger counts as empty. Manual bundles never enter the ledger and are left out.
Configuring takes a maintenance window, hence never within a run. The schedule is
`signature`, the settings the loop last saw, and `next`, when it runs again: a
change of settings restarts the countdown (`Reschedule`), a busy server defers
the run (`Deferred`), and an error counts as a run.

### Attachments

`note` gives each subject the id of its note, `words` the notes with text or
links, `rows` the attachment rows, and `disk` the bytes, addressed by store,
layout ("folder" is browsable, "managed" hidden) and name. `request` is what a
thread has read and where it goes on; nothing locks a request as a whole, so each
lookup, each commit and each change of the store is a step. Taken together are:
the SELECTs of one lookup, the two reads of the store's setting with the write
of the bytes, and a note's text with its links, which the code commits one after
the other. The setting itself is not a variable: a user may save another between
any two reads, so a read takes any of `Settings`. Uploads have no `await`
between the bytes and the row, hence one at a time.

Two races lose something, and the properties except exactly them. The count of
the remaining references (routers/files.py:1111) and the removal of the bytes
(1116) are not one step: an upload or a copy of the same content in between gets
a row without bytes, although attachment_store.py:92 says "used only after the
last row referencing them goes". And a note found empty is deleted by id with
what was written to it since. `racedBytes` and `racedNotes` remember that two
such requests overlapped; without an overlap nothing is lost. Bytes left behind
by the deletion of a whole note, or by copies in several stores, are leaks and
not counted against the code.

### Pipeline

A tool is a list of child processes (`Steps`), each a process with stages. What a
stage reads in one go at its start is one step (`DiscoverScan`, `EnrichList`,
`BackfillList`, `SyncScan`, `CleanScan`), then each file is a step or, where two
files are written, two (`WriteTags`, `WriteJson`, then the ledger in
`SettleFile`). The user edits between any two steps (`ChangeMedia`, `MoveFolder`,
`DamageCard`), and a kill comes anywhere. A file's content is a version, 0 for
none; a version in `Damaged` cannot be decoded. A sidecar ("card") is the revision of the
post it holds, the content it was made for, whether it still waits for details,
and its stamp. `row` is the index, `manifest` what the sync remembers of each
file, `ledger` the state of the ingestion. `Existing` (the current
layout first) and `Indexed` (the older ones first) are the two orders in which the
stages look for a sidecar; they differ in the code.
`AutomaticCheck` launches a sync when the manifest and the disk disagree. The
migration of the layout runs beside a tool, as at startup. `touched`, `raced` and
`reverted` are histories: the files the user touched since the tool began, those
whose new sidecars the migration replaced, and those that got an older content back
(older than `newest`, the newest each ever had).

A kill comes between two writes, and what was committed before it stays. The
sidecars and the sync's WAL connection warrant that. The full rebuild of the index
does not: `connect_sqlite` turns off journaling and syncing (pipeline.py:1127,
used at 1401), so a kill within a commit, or while SQLite spills its cache ahead of
one, may leave a torn index, which the code regards as rebuildable. A torn index
is no state of this module, and nothing here says what a later start makes of it.
The test that keeps `clean` from an unplugged drive (pipeline.py:780) is in the
model (`Orphans`), but no property depends on it.

### Folders

A folder is the sequence of its components, so that "below" is a prefix. A
request is a caller with a list of changes left to make; each `at` is a place
between two commits. `Next1` starts the next change, `ReleaseCheck`,
`DeleteRows`, `Unregister` and `Relabel` are the four transactions of a release,
`Adopt`, `Insert` and `Upsert` those of an adoption, `ReadList` and
`RescanAncestors` the scan of the sources above. `Published` is the shared list
after the roots were published into it, at startup (`Start`) and by a relocation
(`PublishMove`). The code commits one folder at a time (sources.py:256) and prunes
last; a crash may cut that short after any of them (`Crash`), but no other request
comes between two of these commits in the model. The registered roots do not change
meanwhile at startup, when the module is still down; a request that is at work beside
a publication sets `drift`, but one that begins and ends between two of its commits
is not covered. The import reads the roots once (`StartImport`) and fills the rows at
its end. `past` remembers what the properties except: the lists disagreed
(`drift`), an import or a request began within a release (`raced`), folders of a
release that a crash cut short (`cut`), folders moved on disk (`moved`).

### Library

Every row of a user table carries `of`, the image it was made for: the code does
not store it, and the properties are about it. A request reads the identity of
its image from the index (`Identify*`) and then works on the user tables: for a
view or a heart two looks of their own, for the row and for one that has its id
(`Look`, `LookForClash`), then the transaction. A batch of favourites reads its
identities before its transaction; a batch for a collection reads each within it,
one by one (`IdentifyItems`, `IdentifyNext`), and its writes are shown at the
commit, before which nobody else sees them or can write. `Matches` is
`user_file_lookup_sql`: by path; by hash, then by id, for rows written before rows
had paths. A move
renames part by part (`MoveFile`), undoes the parts (`UndoMove`), commits the
index (`MoveIndex`) and then the user tables (`MoveUser`). `Rebuild` renumbers the
rows; `Restart` fills rows of an older version (`Backfilled`). A list request
(`Direct`) is one transaction. The counts of several rows are added as the size of
a set (`Total`), a pair for each row and each of its views. `past` remembers what
the properties except: a rebuild that gave the id of a row to another image, or to
none when the row has nothing but its id (`drift`, by `Strays`); a move that stopped
between its commits, met a rebuild or could not put its files back (`cut`); a request
that wrote for an image that had moved since, or merged a count that had changed
since (`raced`); two moves to one place at once (`overlapped`); a count written
over one that had changed since it was read (`overwrote`).

### Artists

`danbooru` and `profiles` are the outside; `Elsewhere` changes them. A view with a
stale row asks for the page, the names and the artist, each of which may fail
(`Replies`, `lost`), and saves what came (`ViewFetch`, `ViewSave`). A tag may have no
page, which the site answers with 404 (`Null` among the `Pages`). The user may
remove an archived file (`Discard`). A check reads
the follow, asks for the newest posts, then writes those it does not know
(`CheckRead`, `CheckWrite`); the first check of a follow makes everything seen.
A refresh goes through the profile images one by one (`RefreshAsset`,
`RefreshDownload`, `RefreshInsert`). `unanswered` is a ghost field of a cached
row: what was not asked or got no answer.

## 3. Runs, bounds and fairness

| Run | Question | Bounds |
|---|---|---|
| `maintenance` | do all interleavings keep the reservations compatible, and does the reservation return? | 3 threads, 1 tool, 2 steps, step 1 may be partial, reads may fail |
| `gate` | does the gate count, exclude and wake correctly; does everybody get in who does not nest? | 1 request, 2 writers (requests too), depth 2, 3 windows |
| `gate_nested` | does every window open, nesting or not? (violation) | same, 1 window |
| `runtime` | do choice, runtime and requests agree, with restores? does every toggle end, a worker that goes on excepted? | 2 toggles, 2 requests, 2 workers, 1 restore in a life of the server |
| `youtube` | is no record forgotten, no process stray, nothing dead published; does every queued job end? | 3 jobs (2 duplicates), 1 user, 2 pending |
| `restore` | is a restore all or nothing, whatever fails? | 2 databases, 1 directory, 2 versions |
| `automatic` | does retention delete only what it owns and may? | 4 bundles, 2 locations, retention 1 or 2, 2 events |
| `attachments` | are the bytes of every row found, is only what was asked removed, is a migration complete? | 2 requests, 2 subjects, 1 content, 2 stores, 2 note ids, 2 row ids |
| `pipeline` | is no metadata lost, and does success mean that the index is true? | 1 file, 2 versions (1 damaged), 2 revisions, 6 tools, 3 jobs, 1 edit, 3 stamps |
| `folders` | do the three lists of folders agree, and does a release keep the folder? | 2 folders, one in the other, that may move; 2 requests in turn, batches of 2, imports and publications beside them, 1 crash |
| `library` | do user data stay with their image, and do counts add up? | 2 images of one content, 3 places, 1 collection, 3 requests of which the last may overlap, 1 fault |
| `artists` | is no failed look at a page or an artist cached as its answer, no news lost, no version doubled, and is what was counted on record? | 1 artist, 3 posts, 2 platforms, 3 addresses of 2 images, a wiki page or none, 2 callers, 3 requests, 1 change outside, 1 fault |

Why the bounds are enough: an exclusion fails between two reservations, with a
third thread to hold the lock or to be counted meanwhile; one tool is reserved at
a time, and two launches of it race as two tools do; two steps cover the loop's
top, its middle and its end. The gate's conditions tell apart nobody, me and
somebody else, hence two writers and a third thread; a writer outside its window
may also be a request. A worker's crash cancels its siblings, hence two workers.
A queue needs one job running, one pending and one created meanwhile. A restore
goes wrong between the component that is done, the one in progress and the one to
come, hence three; two versions give two restores, or an edit before one.
References to one content are shared between two notes, removed by one request
and added or moved by another, hence two of each and one content. Four bundles
and a retention of two let two be due at once. The stages of the pipeline treat
the files of a folder alike and one at a time, and what they share (the counter of
failures, the batch) may end after any file; three tools give a first import, what
goes wrong with it, and the sync that repairs or hides it. Folders interact when
one contains the other, and two requests suffice for one to work on what the
other left halfway. Two images of one content are what hashes confuse, one
collection and one tag what lists share; a rebuild that renumbers two rows exchanges
their ids, which sets `drift` as soon as a row has one of them, so for other
renumberings the theorem, for any number of ids, says more than the run. An artist's news takes a baseline, a post
that appears after it and one more.

`MaxWindows` (windows of a behaviour), `MaxDepth` (nesting), `MaxPending` (20 in
the code, 2 here), `MaxVersion`, `MaxBundles`, `MaxEvents` (the user's changes and
crashes), `MaxNotes` and `MaxRows` (ids), `MaxJobs`, `MaxEdits` (what the user
does to the folder), `MaxStamp` (times a sidecar is written), `MaxBatch`,
`MaxRequests`, `MaxBeside` (requests that may
follow one that began beside another), `MaxMoves`, `MaxCrashes`, `MaxTicks` (automatic checks),
`MaxFaults` (kills, rebuilds, files removed) and `MaxChanges` (what changes on
other servers) are the caps, with one copy and one migration of attachments at a
time (`Alone`); `FailureLimit` is 3 in the code, 1 here.

Fairness. Threads that the system has made runnable run (`WF`), child processes
that are running or terminated end, and the event loop serves its ready
callbacks in turn (`SF` for the queue task beside a chatty downloader). A worker
of a module that was cancelled ends or goes on; of one that goes on nothing is
assumed, because the code warrants nothing (jobs.py:212). A thread
waiting for `module_change_lock` gets it in time (`SF`). In the gate, every
`with` statement ends, at each depth of nesting (`SF`). Nothing is assumed of users: no
request, cancellation, restore or restart has to happen. Nobody is assumed to
win `_tool_operation_lock`; what is claimed under it holds without.

Deadlock checking is off in `gate` and `gate_nested`: after the last window the
threads may all be asleep in the nested deadlock that `gate_nested` shows. It is
off in `automatic` because a disabled schedule stops, and in `pipeline`,
`folders`, `library` and `artists` because they stop when the users have done
what the bounds allow.

## 4. Properties

In every module that is run, `Sound` bundles its type invariant with the
conditions each state has to satisfy, named conjuncts of their own; where they
differ from run to run they are invariants beside it. Where several
modules share one of theorems (`DatabaseProofs`, `FetchingProofs`) their names are
kept apart: it is called `GateSound` in `DatabaseGate`, `BackupSound` in
`AutomaticBackups` and `ArtistSound` in `Artists`.

- `Maintenance`: `Exclusion` and `Compatible` (granted reservations exclude each
  other as documented), `ReservationReturned`; in `Sound`, `ReservationNamesWorker`
  (one worker, the reserved one), `ReportedAfterExit` (an outcome is reported after
  the process ended) and `NoPipelineInWindow` (no process a worker reads runs
  beside a backup, restore or module switch).
- `DatabaseGate`: `ImplementsSharedAccess`; in `GateSound`, `CountersMatch` and
  `NoLostWakeup`; in `Progress`, `WindowOpensUnlessNested` (the only way a window
  fails to open is a request that sleeps inside a connection of its own) and
  `RequestsResume`; `WindowOpens` is the unconditional promise that `gate_nested`
  refutes.
- `ModuleRuntime`: `IsASwitch`, `ToggleEnds` (every toggle is answered, unless the
  loop waits for ever for a worker that went on after its cancellation); in `Sound`, `Agreement`,
  `RunningIsHealthy`, `UnregisteredIsQuiet`.
- `YouTubeJobs`: `EveryJobEnds`; in `Sound`, `NoForgottenJob` and
  `NoStrayProcess`; in `RecordsAreHonest`, `PublishesLiveJobs` and `FinalStays`.
- `Restore`: `NothingLost` (old contents in place or in the recovery directory,
  crashes included), `AnswerIsTrue`, `IsAReplacement`; in `Sound`, `JournalsBelong`
  (no database beside another's journal).
- `AutomaticBackups`: `RetiresOnlyItsOwn`, `ForgetsOnlyTheGone`,
  `NoMoreThanRetention`; in `BackupSound`, `NewerAreOnRecord` (a newer bundle is on
  record whenever one is deleted).
- `Attachments`: `RemovesOnlyAsked` (no row or text goes that nobody asked to
  remove), `MigrationIsComplete` (nothing that was listed stays hidden); in
  `Sound`, `RowsResolve` (the bytes of every row are found).
- `Pipeline`: `NothingLost` (a sidecar is replaced only with a copy in the archive,
  a complete one only in a refresh), `StampsAreHonest` (what the manifest calls
  unchanged is in the index as it is on disk), `SuccessIsTrue` (a tool that reports
  success has made the rows of the files the user left alone true); in `Sound`,
  `JsonMarksCompletion` (the text sidecar is never older than the JSON one, which
  marks the pair as written).
- `Folders`: `RegistriesAgree` (shared list and registered roots),
  `AnswerIsBrowsable` (what an answered batch added is listed where it should be),
  `ReleaseKeepsFolder`; in `Sound`, `RowsBelongToRoots`.
- `Library`: `StaysWithImage` (a row belongs to the image the user gave it to and to
  no other), `CountsAddUp` (views and hearts over all rows are those that were
  answered), `AnswersAreTrue` (what a request's transaction answers is what the tables show, of
  the right image; what others do between the commit and the response is not in it,
  and the list answers are the tables themselves: those operations are there because
  they change what the others find); in `Sound`, `FilesAreKept`.
- `Artists`: `LookupsAreHonest` (a failed question for a page or an artist is not
  cached as its answer; a failed list of addresses is, and the property says as
  what), `NewsIsKept`, `AnswersAreHeld` (saved or unchanged means a row of that very
  image, with its file unless the user removed that); in `ArtistSound`,
  `VersionsAreKept`.

Each is stated in words above its definition. For each checked property,
`PROJECT.json` names a mutant of a mapped definition (marked `Mutant:` in the
modules) under which TLC finds it violated. Where the code breaks a promise in
certain races, the property excepts exactly those, by a history variable that
remembers them; the exceptions are listed below.

### What the code does not promise

- The gate (`gate_nested`): several routers open a second connection inside their
  first; together with a waiting backup or restore neither ever proceeds, and no
  connection can be opened again.
- An exception while reading a pipeline's output (the pipe is decoded strictly,
  tools.py:352) frees the reservation and leaves the process: an orphan, which
  may run beside a restore. `NoPipelineInWindow` speaks of the others.
- YouTube: `except CancelledError: await completion; raise` (jobs.py:212) lets the
  publication's own exception replace the cancellation; the queue task goes on,
  and disable or shutdown waits for it for ever, with `module_change_lock` held, so
  that no other toggle is answered either. The publication does fail in this
  situation: during a live disable its window is refused. `ToggleEnds` excepts
  this, and nothing else (`Stuck`). `update` (jobs.py:226)
  writes unconditionally, so a cancellation answered between a status read and
  the write that depends on it is undone: `FinalStays` says nothing of cancelled
  records. A folder may be given away between the publication's look at it
  (jobs.py:132) and the rename.
- Attachments: a count of references and the removal of the bytes are two steps.
- Pipeline: a refresh writes the current layout and the sync prefers older ones
  (pipeline.py:1880), so a refreshed sidecar may never reach the index:
  `SuccessIsTrue` speaks of the sidecar the sync prefers. A kill between a sidecar
  and its line in the ledger (1002, 1010) leaves a stale "error" there for good. A
  file that goes and comes back keeps its ledger and is not hashed again
  (2034). Content that changes under an unchanged sidecar keeps its old hash
  (1936), and the automatic check launches a sync for it at every tick. Stamps are
  compared for equality only (1951): a file that is replaced between a sync's scan
  and its turn gets a row of the new content with the stamp of the old; if the old
  content is put back with its own time, no later sync corrects the row.
  `StampsAreHonest` excepts the files in `reverted`.
- Folders: a release commits the end of the registration
  (`ensure_sources_schema` runs a script, hence commits) before the source's new
  role; a crash or a publication in between drops the source, although
  routers/folders.py:172 says "Release keeps the folder in Files". An import that
  begins within a release leaves rows without a root. A batch whose later owner
  refuses stays half applied.
- Library: user data are "matched to files by durable identity rather than row id,
  so it survives a full rebuild of the disposable index" (image_activity.py:3), but
  a count is inserted with ON CONFLICT(file_id) (105) and the lookups fall back to
  ids: after a rebuild that renumbers, a row may go to another image, and a
  favourite may be refused because its id is taken. A move that stops between its
  two commits leaves the user's data at the old path. Counts are read before the
  transaction that writes them. Overlapping moves to one place overwrite a file.
- Artists: two checks that overlap on one follow, or a mark that reads the newest
  post before its transaction, mark news as seen; an unfollow in between ends a
  check with an error; a kill between file and row leaves an orphan file. A failed
  list of an artist's addresses is cached as `artist_urls_checked` with those of the
  artist's entry alone (tag_wiki.py:439-451), and failed aliases or implications as
  none (323); both are served for thirty days, also where they replace a fuller
  row. `LookupsAreHonest` promises neither. An archived file that the user removed
  is fetched again at the next refresh, since artist_profiles.py:265 finds it
  missing, but its row is found by its bytes (271-277), so it counts as unchanged
  and the new bytes are dropped: the file never comes back. `AnswersAreHeld` excepts it.

## 5. Proofs

Every theorem holds for all values of the constants and rests only on the named
assumptions of the module it is about. None of the invariants is inductive alone;
in each case TLC checked the inductive one, `IInv`, first.

`MaintenanceProofs`, for every finite set of threads, every set of tools and every
number of steps: `Spec` implies `[]Sound`, `[]Exclusion` and `Compatible`, the
refinement of `Reservations`. `IInv` adds: what a thread does agrees with where it
is (`OpMatchesPc`); a thread past its acquisition, and a thread in a window, owns
the lock (`LockOwner`), which is why no window opens while another caller is
between its test and its assignment; the flag is up during a transition, and then
nothing is counted or reserved (`FlagGuards`); the counter is the number of threads
inside an operation (`OperationsCounted`, by the cardinality theorems), so it is
never negative; what a window's test found still holds (`WindowGuards`); the loop
index is in range; an outcome precedes the `finally`; a process that is read has
its worker (`ProcessHasWorker`), and with it the reservation. `StepOfThread` and
`StepOfWorker` frame each step, so that every conjunct is checked only against the
actions that can touch it.

`DatabaseProofs`, of the gate, for every finite set of threads, every depth and any
number of windows: `[]GateSound` and `ImplementsSharedAccess`. The inductive
invariant, `GateInv` here, adds that nobody but the writer has a connection while there is a writer (`WriterAlone`) and that a waiting
thread has room for one more (`Room`). `Counted` turns the counters into the sizes
of two finite sets, by the cardinality theorems; the refinement follows because a
counter is zero only if its set is empty.

`RuntimeProofs`, for every finite set of toggles, requests and workers: `[]Sound`
and `IsASwitch`, the refinement of `ModuleSwitch`. What links the choice to the
runtime while a toggle is between them is `Placed`: what is true of state, tasks
and coroutine at each position of the toggle that holds the lock. `LockHeld` makes
that one toggle; `ChangeOwned` says that a coroutine has a toggle waiting for it,
which is why none is left when the lock is free; `TasksAccounted` relates a running
module to its tasks and to the callbacks that are due; `KnownIsTrue` closes the gap
between the two checks of a request.

`DatabaseProofs`, of the restore, for any set of components, any databases among them and any number
of versions: `[]Sound`, `[]NothingLost`, `[]AnswerIsTrue` and `IsAReplacement`, the
refinement of `Replacement`. `IInv` adds: which moves of each component are on
record, each once (`MovesInOrder`, the reason a rollback undoes everything); what
`previous` and `live` hold before, between and after the moves of a component
(`OldContents`, `NewContents`, `NewJournals`); what the outcome says at each
position (`Report`). Without `MovesInOrder` the rollback cannot be shown to restore
a path: nothing else links `applied` to the paths that changed.

`FetchingProofs`, of the queue, for every set of jobs, any duplicates among them and any capacity of
the queue: `[]Sound` and `RecordsAreHonest`. `Sound` says who works on a live record;
to keep saying it, `IInv` has to say what the queue task knows at each position: the
job it holds is the one whose process runs (`Busy`, `Working`), it is in nobody
else's hands (`PendingOnce`), the change lock is held exactly by the toggle that
switches (`Locked`), and a stop has reached the task before its workers are awaited
(`Stopping`). That a record stays final needs `PendingOnce`: a job that were queued
twice would be started again after its end.

`DatabaseProofs`, of the backups, for any bundles and locations and any retention: `[]BackupSound`,
`RetiresOnlyItsOwn`, `ForgetsOnlyTheGone` and `NoMoreThanRetention`. `BackupInv` adds that
what is on record was made before (`MadeFirst`), that the entries retention still has
to look at are older than those it keeps (`EntriesAreOld`), and that as many as it
keeps are on record in the file, not only in the copy of the run
(`RetentionIsOnRecord`); the last is what a crash between the copy and the file would
break. That a set of numbers has a least one, and that taking the oldest leaves at
most `keep`, are lemmas (`LeastNumber`, `OldestLeavesFew`).

`FetchingProofs`, of the artists, for any callers, artists, platforms and images, any finite set of
posts and any number of requests: `[]ArtistSound`, `[]LookupsAreHonest`,
`[]AnswersAreHeld` and `NewsIsKept`. What overlapping requests hold in their hands is
read from shared tables and may be old, so `ArtistInv` says for each kind and position of a request what
still has to be true of it (`RequestsFit`, by way of the constant operator `Fits`):
images it read belong to the follow, what it counted has a row, with a file that is
there or was removed, or the file it is about to record, values it fetched are honest.
`WikiIsHonest` says of the cached values what `Fits` says of the fetched ones, and
`LookupsAreHonest` follows from it; `SeenIsUpTo` keeps the seen posts below the last
seen id. `NewestPost` gives the greatest of a finite set. The assumptions: posts
are numbers, finitely many, the wiki pages are sets of posts or `Null`, and `Null` is
no post and no row.

`PipelineProofs`, for every set of files, contents, revisions and tools, any limit on
failures and any number of jobs and edits: `[]Sound`, `[]StampsAreHonest`,
`NothingLost` and `SuccessIsTrue`. A process works on what it read earlier, beside
the user and the migration, so most of `IInv` says what its readings are still good
for. `JobFits` gives what a process holds at each place and the order of an import's
processes. `OldCards`: sidecars of the older layout are complete and older than those
of any tool, hence a copy by the migration never passes for a new one. `Pairs` follows
the text sidecar and the JSON one through a write, and through a clean that removes
them in any order. `Rows`: the stamp in the manifest is no newer than the content the
row was made of; with `Readings` (what a process read is no newer than what there is)
it gives `StampsAreHonest`. `Lists` says of each file a process has yet to write that
it has no sidecar or the one the process saw waiting for details, which is why a write
replaces nothing that was complete; `NothingLost` needs it. `Synced` and `Imported`
say, place by place, what a sync and an import have seen to so far; at the end that is
`SuccessIsTrue`. The
first attempt failed at `Rows` when a content comes back that is older than the last;
TLC, given three edits instead of one, confirmed that `StampsAreHonest` was false
then. Hence `reverted`; section 4 says what the code does there.

`AttachmentsProofs`, for every set of threads, subjects, names and stores and any
number of notes and rows: `[]Sound`, `RemovesOnlyAsked` and `MigrationIsComplete`.
Nothing locks a request, so all it has is what it read; `Known` says of each what is
still true of it. A note it is about to write is its subject's or none (`NoteFits`);
the rows a migration has yet to look at are as it listed them or gone (`AsRead`), and
what it has passed is browsable or still ahead of it (`Passed`); the bytes a request
relies on are there (`HasBytes`), and a note it found empty still is (`StillEmpty`),
each unless a race is marked. `RacesAreMarked` and `NobodyNeeds` make the marks mean
what they should: who overlaps is marked, and nobody unlinks unmarked bytes that a
row needs. `StepKeeps` reduces each step to what it has to show of its own request and
of the tables; what the others know stays true because no step changes a row (except
to repoint one, in the one migration: `OneMigration`) and ids are never used again
(`NotesStay`, `RowsStay`). Without the two marks neither `RowsResolve` nor
`RemovesOnlyAsked` holds: section 2 says where the code loses something.

`FoldersProofs`, for every set of folders, files, roots and callers, batches of every
length and any number of requests, moves, crashes and ticks: `[]Sound`,
`[]RegistriesAgree`, `ReleaseKeepsFolder` and `AnswerIsBrowsable`. It assumes that a
folder is a path of at least one component, that files lie in folders, and that a
root's id is not the word for none. Between two commits of a request the shared list
and the registered roots differ by exactly the folder in question; `ListsFit` says by
which at each place, and `Agreement` that they do not differ otherwise unless
something made a publication due (`drift`). That needs requests to run one at a time
until two have met (`OneAtATime`), and of each the steps it may be at (`JobsFit`: the
changes left concern different folders, releases before new folders, the step fits
the role). `Rooted` is the same for the rows: what a release has read still holds,
and the roots an import read are still registered, as long as nothing raced. `Batched`
says what a batch that met nothing has seen to so far, change by change; `ScansAddUp`
shows that scanning the sources one after the other comes to the same as the model's
one step, and `ScanShows` that no later scan of the batch hides what an earlier one
showed. `FilesAreHomed` and `BoundsHold` are invariants of their own.

The first attempts failed for reasons that were the model's, and TLC then showed on
the instance. `RegistriesAgree` was false for two callers: of two roots registered at
one folder the removal of one withdraws the folder from the shared list though the
other still has it, as the code does until the next publication; `Unregister` now
marks it as due. The arms of `Next1` overlapped, where the code's `if` statements
are tried in order; they exclude each other now. The scans of several sources, one
operator before, are `Scan` for one and `ScanAll` for those of a loop.

`LibraryProofs`, for every set of images, places, ids, collections and callers and
any number of requests, moves, rebuilds and restarts, however they overlap: `[]Sound`,
`[]StaysWithImage`, `[]CountsAddUp` and `AnswersAreTrue`. It assumes that every image
has a place of its own at first and that a data root is its own root. That a row
stays with its image rests on the path it carries, so `IInv` has to say where every
image is at every point of every move: it has one place and one row of the index
(`OnePlace`), unless moves to one place overlapped it is somewhere (`NothingLost`),
and unless one was cut short it lies where the index says or on the way a move is
taking it (`MovesFit`, `IndexFits`), its sidecar with it (`CardsFit`). `WhosFit` says
what the identity a request read earlier is still good for: its place is still its
image's, or the image has moved into the data root and nothing has come in its
stead. `RowFits` says of a row that it belongs to one image, whose place it carries
or the one a move has still to correct, and that its id, while in use, is that
image's (`RowsFit`); `SeenFits` that the counts a request has read are its image's.
The last two hold unless a drift, a cut or a race is marked (`Clean`). Once moves
have ended a row that fits matches the files of its image and no others
(`FitsMatches`), which is `StaysWithImage`.

Identities read one at a time must stay of the images asked for while others move
them: a request at "more" is held to what one at its first look is (`ReadsOn`,
`IdentifyNextKeeps`), and its second look is a step that reads only (`LooksOn`,
`ClashesOn`).

The counts need two facts more, kept by every step beside `IInv`: the row a request
will write and the row it will merge are two (`Apart`), and finitely many rows add
up to what was answered (`Tallied`). That a sum over a set changes by what its members
do would take induction; the model adds counts as the size of a set of pairs, and the
cardinality theorems give what is needed: disjoint rows add (`TotalsAdd`), a change
of paths changes no sum (`SameTotal`, by a bijection), and a merge counts its rows
and one (`MergedCounts`).

Three attempts failed for reasons that were the model's, and TLC confirmed each.
With more ids than images, a row that has nothing but an id no image uses any more
was not marked as drift, and `StaysWithImage` was false when the id came back. With
two collections, `AnswersAreTrue` looked at the images of all of them instead of the
one the request was about. And a view that merges a second row, by the id it read
before a rebuild, merges what another request has written since; that is a race now.

A greatest or a least element is usually found by induction over the set; the
library's induction theorems take an operator as a parameter and cannot be used. The
two lemmas take a minimal counterexample instead (`WFMin` on pairs of numbers).

Only model-checked: liveness (`ReservationReturned`, `Progress`, `ToggleEnds`,
`EveryJobEnds`; in `DatabaseGate`, also the violated `WindowOpens`), which is out of
the prover's reach. Every invariant and every action property of the runs is proved.

## 6. What is left

1. `LocalRecovery` (rotation under a clock that goes back), `Thumbnails` (partial
   files, pruning beside generation), lazy hashes of the file index, notes found
   again by hash and location.
2. Compositions: maintenance with the gate and backups; the runtime with the
   YouTube queue in place of an abstract worker.
3. Two overlapping requests of `Folders`, and a second file of `Pipeline`, beyond
   what TLC finishes in minutes.

## 7. Not modelled

Query construction, ranking and presentation of the catalogue, parsing of
external pages, path validation, HTTP details, logging, packaging, the launcher
and the frontend's views: their logic is sequential and local, or outside this
repository. Of the modelled parts: the search, download and normalisation commands
of the pipeline, its limits and dry runs; names, visibility and sidecars of
folders; order and times of the user's lists, removed tags as rows; related and
suggested tags, texts of wiki pages; preferences of the downloader; attachments in
a bundle; a second connection of another program that opens between the checkpoint
and the rename of a restore. The folder lookup of `paths.py` (27, 66) names
`get_user_db` without importing it: the request that uses it fails, and nothing it
would change is modelled. Parts that are not yet written are listed as such in
`PROJECT.json`.
