------------------------------- MODULE Folders --------------------------------
(***************************************************************************)
(* The folders of the library.  Three stores describe one folder: the      *)
(* shared list of sources (files_sources in user.sqlite), Danbooru's       *)
(* registered roots (registered_folders, same database) with the rows of   *)
(* its index (danbooru.sqlite), and the base index (files.sqlite).         *)
(* Requests (services/folder_roles.py, routers/folders.py, routers/        *)
(* files.py) change them one short transaction at a time; the library      *)
(* import fills the rows; starting the Danbooru module publishes its roots *)
(* into the shared list.  Requests overlap, the user moves folders on      *)
(* disk, and the server may stop between any two transactions.             *)
(*                                                                         *)
(* A folder is its path, the sequence of its components, and the id of a   *)
(* source is its path too.  Names, visibility and sidecars are left out.   *)
(***************************************************************************)
EXTENDS Integers, Sequences, FiniteSets, SequencesExt

CONSTANTS
    Dirs,      \* folders a user may have, as sequences
    Media,     \* files; each lies directly in one folder
    Homes,     \* where each lies at first
    Roots,     \* root ids (random, never reused while anything names them)
    Callers,   \* requests that may run at once
    Requests,  \* the kinds of request made
    MaxBatch, MaxRequests, MaxMoves, MaxCrashes, MaxTicks  \* bounds

Parts == UNION {Range(d) : d \in Dirs}
ASSUME PathAssumption == Dirs \subseteq Seq(Parts) \ {<<>>}
ASSUME HomeAssumption == Homes \in [Media -> Dirs]
ASSUME RootAssumption == {"none", "stray"} \cap Roots = {}
ASSUME BoundAssumption ==
    {MaxBatch, MaxRequests, MaxMoves, MaxCrashes, MaxTicks} \subseteq Nat

VARIABLES
    there, home,  \* the disk: folders that exist, and the folder of each file
    source,       \* files_sources: the role of each folder, "none" if not listed
    registered,   \* registered_folders: the folder of each root, <<>> for none
    row,          \* files in danbooru.sqlite: [at, m, root]
    entry,        \* files_index in files.sqlite: [at, m, src, on]
    tool,         \* the running import: its folders and the roots it read
    up,           \* the Danbooru module runs
    job,          \* the request of each caller
    left,         \* what is left of the bounds
    past          \* history: see NoPast

disk  == <<there, home>>
lists == <<source, registered>>
vars  == <<disk, lists, row, entry, tool, up, job, left, past>>

Idle == [kind |-> "idle", at |-> "idle", todo |-> <<>>, asked |-> {}, root |-> "none",
         path |-> <<>>, doomed |-> {}, gone |-> {}, seen |-> {}, alone |-> TRUE]
NoTool == [scope |-> {}, roots |-> [r \in Roots |-> <<>>]]

\* drift: something that only a publication repairs came between two lists;
\* raced: a request or an import began within a release or another request, or
\* one imported a folder while the lists disagreed;
\* cut: folders whose release has taken only the first of its two commits;
\* moved: folders whose root was pointed elsewhere.
NoPast == [drift |-> FALSE, raced |-> FALSE, cut |-> {}, moved |-> {}]

Listed     == {d \in Dirs : source[d] # "none"}
Live       == {r \in Roots : registered[r] # <<>>}
RootAt(d)  == {r \in Live : registered[r] = d}
Busy(c)    == job[c].kind # "idle"
Running    == tool # NoTool

\* Paths.  Below is strict; the nearest of a set is its longest.
Below(d, f)     == IsStrictPrefix(f, d)
Within(d, f)    == IsPrefix(f, d)
Deepest(S)      == CHOOSE d \in S : \A e \in S : Len(e) <= Len(d)
Carry(d, f, g)  == g \o SubSeq(d, Len(f) + 1, Len(d))
Descendants(f, S) == {d \in S : Below(d, f)}
Ancestors(f, S)   == {d \in S : Below(f, d)}

\* Every variable has its type, no two rows and no two entries share a path, a
\* folder is registered once, and a request that is answered holds nothing.
TypeOK ==
    /\ there \subseteq Dirs /\ home \in [Media -> Dirs]
    /\ source \in [Dirs -> {"none", "files", "danbooru", "manga"}]
    /\ registered \in [Roots -> Dirs \cup {<<>>}]
    /\ row \subseteq [at : Dirs, m : Media, root : Roots \cup {"stray"}]
    /\ \A x, y \in row : x.at = y.at /\ x.m = y.m => x = y
    /\ entry \subseteq [at : Dirs, m : Media, src : Dirs, on : BOOLEAN]
    /\ \A x, y \in entry : x.at = y.at /\ x.m = y.m => x = y
    /\ past.raced \/ \A r, s \in Live : registered[r] = registered[s] => r = s
    /\ up \in BOOLEAN
    /\ \A c \in Callers : job[c].kind = "idle" <=> job[c] = Idle

Init ==
    /\ there = {Homes[m] : m \in Media} /\ home = Homes
    /\ source = [d \in Dirs |-> "none"] /\ registered = [r \in Roots |-> <<>>]
    /\ row = {} /\ entry = {} /\ tool = NoTool /\ up = TRUE
    /\ job = [c \in Callers |-> Idle]
    /\ left = [requests |-> MaxRequests, moves |-> MaxMoves, crashes |-> MaxCrashes,
               ticks |-> MaxTicks]
    /\ past = NoPast

-----------------------------------------------------------------------------
(* What a transaction does.                                                *)

\* What a scan of a source sees as its own: it does not descend into the other
\* sources it knows of.
Mine(f, seen) ==
    {[at |-> home[m], m |-> m, src |-> f, on |-> TRUE] :
        m \in {n \in Media : /\ home[n] \in there /\ Within(home[n], f)
                             /\ \A d \in Descendants(f, seen) : ~Within(home[n], d)}}

\* Scans of some sources, one after the other: what is not seen again becomes
\* unavailable.  No file is the own of two sources of one list, so that the
\* order does not matter.
ScanAll(known, over, seen) ==
    LET mine == UNION {Mine(f, seen) : f \in over}
        rest == {x \in known : \A y \in mine : x.at # y.at \/ x.m # y.m}
    IN  {IF x.src \in over THEN [x EXCEPT !.on = FALSE] ELSE x : x \in rest} \cup mine
Scan(known, f, seen) == ScanAll(known, {f}, seen)

\* The entries of a source, dropped.
Dropped(f) == {x \in entry : x.src # f}

\* The shared list after Danbooru's roots are published: its rows are exactly
\* the registered folders.
Published ==
    [d \in Dirs |-> IF RootAt(d) # {} THEN "danbooru"
                    ELSE IF source[d] = "danbooru" THEN "none" ELSE source[d]]

\* The root of a file under the roots a process has read: the deepest.
RootOf(d, roots) ==
    LET over == {r \in Roots : roots[r] # <<>> /\ Within(d, roots[r])}
    IN  IF over = {} THEN "stray"
        ELSE CHOOSE r \in over : \A s \in over : Len(roots[s]) <= Len(roots[r])

\* The index after an import: files it did not know get a root, rows in its
\* folders without a file go, and a folder that is missing is skipped.
Imported ==
    LET scope == tool.scope \cap there
        In(d) == \E f \in scope : Within(d, f)
        found == {m \in Media : home[m] \in there /\ In(home[m])}
        old   == {x \in row : ~In(x.at) \/ (x.m \in found /\ home[x.m] = x.at)}
    IN  old \cup {[at |-> home[m], m |-> m, root |-> RootOf(home[m], tool.roots)] :
                     m \in {n \in found : \A x \in old : x.m # n \/ x.at # home[n]}}

\* The import of some folders, unless a tool runs: then it is not started and
\* the request answers all the same.
StartImport(scope) ==
    tool' = IF Running THEN tool ELSE [scope |-> scope, roots |-> registered]

-----------------------------------------------------------------------------
(* The requests.                                                           *)

Others(c) == {d \in Callers \ {c} : Busy(d)}

\* Nothing else may be relied on to have stayed as a request saw it.
NotAlone == [c \in Callers |-> IF Busy(c) THEN [job[c] EXCEPT !.alone = FALSE] ELSE job[c]]

\* A request begins.  A second one running at once is a race, and whether the
\* lists still agree is then for the next publication.
Begin(c, kind, at, todo, path) ==
    /\ kind \in Requests
    /\ job' = [NotAlone EXCEPT ![c] = [Idle EXCEPT
           !.kind = kind, !.at = at, !.todo = todo, !.asked = Range(todo),
           !.path = path, !.alone = Others(c) = {}]]
    /\ left' = [left EXCEPT !.requests = @ - 1]
    /\ past' = IF Others(c) = {} THEN past ELSE [past EXCEPT !.drift = TRUE, !.raced = TRUE]
    /\ UNCHANGED <<disk, lists, row, entry, tool, up>>

To(c, at)  == job' = [job EXCEPT ![c].at = at]
Answer(c)  == job' = [job EXCEPT ![c] = Idle]
Head1(c)   == Head(job[c].todo)
Folder(c)  == Head1(c).f

\* After the last step of a change: the next change of the batch, or the end of
\* the request; a relocation goes on to publish.
Done(c) ==
    CASE job[c].kind = "save" -> job' = [job EXCEPT ![c].at = "next", ![c].todo = Tail(@)]
      [] job[c].kind = "relocate" /\ job[c].at = "import" -> To(c, "publish")
      [] OTHER -> Answer(c)

Owned(ch) == {ch.from, ch.to} \cap {"danbooru"} # {}

\* A batch is valid: no folder twice, folders in the list keep their place
\* before new ones, what it adds exists and is not in the list, and a batch
\* that concerns Danbooru's folders needs the module.
ValidChange(ch) ==
    /\ Owned(ch) => up
    /\ \/ ch.from = source[ch.f] /\ ch.from # "none" /\ ch.to \notin {ch.from, "none"}
       \/ ch.from = "none" /\ source[ch.f] = "none" /\ ch.f \in there
             /\ ch.to \in {"files", "danbooru", "manga"}
Changes == {ch \in [f : Dirs, from : {"none", "files", "danbooru", "manga"},
                    to : {"files", "danbooru", "manga", "forget"}] : ValidChange(ch)}
Batches ==
    {s \in UNION {[1..n -> Changes] : n \in 1..MaxBatch} :
        \A i, j \in DOMAIN s : i < j =>
            s[i].f # s[j].f /\ (s[i].from = "none" => s[j].from = "none")}

Save(c) == \E batch \in Batches : Begin(c, "save", "next", batch, <<>>)

\* The next change of a batch, by what it asks of the folder's owner.
Next1(c) ==
    /\ job[c].at = "next" /\ job[c].todo # <<>>
    /\ LET ch == Head1(c)
       IN  To(c, CASE ch.from = "none"     -> "register"
                   [] ch.from = "danbooru" -> "check"
                   [] ch.from = "manga"    -> "letgo"
                   [] ch.from = "files"    -> IF ch.to = "forget" THEN "forget" ELSE "adopt")
    /\ UNCHANGED <<disk, lists, row, entry, tool, up, left, past>>

\* Where a change goes once its owner has let the folder go.
AfterRelease(ch) ==
    CASE ch.to = "forget" -> "drop" [] ch.to = "files" -> "settle" [] OTHER -> "adopt"

\* A folder becomes a Files source; the list is read in the same transaction
\* and the folder is scanned with it afterwards.
Register(c) ==
    /\ job[c].at = "register"
    /\ source' = [source EXCEPT ![Folder(c)] = IF @ = "none" THEN "files" ELSE @]
    /\ job' = [job EXCEPT ![c].at = "scan",
                          ![c].seen = {d \in Dirs : source'[d] # "none"}]
    /\ UNCHANGED <<disk, registered, row, entry, tool, up, left, past>>

\* The scan, with the list read earlier; browsing scans only a source that has
\* no entries.
Indexed(f) == \E x \in entry : x.src = f
ScanSource(c) ==
    /\ job[c].at = "scan"
    /\ entry' = IF job[c].kind = "browse" /\ Indexed(Folder(c)) THEN entry
                ELSE Scan(entry, Folder(c), job[c].seen)
    /\ CASE job[c].kind = "save" /\ Head1(c).to # "files"      -> To(c, "adopt")
         [] job[c].kind = "rescan" /\ Head1(c).to = "danbooru" -> To(c, "import")
         [] OTHER -> Done(c)
    /\ UNCHANGED <<disk, lists, row, tool, up, left, past>>

\* A forget begins with a preview, which needs the folder to be listed.
Previewed(f) == source[f] # "none"

\* Forgetting a folder that only Files has.
Forget(c) ==
    /\ job[c].at = "forget"
    /\ IF Previewed(Folder(c)) THEN To(c, "drop") ELSE Answer(c)
    /\ source' = [source EXCEPT ![Folder(c)] = "none"]
    /\ UNCHANGED <<disk, registered, row, entry, tool, up, left, past>>

\* Manga lets a folder go, if the folder is still its own: otherwise the batch
\* ends here, its earlier changes made.
MangaRelease(c) ==
    /\ job[c].at = "letgo"
    /\ IF source[Folder(c)] # "manga" THEN Answer(c) /\ UNCHANGED source
       ELSE /\ source' = [source EXCEPT ![Folder(c)] =
                              IF Head1(c).to = "forget" THEN "none" ELSE "files"]
            /\ To(c, AfterRelease(Head1(c)))
    /\ UNCHANGED <<disk, registered, row, entry, tool, up, left, past>>

\* The rows of a root, by their ids.
Doomed(r) == {x.m : x \in {y \in row : y.root = r}}

\* Mutant: no look for a running tool.
ReleaseAtOnce(c) ==
    /\ job[c].at = "check"
    /\ IF RootAt(Folder(c)) = {} THEN Answer(c)
       ELSE \E r \in RootAt(Folder(c)) :
                job' = [job EXCEPT ![c].at = "cut", ![c].root = r, ![c].doomed = Doomed(r)]
    /\ UNCHANGED <<disk, lists, row, entry, tool, up, left, past>>

\* Danbooru's release looks for a running tool once, then reads the root and
\* its rows.  A tool, or a folder no longer listed, ends the batch here.
ReleaseCheck(c) ==
    /\ job[c].at = "check"
    /\ IF \/ Running
          \/ job[c].kind = "save" /\ ~Previewed(Folder(c))
          \/ job[c].kind = "remove" /\ RootAt(Folder(c)) = {}
       THEN Answer(c)
       ELSE IF RootAt(Folder(c)) = {} THEN To(c, "relabel")
       ELSE \E r \in RootAt(Folder(c)) :
                job' = [job EXCEPT ![c].at = "cut", ![c].root = r, ![c].doomed = Doomed(r)]
    /\ UNCHANGED <<disk, lists, row, entry, tool, up, left, past>>

\* The rows go first, in a transaction on the index.
DeleteRows(c) ==
    /\ job[c].at = "cut"
    /\ row' = {x \in row : x.root # job[c].root \/ x.m \notin job[c].doomed}
    /\ To(c, "unregister")
    /\ UNCHANGED <<disk, lists, entry, tool, up, left, past>>

\* Then the registration.  Making sure of the schema of files_sources commits,
\* so this is a transaction of its own.  A folder that two requests registered
\* at once keeps its other registration.
Unregister(c) ==
    /\ job[c].at = "unregister"
    /\ registered' = [registered EXCEPT ![job[c].root] = <<>>]
    /\ job' = [job EXCEPT ![c].at = "relabel", ![c].path = registered[job[c].root]]
    /\ past' = [past EXCEPT !.cut = @ \cup ({registered[job[c].root]} \ {<<>>}),
                            !.drift = @ \/ \E s \in Live \ {job[c].root} :
                                              registered[s] = registered[job[c].root]]
    /\ UNCHANGED <<disk, source, row, entry, tool, up, left>>

\* Mutant: a release withdraws the folder like a removal.
RelabelDrops(c) ==
    /\ job[c].at = "relabel"
    /\ source' = [source EXCEPT ![Folder(c)] = "none"]
    /\ past' = [past EXCEPT !.cut = @ \ {Folder(c)}]
    /\ IF job[c].kind = "save"
       THEN job' = [job EXCEPT ![c].at = AfterRelease(Head1(c)), ![c].root = "none",
                               ![c].path = <<>>, ![c].doomed = {}]
       ELSE Answer(c)
    /\ UNCHANGED <<disk, registered, row, entry, tool, up, left>>

\* Then the source: a release keeps it as a Files folder, a forget or a
\* removal withdraws it.
Keeps(c) == job[c].kind = "save" /\ Head1(c).to # "forget"
Relabel(c) ==
    /\ job[c].at = "relabel"
    /\ LET p == IF job[c].root = "none" THEN Folder(c) ELSE job[c].path
       IN  /\ source' = IF p = <<>> THEN source
                        ELSE [source EXCEPT ![p] = IF Keeps(c) /\ @ # "none" THEN "files"
                                                   ELSE "none"]
           /\ past' = [past EXCEPT !.cut = @ \ {p}]
    /\ IF job[c].kind = "save"
       THEN job' = [job EXCEPT ![c].at = AfterRelease(Head1(c)), ![c].root = "none",
                               ![c].path = <<>>, ![c].doomed = {}]
       ELSE Answer(c)
    /\ UNCHANGED <<disk, registered, row, entry, tool, up, left>>

\* A folder given to Files has its role set once more.
Settle(c) ==
    /\ job[c].at = "settle"
    /\ source' = [source EXCEPT ![Folder(c)] = IF @ = "none" THEN @ ELSE "files"]
    /\ Done(c)
    /\ UNCHANGED <<disk, registered, row, entry, tool, up, left, past>>

\* A forgotten folder leaves the base index, and so does the old place of a
\* relocated one, which is then scanned at the new place.
DropSource(c) ==
    /\ job[c].at = "drop"
    /\ IF job[c].kind = "relocate" THEN entry' = Dropped(job[c].path) /\ To(c, "scan")
       ELSE /\ entry' = Dropped(Folder(c))
            /\ job' = [job EXCEPT ![c].at = "next", ![c].todo = Tail(@),
                                  ![c].gone = @ \cup {Folder(c)}]
    /\ UNCHANGED <<disk, lists, row, tool, up, left, past>>

\* A module adopts a folder, which must still be listed.  Manga only sets the
\* role.
AdoptManga(c) ==
    /\ job[c].at = "adopt" /\ Head1(c).to = "manga"
    /\ source' = [source EXCEPT ![Folder(c)] = IF @ = "none" THEN @ ELSE "manga"]
    /\ IF source[Folder(c)] = "none" THEN Answer(c) ELSE Done(c)
    /\ UNCHANGED <<disk, registered, row, entry, tool, up, left, past>>

\* Danbooru keeps a registration it has, and makes one only for a folder that
\* is on disk: otherwise the batch ends here, its earlier changes made.
Adopt(c) ==
    /\ job[c].at = "adopt" /\ Head1(c).to = "danbooru"
    /\ LET f == Folder(c)
       IN  IF source[f] # "none" /\ RootAt(f) # {}
           THEN source' = [source EXCEPT ![f] = "danbooru"] /\ To(c, "import")
           ELSE /\ IF source[f] # "none" /\ f \in there THEN To(c, "insert") ELSE Answer(c)
                /\ UNCHANGED source
    /\ UNCHANGED <<disk, registered, row, entry, tool, up, left, past>>

\* A new root; again the schema commits before the source is written.
Fresh == {r \in Roots : /\ registered[r] = <<>> /\ \A x \in row : x.root # r
                        /\ tool.roots[r] = <<>> /\ \A c \in Callers : job[c].root # r}
Insert(c) ==
    /\ job[c].at = "insert"
    /\ \E r \in Fresh : registered' = [registered EXCEPT ![r] = Folder(c)]
    /\ To(c, "upsert")
    /\ UNCHANGED <<disk, source, row, entry, tool, up, left, past>>
Upsert(c) ==
    /\ job[c].at = "upsert"
    /\ source' = [source EXCEPT ![Folder(c)] = "danbooru"]
    /\ past' = [past EXCEPT !.cut = @ \ {Folder(c)}]
    /\ To(c, "import")
    /\ UNCHANGED <<disk, registered, row, entry, tool, up, left>>

\* The import of the folder.
ImportFolder(c) ==
    /\ job[c].at = "import"
    /\ StartImport({Folder(c)})
    /\ Done(c)
    /\ past' = [past EXCEPT !.raced = @ \/ past.drift]
    /\ UNCHANGED <<disk, lists, row, entry, up, left>>

\* Mutant: what a forgotten folder hid is not looked for.
RescanNothing(c) ==
    /\ job[c].at = "ancestors"
    /\ Answer(c)
    /\ UNCHANGED <<disk, lists, row, entry, tool, up, left, past>>

\* After the last change the list is read again, and the nearest source left
\* over each forgotten folder is scanned, to show what it hid.
ReadList(c) ==
    /\ job[c].at = "next" /\ job[c].todo = <<>>
    /\ job' = [job EXCEPT ![c].at = "ancestors", ![c].seen = Listed]
    /\ UNCHANGED <<disk, lists, row, entry, tool, up, left, past>>
RescanAncestors(c) ==
    /\ job[c].at = "ancestors"
    /\ LET over == {Deepest(Ancestors(f, job[c].seen)) :
                        f \in {g \in job[c].gone : Ancestors(g, job[c].seen) # {}}}
       IN  entry' = ScanAll(entry, over, job[c].seen)
    /\ Answer(c)
    /\ UNCHANGED <<disk, lists, row, tool, up, left, past>>

-----------------------------------------------------------------------------
(* The requests on one folder.                                             *)

One(f, from, to) == <<[f |-> f, from |-> from, to |-> to]>>

\* Danbooru's own list: removing a root, and registering a folder that exists
\* and has none.
RemoveRoot(c) == up /\ \E f \in Dirs : Begin(c, "remove", "check", One(f, "danbooru", "forget"), <<>>)
Add(c) ==
    up /\ \E f \in there : RootAt(f) = {} /\ Begin(c, "add", "insert", One(f, "none", "danbooru"), <<>>)

\* Files: registering a folder, and scanning or browsing a source.
AddFiles(c) == \E f \in there : Begin(c, "files", "register", One(f, "none", "files"), <<>>)
ScanFiles(c) == \E f \in Listed : Begin(c, "scan", "list", One(f, source[f], source[f]), <<>>)
Browse(c) == \E f \in Listed : Begin(c, "browse", "list", One(f, source[f], source[f]), <<>>)

\* The owner of a folder scans it again; Danbooru imports it too.
Rescan(c) ==
    \E f \in Listed : /\ source[f] = "danbooru" => up
                     /\ Begin(c, "rescan", "list", One(f, source[f], source[f]), <<>>)

\* The list these read, in one transaction with the source.
ReadSource(c) ==
    /\ job[c].at = "list"
    /\ IF source[Folder(c)] = "none" THEN Answer(c)
       ELSE job' = [job EXCEPT ![c].at = "scan", ![c].seen = Listed]
    /\ UNCHANGED <<disk, lists, row, entry, tool, up, left, past>>

\* The suite relocates only a folder of a module that keeps a stable identity:
\* Files folders are refused, and manga has nothing to relocate.
Relocatable(f) == up /\ source[f] = "danbooru"

\* A root pointed at the place its folder was moved to: through the suite for a
\* listed source, or through Danbooru's own route.
Relocate(c) ==
    up /\ \E f, g \in Dirs :
        \/ Relocatable(f) /\ Begin(c, "relocate", "move", One(f, "danbooru", "danbooru"), g)
        \/ RootAt(f) # {} /\ Begin(c, "put", "move", One(f, "danbooru", "danbooru"), g)

\* Refused while a tool runs, when the place does not exist or has another
\* root, and when another root has a row where a row would go.  Otherwise the
\* root and its rows move in one transaction.  (That rows stay in Dirs is a
\* bound.)
Move(c) ==
    /\ job[c].at = "move"
    /\ LET f == Folder(c)
           g == job[c].path
           mine(r) == {x \in row : x.root = r}
           Moved(x) == [x EXCEPT !.at = Carry(x.at, f, g)]
           Fits(r) == /\ ~Running /\ g \in there /\ RootAt(g) \subseteq {r}
                      /\ \A x \in mine(r) : /\ Within(x.at, f) /\ Moved(x).at \in Dirs
                             /\ \A y \in row \ mine(r) : y.m = x.m => y.at # Moved(x).at
       IN  IF \E r \in RootAt(f) : Fits(r)
           THEN \E r \in {s \in RootAt(f) : Fits(s)} :
                    /\ registered' = [registered EXCEPT ![r] = g]
                    /\ row' = (row \ mine(r)) \cup {Moved(x) : x \in mine(r)}
                    /\ job' = [job EXCEPT ![c].at = "import", ![c].path = f,
                                          ![c].todo = One(g, "danbooru", "danbooru")]
                    /\ past' = [past EXCEPT !.moved = @ \cup {f},
                                            !.drift = @ \/ job[c].kind = "put"]
           ELSE Answer(c) /\ UNCHANGED <<registered, row, past>>
    /\ UNCHANGED <<disk, source, entry, tool, up, left>>

\* Mutant: the roots are published without pruning what is no longer one.
PublishAdds(c) ==
    /\ job[c].at = "publish"
    /\ source' = [d \in Dirs |-> IF RootAt(d) # {} THEN "danbooru" ELSE source[d]]
    /\ job' = [job EXCEPT ![c] = IF source'[Folder(c)] = "none" THEN Idle
           ELSE [@ EXCEPT !.at = "drop", !.seen = {d \in Dirs : source'[d] # "none"}]]
    /\ past' = [past EXCEPT !.drift = @ /\ Others(c) # {}]
    /\ UNCHANGED <<disk, registered, row, entry, tool, up, left>>

\* A relocation through the suite publishes the roots, then indexes the folder
\* in its new place.
PublishMove(c) ==
    /\ job[c].at = "publish"
    /\ source' = Published
    /\ job' = [job EXCEPT ![c] = IF source'[Folder(c)] = "none" THEN Idle
           ELSE [@ EXCEPT !.at = "drop", !.seen = {d \in Dirs : source'[d] # "none"}]]
    /\ past' = [past EXCEPT !.drift = @ /\ Others(c) # {}]
    /\ UNCHANGED <<disk, registered, row, entry, tool, up, left>>

-----------------------------------------------------------------------------
(* The rest of the program, and the user.                                  *)

\* The Danbooru module starts, which publishes its roots, and stops, which
\* waits for the requests that use it and for a tool.
Guarded(c) ==
    \/ job[c].kind \in {"remove", "add", "relocate", "put"}
    \/ job[c].kind \in {"save", "rescan"} /\ \E ch \in job[c].asked : Owned(ch)
Start ==
    /\ ~up /\ up' = TRUE
    /\ source' = Published
    /\ job' = NotAlone
    /\ past' = [past EXCEPT !.drift = \E c \in Callers : Busy(c)]
    /\ UNCHANGED <<disk, registered, row, entry, tool, left>>
Stop ==
    /\ up /\ ~Running /\ \A c \in Callers : ~Guarded(c)
    /\ up' = FALSE
    /\ UNCHANGED <<disk, lists, row, entry, tool, job, left, past>>

\* The folders an import of everything covers: those that are there.
ScanPaths == {registered[r] : r \in Live} \cap there

\* The automatic check, or the user, imports every registered folder.
Releasing == \E c \in Callers : job[c].at \in {"cut", "unregister"}
Tick ==
    /\ up /\ ~Running /\ left.ticks > 0 /\ ScanPaths # {}
    /\ tool' = [scope |-> ScanPaths, roots |-> registered]
    /\ left' = [left EXCEPT !.ticks = @ - 1]
    /\ past' = [past EXCEPT !.raced = @ \/ Releasing]
    /\ UNCHANGED <<disk, lists, row, entry, up, job>>

\* The import ends: done, or failed or cancelled before it changed anything.
ToolEnds ==
    /\ Running /\ tool' = NoTool
    /\ row' \in {row, Imported}
    /\ UNCHANGED <<disk, lists, entry, up, job, left, past>>

\* The server stops between two transactions.  A publication is several: each
\* folder is put in the shared list by one of its own, and the module that
\* starts, or the relocation, may not live to publish the last of them.
Crash ==
    /\ left.crashes > 0 /\ left' = [left EXCEPT !.crashes = @ - 1]
    /\ \E S \in SUBSET {d \in Dirs : RootAt(d) # {}} :
        /\ S = {} \/ ~up \/ \E c \in Callers : job[c].at = "publish"
        /\ source' = [d \in Dirs |-> IF d \in S THEN "danbooru" ELSE source[d]]
    /\ up' = FALSE /\ tool' = NoTool /\ job' = [c \in Callers |-> Idle]
    /\ past' = [past EXCEPT !.drift = @ \/ \E c \in Callers : Busy(c)]
    /\ UNCHANGED <<disk, registered, row, entry>>

\* The user moves a folder, with what is in it, to a free place.
MoveFolder ==
    /\ left.moves > 0 /\ left' = [left EXCEPT !.moves = @ - 1]
    /\ \E d \in there, g \in Dirs \ there :
        LET inside == {e \in there : Within(e, d)}
            New(e) == IF Within(e, d) THEN Carry(e, d, g) ELSE e
        IN  /\ ~Within(g, d) /\ \A e \in inside : New(e) \in Dirs
            /\ there' = {New(e) : e \in there}
            /\ home' = [m \in Media |-> New(home[m])]
    /\ job' = NotAlone
    /\ UNCHANGED <<lists, row, entry, tool, up, past>>

Step(c) ==
    \/ Next1(c) \/ Register(c) \/ ScanSource(c) \/ Forget(c) \/ MangaRelease(c)
    \/ ReleaseCheck(c) \/ DeleteRows(c) \/ Unregister(c) \/ Relabel(c) \/ Settle(c)
    \/ DropSource(c) \/ AdoptManga(c) \/ Adopt(c) \/ Insert(c) \/ Upsert(c) \/ ImportFolder(c)
    \/ ReadList(c) \/ RescanAncestors(c) \/ ReadSource(c) \/ Move(c) \/ PublishMove(c)
Ask(c) ==
    /\ ~Busy(c) /\ left.requests > 0
    /\ \/ Save(c) \/ RemoveRoot(c) \/ Add(c) \/ AddFiles(c) \/ ScanFiles(c) \/ Browse(c) \/ Rescan(c) \/ Relocate(c)

Next ==
    \/ \E c \in Callers : Step(c) \/ Ask(c)
    \/ Start \/ Stop \/ Tick \/ ToolEnds \/ Crash \/ MoveFolder

Spec == Init /\ [][Next]_vars

-----------------------------------------------------------------------------

Quiet == \A c \in Callers : ~Busy(c)

\* Between requests the two lists of Danbooru's folders in user.sqlite, its own
\* registrations and the shared list's role, name the same folders.  After a
\* crash, overlapping requests or a relocation past the shared list, they do so
\* again once the module has published (publish_sources).
RegistriesAgree ==
    Quiet /\ ~past.drift =>
        {d \in Dirs : source[d] = "danbooru"} = {registered[r] : r \in Live}

\* Every row of the index belongs to a registered root, whatever is released,
\* relocated and imported, unless requests overlapped, an import began within a
\* release, or one imported a folder while the lists disagreed.
RowsBelongToRoots ==
    Quiet /\ ~Running /\ ~past.raced => \A x \in row : x.root \in Live

\* What every state of the lists and the index has to satisfy, besides their
\* agreement.
Sound == TypeOK /\ RowsBelongToRoots

\* What browsing a source shows.
Shown(f) == {[at |-> x.at, m |-> x.m] : x \in {y \in entry : y.src = f /\ y.on}}

\* When a saved batch is answered, with nothing else going on, the files of each
\* folder it added are listed under that folder, and those of each folder it
\* forgot under the source above it: unless a source nearer to them has them.
AnswerIsBrowsable ==
    [][ \A c \in Callers :
            job[c].at = "ancestors" /\ job[c].alone /\ job'[c] = Idle /\ left' = left =>
                \A ch \in job[c].asked, m \in Media :
                    LET over == {d \in Listed : Within(home[m], d)}
                        s    == Deepest(over)
                    IN  /\ home[m] \in there /\ Within(home[m], ch.f) /\ over # {}
                        /\ \/ ch.from = "none" /\ s = ch.f
                           \/ ch.to = "forget" /\ Below(ch.f, s)
                        => [at |-> home[m], m |-> m] \in Shown(s)' ]_vars

\* A folder leaves the shared list only when a request forgets, removes or
\* relocates it, or when a publication falls between the two commits of its
\* release ("Release keeps the folder in Files", routers/folders.py).
Asked(d) ==
    \E c \in Callers :
        \/ job[c].at \in {"forget", "letgo", "relabel"} /\ Folder(c) = d /\ Head1(c).to = "forget"
        \/ job[c].at = "relabel" /\ job[c].path = d /\ ~Keeps(c)
Publishing == up' # up \/ \E c \in Callers : job[c].at = "publish" /\ job'[c].at # "publish"
ReleaseKeepsFolder ==
    [][ \A d \in Dirs :
            source[d] # "none" /\ source'[d] = "none" =>
                Asked(d) \/ past.raced \/ (Publishing /\ d \in past.cut \cup past.moved) ]_vars
=============================================================================
