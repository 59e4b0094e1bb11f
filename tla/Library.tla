------------------------------- MODULE Library --------------------------------
(***************************************************************************)
(* What the user keeps about images: favourites, collections, own tags,    *)
(* view and Heart Spam counts (user.sqlite), laid over an index that may   *)
(* be rebuilt with other row ids (danbooru.sqlite), while images are moved *)
(* between folders on disk.                                                *)
(*                                                                         *)
(* A request reads the identity of its image from the index in one         *)
(* connection, then works on the user tables in another: its first         *)
(* statement there only reads, and what follows runs in the transaction    *)
(* its first change opens.  Each of these is a step, and requests overlap. *)
(* A move of an image renames media and sidecar, commits the index, then   *)
(* commits the user tables, and may stop anywhere.                         *)
(*                                                                         *)
(* An image and its post share an id.  Every row has a ghost field, of:    *)
(* the images whose user data it holds.  Names and times are left out.     *)
(***************************************************************************)
EXTENDS Integers, Sequences, FiniteSets

CONSTANTS
    Ids,        \* row ids of the index, reused by every rebuild
    Contents,   \* images
    Md5,        \* the hash of each
    Tagged,     \* those with a sidecar
    Paths,      \* places on disk
    Homes,      \* where each image lies at first
    RootPath,   \* the place of the same file name in the data root
    Colls,      \* ids of collections (AUTOINCREMENT: never reused)
    Callers,    \* requests that may run at once
    Operations, \* the kinds of request made
    OldRows,    \* whether user data may predate the paths of rows
    Null,
    MaxRequests, MaxFaults,  \* bounds
    MaxBeside   \* bound: requests that may follow one that began beside another

ASSUME ImageAssumption ==
    /\ Homes \in [Contents -> Paths] /\ \A c, d \in Contents : Homes[c] = Homes[d] => c = d
    /\ Tagged \subseteq Contents
ASSUME RootAssumption ==
    RootPath \in [Paths -> Paths] /\ \A p \in Paths : RootPath[RootPath[p]] = RootPath[p]
ASSUME NullAssumption ==
    Null \notin Paths \cup Contents /\ Null \notin [of : Contents, names : Paths]
ASSUME BoundAssumption == {MaxRequests, MaxFaults, MaxBeside} \subseteq Nat

VARIABLES
    index,      \* files: [path, md5, of] of each row id in use
    disk, side, \* media, and the sidecar [of, names] of the media at each place
    favs,       \* favorites: [id, path, md5, of, pinned]
    items,      \* collection_items: [coll, id, path, md5, of, pinned]
    tags,       \* user_image_tags, for one tag: [id, path, md5, of]
    views,      \* image_views: [id, path, md5, of, views, hearts]
    colls,      \* collections: "new", "plain", "pinned" or "gone"
    lists,      \* favorite_tags, blacklist_tags and favorite_tag_combos
    home,       \* the cached home page and the one being built
    req,        \* the request of each caller
    said,       \* the answer given by the last step, if it gave one
    counted,    \* history: views and hearts that were answered
    left,       \* what is left of the bounds
    past        \* history: see NoPast

user == <<favs, items, tags, views>>
vars == <<index, disk, side, user, colls, lists, home, req, said, counted, left, past>>

Idle  == [op |-> "idle"]
Quiet == [op |-> "none", result |-> "none", who |-> {}, shown |-> {}]

\* drift: a rebuild gave an id to another image than a row that carries it, or to
\* none though the row has nothing else;
\* cut: a move was stopped between its commits, met a rebuild, or could not put
\* its files back;
\* raced: a request wrote for an image that had moved since it read the index, or
\* merged a count with one that had changed since;
\* overlapped: two moves to one place ran at once; overwrote: a count was
\* written over one that had changed since it was read.
NoPast == [drift |-> FALSE, cut |-> FALSE, raced |-> FALSE, overlapped |-> FALSE,
           overwrote |-> FALSE]

\* A row's id names another image, or none though the row has nothing else.
Strays(r, files) == IF r.id \in DOMAIN files THEN files[r.id].of \notin r.of ELSE r.path = Null

Indexed     == DOMAIN index
Identity(i) == [id |-> i, path |-> index[i].path, md5 |-> index[i].md5, of |-> index[i].of]
Moving      == {c \in Callers : req[c].op = "move"}
Live        == {k \in Colls : colls[k] \in {"plain", "pinned"}}

\* Mutant: the hash is compared though the row has a path.
MatchesHash(r, w) ==
    \/ r.path # Null /\ r.path = w.path
    \/ r.md5 # Null /\ r.md5 = w.md5
    \/ r.path = Null /\ r.md5 = Null /\ r.id = w.id

\* A row of user data belongs to a file by its path; by hash, then by id, only
\* if it was written before rows had paths.
Matches(r, w) ==
    \/ r.path # Null /\ r.path = w.path
    \/ r.path = Null /\ r.md5 # Null /\ r.md5 = w.md5
    \/ r.path = Null /\ r.md5 = Null /\ r.id = w.id

Of(T, w) == {r \in T : Matches(r, w)}
Without(T, W) == {r \in T : \A w \in W : ~Matches(r, w)}
In(k)         == {r \in items : r.coll = k}

\* What the lists of the interface show: ids of the indexed files a row matches.
Shown(T)      == {i \in Indexed : Of(T, Identity(i)) # {}}
FavoriteIds   == Shown(favs)
Memberships(k) == Shown(In(k))

\* The number of images a collection claims: an item without a file counts by
\* the id it carries.
ImageCount(k) ==
    Cardinality(UNION {LET fs == {i \in Indexed : Matches(r, Identity(i))}
                       IN  IF fs = {} THEN {r.id} ELSE fs : r \in In(k)})

Rows == favs \cup items \cup tags \cup views

Unique(T) == \A r, s \in T : r.id = s.id => r = s

\* The tables keep their keys, and no item outlives its collection.
TypeOK ==
    /\ \A i \in Indexed : index[i].path \in Paths /\ index[i].of \in Contents
    /\ \A i, j \in Indexed : index[i].path = index[j].path => i = j
    /\ disk \in [Paths -> Contents \cup {Null}]
    /\ Unique(favs) /\ Unique(views) /\ \A k \in Colls : Unique(In(k))
    /\ \A r, s \in tags : r.path = s.path /\ r.path # Null => r = s
    /\ {r.coll : r \in items} \subseteq Live
    /\ {home.page, home.building} \subseteq {"none", "fresh", "stale"}

\* A library whose index was rebuilt since the server started; there may be a
\* favourite from before rows had paths, under whatever id it then had.
Init ==
    /\ disk = [p \in Paths |-> IF \E c \in Contents : Homes[c] = p
                               THEN CHOOSE c \in Contents : Homes[c] = p ELSE Null]
    /\ side = [p \in Paths |-> IF disk[p] \in Tagged THEN [of |-> disk[p], names |-> p] ELSE Null]
    /\ \E f \in [Contents -> Ids] :
          /\ \A c, d \in Contents : f[c] = f[d] => c = d
          /\ index = [i \in {f[c] : c \in Contents} |->
                         LET c == CHOOSE d \in Contents : f[d] = i
                         IN  [path |-> Homes[c], md5 |-> Md5[c], of |-> c]]
    /\ \E old \in {FALSE, OldRows}, c \in Contents, i \in Ids :
          /\ favs = IF old THEN {[id |-> i, path |-> Null, md5 |-> Null, of |-> {c}, pinned |-> FALSE]}
                    ELSE {}
          /\ past = [NoPast EXCEPT !.drift = \E r \in favs : Strays(r, index)]
          /\ left = [requests |-> IF old THEN MaxRequests - 1 ELSE MaxRequests,
                     faults |-> MaxFaults]
    /\ items = {} /\ tags = {} /\ views = {}
    /\ colls = [k \in Colls |-> "new"]
    /\ lists = [tag |-> "none", hidden |-> FALSE, combos |-> {}, next |-> 1]
    /\ home = [page |-> "none", building |-> "none"]
    /\ req = [c \in Callers |-> Idle] /\ said = Quiet
    /\ counted = [views |-> 0, hearts |-> 0]

-----------------------------------------------------------------------------
(* Requests.                                                               *)

Alone == \A d \in Callers : req[d] = Idle

Spend(kind) == left[kind] > 0 /\ left' = [left EXCEPT ![kind] = @ - 1]

\* A request begins; few follow one that begins beside another (a bound).
Begin ==
    /\ left.requests > 0
    /\ left' = [left EXCEPT !.requests = IF Alone \/ @ <= MaxBeside THEN @ - 1 ELSE MaxBeside]

Answer(c, result, W, ids) ==
    /\ said' = [op |-> req[c].op, result |-> result, who |-> W, shown |-> ids]
    /\ req' = [req EXCEPT ![c] = Idle]

Refuse(op) ==
    said' = [op |-> op, result |-> "refused", who |-> {}, shown |-> {}] /\ UNCHANGED req

\* A request about one image reads its identity; the image may be unknown.
Identify(c, op, i) ==
    /\ req[c] = Idle /\ op \in Operations /\ Begin
    /\ IF i \in Indexed
       THEN /\ req' = [req EXCEPT ![c] = [op |-> op, who |-> {Identity(i)}, coll |-> Null,
                                          rest |-> {}, phase |-> "look", seen |-> {}, clash |-> {}]]
            /\ said' = Quiet
       ELSE Refuse(op)
    /\ UNCHANGED <<index, disk, side, user, colls, lists, home, counted, past>>

\* A batch reads the identities of its images together; one unknown image
\* refuses the batch.
IdentifyBatch(c, op, I) ==
    /\ req[c] = Idle /\ op \in Operations /\ Begin
    /\ IF I \subseteq Indexed
       THEN /\ req' = [req EXCEPT ![c] = [op |-> op, who |-> {Identity(i) : i \in I}, coll |-> Null,
                                          rest |-> {}, phase |-> "write", seen |-> {}, clash |-> {}]]
            /\ said' = Quiet
       ELSE Refuse(op)
    /\ UNCHANGED <<index, disk, side, user, colls, lists, home, counted, past>>

\* A change of a collection's images first looks for the collection, then reads
\* the identity of one image after another;
IdentifyItems(c, op, k, I, i) ==
    /\ req[c] = Idle /\ op \in Operations /\ Begin
    /\ IF k \in Live /\ i \in Indexed
       THEN /\ req' = [req EXCEPT ![c] = [op |-> op, who |-> {Identity(i)}, coll |-> k, rest |-> I \ {i},
                                          phase |-> IF op = "hold" THEN "look"
                                                    ELSE IF I = {i} THEN "write" ELSE "more",
                                          seen |-> {}, clash |-> {}]]
            /\ said' = Quiet
       ELSE Refuse(op)
    /\ UNCHANGED <<index, disk, side, user, colls, lists, home, counted, past>>

\* an unknown one undoes them all.  What it writes of the earlier ones is seen by
\* nobody before its commit, and is modelled there.
IdentifyNext(c) ==
    /\ req[c].op \in {"put", "take"} /\ req[c].phase = "more"
    /\ \E i \in req[c].rest :
          IF i \in Indexed
          THEN /\ req' = [req EXCEPT ![c].who = @ \cup {Identity(i)}, ![c].rest = @ \ {i},
                                     ![c].phase = IF req[c].rest = {i} THEN "write" ELSE "more"]
               /\ said' = Quiet
          ELSE Answer(c, "refused", {}, {})
    /\ UNCHANGED <<index, disk, side, user, colls, lists, home, counted, left, past>>

\* What a caller's image is, for requests about one image.
Who(c) == CHOOSE w \in req[c].who : TRUE

\* The table a request reads before it writes.
TableOf(q) == CASE q.op \in {"toggle", "pin"} -> favs
                [] q.op = "hold" -> In(q.coll)
                [] OTHER -> views

\* A read before the first change: the rows of the image (of several count
\* rows, the last viewed, here any).
Look(c) ==
    /\ req[c].op \in {"toggle", "pin", "hold", "view", "heart"} /\ req[c].phase = "look"
    /\ LET found == Of(TableOf(req[c]), Who(c))
       IN  \E seen \in IF req[c].op \in {"view", "heart"} /\ found # {}
                       THEN {{r} : r \in found} ELSE {found} :
              req' = [req EXCEPT ![c].seen = seen,
                                 ![c].phase = IF /\ req[c].op \in {"view", "heart"}
                                                 /\ \E s \in seen : s.id # Who(c).id
                                              THEN "clash" ELSE "write"]
    /\ said' = Quiet
    /\ UNCHANGED <<index, disk, side, user, colls, lists, home, counted, left, past>>

\* A count row with another id than the image's: the row that has that id.
LookForClash(c) ==
    /\ req[c].op \in {"view", "heart"} /\ req[c].phase = "clash"
    /\ req' = [req EXCEPT ![c].clash = {r \in views \ req[c].seen : r.id = Who(c).id},
                           ![c].phase = "write"]
    /\ said' = Quiet
    /\ UNCHANGED <<index, disk, side, user, colls, lists, home, counted, left, past>>

\* The image is no longer where the request thinks, and no move is about to
\* bring along what it writes.
Outdated(w) ==
    /\ w.id \notin Indexed \/ Identity(w.id) # w
    /\ \A c \in Moving : req[c].phase # "user" \/ req[c].id # w.id \/ Who(c).of # w.of

Raced(W) == past' = [past EXCEPT !.raced = @ \/ \E w \in W : Outdated(w)]

\* Saving a change of favourites clears the cached pages; one that is being
\* built has read the old ones.
Forget == home' = [page |-> "none",
                   building |-> IF home.building = "none" THEN "none" ELSE "stale"]

Ready(c, op) == req[c].op = op /\ req[c].phase = "write"

-----------------------------------------------------------------------------
(* Favourites.                                                             *)

New(w) == [id |-> w.id, path |-> w.path, md5 |-> w.md5, of |-> {w.of}, pinned |-> FALSE]

\* INSERT OR IGNORE: a row whose id is taken is not written.
Adding(T, rows) == T \cup {s \in rows : \A r \in T : r.id # s.id}

AddFavorites(c) ==
    LET W == req[c].who
    IN  /\ Ready(c, "add")
        /\ favs' = Adding(favs, {New(w) : w \in W})
        /\ Answer(c, "updated", W, {w.id : w \in {v \in W : Of(favs', v) # {}}})
        /\ Forget /\ Raced(W)
        /\ UNCHANGED <<index, disk, side, items, tags, views, colls, lists, counted, left>>

RemoveFavorites(c) ==
    /\ Ready(c, "remove")
    /\ favs' = Without(favs, req[c].who)
    /\ Answer(c, "updated", req[c].who, {}) /\ Forget
    /\ UNCHANGED <<index, disk, side, items, tags, views, colls, lists, counted, left, past>>

\* Mutant: the row is removed by the id of the image.
ToggleById(c) ==
    /\ Ready(c, "toggle")
    /\ IF req[c].seen # {}
       THEN /\ favs' = {r \in favs : r.id # Who(c).id}
            /\ Answer(c, "removed", req[c].who, {}) /\ Forget /\ UNCHANGED past
       ELSE IF \E r \in favs : r.id = Who(c).id
       THEN Answer(c, "error", {}, {}) /\ UNCHANGED <<favs, home, past>>
       ELSE /\ favs' = favs \cup {New(Who(c))}
            /\ Answer(c, "added", req[c].who, {Who(c).id}) /\ Forget /\ Raced(req[c].who)
    /\ UNCHANGED <<index, disk, side, items, tags, views, colls, lists, counted, left>>

\* A favourite that was there is removed; otherwise it is added, which fails
\* when its id is taken.
ToggleFavorite(c) ==
    /\ Ready(c, "toggle")
    /\ IF req[c].seen # {}
       THEN /\ favs' = Without(favs, req[c].who)
            /\ Answer(c, "removed", req[c].who, {}) /\ Forget /\ UNCHANGED past
       ELSE IF \E r \in favs : r.id = Who(c).id
       THEN Answer(c, "error", {}, {}) /\ UNCHANGED <<favs, home, past>>
       ELSE /\ favs' = favs \cup {New(Who(c))}
            /\ Answer(c, "added", req[c].who, {Who(c).id}) /\ Forget /\ Raced(req[c].who)
    /\ UNCHANGED <<index, disk, side, items, tags, views, colls, lists, counted, left>>

\* The rows of an image with their pin turned over, as it was read.
Pinned(T, q, w) ==
    {IF Matches(r, w) /\ r \in T THEN [r EXCEPT !.pinned = ~\E s \in q.seen : s.pinned] ELSE r : r \in T}

ToggleFavoritePin(c) ==
    /\ Ready(c, "pin")
    /\ IF req[c].seen = {}
       THEN Answer(c, "refused", {}, {}) /\ UNCHANGED favs
       ELSE /\ favs' = Pinned(favs, req[c], Who(c))
            /\ Answer(c, "pinned", {}, {})
    /\ UNCHANGED <<index, disk, side, items, tags, views, colls, lists, home, counted, left, past>>

-----------------------------------------------------------------------------
(* Collections.                                                            *)

Item(k, w) == [coll |-> k, id |-> w.id, path |-> w.path, md5 |-> w.md5, of |-> {w.of},
               pinned |-> FALSE]

\* The images read go in, unless the collection has gone since: the foreign
\* key refuses its items.
PutItems(c) ==
    LET k == req[c].coll
        W == req[c].who
    IN  /\ Ready(c, "put")
        /\ IF k \in Live
           THEN /\ items' = (items \ In(k)) \cup Adding(In(k), {Item(k, w) : w \in W})
                /\ Answer(c, "updated", W, {w.id : w \in {v \in W : \E r \in items' : r.coll = k /\ Matches(r, v)}})
                /\ Raced(W)
           ELSE Answer(c, "error", {}, {}) /\ UNCHANGED <<items, past>>
        /\ UNCHANGED <<index, disk, side, favs, tags, views, colls, lists, home, counted, left>>

TakeItems(c) ==
    /\ Ready(c, "take")
    /\ items' = (items \ In(req[c].coll)) \cup Without(In(req[c].coll), req[c].who)
    /\ Answer(c, "updated", req[c].who, {})
    /\ UNCHANGED <<index, disk, side, favs, tags, views, colls, lists, home, counted, left, past>>

HoldItem(c) ==
    LET k == req[c].coll
    IN  /\ Ready(c, "hold")
        /\ IF req[c].seen = {}
           THEN Answer(c, "refused", {}, {}) /\ UNCHANGED items
           ELSE /\ items' = (items \ In(k)) \cup Pinned(In(k), req[c], Who(c))
                /\ Answer(c, "pinned", {}, {})
        /\ UNCHANGED <<index, disk, side, favs, tags, views, colls, lists, home, counted, left, past>>

\* Requests that need nothing but one transaction are a step; those about lists
\* share no table with another request and are made alone (a bound).
Direct(op) == op \in Operations /\ Begin /\ UNCHANGED <<req, counted, past>>
Done(op, result) == said' = [op |-> op, result |-> result, who |-> {}, shown |-> {}]

CreateCollection(k) ==
    /\ Direct("collections") /\ colls[k] = "new"
    /\ colls' = [colls EXCEPT ![k] = "plain"] /\ Done("collections", "created")
    /\ UNCHANGED <<index, disk, side, user, lists, home>>

PinCollection(k) ==
    /\ Direct("collections")
    /\ IF k \in Live
       THEN /\ colls' = [colls EXCEPT ![k] = IF @ = "plain" THEN "pinned" ELSE "plain"]
            /\ Done("collections", "pinned")
       ELSE Done("collections", "refused") /\ UNCHANGED colls
    /\ UNCHANGED <<index, disk, side, user, lists, home>>

\* What a collection's description says of its images: how many, and whether
\* there is one to show first.
Described(k) == {ImageCount(k), IF In(k) = {} THEN 0 ELSE 1}

\* A new name changes nothing else; the answer describes the collection.
RenameCollection(k) ==
    /\ Direct("collections")
    /\ IF k \in Live
       THEN said' = [op |-> "describe", result |-> "renamed", who |-> {k}, shown |-> Described(k)]
       ELSE Done("collections", "refused")
    /\ UNCHANGED <<index, disk, side, user, colls, lists, home>>

\* Items go with their collection.
DeleteCollection(k) ==
    /\ Direct("collections") /\ colls[k] # "new"
    /\ colls' = [colls EXCEPT ![k] = "gone"] /\ items' = items \ In(k)
    /\ Done("collections", "deleted")
    /\ UNCHANGED <<index, disk, side, favs, tags, views, lists, home>>

-----------------------------------------------------------------------------
(* Own tags, favourite tags, combinations and hidden tags.                 *)

\* The image's own tags as the answer lists them.
UserTags(T, w) == IF Of(T, w) = {} THEN {} ELSE {w.id}

AddUserTag(c) ==
    LET w == Who(c)
        t == [id |-> w.id, path |-> w.path, md5 |-> w.md5, of |-> {w.of}]
    IN  /\ req[c].op = "tag"
        /\ tags' = IF \E r \in tags : r.path = w.path THEN tags ELSE tags \cup {t}
        /\ Answer(c, "tagged", {w}, UserTags(tags', w)) /\ Raced({w})
        /\ UNCHANGED <<index, disk, side, favs, items, views, colls, lists, home, counted, left>>

RemoveUserTag(c) ==
    /\ req[c].op = "untag"
    /\ tags' = Without(tags, req[c].who)
    /\ Answer(c, "untagged", req[c].who, UserTags(tags', Who(c)))
    /\ UNCHANGED <<index, disk, side, favs, items, views, colls, lists, home, counted, left, past>>

\* Favourite tags fill the home page, so their changes clear it; their pins do not.
ToggleFavoriteTag ==
    /\ Alone /\ Direct("lists")
    /\ lists' = [lists EXCEPT !.tag = IF @ = "none" THEN "plain" ELSE "none"]
    /\ Done("tags", "toggled") /\ Forget
    /\ UNCHANGED <<index, disk, side, user, colls>>

ToggleFavoriteTagPin ==
    /\ Alone /\ Direct("lists") /\ lists.tag # "none"
    /\ lists' = [lists EXCEPT !.tag = IF @ = "plain" THEN "pinned" ELSE "plain"]
    /\ Done("lists", "pinned")
    /\ UNCHANGED <<index, disk, side, user, colls, home>>

\* A combination is one row for each set of tags, whatever its order or name.
KeyOf(names) == {names[n] : n \in 1..Len(names)}

CreateCombo(names) ==
    LET key == KeyOf(names)
    IN  /\ Alone /\ Direct("lists")
        /\ IF Cardinality(key) < 2
           THEN Done("lists", "refused") /\ UNCHANGED lists
           ELSE /\ Done("lists", "combined")
                /\ lists' = IF \E x \in lists.combos : x.key = key THEN lists
                            ELSE [lists EXCEPT !.combos = @ \cup {[id |-> lists.next, key |-> key]},
                                               !.next = @ + 1]
        /\ UNCHANGED <<index, disk, side, user, colls, home>>

DeleteCombo(n) ==
    /\ Alone /\ Direct("lists") /\ n < lists.next
    /\ lists' = [lists EXCEPT !.combos = {x \in @ : x.id # n}]
    /\ Done("lists", "deleted")
    /\ UNCHANGED <<index, disk, side, user, colls, home>>

HideTag ==
    /\ Alone /\ Direct("lists")
    /\ lists' = [lists EXCEPT !.hidden = TRUE]
    /\ Done("lists", IF lists.hidden THEN "exists" ELSE "added")
    /\ UNCHANGED <<index, disk, side, user, colls, home>>

ShowTag ==
    /\ Alone /\ Direct("lists")
    /\ lists' = [lists EXCEPT !.hidden = FALSE]
    /\ Done("lists", IF lists.hidden THEN "removed" ELSE "missing")
    /\ UNCHANGED <<index, disk, side, user, colls, home>>

-----------------------------------------------------------------------------
(* Views and Heart Spam.                                                   *)

Count(r) == [views |-> r.views, hearts |-> r.hearts]

\* The sum of the counts of some rows: as many as each row's views, or hearts,
\* taken one by one.
Each(T, kind)  == UNION {{r} \X (1..Count(r)[kind]) : r \in T}
Total(T, kind) == Cardinality(Each(T, kind))

\* The row the counts end in: those of the rows given and the one that is new.
Made(S, w, kind) ==
    LET sum(k) == Total(S, k) + (IF k = kind THEN 1 ELSE 0)
    IN  [id |-> w.id, path |-> w.path,
         md5 |-> IF w.md5 = Null /\ S # {} THEN (CHOOSE r \in S : TRUE).md5 ELSE w.md5,
         of |-> {w.of} \cup UNION {r.of : r \in S},
         views |-> sum("views"), hearts |-> sum("hearts")]

\* Another row took the image's id after it was looked for, and the row that is to
\* get the id is still there (an UPDATE of one that is gone changes nothing).
Blocked(c) ==
    /\ \E s \in req[c].seen : \E t \in views : t.id = s.id
    /\ \E r \in views \ req[c].seen : /\ r.id = Who(c).id
                                      /\ \A s \in req[c].seen \cup req[c].clash : s.id # r.id

\* Mutant: the row that has the id is replaced, counts and all.
RecordAnew(c, kind) ==
    LET q == req[c]
        held == {r \in views : r.id = Who(c).id}
        gone == {r \in views : \E s \in q.clash : s.id = r.id}
    IN  views' = IF q.seen = {} THEN (views \ held) \cup {Made({}, Who(c), kind)}
                 ELSE {IF \E s \in q.seen : s.id = r.id
                       THEN Made(q.seen \cup q.clash, Who(c), kind) ELSE r : r \in views \ gone}

\* An image with a row gets its id and path there, and the counts of both rows
\* as they were read; a row that is gone is not written.  An image without one
\* takes over the row that has its id.
Record(c, kind) ==
    LET q == req[c]
        held == {r \in views : r.id = Who(c).id}
        gone == {r \in views : \E s \in q.clash : s.id = r.id}
    IN  views' = IF q.seen = {} THEN (views \ held) \cup {Made(held, Who(c), kind)}
                 ELSE {IF \E s \in q.seen : s.id = r.id
                       THEN Made(q.seen \cup q.clash, Who(c), kind) ELSE r : r \in views \ gone}

\* A count was written over rows that have changed since they were read.
Overwrote(c) == ~(req[c].seen \cup req[c].clash) \subseteq views

Recorded(c, kind) ==
    /\ IF Blocked(c)
       THEN Answer(c, "error", {}, {}) /\ UNCHANGED <<views, counted>>
       ELSE /\ Record(c, kind) /\ Answer(c, "recorded", {}, {})
            /\ counted' = [counted EXCEPT ![kind] = @ + 1]
    /\ past' = [past EXCEPT !.overwrote = @ \/ Overwrote(c),
                            !.raced = @ \/ Outdated(Who(c)) \/ ~ req[c].clash \subseteq views]
    /\ UNCHANGED <<index, disk, side, favs, items, tags, colls, lists, home, left>>

\* Opening an image records a view; its page shows the rows that match it.
RecordView(c)  == Ready(c, "view")  /\ Recorded(c, "views")
RecordHeart(c) == Ready(c, "heart") /\ Recorded(c, "hearts")

-----------------------------------------------------------------------------
(* The home page and the lists.                                            *)

\* A page in the cache is served; otherwise one is built from both databases,
BuildHome ==
    /\ Direct("home") /\ home = [page |-> "none", building |-> "none"]
    /\ home' = [home EXCEPT !.building = "fresh"] /\ said' = Quiet
    /\ UNCHANGED <<index, disk, side, user, colls, lists>>

\* and cached whatever has changed since.
StoreHome ==
    /\ home.building # "none"
    /\ home' = [page |-> home.building, building |-> "none"] /\ said' = Quiet
    /\ UNCHANGED <<index, disk, side, user, colls, lists, req, counted, left, past>>

\* A page older than its time is dropped when it is asked for.
ExpireHome ==
    /\ home.page # "none"
    /\ home' = [home EXCEPT !.page = "none"] /\ said' = Quiet
    /\ UNCHANGED <<index, disk, side, user, colls, lists, req, counted, left, past>>

-----------------------------------------------------------------------------
(* Moves.  A batch moves one image after another and answers what failed.  *)

StartMoves(c, todo, folder) ==
    /\ req[c] = Idle /\ "move" \in Operations /\ Begin
    /\ req' = [req EXCEPT ![c] = [op |-> "move", phase |-> "check", todo |-> todo, folder |-> folder,
                                  id |-> Head(todo), who |-> {}, parts |-> <<>>, moved |-> <<>>]]
    /\ said' = Quiet
    /\ UNCHANGED <<index, disk, side, user, colls, lists, home, counted, past>>

\* One image is done with, well or not: the next, if there is one.
After(q) ==
    IF Len(q.todo) = 1 THEN Idle
    ELSE [q EXCEPT !.phase = "check", !.todo = Tail(@), !.id = q.todo[2],
                   !.who = {}, !.parts = <<>>, !.moved = <<>>]

EndMove(c, result) ==
    /\ said' = [op |-> "move", result |-> result, who |-> {}, shown |-> {}]
    /\ req' = [req EXCEPT ![c] = After(req[c])]

Proceed(c, q) == req' = [req EXCEPT ![c] = q] /\ said' = Quiet

From(c) == Who(c).path
To(c)   == RootPath[From(c)]

\* The path of a folder.  Any name but the data root's is looked up in
\* registered_folders with a function the module does not import.
FolderTarget(folder) == folder = "root"

\* Mutant: what lies at the target is not looked at.
RefusalBlind(w, folder) ==
    LET to == RootPath[w.path]
    IN  IF disk[w.path] = Null THEN "gone"
        ELSE IF ~FolderTarget(folder) THEN "unresolved"
        ELSE IF to = w.path THEN "same" ELSE "none"

\* What refuses a move before anything is touched.
Refusal(w, folder) ==
    LET to == RootPath[w.path]
    IN  IF disk[w.path] = Null THEN "gone"
        ELSE IF ~FolderTarget(folder) THEN "unresolved"
        ELSE IF to = w.path THEN "same"
        ELSE IF \/ disk[to] # Null \/ (side[w.path] # Null /\ side[to] # Null)
                \/ \E j \in Indexed \ {w.id} : index[j].path = to
        THEN "conflict" ELSE "none"

\* What is renamed: the media, then the sidecar if there is one.
Parts(w) == IF side[w.path] = Null THEN <<"media">> ELSE <<"media", "sidecar">>

CheckMove(c) ==
    LET q == req[c]
        w == Identity(q.id)
    IN  /\ q.op = "move" /\ q.phase = "check"
        /\ IF q.id \notin Indexed THEN EndMove(c, "missing")
           ELSE IF Refusal(w, q.folder) # "none" THEN EndMove(c, Refusal(w, q.folder))
           ELSE Proceed(c, [q EXCEPT !.phase = "files", !.who = {w},
                                   !.parts = Parts(w)])
        /\ UNCHANGED <<index, disk, side, user, colls, lists, home, counted, left, past>>

\* A file is renamed over whatever lies at its target, or is gone, or fails.
MoveFile(c) ==
    LET q == req[c]
        part == Head(q.parts)
        from == From(c)
        to == To(c)
        there == IF part = "media" THEN disk[from] ELSE side[from]
        done == [q EXCEPT !.parts = Tail(@), !.moved = <<part>> \o @]
    IN  /\ q.op = "move" /\ q.phase = "files" /\ q.parts # <<>>
        /\ \/ /\ there # Null
              /\ Proceed(c, IF Tail(q.parts) = <<>> THEN [done EXCEPT !.phase = "index"] ELSE done)
              /\ IF part = "media"
                 THEN disk' = [disk EXCEPT ![to] = there, ![from] = Null] /\ UNCHANGED side
                 ELSE side' = [side EXCEPT ![to] = there, ![from] = Null] /\ UNCHANGED disk
              /\ past' = [past EXCEPT !.overlapped = @ \/ \E d \in Moving \ {c} :
                              req[d].phase \notin {"check"} /\ To(d) = to]
           \/ /\ Proceed(c, [q EXCEPT !.phase = "undo"]) /\ UNCHANGED <<disk, side, past>>
        /\ UNCHANGED <<index, user, colls, lists, home, counted, left>>

Readdressed(to) == IF side[to] = Null THEN side ELSE [side EXCEPT ![to].names = to]

\* The sidecar at the target is told its new place, then the row of the index;
\* a path another row has, or any other error, undoes the move.
MoveIndex(c) ==
    LET q == req[c]
        to == To(c)
        free == \A j \in Indexed \ {q.id} : index[j].path # to
    IN  /\ q.op = "move" /\ q.phase = "index"
        /\ side' = Readdressed(to)
        /\ \/ /\ free /\ Proceed(c, [q EXCEPT !.phase = "user"])
              /\ index' = IF q.id \in Indexed THEN [index EXCEPT ![q.id].path = to] ELSE index
              /\ Raced(q.who)
           \/ Proceed(c, [q EXCEPT !.phase = "undo"]) /\ UNCHANGED <<index, past>>
        /\ UNCHANGED <<disk, user, colls, lists, home, counted, left>>

\* Files that were moved go back, unless their place has been taken; one that
\* cannot is left where it is, and the move has failed all the same.
UndoMove(c) ==
    LET q == req[c]
        to == To(c)
        from == From(c)
        moved(p) == \E i \in 1..Len(q.moved) : q.moved[i] = p
    IN  /\ q.op = "move" /\ q.phase = "undo"
        /\ \E stuck \in SUBSET {p \in {"media", "sidecar"} : moved(p)} :
              LET back(p) == moved(p) /\ p \notin stuck
              IN  /\ disk' = IF back("media") /\ disk[to] # Null /\ disk[from] = Null
                             THEN [disk EXCEPT ![from] = disk[to], ![to] = Null] ELSE disk
                  /\ side' = IF back("sidecar") /\ side[to] # Null /\ side[from] = Null
                             THEN [side EXCEPT ![from] = side[to], ![to] = Null] ELSE side
                  /\ past' = [past EXCEPT !.cut = @ \/ stuck # {}]
        /\ EndMove(c, "failed")
        /\ UNCHANGED <<index, user, colls, lists, home, counted, left>>

\* The rows of an image, by its id or the path it had, get its new path.
Carried(T, q, from, to) ==
    {IF r.id = q.id \/ r.path = from
     THEN [r EXCEPT !.path = to,
                    !.md5 = IF @ = Null THEN (CHOOSE w \in q.who : TRUE).md5 ELSE @]
     ELSE r : r \in T}

\* The user tables follow in one transaction; two tags that would become one
\* fail it, after the files and the index have moved.
MoveUser(c) ==
    LET q == req[c]
        after(T) == Carried(T, q, From(c), To(c))
    IN  /\ q.op = "move" /\ q.phase = "user"
        /\ IF \E r, s \in after(tags) : r # s /\ r.path = s.path /\ r.path # Null
           THEN /\ UNCHANGED user /\ EndMove(c, "error")
                /\ past' = [past EXCEPT !.cut = TRUE]
           ELSE /\ favs' = after(favs) /\ items' = after(items)
                /\ tags' = after(tags) /\ views' = after(views)
                /\ EndMove(c, "moved") /\ UNCHANGED past
        /\ UNCHANGED <<index, disk, side, colls, lists, home, counted, left>>

-----------------------------------------------------------------------------
(* Rebuilds and restarts.                                                  *)

\* The index is deleted and rebuilt from what is on disk, ids in any order.
Rebuild ==
    /\ Spend("faults")
    /\ LET found == {p \in Paths : disk[p] # Null}
       IN  \E f \in [found -> Ids] :
              /\ \A p, r \in found : f[p] = f[r] => p = r
              /\ index' = [i \in {f[p] : p \in found} |->
                              LET p == CHOOSE r \in found : f[r] = i
                              IN  [path |-> p, md5 |-> Md5[disk[p]], of |-> disk[p]]]
    /\ past' = [past EXCEPT !.drift = @ \/ \E r \in Rows : Strays(r, index'),
                            !.cut = @ \/ \E c \in Moving : req[c].phase # "check"]
    /\ said' = Quiet
    /\ UNCHANGED <<disk, side, user, colls, lists, home, req, counted>>

\* Starting the server gives the rows without a path that of the file with
\* their id.
Backfilled(T) ==
    {IF r.path = Null /\ r.id \in Indexed
     THEN [r EXCEPT !.path = index[r.id].path, !.md5 = index[r.id].md5] ELSE r : r \in T}

\* The server stops, whatever it was doing, and starts (here only when that
\* stops a move or fills a row: it otherwise just drops requests).
Restart ==
    /\ Moving # {} \/ \E r \in Rows : r.path = Null /\ r.id \in Indexed
    /\ Spend("faults")
    /\ req' = [c \in Callers |-> Idle] /\ said' = Quiet
    /\ home' = [page |-> "none", building |-> "none"]
    /\ favs' = Backfilled(favs) /\ items' = Backfilled(items)
    /\ tags' = Backfilled(tags) /\ views' = Backfilled(views)
    /\ past' = [past EXCEPT !.cut = @ \/ \E c \in Moving : req[c].moved # <<>>]
    /\ UNCHANGED <<index, disk, side, colls, lists, counted>>

-----------------------------------------------------------------------------
PerCaller(c) ==
    \/ \E i \in Ids : \E op \in {"toggle", "pin", "view", "heart", "tag", "untag"} : Identify(c, op, i)
    \/ \E I \in SUBSET Ids \ {{}} : \E op \in {"add", "remove"} : IdentifyBatch(c, op, I)
    \/ \E I \in SUBSET Ids \ {{}} : \E i \in I : \E op \in {"put", "take"} : \E k \in Colls :
           IdentifyItems(c, op, k, I, i)
    \/ \E i \in Ids : \E k \in Colls : IdentifyItems(c, "hold", k, {i}, i)
    \/ IdentifyNext(c) \/ Look(c) \/ LookForClash(c)
    \/ AddFavorites(c) \/ RemoveFavorites(c) \/ ToggleFavorite(c) \/ ToggleFavoritePin(c)
    \/ PutItems(c) \/ TakeItems(c) \/ HoldItem(c)
    \/ AddUserTag(c) \/ RemoveUserTag(c)
    \/ RecordView(c) \/ RecordHeart(c)
    \/ \E i \in Ids : \E folder \in {"root", "named"} : StartMoves(c, <<i>>, folder)
    \/ \E i, j \in Ids : i # j /\ StartMoves(c, <<i, j>>, "root")
    \/ CheckMove(c) \/ MoveFile(c) \/ MoveIndex(c) \/ UndoMove(c) \/ MoveUser(c)

Next ==
    \/ \E c \in Callers : PerCaller(c)
    \/ \E k \in Colls : \/ CreateCollection(k) \/ PinCollection(k)
                        \/ RenameCollection(k) \/ DeleteCollection(k)
    \/ ToggleFavoriteTag \/ ToggleFavoriteTagPin \/ HideTag \/ ShowTag
    \/ \E names \in {<<"a">>, <<"a", "b">>, <<"b", "a">>} : CreateCombo(names)
    \/ \E n \in 1..MaxRequests : DeleteCombo(n)
    \/ BuildHome \/ StoreHome \/ ExpireHome
    \/ Rebuild \/ Restart

Spec == Init /\ [][Next]_vars

-----------------------------------------------------------------------------
(* Properties.                                                             *)

OwnRows == \A r \in Rows : \A i \in Indexed :
               Matches(r, Identity(i)) <=> index[i].of \in r.of

\* Between moves, every favourite, item, tag and count belongs to the image the
\* user gave it to and to no other (user_file_lookup_sql, the UPDATEs of
\* move_image_folder, record_image_view), as long as no rebuild has given a
\* row's id to another image, no move was cut short and no request wrote for an
\* image that had moved meanwhile.
StaysWithImage ==
    past.drift \/ past.cut \/ past.raced \/ past.overlapped \/ Moving # {} \/ OwnRows

\* Views and hearts add up over all rows to those that were answered, through
\* moves, rebuilds and merges of two rows (record_image_view,
\* record_heart_spam), unless one was written over rows changed since its read.
CountsAddUp ==
    past.overwrote \/ \A k \in {"views", "hearts"} : Total(views, k) = counted[k]

\* No move loses an image, and once moves have ended every indexed file is where
\* the index says, its sidecar with it, unless two moves to one place
\* overlapped (move_image_folder's checks and its roll back).
FilesAreKept ==
    \/ past.overlapped
    \/ /\ \A c \in Contents : \E p \in Paths : disk[p] = c
       /\ \/ past.cut \/ Moving # {}
          \/ \A i \in Indexed :
                LET p == index[i].path
                IN  /\ disk[p] = index[i].of
                    /\ disk[p] \in Tagged => side[p] # Null /\ side[p].of = disk[p]

\* What every state of the files and the user's tables has to satisfy, besides
\* the two above.
Sound == TypeOK /\ FilesAreKept

\* What a favourites, collection or tag request answers is what its list shows from
\* then on, for images that are still what they were; and the home page cached
\* before a change of favourites is gone (routers/user_library.py,
\* routers/collections.py).
AnswersAreTrue ==
    [][ \A c \in Callers :
          LET still == {w \in said'.who : w.id \in DOMAIN index' /\ w = Identity(w.id)'}
              show == CASE said'.op \in {"toggle", "add", "remove"} -> FavoriteIds'
                        [] said'.op \in {"tag", "untag"} -> Shown(tags)'
                        [] said'.op \in {"put", "take"} ->
                              UNION {Memberships(k)' : k \in Colls \cap {req[c].coll}}
          IN  req'[c] # req[c] /\ said'.op \in {"toggle", "add", "remove", "put", "take", "tag", "untag"} =>
                 /\ \A w \in still : w.id \in said'.shown <=> w.id \in show
                 /\ favs' # favs /\ said'.op \in {"toggle", "add", "remove"} => home'.page # "fresh"
      ]_vars

=============================================================================
