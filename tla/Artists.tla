------------------------------- MODULE Artists --------------------------------
(***************************************************************************)
(* What the library keeps about artists, all of it asked of other servers: *)
(* the cached wiki page of a tag, the artists the user follows with the    *)
(* ids of their posts, and an archive of their profile images.             *)
(*                                                                         *)
(* A request asks the network between two looks at user.sqlite, so what it *)
(* read may have changed when it writes.  What one connection does from    *)
(* its first change to its commit is one step.  Any question may fail, and *)
(* the server may be killed between two steps.                             *)
(*                                                                         *)
(* A page is the posts of its Examples section; a row of its cache has a   *)
(* ghost field, unanswered: what was not asked or got no answer.  Names,   *)
(* texts and times are left out; fresh says a row is younger than 30 days. *)
(***************************************************************************)
EXTENDS Integers, Sequences, FiniteSets, FiniteSetsExt, Functions

CONSTANTS
    Tags, Posts,  \* artist tags, and ids of posts
    Limits,       \* how many posts a check may ask for
    Platforms, Kinds, Urls,  \* of profile images
    ContentOf,    \* the image at each of Urls
    FirstUrl,     \* that of every profile image at first
    Inline,       \* platforms named by the artist entry itself
    Pages,        \* what the page of a tag may say, Null if there is none
    Operations,   \* the kinds of request made
    Callers, Null,
    MaxRequests, MaxFaults, MaxChanges  \* bounds

ASSUME DataAssumption ==
    /\ Posts \cup Limits \subseteq Nat \ {0} /\ Inline \subseteq Platforms
    /\ IsFiniteSet(Posts) /\ 1 \in Posts
    /\ DOMAIN ContentOf = Urls /\ FirstUrl \in Urls /\ Pages \subseteq (SUBSET Posts) \cup {Null}
ASSUME NullAssumption ==
    Null \notin Posts \cup [first : BOOLEAN, upTo : Posts \cup {Null}]
ASSUME BoundAssumption == {MaxRequests, MaxFaults, MaxChanges} \subseteq Nat

VARIABLES
    danbooru,     \* for each tag: [page, artist, platforms, posts]
    profiles,     \* the url of each kind on each platform of each tag
    wiki,         \* tag_wiki_cache
    follows,      \* artist_follows: [first, upTo]: initialized, last seen
    unseen, seen, \* artist_follow_posts, by seen_at
    assets,       \* artist_profile_assets, in the order of their ids
    files,        \* the archive: [n, tag, platform, kind, content]
    gone,         \* files of it the user removed
    req,          \* the requests in progress
    left,         \* what the bounds leave
    past          \* what went wrong before

tables     == <<wiki, follows, unseen, seen, assets>>
remote     == <<danbooru, profiles>>
artistVars == <<danbooru, profiles, wiki, follows, unseen, seen, assets, files, gone, req, left, past>>

Idle == [op |-> "idle"]

\* raced: a request wrote for posts or a follow that had changed since it read
\* them; clashed: two requests archived one image; cut: a kill left a file
\* without its row.
NoPast == [raced |-> FALSE, clashed |-> FALSE, cut |-> FALSE]

Followed   == {t \in Tags : follows[t] # Null}
Tracked(t) == unseen[t] \cup seen[t]
Latest(S)  == IF S = {} THEN Null ELSE Max(S)

Asset(t, p, k) == [tag |-> t, platform |-> p, kind |-> k]
Identity(r)    == Asset(r.tag, r.platform, r.kind)
Rows           == Range(assets)

\* Posts are kept for artists that are followed, each seen or not.
ArtistTypeOK ==
    /\ follows \in [Tags -> [first : BOOLEAN, upTo : Posts \cup {Null}] \cup {Null}]
    /\ \A t \in Tags : /\ unseen[t] \cap seen[t] = {} /\ Tracked(t) \subseteq Posts
                       /\ follows[t] = Null => Tracked(t) = {}
    /\ \A t \in Tags : wiki[t] # Null => /\ wiki[t].urls \subseteq Platforms
                                         /\ wiki[t].checked <=> wiki[t].found
    /\ \A r \in Rows : r.url \in Urls /\ r.file.content = ContentOf[r.url]

\* The examples named by a page; a missing page has an empty body.
Examples(page) == IF page = Null THEN {} ELSE page

Cached(t) ==
    [fresh |-> TRUE, examples |-> Examples(danbooru[t].page), names |-> TRUE, status |-> "ok",
     found |-> TRUE, checked |-> TRUE, urls |-> danbooru[t].platforms, unanswered |-> {}]

\* A first start, or one with artists looked up and followed before.
ArtistInit ==
    /\ danbooru \in [Tags -> {[page |-> g, artist |-> a, platforms |-> Platforms, posts |-> {1}] :
                                 g \in Pages, a \in BOOLEAN}]
    /\ profiles = [t \in Tags |-> [p \in Platforms |-> [k \in Kinds |-> FirstUrl]]]
    /\ \E S \in SUBSET {t \in Tags : danbooru[t].artist} :
          /\ wiki = [t \in Tags |-> IF t \in S THEN Cached(t) ELSE Null]
          /\ follows = [t \in Tags |-> IF t \in S THEN [first |-> TRUE, upTo |-> 1] ELSE Null]
          /\ seen = [t \in Tags |-> IF t \in S THEN {1} ELSE {}]
    /\ unseen = [t \in Tags |-> {}]
    /\ assets = <<>> /\ files = {} /\ gone = {}
    /\ req = [c \in Callers |-> Idle]
    /\ left = [requests |-> MaxRequests, faults |-> MaxFaults, changes |-> MaxChanges]
    /\ past = NoPast

Begin(c, op) ==
    /\ req[c] = Idle /\ op \in Operations /\ left.requests > 0
    /\ left' = [left EXCEPT !.requests = @ - 1]
Becomes(c, r) == req' = [req EXCEPT ![c] = r]
Go(c, at)     == req' = [req EXCEPT ![c].at = at]
End(c)        == req' = [req EXCEPT ![c] = Idle]
Note(what)    == past' = [past EXCEPT ![what] = TRUE]
Fails         == left.faults > 0 /\ left' = [left EXCEPT !.faults = @ - 1]

(* The wiki of a tag. ------------------------------------------------------*)

\* An artist's row is served only once the artist was looked up.
CompleteForCategory(row, artist) == artist => row.found /\ row.checked

Serves(t, refresh, artist) ==
    /\ wiki[t] # Null /\ ~refresh /\ wiki[t].fresh
    /\ CompleteForCategory(wiki[t], artist)

\* tag_wiki: a row that will do is the answer.
ViewCached(c, t, artist) ==
    /\ Begin(c, "view") /\ Serves(t, FALSE, artist)
    /\ UNCHANGED <<tables, remote, files, gone, req, past>>

ViewStale(c, t, refresh, artist) ==
    /\ Begin(c, "view") /\ ~Serves(t, refresh, artist)
    /\ Becomes(c, [op |-> "view", at |-> "fetch", tag |-> t, artist |-> artist])
    /\ UNCHANGED <<tables, remote, files, gone, past>>

\* The aliases and implications of a tag: a question that fails finds none.
RelatedNames(lost) == "names" \notin lost

\* Danbooru's artist entry; one that is not found counts as not looked up.
NoArtist == [found |-> FALSE, checked |-> FALSE, urls |-> {}]
ArtistUrls(t, lost) == Inline \cup IF "urls" \in lost THEN {} ELSE danbooru[t].platforms
ArtistValues(t, lost) ==
    IF "artist" \in lost \/ ~danbooru[t].artist THEN NoArtist
    ELSE [found |-> TRUE, checked |-> TRUE, urls |-> ArtistUrls(t, lost)]

\* danbooru_json: after its retries a question is answered, finds nothing (404),
\* or fails for whatever other reason.
Replies(exists) == {"error", IF exists THEN "ok" ELSE "404"}

\* Mutant: a failure is taken for a page that does not exist.
StopsNever(reply) == FALSE

\* Only HTTP 404 means that there is no page; any other failure ends the
\* request, and the saved row is the answer.
Stops(reply) == reply = "error"

WikiValues(t, artist, reply, lost) ==
    LET page == IF reply = "ok" THEN danbooru[t].page ELSE Null
        a    == IF artist THEN ArtistValues(t, lost) ELSE NoArtist
    IN  [fresh |-> TRUE, examples |-> Examples(page), names |-> RelatedNames(lost),
         status |-> IF page # Null \/ a.found THEN "ok" ELSE "missing",
         found |-> a.found, checked |-> a.checked, urls |-> a.urls,
         unanswered |-> lost \cup (IF artist THEN {} ELSE {"artist"})
                             \cup (IF reply = "error" THEN {"page"} ELSE {})]

ViewFetch(c) ==
    /\ req[c].op = "view" /\ req[c].at = "fetch"
    /\ \E reply \in Replies(danbooru[req[c].tag].page # Null),
          lost \in SUBSET {"names", "artist", "urls"} :
          /\ IF reply = "error" \/ lost # {} THEN Fails ELSE UNCHANGED left
          /\ IF Stops(reply) THEN lost = {} /\ End(c)
             ELSE Becomes(c, [op |-> "view", at |-> "save", tag |-> req[c].tag,
                            values |-> WikiValues(req[c].tag, req[c].artist, reply, lost)])
    /\ UNCHANGED <<tables, remote, files, gone, past>>

\* save_tag_wiki_cache: the whole row is replaced.
ViewSave(c) ==
    /\ req[c].op = "view" /\ req[c].at = "save"
    /\ wiki' = [wiki EXCEPT ![req[c].tag] = req[c].values]
    /\ End(c)
    /\ UNCHANGED <<follows, unseen, seen, assets, remote, files, gone, left, past>>

View(c) ==
    \/ \E t \in Tags, artist \in BOOLEAN :
          \/ ViewCached(c, t, artist)
          \/ \E refresh \in BOOLEAN : ViewStale(c, t, refresh, artist)
    \/ ViewFetch(c)
    \/ ViewSave(c)

(* Artists the user follows. -----------------------------------------------*)

\* seed_artist_follow_posts_from_cache: the examples of the cached page become
\* posts of the artist, those not there yet as unseen.
Seeds(t) == IF wiki[t] = Null THEN {} ELSE wiki[t].examples \ seen[t]

\* follow_artist: following again keeps the row.
Follow(c, t) ==
    /\ Begin(c, "follow")
    /\ follows' = [follows EXCEPT ![t] = IF @ = Null THEN [first |-> FALSE, upTo |-> Null] ELSE @]
    /\ unseen' = [unseen EXCEPT ![t] = @ \cup Seeds(t)]
    /\ UNCHANGED <<wiki, seen, assets, remote, files, gone, req, past>>

\* unfollow_artist: the posts go with their artist (ON DELETE CASCADE).
Unfollow(c, t) ==
    /\ Begin(c, "follow")
    /\ follows' = [follows EXCEPT ![t] = Null]
    /\ unseen' = [unseen EXCEPT ![t] = {}] /\ seen' = [seen EXCEPT ![t] = {}]
    /\ UNCHANGED <<wiki, assets, remote, files, gone, req, past>>

\* list_artist_follows: listing seeds the posts of the artists it read; if one
\* is no longer followed, its posts have no artist and nothing is kept.
ListRead(c) ==
    /\ Begin(c, "list")
    /\ Becomes(c, [op |-> "list", tags |-> Followed])
    /\ UNCHANGED <<tables, remote, files, gone, past>>

ListSeed(c) ==
    /\ req[c].op = "list"
    /\ unseen' = IF \E t \in req[c].tags : follows[t] = Null /\ Seeds(t) # {} THEN unseen
                 ELSE [t \in Tags |-> IF t \in req[c].tags THEN unseen[t] \cup Seeds(t)
                                      ELSE unseen[t]]
    /\ End(c)
    /\ UNCHANGED <<wiki, follows, seen, assets, remote, files, gone, left, past>>

\* The newest posts of an artist.
Newest(t, limit) ==
    {p \in danbooru[t].posts : Cardinality({q \in danbooru[t].posts : q > p}) < limit}

\* check_artist_danbooru_posts: ask, read the follow, then write.
CheckStart(c, t, initialize) ==
    /\ Begin(c, "check")
    /\ Becomes(c, [op |-> "check", at |-> "fetch", tag |-> t, initialize |-> initialize])
    /\ UNCHANGED <<tables, remote, files, gone, past>>

CheckFetch(c, limit) ==
    /\ req[c].op = "check" /\ req[c].at = "fetch"
    /\ \/ Fails /\ End(c)
       \/ /\ Becomes(c, [op |-> "check", at |-> "read", tag |-> req[c].tag,
                       initialize |-> req[c].initialize, ids |-> Newest(req[c].tag, limit)])
          /\ UNCHANGED left
    /\ UNCHANGED <<tables, remote, files, gone, past>>

\* Mutant: every check of the notifications starts afresh.
EstablishesAlways(t, initialize) == initialize

\* The first check for notifications takes what there is as seen.
Establishes(t, initialize) == initialize /\ ~follows[t].first

CheckRead(c) ==
    LET t == req[c].tag IN
    /\ req[c].op = "check" /\ req[c].at = "read"
    /\ IF follows[t] = Null THEN End(c)
       ELSE Becomes(c, [op |-> "check", at |-> "write", tag |-> t, ids |-> req[c].ids,
                      baseline |-> Establishes(t, req[c].initialize), was |-> follows[t].first])
    /\ UNCHANGED <<tables, remote, files, gone, left, past>>

\* The posts of an artist no longer followed are refused by the table.
CheckWrite(c) ==
    LET t   == req[c].tag
        all == Tracked(t) \cup req[c].ids
    IN
    /\ req[c].op = "check" /\ req[c].at = "write"
    /\ CASE follows[t] = Null ->
              UNCHANGED <<follows, unseen, seen>>
         [] follows[t] # Null /\ req[c].baseline ->
              /\ unseen' = [unseen EXCEPT ![t] = {}]
              /\ seen' = [seen EXCEPT ![t] = all]
              /\ follows' = [follows EXCEPT ![t] =
                     [first |-> TRUE, upTo |-> IF all = {} THEN @.upTo ELSE Max(all)]]
         [] OTHER ->
              /\ unseen' = [unseen EXCEPT ![t] = all \ seen[t]]
              /\ UNCHANGED <<follows, seen>>
    /\ End(c)
    /\ IF follows[t] # Null /\ follows[t].first # req[c].was THEN Note("raced") ELSE UNCHANGED past
    /\ UNCHANGED <<wiki, assets, remote, files, gone, left>>

\* mark_artist_follow_seen: what is newest is read before the change begins.
SeenRead(c, t) ==
    /\ Begin(c, "seen") /\ follows[t] # Null
    /\ Becomes(c, [op |-> "seen", tag |-> t, latest |-> Latest(Tracked(t))])
    /\ UNCHANGED <<tables, remote, files, gone, past>>

\* COALESCE(?, last_seen_danbooru_post_id)
UpTo(t, latest) == IF latest = Null THEN follows[t].upTo ELSE latest

SeenWrite(c) ==
    LET t == req[c].tag IN
    /\ req[c].op = "seen"
    /\ IF follows[t] = Null THEN UNCHANGED <<follows, unseen, seen>>
       ELSE /\ seen' = [seen EXCEPT ![t] = Tracked(t)]
            /\ unseen' = [unseen EXCEPT ![t] = {}]
            /\ follows' = [follows EXCEPT ![t].upTo = UpTo(t, req[c].latest)]
    /\ IF follows[t] # Null /\ Latest(Tracked(t)) # req[c].latest THEN Note("raced") ELSE UNCHANGED past
    /\ End(c)
    /\ UNCHANGED <<wiki, assets, remote, files, gone, left>>

Watch(c) ==
    \/ \E t \in Tags :
          \/ Follow(c, t) \/ Unfollow(c, t) \/ SeenRead(c, t)
          \/ \E initialize \in BOOLEAN : CheckStart(c, t, initialize)
    \/ \E limit \in Limits : CheckFetch(c, limit)
    \/ CheckRead(c) \/ CheckWrite(c) \/ SeenWrite(c)
    \/ ListRead(c) \/ ListSeed(c)

(* The archive of profile images. ------------------------------------------*)

\* artist_profile_sources: the platforms whose address the cached page has.
Sources(t) == IF wiki[t] = Null THEN {} ELSE wiki[t].urls

\* What a platform shows of an artist; a kind it does not publish is left out.
Published(t, p) ==
    {[tag |-> t, platform |-> p, kind |-> k, url |-> profiles[t][p][k]] :
        k \in {j \in Kinds : profiles[t][p][j] # Null}}

RefreshStart(c, S) ==
    /\ Begin(c, "refresh")
    /\ Becomes(c, [op |-> "refresh", at |-> "artist", tags |-> S, tag |-> Null, platforms |-> {},
                 media |-> {}, file |-> Null, saved |-> {}, unchanged |-> {}])
    /\ UNCHANGED <<tables, remote, files, gone, past>>

\* refresh_artist_profile_assets, for any artist.
RefreshOne(c, t) == RefreshStart(c, {t})

\* refresh_followed_artist_profile_assets: those followed when it begins.
RefreshFollowed(c) == RefreshStart(c, Followed)

RefreshArtist(c) ==
    /\ req[c].op = "refresh" /\ req[c].at = "artist"
    /\ IF req[c].tags = {} THEN End(c)
       ELSE \E t \in req[c].tags :
               Becomes(c, [req[c] EXCEPT !.at = "platform", !.tag = t, !.platforms = Sources(t),
                                       !.tags = @ \ {t}])
    /\ UNCHANGED <<tables, remote, files, gone, left, past>>

\* A platform that fails is passed over.
RefreshPlatform(c) ==
    /\ req[c].op = "refresh" /\ req[c].at = "platform"
    /\ IF req[c].platforms = {} THEN Go(c, "artist") /\ UNCHANGED left
       ELSE LET p == CHOOSE q \in req[c].platforms : TRUE IN
               \/ Fails /\ Becomes(c, [req[c] EXCEPT !.platforms = @ \ {p}])
               \/ /\ Becomes(c, [req[c] EXCEPT !.at = "asset", !.platforms = @ \ {p},
                                             !.media = Published(req[c].tag, p)])
                  /\ UNCHANGED left
    /\ UNCHANGED <<tables, remote, files, gone, past>>

Kept(c, m) == Becomes(c, [req[c] EXCEPT !.at = "asset", !.media = @ \ {m}, !.unchanged = @ \cup {m}])

\* Mutant: the newest image of the artist is compared, whatever it shows.
CurrentOfAny(m) ==
    \E i \in DOMAIN assets :
        /\ assets[i].tag = m.tag /\ assets[i].url = m.url /\ assets[i].file \in files
        /\ \A j \in DOMAIN assets : assets[j].tag = m.tag => j <= i

\* The newest row of an image has its address, and its file is there.
Current(m) ==
    \E i \in DOMAIN assets :
        /\ Identity(assets[i]) = Identity(m) /\ assets[i].url = m.url /\ assets[i].file \in files
        /\ \A j \in DOMAIN assets : Identity(assets[j]) = Identity(m) => j <= i

RefreshAsset(c) ==
    /\ req[c].op = "refresh" /\ req[c].at = "asset"
    /\ IF req[c].media = {} THEN Go(c, "platform")
       ELSE LET m == CHOOSE n \in req[c].media : TRUE IN
               IF Current(m) THEN Kept(c, m)
               ELSE Becomes(c, [req[c] EXCEPT !.at = "download", !.file = m])
    /\ UNCHANGED <<tables, remote, files, gone, left, past>>

\* download_artist_profile_image: an image of an allowed host, or a failure.
Downloaded(m) == ContentOf[m.url]

Duplicate(m) == \E r \in Rows : Identity(r) = Identity(m) /\ r.file.content = Downloaded(m)

\* Its name has the time and the hash.
NewFile(m) ==
    [tag |-> m.tag, platform |-> m.platform, kind |-> m.kind, content |-> Downloaded(m),
     n |-> Cardinality(files \cup gone) + 1]

\* The bytes are fetched and compared with every version; new ones are written
\* to a file of their own.  A failure leaves the rest of the platform.
RefreshDownload(c) ==
    LET m == req[c].file IN
    /\ req[c].op = "refresh" /\ req[c].at = "download"
    /\ \/ /\ Fails /\ Becomes(c, [req[c] EXCEPT !.at = "platform", !.media = {}])
          /\ UNCHANGED files
       \/ Duplicate(m) /\ Kept(c, m) /\ UNCHANGED <<files, left>>
       \/ /\ ~Duplicate(m)
          /\ files' = files \cup {NewFile(m)}
          /\ Becomes(c, [req[c] EXCEPT !.at = "insert", !.file = [url |-> m.url, file |-> NewFile(m)],
                                     !.media = @ \ {m}, !.saved = @ \cup {m}])
          /\ UNCHANGED left
    /\ UNCHANGED <<tables, remote, gone, past>>

Row(f) == [tag |-> f.file.tag, platform |-> f.file.platform, kind |-> f.file.kind,
           url |-> f.url, file |-> f.file]

\* Mutant: the table takes one image twice.
RefreshInsertTwice(c) ==
    /\ req[c].op = "refresh" /\ req[c].at = "insert"
    /\ assets' = Append(assets, Row(req[c].file))
    /\ Go(c, "asset")
    /\ UNCHANGED <<wiki, follows, unseen, seen, remote, files, gone, left, past>>

\* The row of a new file; two of one image break its key, and the request ends.
RefreshInsert(c) ==
    LET f == req[c].file IN
    /\ req[c].op = "refresh" /\ req[c].at = "insert"
    /\ IF \E r \in Rows : Identity(r) = Identity(f.file) /\ r.file.content = f.file.content
       THEN End(c) /\ Note("clashed") /\ UNCHANGED assets
       ELSE /\ assets' = Append(assets, Row(f))
            /\ Go(c, "asset") /\ UNCHANGED past
    /\ UNCHANGED <<wiki, follows, unseen, seen, remote, files, gone, left>>

Refresh(c) ==
    \/ \E t \in Tags : RefreshOne(c, t)
    \/ RefreshFollowed(c) \/ RefreshArtist(c) \/ RefreshPlatform(c)
    \/ RefreshAsset(c) \/ RefreshDownload(c) \/ RefreshInsert(c)

\* artist_profile_asset_file: the image of a row is shown if its file is there.
Shows(r) == r.file \in files

(* The world around. -------------------------------------------------------*)

Changes == left.changes > 0 /\ left' = [left EXCEPT !.changes = @ - 1]

\* Danbooru and the platforms: a post appears, a page is edited, an artist
\* shows another image or none.
Elsewhere ==
    /\ Changes
    /\ \E t \in Tags :
          \/ \E p \in Posts \ danbooru[t].posts :
                danbooru' = [danbooru EXCEPT ![t].posts = @ \cup {p}] /\ UNCHANGED profiles
          \/ \E g \in Pages : danbooru' = [danbooru EXCEPT ![t].page = g] /\ UNCHANGED profiles
          \/ \E p \in Platforms, k \in Kinds, u \in Urls \cup {Null} :
                profiles' = [profiles EXCEPT ![t][p][k] = u] /\ UNCHANGED danbooru
    /\ UNCHANGED <<tables, files, gone, req, past>>

\* Thirty days pass for a row.
Age(t) ==
    /\ wiki[t] # Null /\ wiki[t].fresh
    /\ wiki' = [wiki EXCEPT ![t].fresh = FALSE]
    /\ UNCHANGED <<follows, unseen, seen, assets, remote, files, gone, req, left, past>>

\* The user removes a file of the archive.
Discard(f) ==
    /\ Changes
    /\ files' = files \ {f} /\ gone' = gone \cup {f}
    /\ UNCHANGED <<tables, remote, req, past>>

Restart ==
    /\ Fails /\ \E c \in Callers : req[c] # Idle
    /\ req' = [c \in Callers |-> Idle]
    /\ IF \E c \in Callers : req[c].op = "refresh" /\ req[c].at = "insert"
       THEN Note("cut") ELSE UNCHANGED past
    /\ UNCHANGED <<tables, remote, files, gone>>

ArtistNext ==
    \/ \E c \in Callers : View(c) \/ Watch(c) \/ Refresh(c)
    \/ Elsewhere \/ \E t \in Tags : Age(t)
    \/ \E f \in files : Discard(f)
    \/ Restart

ArtistSpec == ArtistInit /\ [][ArtistNext]_artistVars

-----------------------------------------------------------------------------
\* A failed question for the page or for the artist is never cached as an
\* answer: a page is missing only if the server said so, and an artist's page
\* is served without asking only once the artist was looked up, with all its
\* platforms - or with those of its entry alone, if its list of addresses could
\* not be had, which the code takes for an empty list; names of aliases and
\* implications, taken for none in the same way, have no such promise (tag_wiki_
\* cache_complete_for_category, the branches of tag_wiki on status 404).
LookupsAreHonest ==
    \A t \in Tags : wiki[t] # Null =>
        /\ "page" \notin wiki[t].unanswered
        /\ CompleteForCategory(wiki[t], TRUE) =>
              /\ "artist" \notin wiki[t].unanswered
              /\ wiki[t].urls = IF "urls" \in wiki[t].unanswered THEN Inline
                               ELSE danbooru[t].platforms

\* News of a followed artist is not lost: once its notifications began, a post
\* is marked seen only by the user's own request, no post is forgotten or turns
\* new again, and nothing seen lies above the last seen id, however checks,
\* lists and requests overlap, unless one wrote after what it had read changed.
NewsIsKept ==
    [][\A t \in Tags : follows[t] # Null /\ follows'[t] # Null =>
          /\ seen[t] \subseteq seen'[t] /\ unseen[t] \subseteq unseen'[t] \cup seen'[t]
          /\ \/ past'.raced
             \/ /\ follows[t].first => \/ seen'[t] = seen[t]
                                       \/ \E c \in Callers : req[c].op = "seen" /\ req'[c] = Idle
                /\ follows'[t].upTo # Null => \A p \in seen'[t] : p <= follows'[t].upTo]_artistVars

\* The archive keeps one row and one file of every version it took: rows have
\* files unless the user removed them, no version is recorded twice, and files
\* have rows unless a kill or a second refresh came between.
VersionsAreKept ==
    /\ \A r \in Rows : Shows(r) \/ r.file \in gone
    /\ \A i, j \in DOMAIN assets : assets[i].file.content = assets[j].file.content
                                   /\ Identity(assets[i]) = Identity(assets[j]) => i = j
    /\ \A f \in files : \/ past.cut \/ past.clashed
                        \/ \E r \in Rows : r.file = f
                        \/ \E c \in Callers : req[c].op = "refresh" /\ req[c].at = "insert"
                                              /\ req[c].file.file = f

\* What every state of the caches and the archive has to satisfy, besides what
\* the answers promise.
ArtistSound == ArtistTypeOK /\ VersionsAreKept

\* A version the archive has taken: a row, with its file unless the user
\* removed that.
Archived(m) ==
    \E r \in Rows : /\ Identity(r) = Identity(m) /\ r.file.content = Downloaded(m)
                    /\ Shows(r) \/ r.file \in gone

\* The version a refresh has on disk and is about to record.
Records(r, m) ==
    /\ r.at = "insert" /\ r.file.url = m.url /\ Identity(r.file.file) = Identity(m)
    /\ r.file.file.content = Downloaded(m) /\ r.file.file \in files \cup gone

\* A refresh counts an image as saved or unchanged only if the archive has a
\* row of that very image of that artist, platform and kind, and its file or
\* the user's word that it may go (archive_artist_profile_asset returns early
\* when the address or the bytes are known).  It does not promise the file of a
\* removed image: the code fetches it again, finds its row, counts it as
\* unchanged and drops the bytes.
AnswersAreHeld ==
    \A c \in Callers : req[c].op = "refresh" =>
        \A m \in req[c].saved \cup req[c].unchanged : Archived(m) \/ Records(req[c], m)
=============================================================================
