----------------------------- MODULE LibraryProofs -----------------------------
(***************************************************************************)
(* Proofs about Library, for every set of images, places, ids, collections *)
(* and callers and any number of requests and faults, however they         *)
(* overlap.                                                                *)
(***************************************************************************)
EXTENDS Library, FiniteSetTheorems, TLAPS

-----------------------------------------------------------------------------
\* The tables.
Hashes  == {Md5[x] : x \in Contents} \cup {Null}
File    == [path : Paths, md5 : Hashes, of : Contents]
Image   == [id : Ids, path : Paths, md5 : Hashes, of : Contents]
Card    == [of : Contents, names : Paths]
FavRow  == [id : Ids, path : Paths \cup {Null}, md5 : Hashes, of : SUBSET Contents, pinned : BOOLEAN]
ItemRow == [coll : Colls, id : Ids, path : Paths, md5 : Hashes, of : SUBSET Contents, pinned : BOOLEAN]
TagRow  == [id : Ids, path : Paths, md5 : Hashes, of : SUBSET Contents]
Counts(r) ==
    /\ r = [id |-> r.id, path |-> r.path, md5 |-> r.md5, of |-> r.of,
            views |-> r.views, hearts |-> r.hearts]
    /\ r.id \in Ids /\ r.path \in Paths /\ r.md5 \in Hashes /\ r.of \in SUBSET Contents
Tables ==
    /\ Indexed \subseteq Ids /\ index \in [Indexed -> File]
    /\ disk \in [Paths -> Contents \cup {Null}] /\ side \in [Paths -> Card \cup {Null}]
    /\ favs \subseteq FavRow /\ items \subseteq ItemRow /\ tags \subseteq TagRow
    /\ \A r \in favs : r.path = Null => r.md5 = Null
    /\ \A r \in views : Counts(r)
    /\ colls \in [Colls -> {"new", "plain", "pinned", "gone"}]
    /\ past \in [drift : BOOLEAN, cut : BOOLEAN, raced : BOOLEAN, overlapped : BOOLEAN,
                 overwrote : BOOLEAN]

\* Requests, and moves by what they have renamed.
Counting == {"view", "heart"}
Singles  == {"toggle", "pin", "hold", "tag", "untag"} \cup Counting
Asking   == {"add", "remove", "put", "take"} \cup Singles
Request(q) ==
    /\ q.op \in Asking
    /\ q = [op |-> q.op, who |-> q.who, coll |-> q.coll, rest |-> q.rest, phase |-> q.phase,
            seen |-> q.seen, clash |-> q.clash]
    /\ q.phase \in {"look", "clash", "more", "write"}
    /\ q.phase # "write" => q.clash = {}
    /\ q.rest \subseteq Ids /\ \A w \in q.who : w.id \notin q.rest
    /\ q.who \subseteq Image /\ \A v, w \in q.who : v.id = w.id => v = w
    /\ q.op \in Singles => \E w \in Image : q.who = {w}
    /\ q.op \in {"put", "take", "hold"} => q.coll \in Colls
    /\ q.op \in Counting => /\ \A s \in q.seen \cup q.clash : Counts(s)
                            /\ \A s, t \in q.seen : s = t
                            /\ \A s \in q.clash, w \in q.who : s.id = w.id
NoPart == <<>>
Media  == <<"media">>
Both   == <<"media", "sidecar">>
Done2  == <<"sidecar", "media">>
Relocation(q) ==
    /\ q.op = "move"
    /\ q = [op |-> "move", phase |-> q.phase, todo |-> q.todo, folder |-> q.folder, id |-> q.id,
            who |-> q.who, parts |-> q.parts, moved |-> q.moved]
    /\ \/ q.phase = "check" /\ q.who = {} /\ q.moved = NoPart
       \/ /\ q.phase \in {"files", "index", "undo", "user"}
          /\ \E w \in Image : q.who = {w} /\ w.id = q.id /\ RootPath[w.path] # w.path
          /\ q.moved \in {NoPart, Media, Done2}
          /\ q.phase = "files" => \/ q.moved = NoPart /\ q.parts \in {Media, Both}
                                  \/ q.moved = Media /\ q.parts = <<"sidecar">>
          /\ q.phase \in {"index", "user"} => q.moved # NoPart
ReqsFit ==
    /\ req \in [Callers -> {req[c] : c \in Callers}]
    /\ \A c \in Callers : \/ req[c] = Idle
                          \/ Request(req[c]) \/ Relocation(req[c])

\* A move that has looked at its image, and one that only has to tell the user's tables.
Going(c)   == req[c].op = "move" /\ req[c].phase # "check"
Leaving(c) == Going(c) /\ req[c].phase = "user"

\* An image has one place and one row.
OnePlace ==
    /\ \A p, r \in Paths : disk[p] = disk[r] /\ disk[p] # Null => p = r
    /\ \A i, j \in Indexed : index[i].of = index[j].of => i = j

\* Without overlapping moves to one place nothing is renamed over a file.
NothingLost ==
    ~past.overlapped =>
        /\ \A x \in Contents : \E p \in Paths : disk[p] = x
        /\ \A x \in Contents : \E i \in Indexed : index[i].of = x
        /\ \A c \in Callers : Going(c) /\ req[c].phase = "files" /\ req[c].moved = NoPart => disk[To(c)] = Null

\* Where the files and the row of an image are while it is moved.
Kept == ~past.overlapped /\ ~past.cut
HasCard(p, x) == side[p] # Null /\ side[p].of = x
MoveAt(c) ==
    LET q == req[c]
        x == Who(c).of
    IN  /\ q.id \in Indexed /\ index[q.id].of = x
        /\ q.phase # "user" => index[q.id].path = From(c)
        /\ q.phase = "user" => index[q.id].path = To(c) /\ \A i \in Indexed : index[i].path # From(c)
        /\ q.moved = NoPart => /\ disk[From(c)] = x /\ disk[To(c)] = Null
                               /\ q.phase = "files" /\ x \in Tagged => q.parts = Both
        /\ q.moved # NoPart => /\ disk[To(c)] = x /\ disk[From(c)] = Null
                               /\ \A d \in Callers \ {c} : Going(d) => To(d) # To(c)
        /\ x \in Tagged => /\ q.moved = Media => q.phase \in {"files", "undo"}
                           /\ q.moved # Done2 => HasCard(From(c), x)
                           /\ q.moved = Done2 => HasCard(To(c), x) /\ side[From(c)] = Null
MovesFit == Kept => \A c \in Callers : Going(c) => MoveAt(c)

\* Every image that is not being moved lies where the index says, with its card.
CardsFit ==
    Kept => \A p \in Paths : disk[p] \in Tagged =>
        HasCard(p, disk[p]) \/ \E c \in Callers : Going(c) /\ req[c].moved = Media /\ p = To(c)
IndexFits ==
    Kept => \A i \in Indexed :
        \/ disk[index[i].path] = index[i].of
        \/ \E c \in Callers : /\ Going(c) /\ req[c].phase # "user"
                              /\ req[c].id = i /\ req[c].moved # NoPart

\* What a request has read of an image: its place is still its, or it has moved
\* into the data root and nothing has come in its stead.
InRoot(p) == RootPath[p] = p
WhoFits(w) ==
    /\ \A i \in Indexed : /\ index[i].path = w.path => index[i].of = w.of
                          /\ index[i].of = w.of => \/ index[i].path = w.path
                                                   \/ ~InRoot(w.path) /\ InRoot(index[i].path)
    /\ \A d \in Callers : Leaving(d) => /\ w.path = From(d) => w.of = Who(d).of
                                        /\ w.of = Who(d).of => w.path \in {From(d), To(d)}
WhosFit ==
    Kept => \A c \in Callers : req[c] # Idle => \A w \in req[c].who : WhoFits(w)

\* A row belongs to one image: it has the image's id, if that is in use, and its
\* place, or the one that a move has still to correct.
Clean == Kept /\ ~past.drift /\ ~past.raced
IsAt(p, x) ==
    \A i \in Indexed : index[i].of = x =>
        p = index[i].path \/ \E c \in Callers : Leaving(c) /\ Who(c).of = x /\ p = From(c)
RowFits(r) ==
    \E x \in Contents :
        /\ r.of = {x}
        /\ r.path = Null => r.id \in Indexed
        /\ r.path # Null => IsAt(r.path, x)
        /\ r.id \in Indexed => index[r.id].of = x
RowsFit == Clean => \A r \in Rows : RowFits(r)

\* The counts a request has read are its image's.
SeenFits ==
    Clean => \A c \in Callers : req[c].op \in Counting =>
        \A s \in req[c].seen : s.of = {Who(c).of}

IInv ==
    /\ TypeOK
    /\ Tables
    /\ ReqsFit
    /\ OnePlace
    /\ NothingLost
    /\ MovesFit
    /\ CardsFit
    /\ IndexFits
    /\ WhosFit
    /\ RowsFit
    /\ SeenFits

-----------------------------------------------------------------------------
(* Requests and moves.                                                     *)

\* The image of a request about one image.
LEMMA WhoIs == ASSUME NEW c, NEW w, req[c].who = {w} PROVE Who(c) = w
BY DEF Who

\* It stays while the request has read nothing else.
LEMMA WhoStays ==
    ASSUME NEW c, req'[c].who = req[c].who
    PROVE  Who(c)' = Who(c) /\ From(c)' = From(c) /\ To(c)' = To(c)
BY DEF Who, From, To

\* A move that has looked at its image.
LEMMA GoingIs ==
    ASSUME IInv, NEW c \in Callers, Going(c)
    PROVE  /\ Relocation(req[c]) /\ req[c].op = "move"
           /\ req[c].phase \in {"files", "index", "undo", "user"}
           /\ Who(c) \in Image /\ req[c].who = {Who(c)} /\ Who(c).id = req[c].id
           /\ Who(c).of \in Contents
           /\ From(c) = Who(c).path /\ From(c) \in Paths
           /\ To(c) = RootPath[From(c)] /\ To(c) \in Paths
           /\ ~InRoot(From(c)) /\ InRoot(To(c)) /\ To(c) # From(c)
           /\ req[c].moved \in {NoPart, Media, Done2}
           /\ req[c].phase = "files" => \/ req[c].moved = NoPart /\ req[c].parts \in {Media, Both}
                                        \/ req[c].moved = Media /\ req[c].parts = <<"sidecar">>
           /\ req[c].phase \in {"index", "user"} => req[c].moved # NoPart
<1>1. Relocation(req[c]) /\ req[c].op = "move" /\ req[c].phase # "check"
  BY DEF IInv, ReqsFit, Going, Idle, Request, Asking, Singles, Counting
<1>2. PICK w \in Image : req[c].who = {w} /\ w.id = req[c].id /\ RootPath[w.path] # w.path
  BY <1>1 DEF Relocation
<1>3. Who(c) = w
  BY <1>2, WhoIs
<1>4. w.path \in Paths /\ w.of \in Contents
  BY DEF Image
<1>5. From(c) = w.path /\ To(c) = RootPath[w.path]
  BY <1>3 DEF From, To
<1>6. RootPath[w.path] \in Paths /\ RootPath[RootPath[w.path]] = RootPath[w.path]
  BY <1>4, RootAssumption
<1>7. /\ req[c].phase \in {"files", "index", "undo", "user"}
      /\ req[c].moved \in {NoPart, Media, Done2}
      /\ req[c].phase = "files" => \/ req[c].moved = NoPart /\ req[c].parts \in {Media, Both}
                                   \/ req[c].moved = Media /\ req[c].parts = <<"sidecar">>
      /\ req[c].phase \in {"index", "user"} => req[c].moved # NoPart
  BY <1>1 DEF Relocation
<1> QED BY <1>1, <1>2, <1>3, <1>4, <1>5, <1>6, <1>7 DEF InRoot

\* Any other request.
LEMMA BusyIs ==
    ASSUME IInv, NEW c \in Callers, req[c].op \in Asking
    PROVE  Request(req[c]) /\ req[c] # Idle /\ ~Going(c) /\ req[c].who \subseteq Image
           /\ (req[c].op \in Singles => Who(c) \in Image /\ req[c].who = {Who(c)})
<1>1. Request(req[c])
  BY DEF IInv, ReqsFit, Idle, Relocation, Asking, Singles, Counting
<1>2. ASSUME req[c].op \in Singles PROVE Who(c) \in Image /\ req[c].who = {Who(c)}
  <2>1. PICK w \in Image : req[c].who = {w}
    BY <1>1, <1>2 DEF Request
  <2> QED BY <2>1, WhoIs
<1> QED BY <1>1, <1>2 DEF Request, Asking, Singles, Counting, Idle, Going

-----------------------------------------------------------------------------
(* Steps that leave the files, the index and the moves alone.              *)

Same ==
    /\ index' = index /\ disk' = disk /\ side' = side
    /\ past'.cut = past.cut /\ past'.overlapped = past.overlapped
    /\ \A c \in Callers : (Going(c)' <=> Going(c)) /\ (Going(c) => req'[c] = req[c])

\* A move goes on knowing what it knew.
LEMMA SameMoves ==
    ASSUME Same, NEW c \in Callers
    PROVE  /\ (Going(c)' <=> Going(c)) /\ (Leaving(c)' <=> Leaving(c))
           /\ Going(c) => /\ req'[c] = req[c] /\ Who(c)' = Who(c)
                          /\ From(c)' = From(c) /\ To(c)' = To(c)
<1>1. (Going(c)' <=> Going(c)) /\ (Going(c) => req'[c] = req[c])
  BY DEF Same
<1>2. Leaving(c)' <=> Leaving(c)
  BY <1>1 DEF Leaving
<1> QED BY <1>1, <1>2, WhoStays

\* Whatever keeps the files, the index and the moves keeps what IInv says of them.
LEMMA SameFiles ==
    ASSUME IInv, Same
    PROVE  OnePlace' /\ NothingLost' /\ MovesFit' /\ CardsFit' /\ IndexFits'
<1>1. /\ index' = index /\ disk' = disk /\ side' = side /\ Indexed' = Indexed
      /\ past'.cut = past.cut /\ past'.overlapped = past.overlapped
  BY DEF Same, Indexed
<1>2. OnePlace'
  BY <1>1 DEF IInv, OnePlace
<1>3. NothingLost'
  BY <1>1, SameMoves DEF IInv, NothingLost
<1>4. MovesFit'
  <2> SUFFICES ASSUME Kept', NEW c \in Callers, Going(c)' PROVE MoveAt(c)'
    BY DEF MovesFit
  <2>1. Kept /\ Going(c) /\ MoveAt(c) /\ req'[c] = req[c] /\ Who(c)' = Who(c)
        /\ From(c)' = From(c) /\ To(c)' = To(c)
    BY <1>1, SameMoves DEF IInv, MovesFit, Kept
  <2>2. \A d \in Callers : Going(d)' => Going(d) /\ To(d)' = To(d)
    BY SameMoves
  <2> QED BY <1>1, <2>1, <2>2 DEF MoveAt, HasCard
<1>5. CardsFit'
  BY <1>1, SameMoves DEF IInv, CardsFit, Kept, HasCard
<1>6. IndexFits'
  BY <1>1, SameMoves DEF IInv, IndexFits, Kept
<1> QED BY <1>2, <1>3, <1>4, <1>5, <1>6

\* Such a step keeps what is known of an image that was read.
LEMMA SameWho ==
    ASSUME Same, NEW w, WhoFits(w)
    PROVE  WhoFits(w)'
<1>1. index' = index /\ Indexed' = Indexed
  BY DEF Same, Indexed
<1>2. \A d \in Callers : Leaving(d)' => Leaving(d) /\ Who(d)' = Who(d) /\ From(d)' = From(d) /\ To(d)' = To(d)
  BY SameMoves DEF Leaving
<1> QED BY <1>1, <1>2 DEF WhoFits, InRoot

\* Such a step keeps the place of a row.
LEMMA SameRow ==
    ASSUME Same, NEW r, RowFits(r)
    PROVE  RowFits(r)'
<1>1. index' = index /\ Indexed' = Indexed
  BY DEF Same, Indexed
<1>2. \A d \in Callers : Leaving(d) => Leaving(d)' /\ Who(d)' = Who(d) /\ From(d)' = From(d)
  BY SameMoves DEF Leaving
<1>3. PICK x \in Contents : /\ r.of = {x}
                            /\ r.path = Null => r.id \in Indexed
                            /\ r.path # Null => IsAt(r.path, x)
                            /\ r.id \in Indexed => index[r.id].of = x
  BY DEF RowFits
<1>4. r.path # Null => IsAt(r.path, x)'
  BY <1>1, <1>2, <1>3 DEF IsAt
<1> QED BY <1>1, <1>3, <1>4 DEF RowFits

\* What a step may write down in its histories.
Grows ==
    /\ past' \in [drift : BOOLEAN, cut : BOOLEAN, raced : BOOLEAN, overlapped : BOOLEAN,
                  overwrote : BOOLEAN]
    /\ past'.cut = past.cut /\ past'.overlapped = past.overlapped
    /\ past.drift => past'.drift
    /\ past.raced => past'.raced

\* A request that is answered, begins, or goes on.
Fresh(q) ==
    \/ q = Idle
    \/ /\ Request(q) \/ (Relocation(q) /\ q.phase = "check")
       /\ Kept => \A w \in q.who : WhoFits(w)
       /\ Clean /\ q.op \in Counting => \A s \in q.seen, w \in q.who : s.of = {w.of}

\* Requests, as far as they leave the files, the index and the moves alone.
LEMMA Plain ==
    ASSUME IInv, index' = index, disk' = disk, side' = side, Grows,
           req' \in [Callers -> {req'[c] : c \in Callers}],
           \A c \in Callers : req'[c] = req[c] \/ (~Going(c) /\ Fresh(req'[c])),
           TypeOK', Tables', Clean' => \A r \in Rows' : r \in Rows \/ RowFits(r)
    PROVE  IInv'
<1>1. \A c \in Callers : req'[c] = req[c] \/ (~Going(c) /\ Fresh(req'[c]) /\ ~Going(c)')
  <2> SUFFICES ASSUME NEW c \in Callers, Fresh(req'[c]) PROVE ~Going(c)'
    OBVIOUS
  <2> QED BY DEF Fresh, Going, Idle, Request, Asking, Singles, Counting
<1>2. \A c \in Callers : (Going(c)' <=> Going(c)) /\ (Going(c) => req'[c] = req[c])
  BY <1>1 DEF Going
<1>3. Same /\ Indexed' = Indexed
  BY <1>2 DEF Same, Grows, Indexed
<1>4. (Kept' => Kept) /\ (Clean' => Clean)
  BY DEF Kept, Clean, Grows
<1>5. ReqsFit'
  <2>1. ASSUME NEW c \in Callers
        PROVE  req'[c] = Idle \/ Request(req'[c]) \/ Relocation(req'[c])
    BY DEF IInv, ReqsFit, Fresh
  <2> QED BY <2>1 DEF ReqsFit
<1>6. WhosFit'
  <2> SUFFICES ASSUME Kept', NEW c \in Callers, req'[c] # Idle, NEW w \in req'[c].who
               PROVE  WhoFits(w)'
    BY DEF WhosFit
  <2>1. WhoFits(w)
    BY <1>4 DEF Fresh, IInv, WhosFit
  <2> QED BY <1>3, <2>1, SameWho
<1>7. RowsFit'
  <2> SUFFICES ASSUME Clean', NEW r \in Rows' PROVE RowFits(r)'
    BY DEF RowsFit
  <2>1. RowFits(r)
    BY <1>4 DEF IInv, RowsFit
  <2> QED BY <1>3, <2>1, SameRow
<1>8. SeenFits'
  <2> SUFFICES ASSUME Clean', NEW c \in Callers, req'[c].op \in Counting,
                      NEW s \in req'[c].seen
               PROVE  s.of = {Who(c)'.of}
    BY DEF SeenFits
  <2>1. CASE req'[c] = req[c]
    <3>1. Who(c)' = Who(c)
      BY <2>1, WhoStays
    <3> QED BY <1>4, <2>1, <3>1 DEF IInv, SeenFits
  <2>2. CASE Fresh(req'[c])
    <3>1. Request(req'[c]) /\ req'[c].op \in Singles /\ req'[c] # Idle
      BY <2>2 DEF Fresh, Idle, Relocation, Singles, Counting
    <3>2. PICK w \in Image : req'[c].who = {w}
      BY <3>1 DEF Request
    <3>3. Who(c)' = w
      BY <3>2 DEF Who
    <3> QED BY <1>4, <2>2, <3>1, <3>2, <3>3 DEF Fresh
  <2> QED BY <2>1, <2>2
<1> QED BY <1>3, <1>5, <1>6, <1>7, <1>8, SameFiles DEF IInv

-----------------------------------------------------------------------------
(* Requests that begin, and those that only read.                          *)

\* What is read of an image fits.
LEMMA IdentityFits ==
    ASSUME IInv, NEW i \in Indexed
    PROVE  Identity(i) \in Image /\ Identity(i).id = i /\ (Kept => WhoFits(Identity(i)))
<1>1. index[i] \in File /\ i \in Ids /\ Indexed \subseteq Ids
  BY DEF IInv, Tables
<1>2. /\ Identity(i) \in Image /\ Identity(i).id = i
      /\ Identity(i).path = index[i].path /\ Identity(i).of = index[i].of
  BY <1>1 DEF Identity, Image, File
<1>3. ASSUME Kept PROVE WhoFits(Identity(i))
  <2>1. ASSUME NEW j \in Indexed
        PROVE  /\ index[j].path = index[i].path => index[j].of = index[i].of
               /\ index[j].of = index[i].of => index[j].path = index[i].path
    BY DEF IInv, TypeOK, OnePlace
  <2>2. ASSUME NEW d \in Callers, Leaving(d)
        PROVE  /\ index[i].path # From(d)
               /\ index[i].of = Who(d).of => index[i].path = To(d)
    <3>1. MoveAt(d) /\ req[d].phase = "user"
      BY <1>3, <2>2 DEF IInv, MovesFit, Leaving
    <3> QED BY <3>1 DEF MoveAt, IInv, OnePlace
  <2> QED BY <1>2, <2>1, <2>2 DEF WhoFits
<1> QED BY <1>2, <1>3

\* Steps that leave the tables alone.
LEMMA TablesStay ==
    ASSUME IInv, index' = index, disk' = disk, side' = side, favs' = favs, items' = items,
           tags' = tags, views' = views, colls' = colls, Grows,
           {home'.page, home'.building} \subseteq {"none", "fresh", "stale"}
    PROVE  TypeOK' /\ Tables' /\ Rows' = Rows
<1>1. Tables'
  BY DEF IInv, Tables, Indexed, Grows
<1>2. TypeOK'
  <2>1. \A k \in Colls : In(k)' = In(k)
    BY DEF In
  <2>2. Live' = Live /\ Indexed' = Indexed
    BY DEF Live, Indexed
  <2> QED BY <2>1, <2>2 DEF IInv, TypeOK, Unique
<1> QED BY <1>1, <1>2 DEF Rows

\* A step that writes nothing down in the histories keeps them.
LEMMA NothingGrows == ASSUME IInv, past' = past PROVE Grows
BY DEF IInv, Tables, Grows

\* A request that goes on, or is answered.
LEMMA Goes ==
    ASSUME IInv, NEW c \in Callers, ~Going(c), NEW q, req' = [req EXCEPT ![c] = q], Fresh(q),
           index' = index, disk' = disk, side' = side, Grows, TypeOK', Tables',
           Clean' => \A r \in Rows' : r \in Rows \/ RowFits(r)
    PROVE  IInv'
<1>1. /\ req' \in [Callers -> {req'[d] : d \in Callers}]
      /\ \A d \in Callers : req'[d] = req[d] \/ (~Going(d) /\ Fresh(req'[d]))
  <2>1. req \in [Callers -> {req[d] : d \in Callers}]
    BY DEF IInv, ReqsFit
  <2> QED BY <2>1
<1> QED BY <1>1, Plain

\* A request that begins, or only reads.
LEMMA Opens ==
    ASSUME IInv, NEW c \in Callers, ~Going(c), NEW q, req' = [req EXCEPT ![c] = q], Fresh(q),
           UNCHANGED <<index, disk, side, user, colls, home, past>>
    PROVE  IInv'
<1>1. /\ index' = index /\ disk' = disk /\ side' = side /\ favs' = favs /\ items' = items
      /\ tags' = tags /\ views' = views /\ colls' = colls /\ home' = home /\ past' = past
  BY DEF user
<1>2. Grows
  BY <1>1, NothingGrows
<1>3. TypeOK' /\ Tables' /\ Rows' = Rows
  <2>1. {home'.page, home'.building} \subseteq {"none", "fresh", "stale"}
    BY <1>1 DEF IInv, TypeOK
  <2> QED BY <1>1, <1>2, <2>1, TablesStay
<1> QED BY <1>1, <1>2, <1>3, Goes

\* A request that is refused only answers.
LEMMA Refused ==
    ASSUME IInv, req' = req, UNCHANGED <<index, disk, side, user, colls, past>>,
           {home'.page, home'.building} \subseteq {"none", "fresh", "stale"}
    PROVE  IInv'
<1>1. /\ index' = index /\ disk' = disk /\ side' = side /\ favs' = favs /\ items' = items
      /\ tags' = tags /\ views' = views /\ colls' = colls /\ past' = past
  BY DEF user
<1>2. Grows
  BY <1>1, NothingGrows
<1>3. TypeOK' /\ Tables' /\ Rows' = Rows
  BY <1>1, <1>2, TablesStay
<1>4. /\ req' \in [Callers -> {req'[d] : d \in Callers}]
      /\ \A d \in Callers : req'[d] = req[d]
  BY DEF IInv, ReqsFit
<1> QED BY <1>1, <1>2, <1>3, <1>4, Plain

\* What a request about some images has read.
LEMMA FreshWho ==
    ASSUME IInv, NEW I, I \subseteq Indexed, NEW op \in Asking, NEW k, NEW phase \in {"look", "more", "write"},
           op \in Singles => \E i \in Ids : I = {i},
           op \in {"put", "take", "hold"} => k \in Colls, NEW rest \in SUBSET Ids, I \cap rest = {},
           NEW q, q = [op |-> op, who |-> {Identity(i) : i \in I}, coll |-> k, rest |-> rest,
                       phase |-> phase, seen |-> {}, clash |-> {}]
    PROVE  Fresh(q)
<1>1. PICK W : W = {Identity(i) : i \in I}
  OBVIOUS
<1>2. /\ q.op = op /\ q.who = W /\ q.coll = k /\ q.rest = rest /\ q.phase = phase
      /\ q.seen = {} /\ q.clash = {}
  BY <1>1
<1>3. q = [op |-> q.op, who |-> q.who, coll |-> q.coll, rest |-> q.rest, phase |-> q.phase,
           seen |-> q.seen, clash |-> q.clash]
  BY <1>2
<1>4. /\ W \subseteq Image /\ \A v, w \in W : v.id = w.id => v = w
      /\ \A w \in W : w.id \notin rest
  BY <1>1, IdentityFits
<1>5. op \in Singles => \E w \in Image : W = {w}
  <2> SUFFICES ASSUME op \in Singles PROVE \E w \in Image : W = {w}
    OBVIOUS
  <2>1. PICK i : I = {i}
    OBVIOUS
  <2>2. W = {Identity(i)} /\ Identity(i) \in Image
    BY <1>1, <2>1, IdentityFits
  <2> QED BY <2>2
<1>6. Kept => \A w \in W : WhoFits(w)
  BY <1>1, IdentityFits
<1> QED BY <1>2, <1>3, <1>4, <1>5, <1>6 DEF Fresh, Request

\* A request about one image begins.
LEMMA IdentifyKeeps ==
    ASSUME IInv, NEW c \in Callers, NEW i \in Ids,
           NEW op \in {"toggle", "pin", "view", "heart", "tag", "untag"}, Identify(c, op, i)
    PROVE  IInv'
<1>1. ~Going(c) /\ UNCHANGED <<index, disk, side, user, colls, home, past>>
  BY DEF Identify, Going, Idle
<1>2. CASE i \in Indexed
  <2>1. PICK q : q = [op |-> op, who |-> {Identity(j) : j \in {i}}, coll |-> Null, rest |-> {},
                      phase |-> "look", seen |-> {}, clash |-> {}]
    OBVIOUS
  <2>2. req' = [req EXCEPT ![c] = q]
    <3>1. {Identity(j) : j \in {i}} = {Identity(i)}
      OBVIOUS
    <3> QED BY <1>2, <2>1, <3>1 DEF Identify
  <2>3. Fresh(q)
    BY <1>2, <2>1, FreshWho DEF Asking, Singles, Counting
  <2> QED BY <1>1, <2>2, <2>3, Opens
<1>3. CASE i \notin Indexed
  <2>1. {home'.page, home'.building} \subseteq {"none", "fresh", "stale"}
    BY <1>1 DEF IInv, TypeOK
  <2> QED BY <1>1, <1>3, <2>1, Refused DEF Identify, Refuse
<1> QED BY <1>2, <1>3

\* A batch of favourites begins.
LEMMA IdentifyBatchKeeps ==
    ASSUME IInv, NEW c \in Callers, NEW I \in SUBSET Ids, NEW op \in {"add", "remove"},
           IdentifyBatch(c, op, I)
    PROVE  IInv'
<1>1. ~Going(c) /\ UNCHANGED <<index, disk, side, user, colls, home, past>>
  BY DEF IdentifyBatch, Going, Idle
<1>2. CASE I \subseteq Indexed
  <2>1. PICK q : q = [op |-> op, who |-> {Identity(j) : j \in I}, coll |-> Null, rest |-> {},
                      phase |-> "write", seen |-> {}, clash |-> {}]
    OBVIOUS
  <2>2. req' = [req EXCEPT ![c] = q]
    BY <1>2, <2>1 DEF IdentifyBatch
  <2>3. Fresh(q)
    BY <1>2, <2>1, FreshWho DEF Asking, Singles, Counting
  <2> QED BY <1>1, <2>2, <2>3, Opens
<1>3. CASE ~ I \subseteq Indexed
  <2>1. {home'.page, home'.building} \subseteq {"none", "fresh", "stale"}
    BY <1>1 DEF IInv, TypeOK
  <2> QED BY <1>1, <1>3, <2>1, Refused DEF IdentifyBatch, Refuse
<1> QED BY <1>2, <1>3

\* A change of a collection's images begins.
LEMMA IdentifyItemsKeeps ==
    ASSUME IInv, NEW c \in Callers, NEW I \in SUBSET Ids, NEW i \in Ids, NEW k \in Colls,
           NEW op \in {"put", "take", "hold"}, IdentifyItems(c, op, k, I, i)
    PROVE  IInv'
<1>1. ~Going(c) /\ UNCHANGED <<index, disk, side, user, colls, home, past>>
  BY DEF IdentifyItems, Going, Idle
<1>2. CASE k \in Live /\ i \in Indexed
  <2>1. PICK phase \in {"look", "more", "write"} :
            phase = IF op = "hold" THEN "look" ELSE IF I = {i} THEN "write" ELSE "more"
    <3>1. CASE op = "hold"
      BY <3>1
    <3>2. CASE op # "hold" /\ I = {i}
      BY <3>2
    <3>3. CASE op # "hold" /\ I # {i}
      BY <3>3
    <3> QED BY <3>1, <3>2, <3>3
  <2>2. PICK q : q = [op |-> op, who |-> {Identity(j) : j \in {i}}, coll |-> k, rest |-> I \ {i},
                      phase |-> phase, seen |-> {}, clash |-> {}]
    OBVIOUS
  <2>3. req' = [req EXCEPT ![c] = q]
    <3>1. {Identity(j) : j \in {i}} = {Identity(i)}
      OBVIOUS
    <3> QED BY <1>2, <2>1, <2>2, <3>1 DEF IdentifyItems
  <2>4. Fresh(q)
    <3>1. {i} \cap (I \ {i}) = {} /\ {i} \subseteq Indexed /\ I \ {i} \in SUBSET Ids
      BY <1>2
    <3> QED BY <1>2, <2>2, <3>1, FreshWho DEF Asking, Singles, Counting
  <2> QED BY <1>1, <2>3, <2>4, Opens
<1>3. CASE ~ (k \in Live /\ i \in Indexed)
  <2>1. {home'.page, home'.building} \subseteq {"none", "fresh", "stale"}
    BY <1>1 DEF IInv, TypeOK
  <2> QED BY <1>1, <1>3, <2>1, Refused DEF IdentifyItems, Refuse
<1> QED BY <1>2, <1>3

\* What a request becomes when it has read one more identity, if it knows the image.
LEMMA ReadsOn ==
    ASSUME IInv, NEW c \in Callers, IdentifyNext(c)
    PROVE  \E i \in req[c].rest : \E phase \in {"more", "write"} :
               \/ /\ i \in Indexed
                  /\ req' = [req EXCEPT ![c] =
                                [op |-> req[c].op, who |-> req[c].who \cup {Identity(i)}, coll |-> req[c].coll,
                                 rest |-> req[c].rest \ {i}, phase |-> phase, seen |-> req[c].seen,
                                 clash |-> req[c].clash]]
               \/ Answer(c, "refused", {}, {})
<1>1. Request(req[c])
  <2>1. req[c].op \in Asking
    BY DEF IdentifyNext, Asking
  <2> QED BY <2>1, BusyIs
<1>2. PICK i \in req[c].rest :
          IF i \in Indexed
          THEN req' = [req EXCEPT ![c].who = @ \cup {Identity(i)}, ![c].rest = @ \ {i},
                                  ![c].phase = IF req[c].rest = {i} THEN "write" ELSE "more"]
          ELSE Answer(c, "refused", {}, {})
  BY DEF IdentifyNext
<1>3. CASE i \in Indexed
  <2>1. PICK who, rest : who = req[c].who \cup {Identity(i)} /\ rest = req[c].rest \ {i}
    OBVIOUS
  <2>2. PICK phase \in {"more", "write"} : phase = IF req[c].rest = {i} THEN "write" ELSE "more"
    OBVIOUS
  <2>3. req' = [req EXCEPT ![c].who = who, ![c].rest = rest, ![c].phase = phase]
    BY <1>2, <1>3, <2>1, <2>2
  <2>4. PICK o, w, k, t, p, s, x :
            req[c] = [op |-> o, who |-> w, coll |-> k, rest |-> t, phase |-> p, seen |-> s, clash |-> x]
    BY <1>1 DEF Request
  <2>5. PICK q : q = [op |-> req[c].op, who |-> who, coll |-> req[c].coll, rest |-> rest,
                      phase |-> phase, seen |-> req[c].seen, clash |-> req[c].clash]
    OBVIOUS
  <2>6. [[[req[c] EXCEPT !.who = who] EXCEPT !.rest = rest] EXCEPT !.phase = phase] = q
    <3>1. PICK r1 : r1 = [req[c] EXCEPT !.who = who]
      OBVIOUS
    <3>2. r1 = [op |-> o, who |-> who, coll |-> k, rest |-> t, phase |-> p, seen |-> s, clash |-> x]
      BY <2>4, <3>1
    <3>3. PICK r2 : r2 = [r1 EXCEPT !.rest = rest]
      OBVIOUS
    <3>4. r2 = [op |-> o, who |-> who, coll |-> k, rest |-> rest, phase |-> p, seen |-> s, clash |-> x]
      BY <3>2, <3>3
    <3>5. [r2 EXCEPT !.phase = phase]
              = [op |-> o, who |-> who, coll |-> k, rest |-> rest, phase |-> phase, seen |-> s, clash |-> x]
      BY <3>4
    <3>6. q = [op |-> o, who |-> who, coll |-> k, rest |-> rest, phase |-> phase, seen |-> s, clash |-> x]
      BY <2>4, <2>5
    <3> QED BY <3>1, <3>3, <3>5, <3>6
  <2>7. req' = [req EXCEPT ![c] = q]
    BY <2>3, <2>6
  <2> QED BY <1>3, <2>1, <2>5, <2>7
<1>4. CASE i \notin Indexed
  BY <1>2, <1>4
<1> QED BY <1>3, <1>4

\* It reads the identity of one image more, or is refused.
LEMMA IdentifyNextKeeps ==
    ASSUME IInv, NEW c \in Callers, IdentifyNext(c)
    PROVE  IInv'
<1>1. /\ req[c].op \in {"put", "take"} /\ req[c].op \in Asking /\ req[c].op \notin Singles
      /\ req[c].phase = "more"
      /\ UNCHANGED <<index, disk, side, user, colls, home, past>>
  BY DEF IdentifyNext, Asking, Singles, Counting
<1>2. Request(req[c]) /\ ~Going(c) /\ req[c] # Idle
  BY <1>1, BusyIs
<1>3. PICK i \in req[c].rest : \E phase \in {"more", "write"} :
          \/ /\ i \in Indexed
             /\ req' = [req EXCEPT ![c] =
                           [op |-> req[c].op, who |-> req[c].who \cup {Identity(i)}, coll |-> req[c].coll,
                            rest |-> req[c].rest \ {i}, phase |-> phase, seen |-> req[c].seen,
                            clash |-> req[c].clash]]
          \/ Answer(c, "refused", {}, {})
  BY ReadsOn
<1>4. ASSUME i \in Indexed, NEW phase \in {"more", "write"},
             req' = [req EXCEPT ![c] =
                        [op |-> req[c].op, who |-> req[c].who \cup {Identity(i)}, coll |-> req[c].coll,
                         rest |-> req[c].rest \ {i}, phase |-> phase, seen |-> req[c].seen,
                         clash |-> req[c].clash]]
      PROVE  IInv'
  <2>1. PICK who, rest : who = req[c].who \cup {Identity(i)} /\ rest = req[c].rest \ {i}
    OBVIOUS
  <2>2. PICK q : q = [op |-> req[c].op, who |-> who, coll |-> req[c].coll, rest |-> rest,
                      phase |-> phase, seen |-> req[c].seen, clash |-> req[c].clash]
    OBVIOUS
  <2>3. req' = [req EXCEPT ![c] = q]
    BY <1>4, <2>1, <2>2
  <2>4. /\ q.op = req[c].op /\ q.who = who /\ q.coll = req[c].coll /\ q.rest = rest /\ q.phase = phase
        /\ q.seen = req[c].seen /\ q.clash = req[c].clash
    BY <2>2
  <2>5. phase \in {"more", "write"} /\ req[c].clash = {}
    BY <1>1, <1>2 DEF Request
  <2>6. Identity(i) \in Image /\ Identity(i).id = i /\ (Kept => WhoFits(Identity(i)))
    BY <1>4, IdentityFits
  <2>7. PICK w : w = Identity(i)
    OBVIOUS
  <2>8. /\ who \subseteq Image /\ \A x, y \in who : x.id = y.id => x = y
        /\ rest \subseteq Ids /\ \A x \in who : x.id \notin rest
    <3>1. /\ req[c].who \subseteq Image /\ \A x, y \in req[c].who : x.id = y.id => x = y
          /\ req[c].rest \subseteq Ids /\ \A x \in req[c].who : x.id \notin req[c].rest
      BY <1>2 DEF Request
    <3>2. who = req[c].who \cup {w} /\ rest = req[c].rest \ {i} /\ w.id = i /\ w \in Image
      BY <2>1, <2>6, <2>7
    <3> QED BY <3>1, <3>2
  <2>9. Request(q)
    <3>1. q = [op |-> q.op, who |-> q.who, coll |-> q.coll, rest |-> q.rest, phase |-> q.phase,
               seen |-> q.seen, clash |-> q.clash]
      BY <2>2, <2>4
    <3>2. q.coll \in Colls
      BY <1>1, <1>2, <2>4 DEF Request
    <3>3. q.op \notin Counting
      BY <1>1, <2>4 DEF Counting
    <3> QED BY <1>1, <2>4, <2>5, <2>8, <3>1, <3>2, <3>3 DEF Request
  <2>10. Kept => \A x \in q.who : WhoFits(x)
    BY <1>2, <2>1, <2>4, <2>6 DEF IInv, WhosFit
  <2>11. q.op \notin Counting
    BY <1>1, <2>4 DEF Counting
  <2>12. Fresh(q)
    BY <2>9, <2>10, <2>11 DEF Fresh
  <2> QED BY <1>1, <1>2, <2>3, <2>12, Opens
<1>5. CASE Answer(c, "refused", {}, {})
  <2>1. req' = [req EXCEPT ![c] = Idle]
    BY <1>5 DEF Answer
  <2>2. Fresh(Idle)
    BY DEF Fresh
  <2> QED BY <1>1, <1>2, <2>1, <2>2, Opens
<1> QED BY <1>3, <1>4, <1>5

\* A batch of moves begins.
LEMMA StartMovesKeeps ==
    ASSUME IInv, NEW c \in Callers, NEW todo, NEW folder, StartMoves(c, todo, folder)
    PROVE  IInv'
<1>1. ~Going(c) /\ UNCHANGED <<index, disk, side, user, colls, home, past>>
  BY DEF StartMoves, Going, Idle
<1>2. PICK q : q = [op |-> "move", phase |-> "check", todo |-> todo, folder |-> folder,
                    id |-> Head(todo), who |-> {}, parts |-> <<>>, moved |-> <<>>]
  OBVIOUS
<1>3. req' = [req EXCEPT ![c] = q]
  BY <1>2 DEF StartMoves
<1>4. Fresh(q)
  BY <1>2 DEF Fresh, Relocation, NoPart, Counting
<1> QED BY <1>1, <1>3, <1>4, Opens

-----------------------------------------------------------------------------
(* What belongs to an image.                                               *)

\* A row at an image's place is the image's.
LEMMA RowOf ==
    ASSUME IInv, Clean, NEW r, RowFits(r), r.path # Null,
           NEW w, WhoFits(w), r.path = w.path
    PROVE  r.of = {w.of}
<1>1. PICK x \in Contents : r.of = {x} /\ IsAt(w.path, x)
  BY DEF RowFits
<1>2. PICK i \in Indexed : index[i].of = x
  BY DEF IInv, NothingLost, Clean, Kept
<1>3. CASE w.path = index[i].path
  BY <1>1, <1>2, <1>3 DEF WhoFits
<1>4. CASE \E d \in Callers : Leaving(d) /\ Who(d).of = x /\ w.path = From(d)
  BY <1>1, <1>4 DEF WhoFits
<1> QED BY <1>1, <1>2, <1>3, <1>4 DEF IsAt

\* A row that is written for an image fits, if the request is not out of date.
LEMMA NewRow ==
    ASSUME IInv, Clean, NEW w \in Image, WhoFits(w), ~Outdated(w),
           NEW r, r.id = w.id, r.path = w.path, r.of = {w.of}
    PROVE  RowFits(r)
<1>1. w.path \in Paths /\ w.path # Null /\ w.of \in Contents
  BY NullAssumption DEF Image
<1>2. CASE w.id \in Indexed /\ Identity(w.id) = w
  <2>1. index[w.id].of = w.of /\ index[w.id].path = w.path
    BY <1>2 DEF Identity
  <2>2. \A i \in Indexed : index[i].of = w.of => i = w.id
    BY <1>2, <2>1 DEF IInv, OnePlace
  <2>3. IsAt(w.path, w.of)
    BY <2>1, <2>2 DEF IsAt
  <2> QED BY <1>1, <2>1, <2>3 DEF RowFits
<1>3. CASE \E d \in Moving : req[d].phase = "user" /\ req[d].id = w.id /\ Who(d).of = w.of
  <2>1. PICK d \in Callers : Leaving(d) /\ Going(d) /\ req[d].phase = "user" /\ req[d].id = w.id /\ Who(d).of = w.of
    BY <1>3 DEF Moving, Leaving, Going
  <2>2. MoveAt(d)
    BY <2>1 DEF IInv, MovesFit, Clean
  <2>3. w.id \in Indexed /\ index[w.id].of = w.of /\ index[w.id].path = To(d)
    BY <2>1, <2>2 DEF MoveAt
  <2>4. \A i \in Indexed : index[i].of = w.of => i = w.id
    BY <2>3 DEF IInv, OnePlace
  <2>5. w.path \in {From(d), To(d)}
    BY <2>1 DEF WhoFits
  <2>6. IsAt(w.path, w.of)
    BY <2>1, <2>3, <2>4, <2>5 DEF IsAt
  <2> QED BY <1>1, <2>3, <2>6 DEF RowFits
<1> QED BY <1>2, <1>3 DEF Outdated

\* What a request has read fits.
LEMMA WhoseFits ==
    ASSUME IInv, NEW c \in Callers, req[c].op \in Asking, NEW w \in req[c].who
    PROVE  w \in Image /\ w.path # Null /\ (Kept => WhoFits(w))
<1>1. req[c] # Idle /\ w \in Image
  BY BusyIs
<1>2. w.path # Null
  BY <1>1, NullAssumption DEF Image
<1> QED BY <1>1, <1>2 DEF IInv, WhosFit

\* What a request becomes when it has read the rows of its image.
LEMMA LooksOn ==
    ASSUME NEW r, Request(r), NEW seen, NEW phase
    PROVE  [[r EXCEPT !.seen = seen] EXCEPT !.phase = phase]
               = [op |-> r.op, who |-> r.who, coll |-> r.coll, rest |-> r.rest, phase |-> phase,
                  seen |-> seen, clash |-> r.clash]
<1>1. PICK o, w, k, t, p, s, x :
          r = [op |-> o, who |-> w, coll |-> k, rest |-> t, phase |-> p, seen |-> s, clash |-> x]
  BY DEF Request
<1>2. PICK r1 : r1 = [r EXCEPT !.seen = seen]
  OBVIOUS
<1>3. r1 = [op |-> o, who |-> w, coll |-> k, rest |-> t, phase |-> p, seen |-> seen, clash |-> x]
  BY <1>1, <1>2
<1>4. [r1 EXCEPT !.phase = phase]
          = [op |-> o, who |-> w, coll |-> k, rest |-> t, phase |-> phase, seen |-> seen, clash |-> x]
  BY <1>3
<1> QED BY <1>1, <1>2, <1>4

\* A request reads the rows of its image.
LEMMA LookKeeps ==
    ASSUME IInv, NEW c \in Callers, Look(c)
    PROVE  IInv'
<1>1. /\ req[c].op \in {"toggle", "pin", "hold", "view", "heart"}
      /\ req[c].op \in Asking /\ req[c].op \in Singles /\ req[c].phase = "look"
      /\ UNCHANGED <<index, disk, side, user, colls, home, past>>
  BY DEF Look, Asking, Singles, Counting
<1>2. /\ Request(req[c]) /\ ~Going(c) /\ Who(c) \in Image /\ req[c].who = {Who(c)}
      /\ Who(c).path # Null /\ (Kept => WhoFits(Who(c)))
  <2>1. Request(req[c]) /\ ~Going(c) /\ Who(c) \in Image /\ req[c].who = {Who(c)}
    BY <1>1, BusyIs
  <2> QED BY <1>1, <2>1, WhoseFits
<1>3. \E phase \in {"clash", "write"} : \E seen :
          /\ req' = [req EXCEPT ![c].seen = seen, ![c].phase = phase]
          /\ req[c].op \in Counting => seen \subseteq Of(views, Who(c)) /\ \A s, t \in seen : s = t
  <2>1. PICK found : found = Of(TableOf(req[c]), Who(c))
    OBVIOUS
  <2>2. PICK seen \in IF req[c].op \in {"view", "heart"} /\ found # {} THEN {{r} : r \in found} ELSE {found} :
            req' = [req EXCEPT ![c].seen = seen,
                               ![c].phase = IF /\ req[c].op \in {"view", "heart"}
                                               /\ \E s \in seen : s.id # Who(c).id
                                            THEN "clash" ELSE "write"]
    BY <2>1 DEF Look
  <2>3. PICK phase \in {"clash", "write"} :
            phase = IF /\ req[c].op \in {"view", "heart"}
                       /\ \E s \in seen : s.id # Who(c).id
                    THEN "clash" ELSE "write"
    OBVIOUS
  <2>4. req[c].op \in Counting => TableOf(req[c]) = views
    BY DEF TableOf, Counting
  <2>5. req[c].op \in Counting => seen \subseteq found /\ \A s, t \in seen : s = t
    BY <2>2 DEF Counting
  <2>6. req' = [req EXCEPT ![c].seen = seen, ![c].phase = phase]
    BY <2>2, <2>3
  <2>7. req[c].op \in Counting => seen \subseteq Of(views, Who(c)) /\ \A s, t \in seen : s = t
    BY <2>1, <2>4, <2>5
  <2> QED BY <2>6, <2>7
<1>8. PICK phase \in {"clash", "write"} : \E seen :
          /\ req' = [req EXCEPT ![c].seen = seen, ![c].phase = phase]
          /\ req[c].op \in Counting => seen \subseteq Of(views, Who(c)) /\ \A s, t \in seen : s = t
  BY <1>3
<1>9. PICK seen :
          /\ req' = [req EXCEPT ![c].seen = seen, ![c].phase = phase]
          /\ req[c].op \in Counting => seen \subseteq Of(views, Who(c)) /\ \A s, t \in seen : s = t
  BY <1>8
<1>4. PICK q : q = [op |-> req[c].op, who |-> req[c].who, coll |-> req[c].coll, rest |-> req[c].rest,
                    phase |-> phase, seen |-> seen, clash |-> req[c].clash]
  OBVIOUS
<1>5. req' = [req EXCEPT ![c] = q]
  <2>1. [[req[c] EXCEPT !.seen = seen] EXCEPT !.phase = phase] = q
    BY <1>2, <1>4, LooksOn
  <2> QED BY <1>9, <2>1
<1>6. req[c].op \in Counting => /\ \A s \in seen : Counts(s)
                                /\ \A s \in seen : s \in Rows /\ s.path # Null /\ s.path = Who(c).path
  <2> SUFFICES ASSUME req[c].op \in Counting
               PROVE  /\ \A s \in seen : Counts(s)
                      /\ \A s \in seen : s \in Rows /\ s.path # Null /\ s.path = Who(c).path
    OBVIOUS
  <2>1. \A s \in views : Counts(s) /\ s.path # Null
    BY NullAssumption DEF IInv, Tables, Counts
  <2>2. seen \subseteq views
    BY <1>9 DEF Of
  <2>3. \A s \in seen : Matches(s, Who(c)) /\ s \in Rows
    BY <1>9, <2>2 DEF Of, Rows
  <2> QED BY <2>1, <2>2, <2>3 DEF Matches
<1>7. Fresh(q)
  <2>1. /\ q.op = req[c].op /\ q.who = {Who(c)} /\ q.coll = req[c].coll /\ q.rest = req[c].rest
        /\ q.phase = phase /\ q.seen = seen /\ q.clash = {}
    <3>1. req[c].clash = {}
      BY <1>1, <1>2 DEF Request
    <3> QED BY <1>2, <1>4, <3>1
  <2>2. Request(q)
    <3>1. q = [op |-> q.op, who |-> q.who, coll |-> q.coll, rest |-> q.rest, phase |-> q.phase,
               seen |-> q.seen, clash |-> q.clash]
      BY <1>4
    <3>2. q.op \in Counting => /\ \A s \in q.seen \cup q.clash : Counts(s)
                               /\ \A s, t \in q.seen : s = t
                               /\ \A s \in q.clash, w \in q.who : s.id = w.id
      BY <1>9, <1>6, <2>1
    <3>3. /\ q.rest \subseteq Ids /\ \A w \in q.who : w.id \notin q.rest
          /\ q.op \in {"put", "take", "hold"} => q.coll \in Colls
      BY <1>2, <2>1 DEF Request
    <3> QED BY <1>1, <1>2, <2>1, <3>1, <3>2, <3>3 DEF Request
  <2>3. Kept => \A w \in q.who : WhoFits(w)
    BY <1>2, <2>1
  <2>4. ASSUME Clean, q.op \in Counting, NEW s \in q.seen PROVE s.of = {Who(c).of}
    <3>1. s \in Rows /\ s.path # Null /\ s.path = Who(c).path
      BY <1>6, <2>1, <2>4
    <3>2. RowFits(s) /\ WhoFits(Who(c))
      BY <1>2, <2>4, <3>1 DEF IInv, RowsFit, Clean
    <3> QED BY <2>4, <3>1, <3>2, RowOf
  <2> QED BY <2>1, <2>2, <2>3, <2>4 DEF Fresh
<1> QED BY <1>1, <1>2, <1>5, <1>7, Opens

\* What a request becomes when it has looked for the row that has the id.
LEMMA ClashesOn ==
    ASSUME NEW r, Request(r), NEW clash, NEW phase
    PROVE  [[r EXCEPT !.clash = clash] EXCEPT !.phase = phase]
               = [op |-> r.op, who |-> r.who, coll |-> r.coll, rest |-> r.rest, phase |-> phase,
                  seen |-> r.seen, clash |-> clash]
<1>1. PICK o, w, k, t, p, s, x :
          r = [op |-> o, who |-> w, coll |-> k, rest |-> t, phase |-> p, seen |-> s, clash |-> x]
  BY DEF Request
<1>2. PICK r1 : r1 = [r EXCEPT !.clash = clash]
  OBVIOUS
<1>3. r1 = [op |-> o, who |-> w, coll |-> k, rest |-> t, phase |-> p, seen |-> s, clash |-> clash]
  BY <1>1, <1>2
<1>4. [r1 EXCEPT !.phase = phase]
          = [op |-> o, who |-> w, coll |-> k, rest |-> t, phase |-> phase, seen |-> s, clash |-> clash]
  BY <1>3
<1> QED BY <1>1, <1>2, <1>4

\* It reads the row that has its image's id.
LEMMA LookForClashKeeps ==
    ASSUME IInv, NEW c \in Callers, LookForClash(c)
    PROVE  IInv'
<1>1. /\ req[c].op \in Counting /\ req[c].op \in Asking /\ req[c].op \in Singles
      /\ UNCHANGED <<index, disk, side, user, colls, home, past>>
  BY DEF LookForClash, Asking, Singles, Counting
<1>2. /\ Request(req[c]) /\ ~Going(c) /\ Who(c) \in Image /\ req[c].who = {Who(c)} /\ req[c] # Idle
      /\ (Kept => WhoFits(Who(c)))
  <2>1. Request(req[c]) /\ ~Going(c) /\ Who(c) \in Image /\ req[c].who = {Who(c)} /\ req[c] # Idle
    BY <1>1, BusyIs
  <2> QED BY <1>1, <2>1, WhoseFits
<1>3. PICK clash : clash = {r \in views \ req[c].seen : r.id = Who(c).id}
  OBVIOUS
<1>4. PICK q : q = [op |-> req[c].op, who |-> req[c].who, coll |-> req[c].coll, rest |-> req[c].rest,
                    phase |-> "write", seen |-> req[c].seen, clash |-> clash]
  OBVIOUS
<1>5. req' = [req EXCEPT ![c] = q]
  <2>1. req' = [req EXCEPT ![c].clash = clash, ![c].phase = "write"]
    BY <1>3 DEF LookForClash
  <2>2. [[req[c] EXCEPT !.clash = clash] EXCEPT !.phase = "write"] = q
    BY <1>2, <1>4, ClashesOn
  <2> QED BY <2>1, <2>2
<1>6. Fresh(q)
  <2>1. /\ q.op = req[c].op /\ q.who = {Who(c)} /\ q.coll = req[c].coll /\ q.rest = req[c].rest
        /\ q.phase = "write" /\ q.seen = req[c].seen /\ q.clash = clash
    BY <1>2, <1>4
  <2>2. \A r \in views : Counts(r)
    BY DEF IInv, Tables
  <2>3. Request(q)
    <3>1. q = [op |-> q.op, who |-> q.who, coll |-> q.coll, rest |-> q.rest, phase |-> q.phase,
               seen |-> q.seen, clash |-> q.clash]
      BY <1>4
    <3>2. /\ \A s \in q.seen \cup q.clash : Counts(s)
          /\ \A s, t \in q.seen : s = t
          /\ \A s \in q.clash, w \in q.who : s.id = w.id
      BY <1>1, <1>2, <1>3, <2>1, <2>2 DEF Request
    <3>3. /\ q.rest \subseteq Ids /\ \A w \in q.who : w.id \notin q.rest
          /\ q.op \in {"put", "take", "hold"} => q.coll \in Colls
      BY <1>2, <2>1 DEF Request
    <3> QED BY <1>1, <1>2, <2>1, <3>1, <3>2, <3>3 DEF Request
  <2>4. Kept => \A w \in q.who : WhoFits(w)
    BY <1>2, <2>1
  <2>5. Clean => \A s \in q.seen, w \in q.who : s.of = {w.of}
    BY <1>1, <2>1 DEF IInv, SeenFits
  <2> QED BY <2>3, <2>4, <2>5 DEF Fresh
<1> QED BY <1>1, <1>2, <1>5, <1>6, Opens

-----------------------------------------------------------------------------
(* Changes of the user's tables.                                           *)

FavsFit ==
    /\ favs \subseteq FavRow /\ Unique(favs)
    /\ \A r \in favs : r.path = Null => r.md5 = Null
ItemsFit ==
    /\ colls \in [Colls -> {"new", "plain", "pinned", "gone"}]
    /\ items \subseteq ItemRow /\ \A r \in items : r.coll \in Live
    /\ \A k \in Colls : Unique(In(k))
TagsFit ==
    /\ tags \subseteq TagRow
    /\ \A r, s \in tags : r.path = s.path /\ r.path # Null => r = s
ViewsFit == (\A r \in views : Counts(r)) /\ Unique(views)

\* The user's tables are well formed.
LEMMA TablesAre ==
    ASSUME IInv
    PROVE  FavsFit /\ ItemsFit /\ TagsFit /\ ViewsFit
BY DEF IInv, TypeOK, Tables, FavsFit, ItemsFit, TagsFit, ViewsFit

\* A table that a step leaves alone stays well formed.
LEMMA TablesStayFit ==
    ASSUME IInv
    PROVE  /\ favs' = favs => FavsFit'
           /\ items' = items /\ colls' = colls => ItemsFit'
           /\ tags' = tags => TagsFit'
           /\ views' = views => ViewsFit'
<1>1. FavsFit /\ ItemsFit /\ TagsFit /\ ViewsFit
  BY TablesAre
<1>2. favs' = favs => FavsFit'
  BY <1>1 DEF FavsFit, Unique
<1>3. items' = items /\ colls' = colls => ItemsFit'
  BY <1>1 DEF ItemsFit, Unique, In, Live
<1>4. tags' = tags => TagsFit'
  BY <1>1 DEF TagsFit
<1>5. views' = views => ViewsFit'
  BY <1>1 DEF ViewsFit, Unique
<1> QED BY <1>2, <1>3, <1>4, <1>5

\* A step of a request keeps the types if it keeps the tables well formed.
LEMMA TablesFit ==
    ASSUME IInv, index' = index, disk' = disk, side' = side, Grows,
           {home'.page, home'.building} \subseteq {"none", "fresh", "stale"},
           FavsFit', ItemsFit', TagsFit', ViewsFit'
    PROVE  TypeOK' /\ Tables'
<1>1. Indexed' = Indexed
  BY DEF Indexed
<1>2. Tables'
  BY <1>1 DEF IInv, Tables, Grows, FavsFit, ItemsFit, TagsFit, ViewsFit
<1>3. TypeOK'
  BY <1>1 DEF IInv, TypeOK, FavsFit, ItemsFit, TagsFit, ViewsFit
<1> QED BY <1>2, <1>3

\* Forgetting the home page keeps its type.
LEMMA HomeStays ==
    ASSUME IInv, Forget \/ home' = home
    PROVE  {home'.page, home'.building} \subseteq {"none", "fresh", "stale"}
<1>1. CASE Forget
  <2>1. PICK b \in {"none", "stale"} : home' = [page |-> "none", building |-> b]
    <3>1. CASE home.building = "none"
      BY <1>1, <3>1 DEF Forget
    <3>2. CASE home.building # "none"
      BY <1>1, <3>2 DEF Forget
    <3> QED BY <3>1, <3>2
  <2> QED BY <2>1
<1>2. CASE home' = home
  BY <1>2 DEF IInv, TypeOK
<1> QED BY <1>1, <1>2

\* What a request that wrote for images notes of them.
LEMMA RacedGrows ==
    ASSUME IInv, NEW W, Raced(W)
    PROVE  Grows /\ (Clean' => \A w \in W : ~Outdated(w))
<1>1. PICK b \in BOOLEAN : /\ past' = [past EXCEPT !.raced = b]
                           /\ b = (past.raced \/ \E w \in W : Outdated(w))
  BY DEF IInv, Tables, Raced
<1>2. past \in [drift : BOOLEAN, cut : BOOLEAN, raced : BOOLEAN, overlapped : BOOLEAN,
                overwrote : BOOLEAN]
  BY DEF IInv, Tables
<1> QED BY <1>1, <1>2 DEF Grows, Clean

\* A request is answered.
LEMMA Answered ==
    ASSUME IInv, NEW c \in Callers, req[c].op \in Asking, req' = [req EXCEPT ![c] = Idle],
           index' = index, disk' = disk, side' = side, Grows, Forget \/ home' = home,
           FavsFit', ItemsFit', TagsFit', ViewsFit',
           Clean' => \A r \in Rows' : r \in Rows \/ RowFits(r)
    PROVE  IInv'
<1>1. ~Going(c) /\ Fresh(Idle)
  BY BusyIs DEF Fresh
<1>2. {home'.page, home'.building} \subseteq {"none", "fresh", "stale"}
  BY HomeStays
<1>3. TypeOK' /\ Tables'
  BY <1>2, TablesFit
<1> QED BY <1>1, <1>3, Goes

\* Histories only grow: what is clean after a step was clean before it.
LEMMA CleanBefore == ASSUME Grows, Clean' PROVE Clean /\ Kept
BY DEF Grows, Clean, Kept

\* While nothing has drifted, every row has its place.
LEMMA RowsAre ==
    ASSUME IInv, Clean, NEW r \in Rows PROVE RowFits(r)
BY DEF IInv, RowsFit

\* New rows of images read are theirs.
LEMMA NewRows ==
    ASSUME IInv, NEW c \in Callers, req[c].op \in Asking, Clean, NEW w \in req[c].who, ~Outdated(w),
           NEW r, r.id = w.id, r.path = w.path, r.of = {w.of}
    PROVE  RowFits(r)
<1>1. w \in Image /\ WhoFits(w)
  BY WhoseFits DEF Clean
<1> QED BY <1>1, NewRow

\* A new row of favourites is the image's.
LEMMA NewFav ==
    ASSUME NEW w \in Image
    PROVE  New(w) \in FavRow /\ New(w).path # Null
           /\ New(w).id = w.id /\ New(w).path = w.path /\ New(w).of = {w.of}
BY NullAssumption DEF New, Image, FavRow

\* A new item of a collection is the image's.
LEMMA NewItem ==
    ASSUME NEW w \in Image, NEW k \in Colls
    PROVE  Item(k, w) \in ItemRow /\ Item(k, w).coll = k
           /\ Item(k, w).id = w.id /\ Item(k, w).path = w.path /\ Item(k, w).of = {w.of}
BY DEF Item, Image, ItemRow

\* Adding favourites keeps the invariant.
LEMMA AddFavoritesKeeps ==
    ASSUME IInv, NEW c \in Callers, AddFavorites(c)
    PROVE  IInv'
<1>1. /\ req[c].op \in Asking /\ req' = [req EXCEPT ![c] = Idle] /\ Forget
      /\ favs' = Adding(favs, {New(w) : w \in req[c].who}) /\ Raced(req[c].who)
      /\ UNCHANGED <<index, disk, side, items, tags, views, colls>>
  BY DEF AddFavorites, Ready, Answer, Asking
<1>2. Grows /\ (Clean' => \A w \in req[c].who : ~Outdated(w))
  BY <1>1, RacedGrows
<1>3. req[c].who \subseteq Image /\ \A v, w \in req[c].who : v.id = w.id => v = w
  BY <1>1, BusyIs DEF Request
<1>4. FavsFit'
  <2>1. \A r \in favs' \ favs : /\ \E w \in req[c].who : r = New(w)
                                /\ \A s \in favs : s.id # r.id
    BY <1>1 DEF Adding
  <2>2. Unique(favs')
    BY <1>3, <2>1, NewFav, TablesAre DEF FavsFit, Unique
  <2>3. favs' \subseteq FavRow /\ \A r \in favs' : r.path = Null => r.md5 = Null
    BY <1>3, <2>1, NewFav, TablesAre DEF FavsFit
  <2> QED BY <2>2, <2>3 DEF FavsFit, Unique
<1>5. ItemsFit' /\ TagsFit' /\ ViewsFit'
  BY <1>1, TablesStayFit
<1>6. ASSUME Clean', NEW r \in Rows' PROVE r \in Rows \/ RowFits(r)
  <2> SUFFICES ASSUME r \in favs' \ favs PROVE RowFits(r)
    BY <1>1 DEF Rows
  <2>1. PICK w \in req[c].who : r = New(w)
    BY <1>1 DEF Adding
  <2>2. r.id = w.id /\ r.path = w.path /\ r.of = {w.of}
    BY <1>3, <2>1, NewFav
  <2>3. Clean /\ ~Outdated(w)
    BY <1>2, <1>6, CleanBefore
  <2> QED BY <1>1, <2>2, <2>3, NewRows
<1> QED BY <1>1, <1>2, <1>4, <1>5, <1>6, Answered

\* Removing favourites keeps the invariant.
LEMMA RemoveFavoritesKeeps ==
    ASSUME IInv, NEW c \in Callers, RemoveFavorites(c)
    PROVE  IInv'
<1>1. /\ req[c].op \in Asking /\ req' = [req EXCEPT ![c] = Idle] /\ Forget
      /\ favs' \subseteq favs
      /\ UNCHANGED <<index, disk, side, items, tags, views, colls, past>>
  BY DEF RemoveFavorites, Ready, Answer, Asking, Without
<1>2. Grows
  BY <1>1, NothingGrows
<1>3. FavsFit'
  BY <1>1, TablesAre DEF FavsFit, Unique
<1>4. ItemsFit' /\ TagsFit' /\ ViewsFit'
  BY <1>1, TablesStayFit
<1>5. \A r \in Rows' : r \in Rows
  BY <1>1 DEF Rows
<1> QED BY <1>1, <1>2, <1>3, <1>4, <1>5, Answered

\* Toggling a favourite keeps the invariant.
LEMMA ToggleFavoriteKeeps ==
    ASSUME IInv, NEW c \in Callers, ToggleFavorite(c)
    PROVE  IInv'
<1>1. /\ req[c].op \in Asking /\ req[c].op \in Singles /\ req' = [req EXCEPT ![c] = Idle]
      /\ Forget \/ home' = home
      /\ UNCHANGED <<index, disk, side, items, tags, views, colls>>
      /\ \/ favs' \subseteq favs /\ past' = past
         \/ /\ \A r \in favs : r.id # Who(c).id
            /\ favs' = favs \cup {New(Who(c))} /\ Raced(req[c].who)
  BY DEF ToggleFavorite, Ready, Answer, Asking, Singles, Without
<1>2. Who(c) \in Image /\ req[c].who = {Who(c)}
  BY <1>1, BusyIs
<1>3. Grows /\ (favs' \subseteq favs \/ (Clean' => ~Outdated(Who(c))))
  BY <1>1, <1>2, NothingGrows, RacedGrows
<1>4. FavsFit'
  BY <1>1, <1>2, NewFav, TablesAre DEF FavsFit, Unique
<1>5. ItemsFit' /\ TagsFit' /\ ViewsFit'
  BY <1>1, TablesStayFit
<1>6. ASSUME Clean', NEW r \in Rows' PROVE r \in Rows \/ RowFits(r)
  <2> SUFFICES ASSUME r \in favs' \ favs PROVE RowFits(r)
    BY <1>1 DEF Rows
  <2>1. r = New(Who(c))
    BY <1>1
  <2>2. r.id = Who(c).id /\ r.path = Who(c).path /\ r.of = {Who(c).of}
    BY <1>2, <2>1, NewFav
  <2>3. Clean /\ ~Outdated(Who(c))
    BY <1>3, <1>6, CleanBefore
  <2> QED BY <1>1, <1>2, <2>2, <2>3, NewRows
<1> QED BY <1>1, <1>3, <1>4, <1>5, <1>6, Answered

\* Rows that carry the same image fit alike.
LEMMA RowLike ==
    ASSUME NEW r, RowFits(r), NEW s, s.id = r.id, s.path = r.path, s.of = r.of
    PROVE  RowFits(s)
BY DEF RowFits

\* Turning a pin over changes nothing else of a row.
LEMMA PinnedFavs ==
    ASSUME NEW T, T \subseteq FavRow, Unique(T), NEW q, NEW w
    PROVE  /\ Pinned(T, q, w) \subseteq FavRow /\ Unique(Pinned(T, q, w))
           /\ \A s \in Pinned(T, q, w) : \E r \in T :
                 s.id = r.id /\ s.path = r.path /\ s.md5 = r.md5 /\ s.of = r.of
<1>1. PICK b \in BOOLEAN : b = ~\E s \in q.seen : s.pinned
  OBVIOUS
<1>2. \A s \in Pinned(T, q, w) : \E r \in T : s = IF Matches(r, w) /\ r \in T
                                                  THEN [r EXCEPT !.pinned = b] ELSE r
  BY <1>1 DEF Pinned
<1>3. \A r \in T : /\ [r EXCEPT !.pinned = b] \in FavRow
                   /\ [r EXCEPT !.pinned = b].id = r.id /\ [r EXCEPT !.pinned = b].path = r.path
                   /\ [r EXCEPT !.pinned = b].md5 = r.md5 /\ [r EXCEPT !.pinned = b].of = r.of
  BY DEF FavRow
<1>4. \A s \in Pinned(T, q, w) : \E r \in T :
          /\ s = IF Matches(r, w) /\ r \in T THEN [r EXCEPT !.pinned = b] ELSE r
          /\ s \in FavRow /\ s.id = r.id /\ s.path = r.path /\ s.md5 = r.md5 /\ s.of = r.of
  BY <1>2, <1>3
<1>5. Unique(Pinned(T, q, w))
  BY <1>4 DEF Unique
<1> QED BY <1>4, <1>5

\* Pinning the item of an image changes no item's collection, id, path or images.
LEMMA PinnedItems ==
    ASSUME NEW T, T \subseteq ItemRow, Unique(T), NEW q, NEW w
    PROVE  /\ Pinned(T, q, w) \subseteq ItemRow /\ Unique(Pinned(T, q, w))
           /\ \A s \in Pinned(T, q, w) : \E r \in T :
                 s.coll = r.coll /\ s.id = r.id /\ s.path = r.path /\ s.of = r.of
<1>1. PICK b \in BOOLEAN : b = ~\E s \in q.seen : s.pinned
  OBVIOUS
<1>2. \A s \in Pinned(T, q, w) : \E r \in T : s = IF Matches(r, w) /\ r \in T
                                                  THEN [r EXCEPT !.pinned = b] ELSE r
  BY <1>1 DEF Pinned
<1>3. \A r \in T : /\ [r EXCEPT !.pinned = b] \in ItemRow
                   /\ [r EXCEPT !.pinned = b].id = r.id /\ [r EXCEPT !.pinned = b].path = r.path
                   /\ [r EXCEPT !.pinned = b].coll = r.coll /\ [r EXCEPT !.pinned = b].of = r.of
  BY DEF ItemRow
<1>4. \A s \in Pinned(T, q, w) : \E r \in T :
          /\ s = IF Matches(r, w) /\ r \in T THEN [r EXCEPT !.pinned = b] ELSE r
          /\ s \in ItemRow /\ s.id = r.id /\ s.path = r.path /\ s.coll = r.coll /\ s.of = r.of
  BY <1>2, <1>3
<1>5. Unique(Pinned(T, q, w))
  BY <1>4 DEF Unique
<1> QED BY <1>4, <1>5

\* Pinning a favourite keeps the invariant.
LEMMA ToggleFavoritePinKeeps ==
    ASSUME IInv, NEW c \in Callers, ToggleFavoritePin(c)
    PROVE  IInv'
<1>1. /\ req[c].op \in Asking /\ req' = [req EXCEPT ![c] = Idle]
      /\ favs' = favs \/ favs' = Pinned(favs, req[c], Who(c))
      /\ UNCHANGED <<index, disk, side, items, tags, views, colls, home, past>>
  BY DEF ToggleFavoritePin, Ready, Answer, Asking, Singles
<1>2. Grows
  BY <1>1, NothingGrows
<1>3. FavsFit' /\ \A s \in favs' : \E r \in favs : s.id = r.id /\ s.path = r.path /\ s.of = r.of
  <2>1. FavsFit
    BY TablesAre
  <2>2. CASE favs' = favs
    BY <2>1, <2>2 DEF FavsFit, Unique
  <2>3. CASE favs' = Pinned(favs, req[c], Who(c))
    <3>1. /\ favs' \subseteq FavRow /\ Unique(favs')
          /\ \A s \in favs' : \E r \in favs :
                 s.id = r.id /\ s.path = r.path /\ s.md5 = r.md5 /\ s.of = r.of
      BY <2>1, <2>3, PinnedFavs DEF FavsFit
    <3> QED BY <2>1, <3>1 DEF FavsFit, Unique
  <2> QED BY <1>1, <2>2, <2>3
<1>4. ItemsFit' /\ TagsFit' /\ ViewsFit'
  BY <1>1, TablesStayFit
<1>5. ASSUME Clean', NEW s \in Rows' PROVE s \in Rows \/ RowFits(s)
  <2> SUFFICES ASSUME s \in favs' PROVE RowFits(s)
    BY <1>1 DEF Rows
  <2>1. PICK r \in Rows : s.id = r.id /\ s.path = r.path /\ s.of = r.of
    BY <1>3 DEF Rows
  <2> QED BY <1>2, <1>5, <2>1, CleanBefore, RowsAre, RowLike
<1> QED BY <1>1, <1>2, <1>3, <1>4, <1>5, Answered

\* A collection gets other rows.
LEMMA CollectionFits ==
    ASSUME IInv, NEW k \in Live, NEW T, T \subseteq ItemRow, Unique(T), \A r \in T : r.coll = k,
           colls' = colls, items' = (items \ In(k)) \cup T
    PROVE  ItemsFit'
<1>1. ItemsFit /\ Live' = Live
  BY TablesAre DEF Live
<1>2. items' \subseteq ItemRow /\ \A r \in items' : r.coll \in Live'
  BY <1>1 DEF ItemsFit
<1>3. ASSUME NEW j \in Colls PROVE Unique(In(j)')
  <2>1. CASE j = k
    <3>1. In(j)' = T
      BY <2>1 DEF In
    <3> QED BY <3>1
  <2>2. CASE j # k
    <3>1. In(j)' = In(j)
      BY <2>2 DEF In
    <3> QED BY <1>1, <3>1 DEF ItemsFit
  <2> QED BY <2>1, <2>2
<1> QED BY <1>1, <1>2, <1>3 DEF ItemsFit

\* Putting images into a collection keeps the invariant.
LEMMA PutItemsKeeps ==
    ASSUME IInv, NEW c \in Callers, PutItems(c)
    PROVE  IInv'
<1>1. /\ req[c].op = "put" /\ req[c].op \in Asking /\ req' = [req EXCEPT ![c] = Idle]
      /\ UNCHANGED <<index, disk, side, favs, tags, views, colls, home>>
      /\ \/ items' = items /\ past' = past
         \/ /\ req[c].coll \in Live /\ Raced(req[c].who)
            /\ items' = (items \ In(req[c].coll))
                            \cup Adding(In(req[c].coll), {Item(req[c].coll, w) : w \in req[c].who})
  BY DEF PutItems, Ready, Answer, Asking
<1>2. req[c].who \subseteq Image /\ \A v, w \in req[c].who : v.id = w.id => v = w
  BY <1>1, BusyIs DEF Request
<1>3. FavsFit' /\ TagsFit' /\ ViewsFit'
  BY <1>1, TablesStayFit
<1>4. CASE items' = items /\ past' = past
  <2>1. Grows /\ ItemsFit'
    BY <1>1, <1>4, NothingGrows, TablesStayFit
  <2>2. Rows' = Rows
    BY <1>1, <1>4 DEF Rows
  <2> QED BY <1>1, <1>3, <2>1, <2>2, Answered
<1>5. ASSUME NEW k \in Live, Raced(req[c].who),
             items' = (items \ In(k)) \cup Adding(In(k), {Item(k, w) : w \in req[c].who})
      PROVE  IInv'
  <2>1. k \in Colls
    BY DEF Live
  <2>2. PICK T : T = Adding(In(k), {Item(k, w) : w \in req[c].who})
    OBVIOUS
  <2>3. \A r \in T : r \in In(k) \/ \E w \in req[c].who : r = Item(k, w) /\ \A s \in In(k) : s.id # r.id
    BY <2>2 DEF Adding
  <2>4. In(k) \subseteq items /\ \A r \in In(k) : r.coll = k
    BY DEF In
  <2>5. T \subseteq ItemRow /\ \A r \in T : r.coll = k
    BY <1>2, <2>1, <2>3, <2>4, NewItem, TablesAre DEF ItemsFit
  <2>6. Unique(T)
    BY <1>2, <2>1, <2>3, NewItem, TablesAre DEF ItemsFit, Unique
  <2>7. ItemsFit'
    BY <1>1, <1>5, <2>2, <2>5, <2>6, CollectionFits
  <2>8. Grows /\ (Clean' => \A w \in req[c].who : ~Outdated(w))
    BY <1>5, RacedGrows
  <2>9. ASSUME Clean', NEW r \in Rows' PROVE r \in Rows \/ RowFits(r)
    <3> SUFFICES ASSUME r \in T, r \notin items PROVE RowFits(r)
      BY <1>1, <1>5, <2>2 DEF Rows
    <3>1. PICK w \in req[c].who : r = Item(k, w)
      BY <2>3, <2>4
    <3>2. r.id = w.id /\ r.path = w.path /\ r.of = {w.of}
      BY <1>2, <2>1, <3>1, NewItem
    <3>3. Clean /\ ~Outdated(w)
      BY <2>8, <2>9, CleanBefore
    <3> QED BY <1>1, <3>2, <3>3, NewRows
  <2> QED BY <1>1, <1>3, <2>7, <2>8, <2>9, Answered
<1> QED BY <1>1, <1>4, <1>5

\* Fewer rows fit.
LEMMA FewerItems ==
    ASSUME IInv, items' \subseteq items, \A r \in items' : r.coll \in Live',
           colls' \in [Colls -> {"new", "plain", "pinned", "gone"}]
    PROVE  ItemsFit'
<1>1. ItemsFit /\ items' \subseteq ItemRow
  BY TablesAre DEF ItemsFit
<1>2. ASSUME NEW j \in Colls PROVE Unique(In(j)')
  <2>1. In(j)' \subseteq In(j)
    BY DEF In
  <2> QED BY <1>1, <2>1 DEF ItemsFit, Unique
<1> QED BY <1>1, <1>2 DEF ItemsFit

\* Taking images out of a collection keeps the invariant.
LEMMA TakeItemsKeeps ==
    ASSUME IInv, NEW c \in Callers, TakeItems(c)
    PROVE  IInv'
<1>1. /\ req[c].op \in Asking /\ req' = [req EXCEPT ![c] = Idle]
      /\ items' \subseteq items
      /\ UNCHANGED <<index, disk, side, favs, tags, views, colls, home, past>>
  BY DEF TakeItems, Ready, Answer, Asking, Without, In
<1>2. Grows
  BY <1>1, NothingGrows
<1>3. ItemsFit'
  BY <1>1, TablesAre, FewerItems DEF ItemsFit, Live
<1>4. FavsFit' /\ TagsFit' /\ ViewsFit'
  BY <1>1, TablesStayFit
<1>5. \A r \in Rows' : r \in Rows
  BY <1>1 DEF Rows
<1> QED BY <1>1, <1>2, <1>3, <1>4, <1>5, Answered

\* Pinning an item of a collection keeps the invariant.
LEMMA HoldItemKeeps ==
    ASSUME IInv, NEW c \in Callers, HoldItem(c)
    PROVE  IInv'
<1>1. PICK k : /\ k = req[c].coll
               /\ req[c].op = "hold" /\ req[c].op \in Asking /\ req' = [req EXCEPT ![c] = Idle]
               /\ items' = items \/ items' = (items \ In(k)) \cup Pinned(In(k), req[c], Who(c))
               /\ UNCHANGED <<index, disk, side, favs, tags, views, colls, home, past>>
  BY DEF HoldItem, Ready, Answer, Asking, Singles
<1>2. Grows
  BY <1>1, NothingGrows
<1>3. k \in Colls /\ Unique(In(k)) /\ In(k) \subseteq items /\ items \subseteq ItemRow
      /\ \A r \in In(k) : r.coll = k
  <2>1. k \in Colls
    BY <1>1, BusyIs DEF Request
  <2>2. items \subseteq ItemRow /\ \A j \in Colls : Unique(In(j))
    BY TablesAre DEF ItemsFit
  <2>3. In(k) \subseteq items /\ \A r \in In(k) : r.coll = k
    BY DEF In
  <2> QED BY <2>1, <2>2, <2>3
<1>4. PICK T : T = Pinned(In(k), req[c], Who(c))
  OBVIOUS
<1>5. /\ T \subseteq ItemRow /\ Unique(T)
      /\ \A s \in T : \E r \in In(k) : s.coll = r.coll /\ s.id = r.id /\ s.path = r.path /\ s.of = r.of
  BY <1>3, <1>4, PinnedItems
<1>6. ItemsFit'
  <2>1. CASE items' = items
    BY <1>1, <2>1, TablesStayFit
  <2>2. CASE k \notin Live
    <3>1. In(k) = {}
      BY <1>3, <2>2, TablesAre DEF ItemsFit
    <3>2. items' = items
      BY <1>1, <1>4, <1>5, <3>1
    <3> QED BY <1>1, <3>2, TablesStayFit
  <2>3. CASE k \in Live /\ items' = (items \ In(k)) \cup T
    BY <1>1, <1>3, <1>5, <2>3, CollectionFits
  <2> QED BY <1>1, <1>4, <2>1, <2>2, <2>3
<1>7. FavsFit' /\ TagsFit' /\ ViewsFit'
  BY <1>1, TablesStayFit
<1>8. ASSUME Clean', NEW s \in Rows' PROVE s \in Rows \/ RowFits(s)
  <2> SUFFICES ASSUME s \in T PROVE RowFits(s)
    BY <1>1, <1>4 DEF Rows
  <2>1. PICK r \in Rows : s.id = r.id /\ s.path = r.path /\ s.of = r.of
    BY <1>3, <1>5 DEF Rows
  <2> QED BY <1>2, <1>8, <2>1, CleanBefore, RowsAre, RowLike
<1> QED BY <1>1, <1>2, <1>6, <1>7, <1>8, Answered

\* Tagging an image keeps the invariant.
LEMMA AddUserTagKeeps ==
    ASSUME IInv, NEW c \in Callers, AddUserTag(c)
    PROVE  IInv'
<1>1. PICK t : /\ t = [id |-> Who(c).id, path |-> Who(c).path, md5 |-> Who(c).md5, of |-> {Who(c).of}]
               /\ tags' = IF \E r \in tags : r.path = Who(c).path THEN tags ELSE tags \cup {t}
  BY DEF AddUserTag
<1>2. /\ req[c].op \in Asking /\ req[c].op \in Singles /\ req' = [req EXCEPT ![c] = Idle]
      /\ Raced({Who(c)})
      /\ UNCHANGED <<index, disk, side, favs, items, views, colls, home>>
  BY DEF AddUserTag, Answer, Asking, Singles
<1>3. Who(c) \in Image /\ Who(c) \in req[c].who
  BY <1>2, BusyIs
<1>4. t \in TagRow /\ t.id = Who(c).id /\ t.path = Who(c).path /\ t.of = {Who(c).of}
  BY <1>1, <1>3 DEF Image, TagRow
<1>5. Grows /\ (Clean' => ~Outdated(Who(c)))
  BY <1>2, RacedGrows
<1>6. TagsFit'
  BY <1>1, <1>4, TablesAre DEF TagsFit
<1>7. FavsFit' /\ ItemsFit' /\ ViewsFit'
  BY <1>2, TablesStayFit
<1>8. ASSUME Clean', NEW r \in Rows' PROVE r \in Rows \/ RowFits(r)
  <2> SUFFICES ASSUME r = t PROVE RowFits(r)
    BY <1>1, <1>2 DEF Rows
  <2> QED BY <1>2, <1>3, <1>4, <1>5, <1>8, CleanBefore, NewRows
<1> QED BY <1>2, <1>5, <1>6, <1>7, <1>8, Answered

\* Removing a tag of an image keeps the invariant.
LEMMA RemoveUserTagKeeps ==
    ASSUME IInv, NEW c \in Callers, RemoveUserTag(c)
    PROVE  IInv'
<1>1. /\ req[c].op \in Asking /\ req' = [req EXCEPT ![c] = Idle]
      /\ tags' \subseteq tags
      /\ UNCHANGED <<index, disk, side, favs, items, views, colls, home, past>>
  BY DEF RemoveUserTag, Answer, Asking, Singles, Without
<1>2. Grows
  BY <1>1, NothingGrows
<1>3. TagsFit'
  BY <1>1, TablesAre DEF TagsFit
<1>4. FavsFit' /\ ItemsFit' /\ ViewsFit'
  BY <1>1, TablesStayFit
<1>5. \A r \in Rows' : r \in Rows
  BY <1>1 DEF Rows
<1> QED BY <1>1, <1>2, <1>3, <1>4, <1>5, Answered

-----------------------------------------------------------------------------
(* Views and Heart Spam.                                                   *)

\* The row made of the rows of an image has its identity and adds nothing to their images.
LEMMA MadeIs ==
    ASSUME NEW S, \A r \in S : Counts(r), NEW w \in Image, NEW kind
    PROVE  /\ Counts(Made(S, w, kind))
           /\ Made(S, w, kind).id = w.id /\ Made(S, w, kind).path = w.path
           /\ Made(S, w, kind).of = {w.of} \cup UNION {r.of : r \in S}
<1>1. PICK hash, of, m, n :
          /\ hash = IF w.md5 = Null /\ S # {} THEN (CHOOSE r \in S : TRUE).md5 ELSE w.md5
          /\ of = {w.of} \cup UNION {r.of : r \in S}
          /\ Made(S, w, kind) = [id |-> w.id, path |-> w.path, md5 |-> hash, of |-> of,
                                 views |-> m, hearts |-> n]
  BY DEF Made
<1>2. hash \in Hashes
  <2>1. S # {} => (CHOOSE r \in S : TRUE) \in S
    OBVIOUS
  <2> QED BY <1>1, <2>1 DEF Image, Counts
<1>3. of \in SUBSET Contents
  <2>1. w.of \in Contents /\ \A r \in S : r.of \in SUBSET Contents
    BY DEF Image, Counts
  <2> QED BY <1>1, <2>1
<1>4. PICK r : r = Made(S, w, kind)
  OBVIOUS
<1>5. /\ r.id = w.id /\ r.path = w.path /\ r.md5 = hash /\ r.of = of /\ r.views = m /\ r.hearts = n
      /\ r = [id |-> r.id, path |-> r.path, md5 |-> r.md5, of |-> r.of,
              views |-> r.views, hearts |-> r.hearts]
  BY <1>1, <1>4
<1>6. w.id \in Ids /\ w.path \in Paths
  BY DEF Image
<1>7. Counts(r)
  BY <1>2, <1>3, <1>5, <1>6 DEF Counts
<1> QED BY <1>1, <1>4, <1>5, <1>7

\* A view or download that was recorded in clean histories read an image that had
\* not moved since, and rows that were still there.
LEMMA RecordedPast ==
    ASSUME IInv, NEW c, NEW kind, Recorded(c, kind)
    PROVE  Grows /\ (Clean' => ~Outdated(Who(c)) /\ req[c].clash \subseteq views)
<1>1. PICK a \in BOOLEAN, b \in BOOLEAN :
          /\ a = (past.overwrote \/ Overwrote(c))
          /\ b = (past.raced \/ Outdated(Who(c)) \/ ~ req[c].clash \subseteq views)
          /\ past' = [past EXCEPT !.overwrote = a, !.raced = b]
  <2>1. past.overwrote \in BOOLEAN /\ past.raced \in BOOLEAN
    BY DEF IInv, Tables
  <2>2. PICK a \in BOOLEAN : a = (past.overwrote \/ Overwrote(c))
    OBVIOUS
  <2>3. PICK b \in BOOLEAN : b = (past.raced \/ Outdated(Who(c)) \/ ~ req[c].clash \subseteq views)
    OBVIOUS
  <2>4. past' = [past EXCEPT !.overwrote = a, !.raced = b]
    BY <2>2, <2>3 DEF Recorded
  <2> QED BY <2>2, <2>3, <2>4
<1>2. past \in [drift : BOOLEAN, cut : BOOLEAN, raced : BOOLEAN, overlapped : BOOLEAN,
                overwrote : BOOLEAN]
  BY DEF IInv, Tables
<1>3. Grows /\ past'.raced = b
  BY <1>1, <1>2 DEF Grows
<1> QED BY <1>1, <1>3 DEF Clean

\* A request that is not out of date still finds its image under its id.
LEMMA StillIs ==
    ASSUME IInv, Kept, NEW w, ~Outdated(w)
    PROVE  w.id \in Indexed /\ index[w.id].of = w.of
<1>1. CASE w.id \in Indexed /\ Identity(w.id) = w
  BY <1>1 DEF Identity
<1>2. CASE \E d \in Moving : req[d].phase = "user" /\ req[d].id = w.id /\ Who(d).of = w.of
  <2>1. PICK d \in Callers : Going(d) /\ req[d].id = w.id /\ Who(d).of = w.of
    BY <1>2 DEF Moving, Going
  <2>2. MoveAt(d)
    BY <2>1 DEF IInv, MovesFit
  <2> QED BY <2>1, <2>2 DEF MoveAt
<1> QED BY <1>1, <1>2 DEF Outdated

\* What is written for a view.
LEMMA RecordFits ==
    ASSUME IInv, NEW c \in Callers, req[c].op \in Counting, req[c].phase = "write",
           NEW kind, ~Blocked(c), Record(c, kind)
    PROVE  /\ ViewsFit'
           /\ Clean /\ ~Outdated(Who(c)) /\ req[c].clash \subseteq views =>
                 \A r \in views' : r \in views \/ RowFits(r)
<1>1. PICK q, w : q = req[c] /\ w = Who(c)
  OBVIOUS
<1>2. /\ Request(q) /\ w \in Image /\ w \in q.who /\ q.op \in Counting
      /\ \A s \in q.seen \cup q.clash : Counts(s)
      /\ \A s, t \in q.seen : s = t
      /\ \A s \in q.clash : s.id = w.id
  <2>1. req[c].op \in Asking /\ req[c].op \in Singles
    BY DEF Asking, Singles
  <2>2. Request(q) /\ w \in Image /\ w \in q.who
    BY <1>1, <2>1, BusyIs
  <2> QED BY <1>1, <2>2 DEF Request
<1>3. ViewsFit
  BY TablesAre
<1>4. PICK held, gone : /\ held = {r \in views : r.id = w.id}
                        /\ gone = {r \in views : \E s \in q.clash : s.id = r.id}
  OBVIOUS
<1>5. \A r \in held : Counts(r)
  BY <1>3, <1>4 DEF ViewsFit
<1>6. PICK S : (q.seen = {} => S = held) /\ (q.seen # {} => S = q.seen \cup q.clash)
  <2>1. CASE q.seen = {}
    BY <2>1
  <2>2. CASE q.seen # {}
    BY <2>2
  <2> QED BY <2>1, <2>2
<1>7. PICK m : m = Made(S, w, kind)
  OBVIOUS
<1>8. Counts(m) /\ m.id = w.id /\ m.path = w.path /\ m.of = {w.of} \cup UNION {r.of : r \in S}
  <2>1. \A r \in S : Counts(r)
    BY <1>2, <1>5, <1>6
  <2>2. w \in Image
    BY <1>2
  <2>3. /\ Counts(Made(S, w, kind))
        /\ Made(S, w, kind).id = w.id /\ Made(S, w, kind).path = w.path
        /\ Made(S, w, kind).of = {w.of} \cup UNION {r.of : r \in S}
    BY <2>1, <2>2, MadeIs
  <2> QED BY <1>7, <2>3
<1>9. \/ q.seen = {} /\ views' = (views \ held) \cup {m}
      \/ /\ q.seen # {}
         /\ \A r \in views' : \/ r = m /\ \E s \in q.seen : \E t \in views : t.id = s.id
                              \/ r \in views \ gone /\ ~\E s \in q.seen : s.id = r.id
  <2>1. CASE q.seen = {}
    <3>1. S = held
      BY <1>6, <2>1
    <3> QED BY <1>1, <1>4, <1>7, <2>1, <3>1 DEF Record
  <2>2. CASE q.seen # {}
    <3>1. S = q.seen \cup q.clash
      BY <1>6, <2>2
    <3>2. Made(req[c].seen \cup req[c].clash, Who(c), kind) = m
      BY <1>1, <1>7, <3>1
    <3>3. views' = {IF \E s \in req[c].seen : s.id = r.id
                    THEN Made(req[c].seen \cup req[c].clash, Who(c), kind) ELSE r :
                       r \in views \ {r \in views : \E s \in req[c].clash : s.id = r.id}}
      BY <1>1, <2>2 DEF Record
    <3>4. views' = {IF \E s \in req[c].seen : s.id = r.id THEN m ELSE r :
                       r \in views \ {r \in views : \E s \in req[c].clash : s.id = r.id}}
      BY <3>2, <3>3
    <3> QED BY <1>1, <1>4, <2>2, <3>4
  <2> QED BY <2>1, <2>2
<1>10. \A r \in views' : r = m \/ r \in views
  BY <1>9
<1>11. ASSUME q.seen = {} \/ \E s \in q.seen : \E t \in views : t.id = s.id
       PROVE  \A r \in views' : r # m => r.id # w.id
  <2> SUFFICES ASSUME NEW r \in views', r # m, r.id = w.id PROVE FALSE
    OBVIOUS
  <2>1. CASE q.seen = {}
    BY <1>4, <1>9, <2>1
  <2>2. CASE q.seen # {}
    <3>1. r \in views \ gone /\ ~\E s \in q.seen : s.id = r.id
      BY <1>9, <2>2
    <3>2. \A s \in q.seen \cup q.clash : s.id # r.id
      BY <1>4, <3>1
    <3>3. r \in views \ q.seen /\ \E s \in q.seen : \E t \in views : t.id = s.id
      BY <1>11, <2>2, <3>1
    <3> QED BY <1>1, <3>2, <3>3 DEF Blocked
  <2> QED BY <2>1, <2>2
<1>12. Unique(views')
  <2>1. CASE q.seen = {} \/ \E s \in q.seen : \E t \in views : t.id = s.id
    BY <1>3, <1>8, <1>10, <1>11, <2>1 DEF ViewsFit, Unique
  <2>2. CASE ~ (q.seen = {} \/ \E s \in q.seen : \E t \in views : t.id = s.id)
    <3>1. views' \subseteq views
      BY <1>9, <2>2
    <3> QED BY <1>3, <3>1 DEF ViewsFit, Unique
  <2> QED BY <2>1, <2>2
<1>13. ASSUME Clean, ~Outdated(w), q.clash \subseteq views PROVE RowFits(m)
  <2>1. w.id \in Indexed /\ index[w.id].of = w.of
    BY <1>13, StillIs DEF Clean
  <2>2. \A r \in views : r.id = w.id => r.of = {w.of}
    <3> SUFFICES ASSUME NEW r \in views, r.id = w.id PROVE r.of = {w.of}
      OBVIOUS
    <3>1. RowFits(r)
      BY <1>13, RowsAre DEF Rows
    <3> QED BY <2>1, <3>1 DEF RowFits
  <2>3. \A r \in q.seen : r.of = {w.of}
    BY <1>1, <1>2, <1>13 DEF IInv, SeenFits
  <2>4. \A r \in S : r.of = {w.of}
    BY <1>2, <1>4, <1>6, <1>13, <2>2, <2>3
  <2>5. m.of = {w.of}
    BY <1>8, <2>4
  <2>6. req[c].op \in Asking
    BY DEF Asking, Singles
  <2> QED BY <1>1, <1>2, <1>8, <1>13, <2>5, <2>6, NewRows
<1>14. ViewsFit'
  BY <1>3, <1>8, <1>10, <1>12 DEF ViewsFit, Unique
<1> QED BY <1>1, <1>10, <1>13, <1>14

\* Recording a view or a download keeps the invariant.
LEMMA RecordedKeeps ==
    ASSUME IInv, NEW c \in Callers, NEW kind, req[c].op \in Counting, req[c].phase = "write",
           Recorded(c, kind)
    PROVE  IInv'
<1>1. /\ req[c].op \in Asking /\ req' = [req EXCEPT ![c] = Idle]
      /\ UNCHANGED <<index, disk, side, favs, items, tags, colls, home>>
      /\ views' = views \/ (~Blocked(c) /\ Record(c, kind))
  BY DEF Recorded, Answer, Asking, Singles
<1>2. Grows /\ (Clean' => Clean /\ ~Outdated(Who(c)) /\ req[c].clash \subseteq views)
  BY RecordedPast, CleanBefore
<1>3. ViewsFit' /\ (Clean' => \A r \in views' : r \in views \/ RowFits(r))
  <2>1. CASE views' = views
    BY <2>1, TablesStayFit
  <2>2. CASE ~Blocked(c) /\ Record(c, kind)
    BY <1>2, <2>2, RecordFits
  <2> QED BY <1>1, <2>1, <2>2
<1>4. FavsFit' /\ ItemsFit' /\ TagsFit'
  BY <1>1, TablesStayFit
<1>5. Clean' => \A r \in Rows' : r \in Rows \/ RowFits(r)
  BY <1>1, <1>3 DEF Rows
<1> QED BY <1>1, <1>2, <1>3, <1>4, <1>5, Answered

-----------------------------------------------------------------------------
(* Collections, lists and the home page.                                   *)

\* Making, pinning and deleting collections keeps the invariant.
LEMMA CreateCollectionKeeps ==
    ASSUME IInv, NEW k \in Colls, CreateCollection(k) \/ PinCollection(k) \/ DeleteCollection(k)
    PROVE  IInv'
<1>1. /\ UNCHANGED <<index, disk, side, favs, tags, views, home, past, req>>
      /\ items' \subseteq items /\ \A r \in items' : r.coll \in Live'
      /\ colls' \in [Colls -> {"new", "plain", "pinned", "gone"}]
  <2>1. /\ colls \in [Colls -> {"new", "plain", "pinned", "gone"}]
        /\ \A r \in items : r.coll \in Live
    BY TablesAre DEF ItemsFit
  <2>2. CASE CreateCollection(k)
    <3>1. UNCHANGED <<index, disk, side, user, home, past, req>> /\ colls' = [colls EXCEPT ![k] = "plain"]
      BY <2>2 DEF CreateCollection, Direct
    <3> QED BY <2>1, <3>1 DEF user, Live
  <2>3. CASE PinCollection(k)
    <3>1. /\ UNCHANGED <<index, disk, side, user, home, past, req>>
          /\ \/ colls' = colls
             \/ \E s \in {"plain", "pinned"} : colls' = [colls EXCEPT ![k] = s]
      <4>1. CASE colls[k] = "plain"
        BY <2>3, <4>1 DEF PinCollection, Direct
      <4>2. CASE colls[k] # "plain"
        BY <2>3, <4>2 DEF PinCollection, Direct
      <4> QED BY <4>1, <4>2
    <3>2. \A j \in Live : j \in Live'
      BY <2>1, <3>1 DEF Live
    <3>3. colls' \in [Colls -> {"new", "plain", "pinned", "gone"}]
      BY <2>1, <3>1
    <3> QED BY <2>1, <3>1, <3>2, <3>3 DEF user
  <2>4. CASE DeleteCollection(k)
    <3>1. /\ UNCHANGED <<index, disk, side, favs, tags, views, home, past, req>>
          /\ colls' = [colls EXCEPT ![k] = "gone"] /\ items' = items \ In(k)
      BY <2>4 DEF DeleteCollection, Direct
    <3>2. \A j \in Live : j # k => j \in Live'
      BY <2>1, <3>1 DEF Live
    <3>3. \A r \in items' : r \in items /\ r.coll # k
      BY <3>1 DEF In
    <3>4. colls' \in [Colls -> {"new", "plain", "pinned", "gone"}]
      BY <2>1, <3>1
    <3> QED BY <2>1, <3>1, <3>2, <3>3, <3>4
  <2> QED BY <2>2, <2>3, <2>4
<1>2. Grows
  BY <1>1, NothingGrows
<1>3. TypeOK' /\ Tables'
  <2>1. {home'.page, home'.building} \subseteq {"none", "fresh", "stale"}
    BY <1>1, HomeStays
  <2>2. FavsFit' /\ TagsFit' /\ ViewsFit'
    BY <1>1, TablesStayFit
  <2>3. ItemsFit'
    BY <1>1, FewerItems
  <2> QED BY <1>1, <1>2, <2>1, <2>2, <2>3, TablesFit
<1>4. \A r \in Rows' : r \in Rows
  BY <1>1 DEF Rows
<1>5. /\ req' \in [Callers -> {req'[d] : d \in Callers}]
      /\ \A d \in Callers : req'[d] = req[d]
  BY <1>1 DEF IInv, ReqsFit
<1> QED BY <1>1, <1>2, <1>3, <1>4, <1>5, Plain

\* The lists without images and the home page are apart from everything else.
LEMMA ListsKeep ==
    ASSUME IInv,
           \/ \E k \in Colls : RenameCollection(k)
           \/ ToggleFavoriteTag \/ ToggleFavoriteTagPin \/ HideTag \/ ShowTag
           \/ \E names : CreateCombo(names)
           \/ \E n : DeleteCombo(n)
           \/ BuildHome \/ StoreHome \/ ExpireHome
    PROVE  IInv'
<1>1. req' = req /\ UNCHANGED <<index, disk, side, user, colls, past>>
  <2>1. CASE \E k \in Colls : RenameCollection(k)
    BY <2>1 DEF RenameCollection, Direct
  <2>2. CASE ToggleFavoriteTag \/ ToggleFavoriteTagPin \/ HideTag \/ ShowTag
    BY <2>2 DEF ToggleFavoriteTag, ToggleFavoriteTagPin, HideTag, ShowTag, Direct
  <2>3. CASE \E names : CreateCombo(names)
    BY <2>3 DEF CreateCombo, Direct
  <2>4. CASE \E n : DeleteCombo(n)
    BY <2>4 DEF DeleteCombo, Direct
  <2>5. CASE BuildHome \/ StoreHome \/ ExpireHome
    BY <2>5 DEF BuildHome, StoreHome, ExpireHome, Direct
  <2> QED BY <2>1, <2>2, <2>3, <2>4, <2>5
<1>2. {home'.page, home'.building} \subseteq {"none", "fresh", "stale"}
  <2>1. CASE home' = home \/ Forget
    BY <2>1, HomeStays
  <2>2. {home.page, home.building} \subseteq {"none", "fresh", "stale"}
    BY DEF IInv, TypeOK
  <2>3. CASE StoreHome
    BY <2>2, <2>3 DEF StoreHome
  <2>4. CASE ExpireHome
    BY <2>2, <2>4 DEF ExpireHome
  <2>5. CASE BuildHome
    BY <2>5 DEF BuildHome
  <2> QED BY <2>1, <2>3, <2>4, <2>5
      DEF RenameCollection, ToggleFavoriteTag, ToggleFavoriteTagPin, HideTag, ShowTag, CreateCombo,
          DeleteCombo
<1> QED BY <1>1, <1>2, Refused

-----------------------------------------------------------------------------
(* Steps of a move.                                                        *)

\* A move goes on to its next image, or ends.
LEMMA EndsAs ==
    ASSUME IInv, NEW c \in Callers, req[c].op = "move", NEW result, EndMove(c, result)
    PROVE  \E q : /\ req' = [req EXCEPT ![c] = q]
                  /\ q = Idle \/ (Relocation(q) /\ q.phase = "check" /\ q.who = {})
<1>1. Relocation(req[c])
  BY DEF IInv, ReqsFit, Idle, Request, Asking, Singles, Counting
<1>2. CASE Len(req[c].todo) = 1
  BY <1>2 DEF EndMove, After
<1>3. CASE Len(req[c].todo) # 1
  <2>1. PICK phase, todo, folder, id, who, parts, moved :
            req[c] = [op |-> "move", phase |-> phase, todo |-> todo, folder |-> folder, id |-> id,
                      who |-> who, parts |-> parts, moved |-> moved]
    BY <1>1 DEF Relocation
  <2>2. PICK rest, next : rest = Tail(req[c].todo) /\ next = req[c].todo[2]
    OBVIOUS
  <2>3. PICK r1 : r1 = [req[c] EXCEPT !.phase = "check"]
    OBVIOUS
  <2>4. r1 = [op |-> "move", phase |-> "check", todo |-> todo, folder |-> folder, id |-> id,
              who |-> who, parts |-> parts, moved |-> moved]
    BY <2>1, <2>3
  <2>5. PICK r2 : r2 = [r1 EXCEPT !.todo = rest]
    OBVIOUS
  <2>6. r2 = [op |-> "move", phase |-> "check", todo |-> rest, folder |-> folder, id |-> id,
              who |-> who, parts |-> parts, moved |-> moved]
    BY <2>4, <2>5
  <2>7. PICK r3 : r3 = [r2 EXCEPT !.id = next]
    OBVIOUS
  <2>8. r3 = [op |-> "move", phase |-> "check", todo |-> rest, folder |-> folder, id |-> next,
              who |-> who, parts |-> parts, moved |-> moved]
    BY <2>6, <2>7
  <2>9. PICK r4 : r4 = [r3 EXCEPT !.who = {}]
    OBVIOUS
  <2>10. r4 = [op |-> "move", phase |-> "check", todo |-> rest, folder |-> folder, id |-> next,
               who |-> {}, parts |-> parts, moved |-> moved]
    BY <2>8, <2>9
  <2>11. PICK r5 : r5 = [r4 EXCEPT !.parts = <<>>]
    OBVIOUS
  <2>12. r5 = [op |-> "move", phase |-> "check", todo |-> rest, folder |-> folder, id |-> next,
               who |-> {}, parts |-> <<>>, moved |-> moved]
    BY <2>10, <2>11
  <2>13. PICK r6 : r6 = [r5 EXCEPT !.moved = <<>>]
    OBVIOUS
  <2>14. r6 = [op |-> "move", phase |-> "check", todo |-> rest, folder |-> folder, id |-> next,
               who |-> {}, parts |-> <<>>, moved |-> <<>>]
    BY <2>12, <2>13
  <2>15. Relocation(r6) /\ r6.phase = "check" /\ r6.who = {}
    BY <2>14 DEF Relocation, NoPart
  <2>16. Tail(r1.todo) = rest
    BY <2>1, <2>2, <2>4
  <2>17. After(req[c]) = r6
    BY <1>3, <2>2, <2>3, <2>5, <2>7, <2>9, <2>11, <2>13, <2>16 DEF After
  <2> QED BY <2>15, <2>17 DEF EndMove
<1> QED BY <1>2, <1>3

\* Nothing else than that request changes.
LEMMA Others ==
    ASSUME IInv, NEW c \in Callers, NEW q, req' = [req EXCEPT ![c] = q]
    PROVE  /\ req'[c] = q
           /\ \A d \in Callers \ {c} : /\ req'[d] = req[d]
                                       /\ (Going(d)' <=> Going(d)) /\ (Leaving(d)' <=> Leaving(d))
                                       /\ Who(d)' = Who(d) /\ From(d)' = From(d) /\ To(d)' = To(d)
<1>1. req'[c] = q
  BY DEF IInv, ReqsFit
<1>2. ASSUME NEW d \in Callers \ {c}
      PROVE  /\ req'[d] = req[d]
             /\ (Going(d)' <=> Going(d)) /\ (Leaving(d)' <=> Leaving(d))
             /\ Who(d)' = Who(d) /\ From(d)' = From(d) /\ To(d)' = To(d)
  <2>1. req'[d] = req[d]
    BY DEF IInv, ReqsFit
  <2>2. Who(d)' = Who(d) /\ From(d)' = From(d) /\ To(d)' = To(d)
    BY <2>1, WhoStays
  <2> QED BY <2>1, <2>2 DEF Going, Leaving
<1> QED BY <1>1, <1>2

\* A request that ends, or becomes another step of a move, leaves the requests fit.
LEMMA ReqsKept ==
    ASSUME IInv, NEW c \in Callers, NEW q, req' = [req EXCEPT ![c] = q], q = Idle \/ Relocation(q)
    PROVE  ReqsFit'
<1>1. req' \in [Callers -> {req'[d] : d \in Callers}]
  <2>1. req \in [Callers -> {req[d] : d \in Callers}]
    BY DEF IInv, ReqsFit
  <2> QED BY <2>1
<1>2. ASSUME NEW d \in Callers PROVE req'[d] = Idle \/ Request(req'[d]) \/ Relocation(req'[d])
  <2>1. CASE d = c
    BY <2>1, Others
  <2>2. CASE d # c
    BY <2>2, Others DEF IInv, ReqsFit
  <2> QED BY <2>1, <2>2
<1> QED BY <1>1, <1>2 DEF ReqsFit

\* It leaves what the others have read fit.
LEMMA SeenKept ==
    ASSUME IInv, NEW c \in Callers, NEW q, req' = [req EXCEPT ![c] = q], q = Idle \/ Relocation(q),
           Clean' => Clean
    PROVE  SeenFits'
<1> SUFFICES ASSUME Clean', NEW d \in Callers, req'[d].op \in Counting,
                    NEW s \in req'[d].seen
             PROVE  s.of = {Who(d)'.of}
  BY DEF SeenFits
<1>1. d # c
  <2>1. req'[c] = q
    BY Others
  <2>2. q.op \in {"idle", "move"}
    BY DEF Idle, Relocation
  <2> QED BY <2>1, <2>2 DEF Counting
<1>2. req'[d] = req[d] /\ Who(d)' = Who(d)
  BY <1>1, Others
<1> QED BY <1>2 DEF IInv, SeenFits

\* What was read of an image still fits when the index is the same and no move
\* is newly on its way to the user's tables.
LEMMA WhosKept ==
    ASSUME IInv, NEW c \in Callers, NEW q, req' = [req EXCEPT ![c] = q],
           index' = index, Kept' => Kept,
           q # Idle => \A w \in q.who : Kept => WhoFits(w),
           Leaving(c)' => Leaving(c) /\ Who(c)' = Who(c) /\ From(c)' = From(c) /\ To(c)' = To(c)
    PROVE  WhosFit'
<1> SUFFICES ASSUME Kept', NEW d \in Callers, req'[d] # Idle, NEW w \in req'[d].who
             PROVE  WhoFits(w)'
  BY DEF WhosFit
<1>1. WhoFits(w)
  <2>1. CASE d = c
    BY <2>1, Others
  <2>2. CASE d # c
    BY <2>2, Others DEF IInv, WhosFit
  <2> QED BY <2>1, <2>2
<1>2. \A e \in Callers : Leaving(e)' => Leaving(e) /\ Who(e)' = Who(e) /\ From(e)' = From(e) /\ To(e)' = To(e)
  BY Others
<1>3. Indexed' = Indexed
  BY DEF Indexed
<1> QED BY <1>1, <1>2, <1>3 DEF WhoFits, InRoot

\* So do the rows, when no move has left them.
LEMMA RowsKept ==
    ASSUME IInv, NEW c \in Callers, NEW q, req' = [req EXCEPT ![c] = q],
           index' = index, Clean' => Clean, Rows' = Rows,
           Leaving(c) => Leaving(c)' /\ Who(c)' = Who(c) /\ From(c)' = From(c)
    PROVE  RowsFit'
<1> SUFFICES ASSUME Clean', NEW r \in Rows PROVE RowFits(r)'
  BY DEF RowsFit
<1>1. RowFits(r)
  BY RowsAre
<1>2. \A e \in Callers : Leaving(e) => Leaving(e)' /\ Who(e)' = Who(e) /\ From(e)' = From(e)
  BY Others
<1>3. Indexed' = Indexed
  BY DEF Indexed
<1>4. \A p, x : IsAt(p, x) => IsAt(p, x)'
  BY <1>2, <1>3 DEF IsAt
<1> QED BY <1>1, <1>3, <1>4 DEF RowFits

\* A request to move is a relocation.
LEMMA RelocationIs ==
    ASSUME IInv, NEW c \in Callers, req[c].op = "move"
    PROVE  Relocation(req[c]) /\ req[c] # Idle
BY DEF IInv, ReqsFit, Idle, Request, Asking, Singles, Counting

\* A move that is about to start knows where its image and its card are.
LEMMA CheckedAt ==
    ASSUME IInv, Kept, NEW i \in Indexed, disk[index[i].path] # Null,
           ~InRoot(index[i].path)
    PROVE  /\ disk[index[i].path] = index[i].of
           /\ index[i].of \in Tagged => HasCard(index[i].path, index[i].of)
<1>1. index[i].path \in Paths /\ index[i].of \in Contents
  BY DEF IInv, TypeOK
<1>2. disk[index[i].path] = index[i].of
  <2> SUFFICES ASSUME NEW d \in Callers, Going(d), req[d].phase # "user", req[d].id = i,
                      req[d].moved # NoPart
               PROVE  FALSE
    BY DEF IInv, IndexFits
  <2>1. MoveAt(d)
    BY DEF IInv, MovesFit
  <2> QED BY <2>1 DEF MoveAt
<1>3. ASSUME index[i].of \in Tagged PROVE HasCard(index[i].path, index[i].of)
  <2>1. \A d \in Callers : Going(d) => index[i].path # To(d)
    BY GoingIs
  <2> QED BY <1>1, <1>2, <1>3, <2>1 DEF IInv, CardsFit
<1> QED BY <1>2, <1>3

\* A move looks at its next image and at the place it goes to.
LEMMA CheckMoveKeeps ==
    ASSUME IInv, NEW c \in Callers, CheckMove(c)
    PROVE  IInv'
<1>1. /\ req[c].op = "move" /\ req[c].phase = "check" /\ ~Going(c) /\ ~Leaving(c)
      /\ UNCHANGED <<index, disk, side, user, colls, home, past>>
  BY DEF CheckMove, Going, Leaving
<1>2. CASE \E result : EndMove(c, result)
  <2>1. PICK q : req' = [req EXCEPT ![c] = q] /\ (q = Idle \/ (Relocation(q) /\ q.phase = "check" /\ q.who = {}))
    BY <1>1, <1>2, EndsAs
  <2>2. Fresh(q)
    BY <2>1 DEF Fresh, Relocation, Counting
  <2> QED BY <1>1, <2>1, <2>2, Opens
<1>3. CASE \A result : ~EndMove(c, result)
  <2>1. PICK i, w : i = req[c].id /\ w = Identity(i)
    OBVIOUS
  <2>2. /\ i \in Indexed /\ Refusal(w, req[c].folder) = "none"
        /\ Proceed(c, [req[c] EXCEPT !.phase = "files", !.who = {w}, !.parts = Parts(w)])
    BY <1>3, <2>1 DEF CheckMove
  <2>3. /\ w \in Image /\ w.id = i /\ w.path = index[i].path /\ w.of = index[i].of
        /\ w.path \in Paths /\ w.of \in Contents /\ (Kept => WhoFits(w))
    <3>1. w \in Image /\ w.id = i /\ (Kept => WhoFits(w))
      BY <2>1, <2>2, IdentityFits
    <3>2. w.path = index[i].path /\ w.of = index[i].of
      BY <2>1 DEF Identity
    <3>3. w.path \in Paths /\ w.of \in Contents
      BY <3>1 DEF Image
    <3> QED BY <3>1, <3>2, <3>3
  <2>4. PICK to : to = RootPath[w.path]
    OBVIOUS
  <2>5. disk[w.path] # Null /\ disk[to] = Null /\ to # w.path /\ to \in Paths
    <3>1. disk[w.path] # Null /\ disk[to] = Null /\ to # w.path
      BY <2>2, <2>4 DEF Refusal
    <3>2. to \in Paths
      BY <2>3, <2>4, RootAssumption
    <3> QED BY <3>1, <3>2
  <2>6. PICK parts \in {Media, Both} : parts = Parts(w) /\ (side[w.path] # Null => parts = Both)
    BY DEF Parts, Media, Both
  <2>7. PICK q : /\ req' = [req EXCEPT ![c] = q]
                 /\ Relocation(q) /\ q.op = "move" /\ q.phase = "files" /\ q.who = {w} /\ q.parts = parts
                 /\ q.moved = NoPart /\ q.id = i
    <3>1. Relocation(req[c])
      BY <1>1, RelocationIs
    <3>2. PICK todo, folder, p : req[c] = [op |-> "move", phase |-> "check", todo |-> todo, folder |-> folder,
                                           id |-> i, who |-> {}, parts |-> p, moved |-> NoPart]
      BY <1>1, <2>1, <3>1 DEF Relocation
    <3>3. PICK r1 : r1 = [req[c] EXCEPT !.phase = "files"]
      OBVIOUS
    <3>4. r1 = [op |-> "move", phase |-> "files", todo |-> todo, folder |-> folder,
                id |-> i, who |-> {}, parts |-> p, moved |-> NoPart]
      BY <3>2, <3>3
    <3>5. PICK r2 : r2 = [r1 EXCEPT !.who = {w}]
      OBVIOUS
    <3>6. r2 = [op |-> "move", phase |-> "files", todo |-> todo, folder |-> folder,
                id |-> i, who |-> {w}, parts |-> p, moved |-> NoPart]
      BY <3>4, <3>5
    <3>7. PICK r3 : r3 = [r2 EXCEPT !.parts = Parts(w)]
      OBVIOUS
    <3>8. r3 = [op |-> "move", phase |-> "files", todo |-> todo, folder |-> folder,
                id |-> i, who |-> {w}, parts |-> parts, moved |-> NoPart]
      BY <2>6, <3>6, <3>7
    <3>9. Proceed(c, r3)
      BY <2>2, <3>3, <3>5, <3>7
    <3>10. Relocation(r3)
      BY <2>3, <2>4, <2>5, <3>8 DEF Relocation
    <3>11. /\ r3.op = "move" /\ r3.phase = "files" /\ r3.who = {w} /\ r3.parts = parts
           /\ r3.moved = NoPart /\ r3.id = i
      BY <3>8
    <3>12. req' = [req EXCEPT ![c] = r3]
      BY <3>9 DEF Proceed
    <3> QED BY <3>10, <3>11, <3>12
  <2>8. /\ index' = index /\ disk' = disk /\ side' = side /\ favs' = favs /\ items' = items
        /\ tags' = tags /\ views' = views /\ colls' = colls /\ home' = home /\ past' = past
        /\ Indexed' = Indexed
    BY <1>1 DEF user, Indexed
  <2>9. (Kept' <=> Kept) /\ (Clean' <=> Clean)
    BY <2>8 DEF Kept, Clean
  <2>10. TypeOK' /\ Tables' /\ Rows' = Rows
    <3>1. Grows
      BY <2>8, NothingGrows
    <3>2. {home'.page, home'.building} \subseteq {"none", "fresh", "stale"}
      BY <2>8 DEF IInv, TypeOK
    <3> QED BY <2>8, <3>1, <3>2, TablesStay
  <2>11. /\ req'[c] = q /\ Who(c)' = w /\ From(c)' = w.path /\ To(c)' = to
         /\ Going(c)' /\ ~Leaving(c)' /\ ~InRoot(w.path)
    <3>1. req'[c] = q
      BY <2>7, Others
    <3>2. Who(c)' = w
      BY <2>7, <3>1 DEF Who
    <3> QED BY <2>4, <2>5, <2>7, <3>1, <3>2 DEF From, To, Going, Leaving, InRoot
  <2>12. /\ \A d \in Callers \ {c} : /\ req'[d] = req[d]
                                     /\ (Going(d)' <=> Going(d)) /\ (Leaving(d)' <=> Leaving(d))
                                     /\ Who(d)' = Who(d) /\ From(d)' = From(d) /\ To(d)' = To(d)
    BY <2>7, Others
  <2>13. ReqsFit' /\ SeenFits' /\ WhosFit' /\ RowsFit'
    <3>1. ReqsFit' /\ SeenFits'
      BY <2>7, <2>9, ReqsKept, SeenKept
    <3>2. WhosFit'
      BY <2>3, <2>7, <2>8, <2>9, <2>11, WhosKept
    <3>3. RowsFit'
      BY <1>1, <2>7, <2>8, <2>9, <2>10, RowsKept
    <3> QED BY <3>1, <3>2, <3>3
  <2>14. OnePlace'
    BY <2>8 DEF IInv, OnePlace
  <2>15. NothingLost'
    BY <2>5, <2>8, <2>11, <2>12 DEF IInv, NothingLost
  <2>16. ASSUME Kept', NEW d \in Callers, Going(d)' PROVE MoveAt(d)'
    <3>1. CASE d = c
      <4>1. disk[w.path] = w.of /\ (w.of \in Tagged => HasCard(w.path, w.of))
        BY <2>2, <2>3, <2>5, <2>9, <2>11, <2>16, CheckedAt
      <4>2. w.of \in Tagged => side[w.path] # Null
        BY <4>1 DEF HasCard
      <4>3. w.of \in Tagged => HasCard(w.path, w.of)'
        BY <2>8, <4>1 DEF HasCard
      <4> QED BY <2>2, <2>3, <2>5, <2>6, <2>7, <2>8, <2>11, <3>1, <4>1, <4>2, <4>3
          DEF MoveAt, NoPart, Media, Both, Done2
    <3>2. CASE d # c
      <4>1. Going(d) /\ MoveAt(d)
        BY <2>9, <2>12, <2>16, <3>2 DEF IInv, MovesFit
      <4>2. Who(d).of \in Contents
        BY <4>1, GoingIs
      <4>3. req[d].moved # NoPart => To(d) # to
        BY <2>5, <4>1, <4>2, NullAssumption DEF MoveAt
      <4>4. \A p, x : HasCard(p, x)' <=> HasCard(p, x)
        BY <2>8 DEF HasCard
      <4> QED BY <2>8, <2>11, <2>12, <3>2, <4>1, <4>3, <4>4 DEF MoveAt
    <3> QED BY <3>1, <3>2
  <2>17. CardsFit'
    BY <1>1, <2>8, <2>9, <2>12 DEF IInv, CardsFit, HasCard
  <2>18. IndexFits'
    BY <1>1, <2>8, <2>9, <2>12 DEF IInv, IndexFits
  <2> QED BY <2>10, <2>13, <2>14, <2>15, <2>16, <2>17, <2>18 DEF IInv, MovesFit
<1> QED BY <1>2, <1>3

\* Renaming files leaves the tables alone.
LEMMA FilesFit ==
    ASSUME IInv, UNCHANGED <<index, user, colls, home>>,
           disk' \in [Paths -> Contents \cup {Null}], side' \in [Paths -> Card \cup {Null}],
           past' \in [drift : BOOLEAN, cut : BOOLEAN, raced : BOOLEAN, overlapped : BOOLEAN,
                      overwrote : BOOLEAN]
    PROVE  TypeOK' /\ Tables' /\ Rows' = Rows
<1>1. /\ index' = index /\ favs' = favs /\ items' = items
      /\ tags' = tags /\ views' = views /\ colls' = colls /\ home' = home
      /\ Indexed' = Indexed /\ Live' = Live
  BY DEF user, Indexed, Live
<1>2. Tables'
  BY <1>1 DEF IInv, Tables
<1>3. \A k \in Colls : In(k)' = In(k)
  BY <1>1 DEF In
<1>4. TypeOK'
  BY <1>1, <1>3 DEF IInv, TypeOK, Unique
<1> QED BY <1>1, <1>2, <1>4 DEF Rows

\* What a card says of its place is all that changes of it.
CardsLike ==
    /\ side' \in [Paths -> Card \cup {Null}]
    /\ \A p \in Paths : (side'[p] = Null <=> side[p] = Null) /\ \A x : HasCard(p, x)' <=> HasCard(p, x)

\* Cards that are left alone are as they were.
LEMMA SameCards == ASSUME IInv, side' = side PROVE CardsLike
BY DEF IInv, Tables, CardsLike, HasCard

\* A card that gets a new address is still the card of its image.
LEMMA ReaddressedIs ==
    ASSUME IInv, NEW to \in Paths, side' = Readdressed(to)
    PROVE  CardsLike
<1>1. side \in [Paths -> Card \cup {Null}]
  BY DEF IInv, Tables
<1>2. CASE side[to] = Null
  BY <1>2, SameCards DEF Readdressed
<1>3. CASE side[to] # Null
  <2>1. PICK card : card = [side[to] EXCEPT !.names = to]
    OBVIOUS
  <2>2. side[to] \in Card
    BY <1>1, <1>3
  <2>3. card \in Card /\ card.of = side[to].of
    BY <2>1, <2>2 DEF Card
  <2>4. side' = [side EXCEPT ![to] = card]
    BY <1>3, <2>1 DEF Readdressed
  <2>5. card # Null
    BY <2>3, NullAssumption DEF Card
  <2>6. side' \in [Paths -> Card \cup {Null}] /\ side'[to] = card /\ \A p \in Paths : p # to => side'[p] = side[p]
    BY <1>1, <2>4, <2>3
  <2> QED BY <1>3, <2>5, <2>6, <2>3 DEF CardsLike, HasCard
<1> QED BY <1>2, <1>3

Turned(q, phase) == [q EXCEPT !.phase = phase]

\* A move goes on to another phase with the image it had.
LEMMA PhaseIs ==
    ASSUME IInv, NEW c \in Callers, Going(c), NEW phase \in {"undo", "user"},
           phase = "user" => req[c].moved # NoPart,
           NEW q, q = Turned(req[c], phase)
    PROVE  /\ Relocation(q) /\ q.op = "move" /\ q.phase = phase
           /\ q.who = req[c].who /\ q.id = req[c].id /\ q.moved = req[c].moved
<1>1. Relocation(req[c]) /\ req[c].phase \in {"files", "index", "undo", "user"}
  BY GoingIs
<1>2. PICK before, todo, folder, id, who, parts, moved :
          req[c] = [op |-> "move", phase |-> before, todo |-> todo, folder |-> folder, id |-> id,
                    who |-> who, parts |-> parts, moved |-> moved]
  BY <1>1 DEF Relocation
<1>3. q = [op |-> "move", phase |-> phase, todo |-> todo, folder |-> folder, id |-> id,
           who |-> who, parts |-> parts, moved |-> moved]
  BY <1>2 DEF Turned
<1>4. /\ \E w \in Image : who = {w} /\ w.id = id /\ RootPath[w.path] # w.path
      /\ moved \in {NoPart, Media, Done2}
  BY <1>1, <1>2 DEF Relocation
<1>5. Relocation(q)
  BY <1>2, <1>3, <1>4 DEF Relocation
<1> QED BY <1>2, <1>3, <1>5

\* A rename that fails, or a change of the index, only takes the move back.
LEMMA GivesUp ==
    ASSUME IInv, NEW c \in Callers, Going(c), req[c].phase \in {"files", "index"},
           req' = [req EXCEPT ![c] = [req[c] EXCEPT !.phase = "undo"]], CardsLike,
           UNCHANGED <<index, disk, user, colls, home, past>>
    PROVE  IInv'
<1>1. PICK q : q = [req[c] EXCEPT !.phase = "undo"]
  OBVIOUS
<1>2. /\ req' = [req EXCEPT ![c] = q] /\ Relocation(q) /\ q.op = "move" /\ q.phase = "undo"
      /\ q.who = req[c].who /\ q.id = req[c].id /\ q.moved = req[c].moved
  <2>1. req' = [req EXCEPT ![c] = q]
    BY <1>1
  <2>2. /\ Relocation(q) /\ q.op = "move" /\ q.phase = "undo"
        /\ q.who = req[c].who /\ q.id = req[c].id /\ q.moved = req[c].moved
    <3>1. q = Turned(req[c], "undo")
      BY <1>1 DEF Turned
    <3> QED BY <3>1, PhaseIs
  <2> QED BY <2>1, <2>2
<1>3. /\ index' = index /\ disk' = disk /\ past' = past /\ Indexed' = Indexed
  BY DEF Indexed
<1>4. /\ (Kept' <=> Kept) /\ (Clean' <=> Clean)
      /\ \A p \in Paths : (side'[p] = Null <=> side[p] = Null) /\ \A x : HasCard(p, x)' <=> HasCard(p, x)
  BY <1>3 DEF Kept, Clean, CardsLike
<1>5. TypeOK' /\ Tables' /\ Rows' = Rows
  BY FilesFit DEF IInv, Tables, CardsLike
<1>6. /\ req'[c] = q /\ Who(c)' = Who(c) /\ From(c)' = From(c) /\ To(c)' = To(c)
      /\ Going(c)' /\ ~Leaving(c)' /\ ~Leaving(c)
  <2>1. req'[c] = q
    BY <1>2, Others
  <2>2. Who(c)' = Who(c) /\ From(c)' = From(c) /\ To(c)' = To(c)
    BY <1>2, <2>1, WhoStays
  <2> QED BY <1>2, <2>1, <2>2 DEF Going, Leaving
<1>7. /\ \A d \in Callers : /\ (Going(d)' <=> Going(d)) /\ (Leaving(d)' <=> Leaving(d))
                            /\ Who(d)' = Who(d) /\ From(d)' = From(d) /\ To(d)' = To(d)
                            /\ req'[d].id = req[d].id /\ req'[d].moved = req[d].moved
      /\ \A d \in Callers \ {c} : req'[d] = req[d]
  BY <1>2, <1>6, Others
<1>8. ReqsFit' /\ SeenFits' /\ WhosFit' /\ RowsFit'
  <2>1. ReqsFit' /\ SeenFits'
    BY <1>2, <1>4, ReqsKept, SeenKept
  <2>2. q # Idle => \A w \in q.who : Kept => WhoFits(w)
    BY <1>2, RelocationIs DEF IInv, WhosFit, Going
  <2>3. WhosFit'
    BY <1>2, <1>3, <1>4, <1>6, <2>2, WhosKept
  <2>4. RowsFit'
    BY <1>2, <1>3, <1>4, <1>5, <1>6, RowsKept
  <2> QED BY <2>1, <2>3, <2>4
<1>9. OnePlace'
  BY <1>3 DEF IInv, OnePlace
<1>10. NothingLost'
  BY <1>2, <1>3, <1>6, <1>7 DEF IInv, NothingLost
<1>11. ASSUME Kept', NEW d \in Callers, Going(d)' PROVE MoveAt(d)'
  <2>1. Going(d) /\ MoveAt(d)
    BY <1>4, <1>7, <1>11 DEF IInv, MovesFit
  <2>2. From(d) \in Paths /\ To(d) \in Paths
    BY <2>1, GoingIs
  <2>3. CASE d = c
    BY <1>2, <1>3, <1>4, <1>6, <1>7, <2>1, <2>3, <2>2 DEF MoveAt
  <2>4. CASE d # c
    BY <1>3, <1>4, <1>7, <2>1, <2>4, <2>2 DEF MoveAt
  <2> QED BY <2>3, <2>4
<1>12. CardsFit'
  BY <1>3, <1>4, <1>7 DEF IInv, CardsFit
<1>13. IndexFits'
  BY <1>2, <1>3, <1>4, <1>6, <1>7 DEF IInv, IndexFits
<1> QED BY <1>5, <1>8, <1>9, <1>10, <1>11, <1>12, <1>13 DEF IInv, MovesFit

\* What is written down of a rename.
OverlappedBy(c) ==
    past' = [past EXCEPT !.overlapped = @ \/ \E d \in Moving \ {c} :
                            req[d].phase \notin {"check"} /\ To(d) = To(c)]

\* A move that renames where another one goes writes it down.
LEMMA OverlapNoted ==
    ASSUME IInv, NEW c \in Callers, OverlappedBy(c)
    PROVE  /\ past' \in [drift : BOOLEAN, cut : BOOLEAN, raced : BOOLEAN, overlapped : BOOLEAN,
                         overwrote : BOOLEAN]
           /\ past'.cut = past.cut /\ past'.drift = past.drift /\ past'.raced = past.raced
           /\ ~past'.overlapped => /\ ~past.overlapped
                                   /\ \A d \in Callers \ {c} : Going(d) => To(d) # To(c)
<1>1. PICK b \in BOOLEAN : /\ b = (past.overlapped \/ \E d \in Moving \ {c} :
                                        req[d].phase \notin {"check"} /\ To(d) = To(c))
                           /\ past' = [past EXCEPT !.overlapped = b]
  BY DEF OverlappedBy, IInv, Tables
<1>2. past \in [drift : BOOLEAN, cut : BOOLEAN, raced : BOOLEAN, overlapped : BOOLEAN,
                overwrote : BOOLEAN]
  BY DEF IInv, Tables
<1>3. /\ past' \in [drift : BOOLEAN, cut : BOOLEAN, raced : BOOLEAN, overlapped : BOOLEAN,
                    overwrote : BOOLEAN]
      /\ past'.cut = past.cut /\ past'.drift = past.drift /\ past'.raced = past.raced
      /\ past'.overlapped = b
  BY <1>1, <1>2
<1> QED BY <1>1, <1>3 DEF Going, Moving

\* The request after a rename.
Renamed(q, part) ==
    LET done == [q EXCEPT !.parts = Tail(@), !.moved = <<part>> \o @]
    IN  IF Tail(q.parts) = <<>> THEN [done EXCEPT !.phase = "index"] ELSE done

\* The parts of an image, in the order in which they are renamed.
LEMMA PartsAre ==
    /\ Head(Media) = "media" /\ Tail(Media) = <<>>
    /\ Head(Both) = "media" /\ Tail(Both) = <<"sidecar">>
    /\ Head(<<"sidecar">>) = "sidecar" /\ Tail(<<"sidecar">>) = <<>>
    /\ <<"media">> \o NoPart = Media /\ <<"sidecar">> \o Media = Done2
    /\ <<"sidecar">> # <<>> /\ Media # NoPart /\ Done2 # NoPart /\ Media # Done2
<1>1. /\ Head(Media) = "media" /\ Head(Both) = "media" /\ Head(<<"sidecar">>) = "sidecar"
  BY DEF Media, Both
<1>2. /\ Tail(Media) = <<>> /\ Tail(<<"sidecar">>) = <<>>
  BY DEF Media
<1>3. Tail(Both) = <<"sidecar">>
  BY DEF Both
<1>4. <<"media">> \o NoPart = Media
  BY DEF Media, NoPart
<1>5. <<"sidecar">> \o Media = Done2
  <2>1. PICK s : s = <<"sidecar">> \o Media
    OBVIOUS
  <2>2. s \in Seq({"sidecar", "media"}) /\ Len(s) = 2
    BY <2>1 DEF Media
  <2>3. s[1] = "sidecar"
    BY <2>1 DEF Media
  <2>4. s[2] = "media"
    BY <2>1 DEF Media
  <2>5. s = <<"sidecar", "media">>
    BY <2>2, <2>3, <2>4
  <2> QED BY <2>1, <2>5 DEF Done2
<1>6. <<"sidecar">> # <<>> /\ Media # NoPart /\ Done2 # NoPart /\ Media # Done2
  BY DEF Media, NoPart, Done2
<1> QED BY <1>1, <1>2, <1>3, <1>4, <1>5, <1>6

\* After a rename, a move goes on with the next part or with the index.
LEMMA RenamedIs ==
    ASSUME IInv, NEW c \in Callers, Going(c), req[c].phase = "files",
           NEW part, part = Head(req[c].parts), NEW q, q = Renamed(req[c], part)
    PROVE  /\ Relocation(q) /\ q.op = "move" /\ q.who = req[c].who /\ q.id = req[c].id
           /\ \/ /\ part = "media" /\ req[c].moved = NoPart /\ q.moved = Media
                 /\ \/ req[c].parts = Media /\ q.phase = "index"
                    \/ req[c].parts = Both /\ q.phase = "files"
              \/ /\ part = "sidecar" /\ req[c].moved = Media /\ q.moved = Done2
                 /\ q.phase = "index"
<1>1. /\ Relocation(req[c])
      /\ \/ req[c].moved = NoPart /\ req[c].parts \in {Media, Both}
         \/ req[c].moved = Media /\ req[c].parts = <<"sidecar">>
  BY GoingIs
<1>2. PICK todo, folder, id, who, parts, moved :
          req[c] = [op |-> "move", phase |-> "files", todo |-> todo, folder |-> folder, id |-> id,
                    who |-> who, parts |-> parts, moved |-> moved]
  BY <1>1 DEF Relocation
<1>3. PICK rest, more : rest = Tail(parts) /\ more = <<part>> \o moved
  OBVIOUS
<1>4. PICK r1 : r1 = [req[c] EXCEPT !.parts = rest]
  OBVIOUS
<1>5. r1 = [op |-> "move", phase |-> "files", todo |-> todo, folder |-> folder, id |-> id,
            who |-> who, parts |-> rest, moved |-> moved]
  BY <1>2, <1>4
<1>6. PICK r2 : r2 = [r1 EXCEPT !.moved = more]
  OBVIOUS
<1>7. r2 = [op |-> "move", phase |-> "files", todo |-> todo, folder |-> folder, id |-> id,
            who |-> who, parts |-> rest, moved |-> more]
  BY <1>5, <1>6
<1>8. PICK r3 : r3 = [r2 EXCEPT !.phase = "index"]
  OBVIOUS
<1>9. r3 = [op |-> "move", phase |-> "index", todo |-> todo, folder |-> folder, id |-> id,
            who |-> who, parts |-> rest, moved |-> more]
  BY <1>7, <1>8
<1>10. req[c].parts = parts /\ req[c].moved = moved /\ r1.moved = moved
  BY <1>2, <1>5
<1>11. q = IF rest = <<>> THEN r3 ELSE r2
  BY <1>3, <1>4, <1>6, <1>8, <1>10 DEF Renamed
<1>12. \/ part = "media" /\ moved = NoPart /\ parts = Media /\ rest = <<>> /\ more = Media
       \/ part = "media" /\ moved = NoPart /\ parts = Both /\ rest = <<"sidecar">> /\ more = Media
       \/ part = "sidecar" /\ moved = Media /\ parts = <<"sidecar">> /\ rest = <<>> /\ more = Done2
  <2>1. CASE moved = NoPart /\ parts = Media
    BY <1>3, <1>10, <2>1, PartsAre
  <2>2. CASE moved = NoPart /\ parts = Both
    BY <1>3, <1>10, <2>2, PartsAre
  <2>3. CASE moved = Media /\ parts = <<"sidecar">>
    BY <1>3, <1>10, <2>3, PartsAre
  <2> QED BY <1>1, <1>10, <2>1, <2>2, <2>3
<1>13. \E w \in Image : req[c].who = {w} /\ w.id = req[c].id /\ RootPath[w.path] # w.path
  BY <1>1, <1>2 DEF Relocation
<1>14. /\ q.op = "move" /\ q.who = req[c].who /\ q.id = req[c].id /\ q.moved = more /\ q.parts = rest
       /\ q.phase = IF rest = <<>> THEN "index" ELSE "files"
       /\ q = [op |-> "move", phase |-> q.phase, todo |-> q.todo, folder |-> q.folder, id |-> q.id,
               who |-> q.who, parts |-> q.parts, moved |-> q.moved]
  <2>1. CASE rest = <<>>
    <3>1. q = r3
      BY <1>11, <2>1
    <3> QED BY <1>2, <1>9, <2>1, <3>1
  <2>2. CASE rest # <<>>
    <3>1. q = r2
      BY <1>11, <2>2
    <3> QED BY <1>2, <1>7, <2>2, <3>1
  <2> QED BY <2>1, <2>2
<1>15. Relocation(q)
  BY <1>12, <1>13, <1>14, PartsAre DEF Relocation
<1> QED BY <1>10, <1>12, <1>14, <1>15, PartsAre

\* Renaming the media keeps the invariant.
LEMMA MediaMoves ==
    ASSUME IInv, NEW c \in Callers, Going(c), req[c].phase = "files", req[c].moved = NoPart,
           NEW q, req' = [req EXCEPT ![c] = q], Relocation(q), q.op = "move",
           q.who = req[c].who, q.id = req[c].id, q.moved = Media,
           \/ req[c].parts = Media /\ q.phase = "index"
           \/ req[c].parts = Both /\ q.phase = "files",
           disk[From(c)] # Null,
           disk' = [disk EXCEPT ![To(c)] = disk[From(c)], ![From(c)] = Null], side' = side,
           OverlappedBy(c), UNCHANGED <<index, user, colls, home>>
    PROVE  IInv'
<1>1. PICK from, to, x : from = From(c) /\ to = To(c) /\ x = Who(c).of
  OBVIOUS
<1>2. /\ from \in Paths /\ to \in Paths /\ from # to /\ ~InRoot(from) /\ InRoot(to)
      /\ x \in Contents /\ x # Null /\ disk[from] \in Contents
  <2>1. /\ from \in Paths /\ to \in Paths /\ from # to /\ ~InRoot(from) /\ InRoot(to)
        /\ x \in Contents
    BY <1>1, GoingIs
  <2>2. disk[from] \in Contents
    BY <1>1, <2>1 DEF IInv, Tables
  <2> QED BY <2>1, <2>2, NullAssumption
<1>3. disk \in [Paths -> Contents \cup {Null}] /\ side \in [Paths -> Card \cup {Null}]
  BY DEF IInv, Tables
<1>4. /\ disk' \in [Paths -> Contents \cup {Null}]
      /\ disk'[to] = disk[from] /\ disk'[from] = Null
      /\ \A p \in Paths : p # from /\ p # to => disk'[p] = disk[p]
  BY <1>1, <1>2, <1>3
<1>5. /\ past' \in [drift : BOOLEAN, cut : BOOLEAN, raced : BOOLEAN, overlapped : BOOLEAN,
                    overwrote : BOOLEAN]
      /\ Clean' => Clean
      /\ Kept' => Kept
      /\ ~past'.overlapped => /\ ~past.overlapped
                              /\ \A d \in Callers \ {c} : Going(d) => To(d) # to
  BY <1>1, OverlapNoted DEF Clean, Kept
<1>6. index' = index /\ Indexed' = Indexed /\ \A p, y : HasCard(p, y)' <=> HasCard(p, y)
  BY DEF Indexed, HasCard
<1>7. TypeOK' /\ Tables' /\ Rows' = Rows
  BY <1>3, <1>4, <1>5, FilesFit
<1>8. /\ req'[c] = q /\ Who(c)' = Who(c) /\ From(c)' = from /\ To(c)' = to
      /\ Going(c)' /\ ~Leaving(c)' /\ ~Leaving(c)
  <2>1. req'[c] = q
    BY Others
  <2>2. Who(c)' = Who(c) /\ From(c)' = From(c) /\ To(c)' = To(c)
    BY <2>1, WhoStays
  <2> QED BY <1>1, <2>1, <2>2 DEF Going, Leaving
<1>9. \A d \in Callers \ {c} : /\ req'[d] = req[d]
                               /\ (Going(d)' <=> Going(d)) /\ (Leaving(d)' <=> Leaving(d))
                               /\ Who(d)' = Who(d) /\ From(d)' = From(d) /\ To(d)' = To(d)
  BY Others
<1>10. ReqsFit' /\ SeenFits' /\ WhosFit' /\ RowsFit'
  <2>1. ReqsFit' /\ SeenFits'
    BY <1>5, ReqsKept, SeenKept
  <2>2. q # Idle => \A w \in q.who : Kept => WhoFits(w)
    BY RelocationIs DEF IInv, WhosFit, Going
  <2>3. WhosFit'
    BY <1>5, <1>6, <1>8, <2>2, WhosKept
  <2>4. RowsFit'
    BY <1>5, <1>6, <1>7, <1>8, RowsKept
  <2> QED BY <2>1, <2>3, <2>4
<1>11. OnePlace'
  BY <1>2, <1>4, <1>6 DEF IInv, OnePlace
\* Other moves touch neither place.
<1>12. ASSUME ~past'.overlapped, NEW d \in Callers \ {c}, Going(d)
       PROVE  /\ From(d) \in Paths /\ To(d) \in Paths
              /\ From(d) # from /\ From(d) # to /\ To(d) # from /\ To(d) # to
  <2>1. /\ From(d) \in Paths /\ To(d) \in Paths /\ To(d) = RootPath[From(d)]
        /\ ~InRoot(From(d)) /\ InRoot(To(d))
    BY <1>12, GoingIs
  <2>2. To(d) # to /\ to = RootPath[from]
    BY <1>1, <1>5, <1>12, GoingIs
  <2> QED BY <1>2, <2>1, <2>2
<1>13. NothingLost'
  <2> SUFFICES ASSUME ~past'.overlapped
               PROVE  /\ \A y \in Contents : \E p \in Paths : disk'[p] = y
                      /\ \A y \in Contents : \E i \in Indexed' : index'[i].of = y
                      /\ \A d \in Callers : Going(d)' /\ req'[d].phase = "files" /\ req'[d].moved = NoPart
                                                => disk'[To(d)'] = Null
    BY DEF NothingLost
  <2>1. NothingLost /\ ~past.overlapped /\ disk[to] = Null
    BY <1>1, <1>5 DEF IInv, NothingLost
  <2>2. \A y \in Contents : \E p \in Paths : disk'[p] = y
    <3> SUFFICES ASSUME NEW y \in Contents PROVE \E p \in Paths : disk'[p] = y
      OBVIOUS
    <3>1. PICK p \in Paths : disk[p] = y
      BY <2>1 DEF NothingLost
    <3>2. p # to
      BY <2>1, <3>1, NullAssumption
    <3> QED BY <1>2, <1>4, <3>1, <3>2
  <2>3. ASSUME NEW d \in Callers, Going(d)', req'[d].phase = "files", req'[d].moved = NoPart
        PROVE  disk'[To(d)'] = Null
    <3>1. d # c
      BY <1>8, <2>3, PartsAre
    <3>2. To(d)' = To(d) /\ disk[To(d)] = Null /\ Going(d)
      BY <1>9, <2>1, <2>3, <3>1 DEF NothingLost
    <3> QED BY <1>4, <1>12, <3>1, <3>2
  <2> QED BY <1>6, <2>1, <2>2, <2>3 DEF NothingLost
<1>14. ASSUME Kept'
       PROVE  /\ Kept /\ ~past'.overlapped /\ MoveAt(c)
              /\ disk[from] = x /\ disk[to] = Null /\ (x \in Tagged => req[c].parts = Both)
  <2>1. Kept /\ ~past'.overlapped /\ MoveAt(c)
    BY <1>5, <1>14 DEF IInv, MovesFit, Kept
  <2> QED BY <1>1, <2>1 DEF MoveAt
<1>15. ASSUME Kept', NEW d \in Callers, Going(d)' PROVE MoveAt(d)'
  <2>1. CASE d = c
    <3>1. \A e \in Callers \ {c} : Going(e)' => To(e)' # to
      BY <1>5, <1>9, <1>14, <1>15
    <3>2. Media # Both
      BY DEF Media, Both
    <3> QED BY <1>1, <1>4, <1>6, <1>8, <1>14, <1>15, <2>1, <3>1, <3>2, PartsAre DEF MoveAt
  <2>2. CASE d # c
    <3>1. Going(d) /\ MoveAt(d)
      BY <1>9, <1>14, <1>15, <2>2 DEF IInv, MovesFit
    <3>2. disk'[From(d)] = disk[From(d)] /\ disk'[To(d)] = disk[To(d)]
      BY <1>4, <1>12, <1>14, <1>15, <2>2, <3>1
    <3>3. \A e \in Callers \ {d} : Going(e)' => Going(e) /\ To(e)' = To(e)
      BY <1>1, <1>8, <1>9
    <3> QED BY <1>6, <1>9, <2>2, <3>1, <3>2, <3>3 DEF MoveAt
  <2> QED BY <2>1, <2>2
<1>16. CardsFit'
  <2> SUFFICES ASSUME Kept', NEW p \in Paths, NEW y \in Tagged, disk'[p] = y
               PROVE  HasCard(p, y)' \/ \E d \in Callers : Going(d)' /\ req'[d].moved = Media /\ p = To(d)'
    BY DEF CardsFit, HasCard
  <2>1. CASE p = to
    BY <1>8, <2>1
  <2>2. CASE p # to
    <3>1. p # from
      BY <1>4, ImageAssumption, NullAssumption
    <3>2. disk[p] = y
      BY <1>4, <2>2, <3>1
    <3>3. HasCard(p, y) \/ \E d \in Callers : Going(d) /\ req[d].moved = Media /\ p = To(d)
      BY <1>14, <3>2 DEF IInv, CardsFit
    <3> QED BY <1>6, <1>9, <3>2, <3>3, PartsAre
  <2> QED BY <2>1, <2>2
<1>17. IndexFits'
  <2> SUFFICES ASSUME Kept', NEW i \in Indexed
               PROVE  \/ disk'[index[i].path] = index[i].of
                      \/ \E d \in Callers : /\ Going(d)' /\ req'[d].phase # "user"
                                            /\ req'[d].id = i /\ req'[d].moved # NoPart
    BY <1>6 DEF IndexFits
  <2>1. index[i].path \in Paths /\ index[i].of \in Contents /\ index[i].of # Null
    BY NullAssumption DEF IInv, TypeOK
  <2>2. CASE disk[index[i].path] = index[i].of
    <3>1. index[i].path # to
      BY <1>14, <2>1, <2>2
    <3>2. CASE index[i].path = from
      <4>1. i = req[c].id
        BY <1>1, <1>14, <2>2, <3>2 DEF MoveAt, IInv, OnePlace
      <4> QED BY <1>8, <4>1, PartsAre
    <3>3. CASE index[i].path # from
      BY <1>4, <2>1, <2>2, <3>1, <3>3
    <3> QED BY <3>2, <3>3
  <2>3. CASE disk[index[i].path] # index[i].of
    <3>1. PICK d \in Callers : Going(d) /\ req[d].phase # "user" /\ req[d].id = i /\ req[d].moved # NoPart
      BY <1>14, <2>3 DEF IInv, IndexFits
    <3> QED BY <1>9, <3>1
  <2> QED BY <2>2, <2>3
<1> QED BY <1>7, <1>10, <1>11, <1>13, <1>15, <1>16, <1>17 DEF IInv, MovesFit

\* Renaming the sidecar keeps the invariant.
LEMMA SidecarMoves ==
    ASSUME IInv, NEW c \in Callers, Going(c), req[c].phase = "files", req[c].moved = Media,
           NEW q, req' = [req EXCEPT ![c] = q], Relocation(q), q.op = "move",
           q.who = req[c].who, q.id = req[c].id, q.moved = Done2, q.phase = "index",
           side[From(c)] # Null,
           side' = [side EXCEPT ![To(c)] = side[From(c)], ![From(c)] = Null], disk' = disk,
           OverlappedBy(c), UNCHANGED <<index, user, colls, home>>
    PROVE  IInv'
<1>1. PICK from, to, x : from = From(c) /\ to = To(c) /\ x = Who(c).of
  OBVIOUS
<1>2. /\ from \in Paths /\ to \in Paths /\ from # to /\ ~InRoot(from) /\ InRoot(to)
      /\ x \in Contents /\ x # Null /\ side[from] \in Card
  <2>1. /\ from \in Paths /\ to \in Paths /\ from # to /\ ~InRoot(from) /\ InRoot(to)
        /\ x \in Contents
    BY <1>1, GoingIs
  <2>2. side[from] \in Card
    BY <1>1, <2>1 DEF IInv, Tables
  <2> QED BY <2>1, <2>2, NullAssumption
<1>3. disk \in [Paths -> Contents \cup {Null}] /\ side \in [Paths -> Card \cup {Null}]
  BY DEF IInv, Tables
<1>4. /\ side' \in [Paths -> Card \cup {Null}]
      /\ side'[to] = side[from] /\ side'[from] = Null
      /\ \A p \in Paths : p # from /\ p # to => side'[p] = side[p]
  BY <1>1, <1>2, <1>3
<1>5. /\ past' \in [drift : BOOLEAN, cut : BOOLEAN, raced : BOOLEAN, overlapped : BOOLEAN,
                    overwrote : BOOLEAN]
      /\ Clean' => Clean
      /\ Kept' => Kept
      /\ ~past'.overlapped => ~past.overlapped
  BY <1>1, OverlapNoted DEF Clean, Kept
<1>6. /\ index' = index /\ Indexed' = Indexed
      /\ \A p \in Paths : \A y : p # from /\ p # to => (HasCard(p, y)' <=> HasCard(p, y))
      /\ \A y : HasCard(from, y) => HasCard(to, y)'
  <2>1. index' = index /\ Indexed' = Indexed
    BY DEF Indexed
  <2>2. \A p \in Paths : \A y : p # from /\ p # to => (HasCard(p, y)' <=> HasCard(p, y))
    BY <1>4 DEF HasCard
  <2>3. \A y : HasCard(from, y) => HasCard(to, y)'
    BY <1>4 DEF HasCard
  <2> QED BY <2>1, <2>2, <2>3
<1>7. TypeOK' /\ Tables' /\ Rows' = Rows
  BY <1>3, <1>4, <1>5, FilesFit
<1>8. /\ req'[c] = q /\ Who(c)' = Who(c) /\ From(c)' = from /\ To(c)' = to
      /\ Going(c)' /\ ~Leaving(c)' /\ ~Leaving(c)
  <2>1. req'[c] = q
    BY Others
  <2>2. Who(c)' = Who(c) /\ From(c)' = From(c) /\ To(c)' = To(c)
    BY <2>1, WhoStays
  <2> QED BY <1>1, <2>1, <2>2 DEF Going, Leaving
<1>9. \A d \in Callers \ {c} : /\ req'[d] = req[d]
                               /\ (Going(d)' <=> Going(d)) /\ (Leaving(d)' <=> Leaving(d))
                               /\ Who(d)' = Who(d) /\ From(d)' = From(d) /\ To(d)' = To(d)
  BY Others
<1>10. ReqsFit' /\ SeenFits' /\ WhosFit' /\ RowsFit'
  <2>1. ReqsFit' /\ SeenFits'
    BY <1>5, ReqsKept, SeenKept
  <2>2. q # Idle => \A w \in q.who : Kept => WhoFits(w)
    BY RelocationIs DEF IInv, WhosFit, Going
  <2>3. WhosFit'
    BY <1>5, <1>6, <1>8, <2>2, WhosKept
  <2>4. RowsFit'
    BY <1>5, <1>6, <1>7, <1>8, RowsKept
  <2> QED BY <2>1, <2>3, <2>4
<1>11. OnePlace'
  BY <1>6 DEF IInv, OnePlace
<1>12. NothingLost'
  BY <1>5, <1>6, <1>8, <1>9, PartsAre DEF IInv, NothingLost
<1>13. ASSUME Kept'
       PROVE  /\ Kept /\ MoveAt(c) /\ disk[to] = x /\ disk[from] = Null
              /\ \A d \in Callers \ {c} : Going(d) => To(d) # to
              /\ x \in Tagged => HasCard(from, x)
  <2>1. Kept /\ MoveAt(c)
    BY <1>5, <1>13 DEF IInv, MovesFit
  <2> QED BY <1>1, <2>1, PartsAre DEF MoveAt
\* Other moves touch neither place.
<1>14. ASSUME Kept', NEW d \in Callers \ {c}, Going(d)
       PROVE  /\ From(d) \in Paths /\ To(d) \in Paths
              /\ From(d) # from /\ From(d) # to /\ To(d) # from /\ To(d) # to
  <2>1. /\ From(d) \in Paths /\ To(d) \in Paths /\ To(d) = RootPath[From(d)]
        /\ ~InRoot(From(d)) /\ InRoot(To(d))
    BY <1>14, GoingIs
  <2>2. To(d) # to /\ to = RootPath[from]
    BY <1>1, <1>13, <1>14, GoingIs
  <2> QED BY <1>2, <2>1, <2>2
<1>15. ASSUME Kept', NEW d \in Callers, Going(d)' PROVE MoveAt(d)'
  <2>1. CASE d = c
    <3>1. \A e \in Callers \ {c} : Going(e)' => To(e)' # to
      BY <1>9, <1>13, <1>15
    <3>2. x \in Tagged => HasCard(to, x)'
      BY <1>6, <1>13, <1>15
    <3> QED BY <1>1, <1>4, <1>6, <1>8, <1>13, <1>15, <2>1, <3>1, <3>2, PartsAre DEF MoveAt
  <2>2. CASE d # c
    <3>1. Going(d) /\ MoveAt(d)
      BY <1>9, <1>13, <1>15, <2>2 DEF IInv, MovesFit
    <3>2. PICK p, r : p = From(d) /\ r = To(d) /\ p = From(d)' /\ r = To(d)'
      BY <1>9, <2>2
    <3>4. /\ p \in Paths /\ r \in Paths /\ p # from /\ p # to /\ r # from /\ r # to
      BY <1>14, <1>15, <2>2, <3>1, <3>2
    <3>5. /\ side'[p] = side[p]
          /\ \A y : (HasCard(p, y)' <=> HasCard(p, y)) /\ (HasCard(r, y)' <=> HasCard(r, y))
      BY <1>4, <1>6, <3>4
    <3>3. \A e \in Callers \ {d} : Going(e)' => Going(e) /\ To(e)' = To(e)
      BY <1>1, <1>8, <1>9
    <3> QED BY <1>6, <1>9, <2>2, <3>1, <3>2, <3>3, <3>5 DEF MoveAt
  <2> QED BY <2>1, <2>2
<1>16. CardsFit'
  <2> SUFFICES ASSUME Kept', NEW p \in Paths, NEW y \in Tagged, disk[p] = y
               PROVE  HasCard(p, y)' \/ \E d \in Callers : Going(d)' /\ req'[d].moved = Media /\ p = To(d)'
    BY DEF CardsFit, HasCard
  <2>1. CASE p = to
    BY <1>6, <1>13, <2>1
  <2>2. CASE p # to
    <3>1. p # from
      BY <1>13, ImageAssumption, NullAssumption
    <3>2. HasCard(p, y) \/ \E d \in Callers : Going(d) /\ req[d].moved = Media /\ p = To(d)
      BY <1>13 DEF IInv, CardsFit
    <3> QED BY <1>1, <1>6, <1>9, <2>2, <3>1, <3>2
  <2> QED BY <2>1, <2>2
<1>17. IndexFits'
  <2> SUFFICES ASSUME Kept', NEW i \in Indexed
               PROVE  \/ disk[index[i].path] = index[i].of
                      \/ \E d \in Callers : /\ Going(d)' /\ req'[d].phase # "user"
                                            /\ req'[d].id = i /\ req'[d].moved # NoPart
    BY <1>6 DEF IndexFits
  <2>1. CASE disk[index[i].path] # index[i].of
    <3>1. PICK d \in Callers : Going(d) /\ req[d].phase # "user" /\ req[d].id = i /\ req[d].moved # NoPart
      BY <1>13, <2>1 DEF IInv, IndexFits
    <3> QED BY <1>8, <1>9, <3>1, PartsAre
  <2> QED BY <2>1
<1> QED BY <1>7, <1>10, <1>11, <1>12, <1>15, <1>16, <1>17 DEF IInv, MovesFit

\* Renaming a file keeps the invariant, whether it succeeds or not.
LEMMA MoveFileKeeps ==
    ASSUME IInv, NEW c \in Callers, MoveFile(c)
    PROVE  IInv'
<1>1. /\ req[c].op = "move" /\ req[c].phase = "files" /\ Going(c)
      /\ UNCHANGED <<index, user, colls, home>>
  BY DEF MoveFile, Going
<1>2. PICK part : part = Head(req[c].parts)
  OBVIOUS
<1>3. CASE Proceed(c, [req[c] EXCEPT !.phase = "undo"]) /\ UNCHANGED <<disk, side, past>>
  BY <1>1, <1>3, SameCards, GivesUp DEF Proceed
<1>4. CASE /\ (IF part = "media" THEN disk[From(c)] ELSE side[From(c)]) # Null
           /\ Proceed(c, Renamed(req[c], part))
           /\ IF part = "media"
              THEN /\ disk' = [disk EXCEPT ![To(c)] = disk[From(c)], ![From(c)] = Null]
                   /\ UNCHANGED side
              ELSE /\ side' = [side EXCEPT ![To(c)] = side[From(c)], ![From(c)] = Null]
                   /\ UNCHANGED disk
           /\ OverlappedBy(c)
  <2>1. PICK q : q = Renamed(req[c], part)
    OBVIOUS
  <2>2. req' = [req EXCEPT ![c] = q]
    BY <1>4, <2>1 DEF Proceed
  <2>3. /\ Relocation(q) /\ q.op = "move" /\ q.who = req[c].who /\ q.id = req[c].id
        /\ \/ /\ part = "media" /\ req[c].moved = NoPart /\ q.moved = Media
              /\ \/ req[c].parts = Media /\ q.phase = "index"
                 \/ req[c].parts = Both /\ q.phase = "files"
           \/ /\ part = "sidecar" /\ req[c].moved = Media /\ q.moved = Done2
              /\ q.phase = "index"
    BY <1>1, <1>2, <2>1, RenamedIs
  <2>4. CASE part = "media"
    <3>1. /\ disk[From(c)] # Null /\ side' = side
          /\ disk' = [disk EXCEPT ![To(c)] = disk[From(c)], ![From(c)] = Null]
      BY <1>4, <2>4
    <3> QED BY <1>1, <1>4, <2>2, <2>3, <2>4, <3>1, MediaMoves
  <2>5. CASE part = "sidecar"
    <3>1. /\ side[From(c)] # Null /\ disk' = disk
          /\ side' = [side EXCEPT ![To(c)] = side[From(c)], ![From(c)] = Null]
      BY <1>4, <2>5
    <3> QED BY <1>1, <1>4, <2>2, <2>3, <2>5, <3>1, SidecarMoves
  <2> QED BY <2>3, <2>4, <2>5
<1> QED BY <1>2, <1>3, <1>4 DEF MoveFile, Renamed, OverlappedBy

\* The row of an image gets its new place.
IndexMoves(c) ==
    /\ \A j \in Indexed \ {req[c].id} : index[j].path # To(c)
    /\ index' = IF req[c].id \in Indexed THEN [index EXCEPT ![req[c].id].path = To(c)] ELSE index

\* The index after a move: its row has the new path, the others what they had.
LEMMA IndexAfter ==
    ASSUME IInv, NEW c \in Callers, Going(c), IndexMoves(c)
    PROVE  /\ Indexed' = Indexed /\ index' \in [Indexed -> File]
           /\ \A i \in Indexed : index'[i].of = index[i].of
           /\ \A i \in Indexed : i # req[c].id => index'[i] = index[i]
           /\ req[c].id \in Indexed => index'[req[c].id].path = To(c)
<1>1. index \in [Indexed -> File] /\ To(c) \in Paths
  BY GoingIs DEF IInv, Tables
<1>2. CASE req[c].id \notin Indexed
  BY <1>1, <1>2 DEF IndexMoves, Indexed
<1>3. CASE req[c].id \in Indexed
  <2>1. PICK row : row = [index[req[c].id] EXCEPT !.path = To(c)]
    OBVIOUS
  <2>2. index[req[c].id] \in File
    BY <1>1, <1>3
  <2>3. row \in File /\ row.of = index[req[c].id].of /\ row.path = To(c)
    BY <1>1, <2>1, <2>2 DEF File
  <2>4. index' = [index EXCEPT ![req[c].id] = row]
    BY <1>3, <2>1 DEF IndexMoves
  <2>5. index' \in [Indexed -> File] /\ index'[req[c].id] = row
        /\ \A i \in Indexed : i # req[c].id => index'[i] = index[i]
    BY <1>1, <1>3, <2>3, <2>4
  <2>6. Indexed' = Indexed
    BY <2>5 DEF Indexed
  <2> QED BY <2>3, <2>5, <2>6
<1> QED BY <1>2, <1>3

\* Writing the new path into the index keeps the invariant.
LEMMA IndexMovesKeeps ==
    ASSUME IInv, NEW c \in Callers, Going(c), req[c].phase = "index",
           req' = [req EXCEPT ![c] = [req[c] EXCEPT !.phase = "user"]], CardsLike,
           IndexMoves(c), Raced(req[c].who), UNCHANGED <<disk, user, colls, home>>
    PROVE  IInv'
<1>1. PICK q, i, from, to, x : /\ q = [req[c] EXCEPT !.phase = "user"] /\ i = req[c].id
                               /\ from = From(c) /\ to = To(c) /\ x = Who(c).of
  OBVIOUS
<1>2. /\ req' = [req EXCEPT ![c] = q] /\ Relocation(q) /\ q.op = "move" /\ q.phase = "user"
      /\ q.who = req[c].who /\ q.id = i /\ q.moved = req[c].moved
  <2>1. req' = [req EXCEPT ![c] = q]
    BY <1>1
  <2>2. q = Turned(req[c], "user")
    BY <1>1 DEF Turned
  <2>3. req[c].moved # NoPart
    BY GoingIs
  <2>4. /\ Relocation(q) /\ q.op = "move" /\ q.phase = "user"
        /\ q.who = req[c].who /\ q.id = req[c].id /\ q.moved = req[c].moved
    BY <2>2, <2>3, PhaseIs
  <2> QED BY <1>1, <2>1, <2>4
<1>3. /\ from \in Paths /\ to \in Paths /\ from # to /\ ~InRoot(from) /\ InRoot(to)
      /\ x \in Contents /\ x # Null /\ to = RootPath[from] /\ req[c].moved # NoPart
  <2>1. /\ from \in Paths /\ to \in Paths /\ from # to /\ ~InRoot(from) /\ InRoot(to)
        /\ x \in Contents /\ to = RootPath[from] /\ req[c].moved # NoPart
    BY <1>1, GoingIs
  <2> QED BY <2>1, NullAssumption
<1>4. /\ disk' = disk /\ favs' = favs /\ items' = items /\ tags' = tags /\ views' = views
      /\ colls' = colls /\ home' = home /\ Rows' = Rows
  BY DEF user, Rows
<1>5. /\ Indexed' = Indexed /\ index' \in [Indexed -> File]
      /\ \A j \in Indexed : index'[j].of = index[j].of
      /\ \A j \in Indexed : j # i => index'[j] = index[j]
      /\ i \in Indexed => index'[i].path = to
      /\ \A j \in Indexed : j # i => index[j].path # to
  <2>1. \A j \in Indexed : j # i => index[j].path # to
    BY <1>1 DEF IndexMoves
  <2> QED BY <1>1, <2>1, IndexAfter
<1>6. Grows /\ (Kept' => Kept) /\ (Clean' => Clean)
  <2>1. Grows
    BY RacedGrows
  <2> QED BY <2>1 DEF Grows, Kept, Clean
<1>7. /\ side' \in [Paths -> Card \cup {Null}]
      /\ \A p \in Paths : (side'[p] = Null <=> side[p] = Null) /\ \A y : HasCard(p, y)' <=> HasCard(p, y)
  BY DEF CardsLike
<1>8. Tables'
  BY <1>4, <1>5, <1>6, <1>7 DEF IInv, Tables, Grows
<1>9. TypeOK'
  <2>1. \A j \in Indexed : index'[j].path \in Paths /\ index'[j].of \in Contents
    BY <1>5 DEF File
  <2>2. \A j, k \in Indexed : index'[j].path = index'[k].path => j = k
    BY <1>5 DEF IInv, TypeOK
  <2>3. \A k \in Colls : In(k)' = In(k)
    BY <1>4 DEF In
  <2>4. Live' = Live
    BY <1>4 DEF Live
  <2> QED BY <1>4, <1>5, <2>1, <2>2, <2>3, <2>4 DEF IInv, TypeOK, Unique
<1>10. /\ req'[c] = q /\ Who(c)' = Who(c) /\ From(c)' = from /\ To(c)' = to
       /\ Going(c)' /\ Leaving(c)' /\ ~Leaving(c)
  <2>1. req'[c] = q
    BY <1>2, Others
  <2>2. Who(c)' = Who(c) /\ From(c)' = From(c) /\ To(c)' = To(c)
    BY <1>2, <2>1, WhoStays
  <2> QED BY <1>1, <1>2, <2>1, <2>2 DEF Going, Leaving
<1>11. \A d \in Callers \ {c} : /\ req'[d] = req[d]
                                /\ (Going(d)' <=> Going(d)) /\ (Leaving(d)' <=> Leaving(d))
                                /\ Who(d)' = Who(d) /\ From(d)' = From(d) /\ To(d)' = To(d)
  BY <1>2, Others
<1>12. ReqsFit' /\ SeenFits'
  BY <1>2, <1>6, ReqsKept, SeenKept
<1>13. OnePlace'
  BY <1>4, <1>5 DEF IInv, OnePlace
<1>14. NothingLost'
  <2> SUFFICES ASSUME ~past.overlapped
               PROVE  /\ \A y \in Contents : \E p \in Paths : disk[p] = y
                      /\ \A y \in Contents : \E j \in Indexed : index'[j].of = y
                      /\ \A d \in Callers : Going(d)' /\ req'[d].phase = "files" /\ req'[d].moved = NoPart
                                                => disk[To(d)'] = Null
    BY <1>4, <1>5, <1>6 DEF NothingLost, Grows
  <2>1. NothingLost
    BY DEF IInv
  <2> QED BY <1>2, <1>5, <1>10, <1>11, <2>1 DEF NothingLost
<1>15. ASSUME Kept
       PROVE  /\ MoveAt(c) /\ i \in Indexed /\ index[i].of = x /\ index[i].path = from
              /\ disk[to] = x /\ disk[from] = Null
              /\ \A d \in Callers \ {c} : Going(d) => To(d) # to
  <2>1. MoveAt(c)
    BY <1>15 DEF IInv, MovesFit
  <2> QED BY <1>1, <1>3, <2>1 DEF MoveAt
<1>16. ASSUME Kept', NEW d \in Callers, Going(d)' PROVE MoveAt(d)'
  <2>1. Kept
    BY <1>6, <1>16
  <2>2. CASE d = c
    <3>1. \A e \in Callers \ {c} : Going(e)' => To(e)' # to
      BY <1>11, <1>15, <2>1
    <3>2. \A j \in Indexed : index'[j].path # from
      BY <1>3, <1>5, <1>15, <2>1 DEF IInv, TypeOK
    <3>3. x \in Tagged => req[c].moved = Done2 /\ HasCard(to, x) /\ side[from] = Null
      <4>1. req[c].moved \in {NoPart, Media, Done2}
        BY GoingIs
      <4> QED BY <1>1, <1>3, <1>15, <2>1, <4>1 DEF MoveAt
    <3>4. x \in Tagged => HasCard(to, x)' /\ side'[from] = Null
      BY <1>3, <1>7, <3>3
    <3>5. req'[c].id = i /\ req'[c].phase = "user" /\ req'[c].moved = req[c].moved /\ req[c].moved # NoPart
      BY <1>2, <1>3, <1>10
    <3> QED BY <1>1, <1>4, <1>5, <1>10, <1>15, <2>1, <2>2, <3>1, <3>2, <3>3, <3>4, <3>5, PartsAre
        DEF MoveAt
  <2>3. CASE d # c
    <3>1. Going(d) /\ MoveAt(d)
      BY <1>11, <1>16, <2>1, <2>3 DEF IInv, MovesFit
    <3>2. From(d) \in Paths /\ To(d) \in Paths /\ ~InRoot(From(d)) /\ InRoot(To(d)) /\ To(d) = RootPath[From(d)]
      BY <3>1, GoingIs
    <3>3. req[d].id # i
      BY <1>3, <1>15, <2>1, <2>3, <3>1, <3>2 DEF MoveAt
    <3>4. \A e \in Callers \ {d} : Going(e)' => Going(e) /\ To(e)' = To(e)
      BY <1>1, <1>10, <1>11
    <3>5. \A j \in Indexed : index'[j].path = From(d) => index[j].path = From(d)
      BY <1>3, <1>5, <3>2
    <3> QED BY <1>4, <1>5, <1>7, <1>11, <2>3, <3>1, <3>2, <3>3, <3>4, <3>5 DEF MoveAt
  <2> QED BY <2>2, <2>3
<1>17. CardsFit'
  <2> SUFFICES ASSUME Kept', NEW p \in Paths, NEW y \in Tagged, disk[p] = y
               PROVE  HasCard(p, y)' \/ \E d \in Callers : Going(d)' /\ req'[d].moved = Media /\ p = To(d)'
    BY <1>4 DEF CardsFit, HasCard
  <2>1. HasCard(p, y) \/ \E d \in Callers : Going(d) /\ req[d].moved = Media /\ p = To(d)
    BY <1>6 DEF IInv, CardsFit
  <2> QED BY <1>1, <1>2, <1>7, <1>10, <1>11, <2>1
<1>18. IndexFits'
  <2> SUFFICES ASSUME Kept', NEW j \in Indexed
               PROVE  \/ disk[index'[j].path] = index'[j].of
                      \/ \E d \in Callers : /\ Going(d)' /\ req'[d].phase # "user"
                                            /\ req'[d].id = j /\ req'[d].moved # NoPart
    BY <1>4, <1>5 DEF IndexFits
  <2>1. CASE j = i
    BY <1>5, <1>6, <1>15, <2>1
  <2>2. CASE j # i
    BY <1>1, <1>5, <1>6, <1>11, <2>2 DEF IInv, IndexFits
  <2> QED BY <2>1, <2>2
<1>19. ASSUME Kept, NEW w, w.of \in Contents, WhoFits(w) PROVE WhoFits(w)'
  <2>1. w.path # to
    <3> SUFFICES ASSUME w.path = to PROVE FALSE
      OBVIOUS
    <3>1. PICK j \in Indexed : index[j].of = w.of
      BY <1>19 DEF IInv, NothingLost, Kept
    <3>2. index[j].path = to
      BY <1>3, <1>19, <3>1 DEF WhoFits
    <3> QED BY <1>3, <1>5, <1>15, <1>19, <3>2
  <2>2. w.of = x <=> w.path = from
    BY <1>3, <1>15, <1>19 DEF WhoFits
  <2>3. ASSUME NEW j \in Indexed
        PROVE  /\ index'[j].path = w.path => index'[j].of = w.of
               /\ index'[j].of = w.of => \/ index'[j].path = w.path
                                         \/ ~InRoot(w.path) /\ InRoot(index'[j].path)
    <3>1. CASE j = i
      BY <1>3, <1>5, <1>15, <1>19, <2>1, <2>2, <3>1
    <3>2. CASE j # i
      BY <1>5, <1>19, <3>2 DEF WhoFits
    <3> QED BY <3>1, <3>2
  <2>4. ASSUME NEW d \in Callers, Leaving(d)'
        PROVE  /\ w.path = From(d)' => w.of = Who(d)'.of
               /\ w.of = Who(d)'.of => w.path \in {From(d)', To(d)'}
    <3>1. CASE d = c
      BY <1>1, <1>10, <2>2, <3>1
    <3>2. CASE d # c
      BY <1>11, <1>19, <2>4, <3>2 DEF WhoFits
    <3> QED BY <3>1, <3>2
  <2> QED BY <1>5, <2>3, <2>4 DEF WhoFits, InRoot
<1>20. WhosFit'
  <2> SUFFICES ASSUME Kept', NEW d \in Callers, req'[d] # Idle, NEW w \in req'[d].who
               PROVE  WhoFits(w)'
    BY DEF WhosFit
  <2>1. w \in req[d].who /\ req[d] # Idle
    <3>1. CASE d = c
      BY <1>2, <1>10, <3>1, RelocationIs DEF Going
    <3>2. CASE d # c
      BY <1>11, <3>2
    <3> QED BY <3>1, <3>2
  <2>2. WhoFits(w)
    BY <1>6, <2>1 DEF IInv, WhosFit
  <2>3. w.of \in Contents
    <3>1. CASE Request(req[d])
      BY <2>1, <3>1 DEF Request, Image
    <3>2. CASE Relocation(req[d])
      BY <2>1, <3>2 DEF Relocation, Image
    <3> QED BY <2>1, <3>1, <3>2 DEF IInv, ReqsFit
  <2> QED BY <1>6, <1>19, <2>2, <2>3
<1>21. RowsFit'
  <2> SUFFICES ASSUME Clean', NEW r \in Rows PROVE RowFits(r)'
    BY <1>4 DEF RowsFit
  <2>1. RowFits(r) /\ Kept
    BY <1>6, RowsAre DEF Clean
  <2>2. PICK y \in Contents : /\ r.of = {y}
                              /\ r.path = Null => r.id \in Indexed
                              /\ r.path # Null => IsAt(r.path, y)
                              /\ r.id \in Indexed => index[r.id].of = y
    BY <2>1 DEF RowFits
  <2>3. ASSUME r.path # Null, NEW j \in Indexed, index'[j].of = y
        PROVE  r.path = index'[j].path \/ \E d \in Callers : Leaving(d)' /\ Who(d)'.of = y /\ r.path = From(d)'
    <3>1. r.path = index[j].path \/ \E d \in Callers : Leaving(d) /\ Who(d).of = y /\ r.path = From(d)
      BY <1>5, <2>2, <2>3 DEF IsAt
    <3>2. CASE \E d \in Callers : Leaving(d) /\ Who(d).of = y /\ r.path = From(d)
      BY <1>10, <1>11, <3>2
    <3>3. CASE r.path = index[j].path /\ j = i
      BY <1>1, <1>5, <1>10, <1>15, <2>1, <2>3, <3>3
    <3>4. CASE r.path = index[j].path /\ j # i
      BY <1>5, <3>4
    <3> QED BY <3>1, <3>2, <3>3, <3>4
  <2>4. r.path # Null => IsAt(r.path, y)'
    BY <1>5, <2>3 DEF IsAt
  <2> QED BY <1>5, <2>2, <2>4 DEF RowFits
<1> QED BY <1>8, <1>9, <1>12, <1>13, <1>14, <1>16, <1>17, <1>18, <1>20, <1>21 DEF IInv, MovesFit

\* The index's step of a move keeps the invariant, whether it succeeds or not.
LEMMA MoveIndexKeeps ==
    ASSUME IInv, NEW c \in Callers, MoveIndex(c)
    PROVE  IInv'
<1>1. /\ req[c].op = "move" /\ req[c].phase = "index" /\ Going(c)
      /\ UNCHANGED <<disk, user, colls, home>> /\ side' = Readdressed(To(c))
  BY DEF MoveIndex, Going
<1>2. CardsLike
  <2>1. To(c) \in Paths
    BY <1>1, GoingIs
  <2> QED BY <1>1, <2>1, ReaddressedIs
<1>3. CASE Proceed(c, [req[c] EXCEPT !.phase = "undo"]) /\ UNCHANGED <<index, past>>
  BY <1>1, <1>2, <1>3, GivesUp DEF Proceed
<1>4. CASE /\ IndexMoves(c) /\ Raced(req[c].who)
           /\ Proceed(c, [req[c] EXCEPT !.phase = "user"])
  BY <1>1, <1>2, <1>4, IndexMovesKeeps DEF Proceed
<1> QED BY <1>3, <1>4 DEF MoveIndex, IndexMoves

\* The parts of an image that a move has renamed.
LEMMA MovedIs ==
    ASSUME NEW moved \in {NoPart, Media, Done2}
    PROVE  /\ (\E i \in 1..Len(moved) : moved[i] = "media") <=> moved # NoPart
           /\ (\E i \in 1..Len(moved) : moved[i] = "sidecar") <=> moved = Done2
<1>1. CASE moved = NoPart
  BY <1>1, PartsAre DEF NoPart
<1>2. CASE moved = Media
  <2>1. Len(moved) = 1 /\ moved[1] = "media"
    BY <1>2 DEF Media
  <2> QED BY <1>2, <2>1, PartsAre
<1>3. CASE moved = Done2
  <2>1. Len(moved) = 2 /\ moved[1] = "sidecar" /\ moved[2] = "media"
    BY <1>3 DEF Done2
  <2> QED BY <1>3, <2>1, PartsAre
<1> QED BY <1>1, <1>2, <1>3

\* A file goes back, if it can.
Back(there, after, from, to) ==
    /\ there[to] # Null /\ there[from] = Null
    /\ after = [there EXCEPT ![from] = there[to], ![to] = Null]

\* What going back does, and what it does when nothing is in its way.
LEMMA UndoDoes ==
    ASSUME IInv, NEW c \in Callers, UndoMove(c)
    PROVE  /\ disk' = disk \/ Back(disk, disk', From(c), To(c))
           /\ side' = side \/ Back(side, side', From(c), To(c))
           /\ past' \in [drift : BOOLEAN, cut : BOOLEAN, raced : BOOLEAN, overlapped : BOOLEAN,
                         overwrote : BOOLEAN]
           /\ past'.overlapped = past.overlapped /\ past'.drift = past.drift
           /\ past'.raced = past.raced /\ (past.cut => past'.cut)
           /\ req[c].moved = NoPart => disk' = disk
           /\ req[c].moved # Done2 => side' = side
           /\ ~past'.cut /\ req[c].moved # NoPart /\ disk[To(c)] # Null /\ disk[From(c)] = Null =>
                 Back(disk, disk', From(c), To(c))
           /\ ~past'.cut /\ req[c].moved = Done2 /\ side[To(c)] # Null /\ side[From(c)] = Null =>
                 Back(side, side', From(c), To(c))
<1>1. Going(c) /\ req[c].moved \in {NoPart, Media, Done2}
  <2>1. Going(c)
    BY DEF UndoMove, Going
  <2> QED BY <2>1, GoingIs
<1>2. PICK from, to, m, s : /\ from = From(c) /\ to = To(c)
                            /\ m = (\E i \in 1..Len(req[c].moved) : req[c].moved[i] = "media")
                            /\ s = (\E i \in 1..Len(req[c].moved) : req[c].moved[i] = "sidecar")
  OBVIOUS
<1>3. PICK stuck :
          /\ disk' = IF m /\ "media" \notin stuck /\ disk[to] # Null /\ disk[from] = Null
                     THEN [disk EXCEPT ![from] = disk[to], ![to] = Null] ELSE disk
          /\ side' = IF s /\ "sidecar" \notin stuck /\ side[to] # Null /\ side[from] = Null
                     THEN [side EXCEPT ![from] = side[to], ![to] = Null] ELSE side
          /\ past' = [past EXCEPT !.cut = @ \/ stuck # {}]
  BY <1>2 DEF UndoMove
<1>4. (m <=> req[c].moved # NoPart) /\ (s <=> req[c].moved = Done2)
  BY <1>1, <1>2, MovedIs
<1>5. PICK b \in BOOLEAN : b = (past.cut \/ stuck # {}) /\ past' = [past EXCEPT !.cut = b]
  BY <1>3 DEF IInv, Tables
<1>6. past \in [drift : BOOLEAN, cut : BOOLEAN, raced : BOOLEAN, overlapped : BOOLEAN,
                overwrote : BOOLEAN]
  BY DEF IInv, Tables
<1>7. /\ past' \in [drift : BOOLEAN, cut : BOOLEAN, raced : BOOLEAN, overlapped : BOOLEAN,
                    overwrote : BOOLEAN]
      /\ past'.overlapped = past.overlapped /\ past'.drift = past.drift
      /\ past'.raced = past.raced /\ past'.cut = b
  BY <1>5, <1>6
<1>8. /\ disk' = disk \/ Back(disk, disk', from, to)
      /\ req[c].moved = NoPart => disk' = disk
      /\ stuck = {} /\ req[c].moved # NoPart /\ disk[to] # Null /\ disk[from] = Null =>
            Back(disk, disk', from, to)
  <2>1. CASE m /\ "media" \notin stuck /\ disk[to] # Null /\ disk[from] = Null
    BY <1>3, <1>4, <2>1 DEF Back
  <2>2. CASE ~(m /\ "media" \notin stuck /\ disk[to] # Null /\ disk[from] = Null)
    BY <1>3, <1>4, <2>2
  <2> QED BY <2>1, <2>2
<1>9. /\ side' = side \/ Back(side, side', from, to)
      /\ req[c].moved # Done2 => side' = side
      /\ stuck = {} /\ req[c].moved = Done2 /\ side[to] # Null /\ side[from] = Null =>
            Back(side, side', from, to)
  <2>1. CASE s /\ "sidecar" \notin stuck /\ side[to] # Null /\ side[from] = Null
    BY <1>3, <1>4, <2>1 DEF Back
  <2>2. CASE ~(s /\ "sidecar" \notin stuck /\ side[to] # Null /\ side[from] = Null)
    BY <1>3, <1>4, <2>2
  <2> QED BY <2>1, <2>2
<1>10. /\ past.cut => past'.cut
       /\ ~past'.cut => stuck = {}
  BY <1>5, <1>7
<1> QED BY <1>2, <1>7, <1>8, <1>9, <1>10

\* Undoing a move keeps the invariant.
LEMMA UndoMoveKeeps ==
    ASSUME IInv, NEW c \in Callers, UndoMove(c)
    PROVE  IInv'
<1>1. /\ req[c].op = "move" /\ req[c].phase = "undo" /\ Going(c) /\ ~Leaving(c)
      /\ UNCHANGED <<index, user, colls, home>>
  BY DEF UndoMove, Going, Leaving
<1>2. PICK from, to, x, i, moved : /\ from = From(c) /\ to = To(c) /\ x = Who(c).of
                                   /\ i = req[c].id /\ moved = req[c].moved
  OBVIOUS
<1>3. /\ from \in Paths /\ to \in Paths /\ from # to /\ ~InRoot(from) /\ InRoot(to)
      /\ x \in Contents /\ x # Null /\ to = RootPath[from] /\ moved \in {NoPart, Media, Done2}
  <2>1. /\ from \in Paths /\ to \in Paths /\ from # to /\ ~InRoot(from) /\ InRoot(to)
        /\ x \in Contents /\ to = RootPath[from] /\ moved \in {NoPart, Media, Done2}
    BY <1>1, <1>2, GoingIs
  <2> QED BY <2>1, NullAssumption
<1>4. PICK q : req' = [req EXCEPT ![c] = q] /\ (q = Idle \/ (Relocation(q) /\ q.phase = "check" /\ q.who = {}))
  <2>1. EndMove(c, "failed")
    BY DEF UndoMove
  <2> QED BY <1>1, <2>1, EndsAs
<1>5. /\ disk' = disk \/ Back(disk, disk', from, to)
      /\ side' = side \/ Back(side, side', from, to)
      /\ past' \in [drift : BOOLEAN, cut : BOOLEAN, raced : BOOLEAN, overlapped : BOOLEAN,
                    overwrote : BOOLEAN]
      /\ past'.overlapped = past.overlapped /\ past'.drift = past.drift
      /\ past'.raced = past.raced /\ (past.cut => past'.cut)
      /\ moved = NoPart => disk' = disk
      /\ moved # Done2 => side' = side
      /\ ~past'.cut /\ moved # NoPart /\ disk[to] # Null /\ disk[from] = Null =>
            Back(disk, disk', from, to)
      /\ ~past'.cut /\ moved = Done2 /\ side[to] # Null /\ side[from] = Null =>
            Back(side, side', from, to)
  BY <1>2, UndoDoes
<1>6. disk \in [Paths -> Contents \cup {Null}] /\ side \in [Paths -> Card \cup {Null}]
  BY DEF IInv, Tables
<1>7. Back(disk, disk', from, to) =>
          /\ disk' \in [Paths -> Contents \cup {Null}]
          /\ disk[to] # Null /\ disk[from] = Null /\ disk'[from] = disk[to] /\ disk'[to] = Null
          /\ \A p \in Paths : p # from /\ p # to => disk'[p] = disk[p]
  BY <1>3, <1>6 DEF Back
<1>8. Back(side, side', from, to) =>
          /\ side' \in [Paths -> Card \cup {Null}]
          /\ side'[from] = side[to] /\ side'[to] = Null
          /\ \A p \in Paths : p # from /\ p # to => side'[p] = side[p]
  BY <1>3, <1>6 DEF Back
<1>9. /\ disk' \in [Paths -> Contents \cup {Null}] /\ side' \in [Paths -> Card \cup {Null}]
      /\ \A p \in Paths : p # from /\ p # to => disk'[p] = disk[p] /\ side'[p] = side[p]
  BY <1>5, <1>6, <1>7, <1>8
<1>10. (Kept' => Kept) /\ (Clean' => Clean)
  BY <1>5 DEF Kept, Clean
<1>11. index' = index /\ Indexed' = Indexed
  BY <1>1 DEF Indexed
<1>12. TypeOK' /\ Tables' /\ Rows' = Rows
  BY <1>1, <1>5, <1>9, FilesFit
<1>13. req'[c] = q /\ ~Going(c)' /\ ~Leaving(c)' /\ q # req[c]
  <2>1. req'[c] = q
    BY <1>4, Others
  <2>2. q = Idle \/ q.phase = "check"
    BY <1>4
  <2> QED BY <1>1, <2>1, <2>2 DEF Going, Leaving, Idle
<1>14. \A d \in Callers : d # c => /\ req'[d] = req[d]
                                   /\ (Going(d)' <=> Going(d)) /\ (Leaving(d)' <=> Leaving(d))
                                   /\ Who(d)' = Who(d) /\ From(d)' = From(d) /\ To(d)' = To(d)
  BY <1>4, Others
<1>15. ReqsFit' /\ SeenFits' /\ WhosFit' /\ RowsFit'
  <2>1. ReqsFit' /\ SeenFits'
    BY <1>4, <1>10, ReqsKept, SeenKept
  <2>2. q # Idle => \A w \in q.who : Kept => WhoFits(w)
    BY <1>4
  <2>3. WhosFit'
    BY <1>4, <1>10, <1>11, <1>13, <2>2, WhosKept
  <2>4. RowsFit'
    BY <1>1, <1>4, <1>10, <1>11, <1>12, RowsKept
  <2> QED BY <2>1, <2>3, <2>4
<1>16. OnePlace'
  <2>1. \A p, r \in Paths : disk'[p] = disk'[r] /\ disk'[p] # Null => p = r
    <3>1. \A p, r \in Paths : disk[p] = disk[r] /\ disk[p] # Null => p = r
      BY DEF IInv, OnePlace
    <3>2. CASE disk' = disk
      BY <3>1, <3>2
    <3>3. CASE Back(disk, disk', from, to)
      BY <1>3, <1>7, <3>1, <3>3
    <3> QED BY <1>5, <3>2, <3>3
  <2> QED BY <1>11, <2>1 DEF IInv, OnePlace
<1>17. NothingLost'
  <2> SUFFICES ASSUME ~past'.overlapped
               PROVE  /\ \A y \in Contents : \E p \in Paths : disk'[p] = y
                      /\ \A d \in Callers : Going(d)' /\ req'[d].phase = "files" /\ req'[d].moved = NoPart
                                                => disk'[To(d)'] = Null
    BY <1>5, <1>11 DEF IInv, NothingLost
  <2>1. /\ \A y \in Contents : \E p \in Paths : disk[p] = y
        /\ \A d \in Callers : Going(d) /\ req[d].phase = "files" /\ req[d].moved = NoPart
                                  => disk[To(d)] = Null
    BY <1>5 DEF IInv, NothingLost
  <2>2. CASE disk' = disk
    BY <1>13, <1>14, <2>1, <2>2
  <2>3. CASE Back(disk, disk', from, to)
    <3>1. \A y \in Contents : \E p \in Paths : disk'[p] = y
      <4> SUFFICES ASSUME NEW y \in Contents PROVE \E p \in Paths : disk'[p] = y
        OBVIOUS
      <4>1. PICK p \in Paths : disk[p] = y
        BY <2>1
      <4>2. p # from
        BY <1>7, <2>3, <4>1, NullAssumption
      <4> QED BY <1>3, <1>7, <2>3, <4>1, <4>2
    <3>2. ASSUME NEW d \in Callers, Going(d)', req'[d].phase = "files", req'[d].moved = NoPart
          PROVE  disk'[To(d)'] = Null
      <4>1. d # c /\ To(d)' = To(d) /\ Going(d) /\ disk[To(d)] = Null
        BY <1>13, <1>14, <2>1, <3>2
      <4>2. To(d) # from /\ To(d) \in Paths
        BY <1>3, <4>1, GoingIs
      <4> QED BY <1>7, <2>3, <4>1, <4>2
    <3> QED BY <3>1, <3>2
  <2> QED BY <1>5, <2>2, <2>3
<1>18. ASSUME Kept'
       PROVE  /\ Kept /\ MoveAt(c) /\ ~past'.cut /\ index[i].of = x /\ index[i].path = from /\ i \in Indexed
              /\ moved # NoPart =>
                    /\ disk[to] = x /\ Back(disk, disk', from, to)
                    /\ \A d \in Callers \ {c} : Going(d) => To(d) # to
              /\ x \in Tagged /\ moved # Done2 => HasCard(from, x) /\ side' = side
              /\ x \in Tagged /\ moved = Done2 => HasCard(to, x) /\ Back(side, side', from, to)
  <2>1. Kept /\ MoveAt(c) /\ ~past'.cut
    BY <1>10, <1>18, <1>1 DEF IInv, MovesFit, Kept
  <2>2. /\ index[i].of = x /\ index[i].path = from /\ i \in Indexed
        /\ moved # NoPart => /\ disk[to] = x /\ disk[from] = Null
                             /\ \A d \in Callers \ {c} : Going(d) => To(d) # to
        /\ x \in Tagged /\ moved # Done2 => HasCard(from, x)
        /\ x \in Tagged /\ moved = Done2 => HasCard(to, x) /\ side[from] = Null
    BY <1>1, <1>2, <2>1 DEF MoveAt
  <2>3. moved # NoPart => Back(disk, disk', from, to)
    BY <1>3, <1>5, <2>1, <2>2
  <2>4. x \in Tagged /\ moved = Done2 => Back(side, side', from, to)
    BY <1>5, <2>1, <2>2 DEF HasCard
  <2> QED BY <1>5, <2>1, <2>2, <2>3, <2>4
\* Other moves touch neither place, if this one has touched them.
<1>19. ASSUME Kept', NEW d \in Callers, d # c, Going(d), moved # NoPart
       PROVE  /\ From(d) \in Paths /\ To(d) \in Paths
              /\ From(d) # from /\ From(d) # to /\ To(d) # from /\ To(d) # to
  <2>1. /\ From(d) \in Paths /\ To(d) \in Paths /\ To(d) = RootPath[From(d)]
        /\ ~InRoot(From(d)) /\ InRoot(To(d))
    BY <1>19, GoingIs
  <2>2. To(d) # to
    BY <1>18, <1>19
  <2> QED BY <1>3, <2>1, <2>2
<1>20. ASSUME Kept', NEW d \in Callers, Going(d)' PROVE MoveAt(d)'
  <2>1. d # c /\ Going(d) /\ MoveAt(d) /\ Kept
    BY <1>13, <1>14, <1>18, <1>20 DEF IInv, MovesFit
  <2>2. PICK p, r : p = From(d) /\ r = To(d) /\ p = From(d)' /\ r = To(d)'
    BY <1>14, <2>1
  <2>3. p \in Paths /\ r \in Paths
    BY <2>1, <2>2, GoingIs
  <2>4. disk'[p] = disk[p] /\ disk'[r] = disk[r] /\ side'[p] = side[p] /\ side'[r] = side[r]
    <3>1. CASE moved = NoPart
      BY <1>5, <3>1, PartsAre
    <3>2. CASE moved # NoPart
      BY <1>9, <1>19, <1>20, <2>1, <2>2, <3>2
    <3> QED BY <3>1, <3>2
  <2>5. \A y : (HasCard(p, y)' <=> HasCard(p, y)) /\ (HasCard(r, y)' <=> HasCard(r, y))
    BY <2>4 DEF HasCard
  <2>6. \A e \in Callers \ {d} : Going(e)' => Going(e) /\ To(e)' = To(e)
    BY <1>13, <1>14
  <2> QED BY <1>11, <1>14, <2>1, <2>2, <2>4, <2>5, <2>6 DEF MoveAt
<1>21. CardsFit'
  <2> SUFFICES ASSUME Kept', NEW p \in Paths, NEW y \in Tagged, disk'[p] = y
               PROVE  HasCard(p, y)' \/ \E d \in Callers : Going(d)' /\ req'[d].moved = Media /\ p = To(d)'
    BY DEF CardsFit, HasCard
  <2>1. y # Null
    BY ImageAssumption, NullAssumption
  <2>2. CASE p = from /\ moved # NoPart
    <3>1. y = x
      BY <1>7, <1>18, <2>2
    <3>2. CASE moved = Done2
      BY <1>8, <1>18, <2>2, <3>1, <3>2 DEF HasCard
    <3>3. CASE moved # Done2
      BY <1>18, <2>2, <3>1, <3>3 DEF HasCard
    <3> QED BY <3>2, <3>3
  <2>3. CASE p # from \/ moved = NoPart
    <3>1. disk[p] = y /\ side'[p] = side[p] /\ (p # to \/ moved = NoPart)
      <4>1. CASE moved = NoPart
        BY <1>5, <4>1, PartsAre
      <4>2. CASE moved # NoPart
        <5>1. p # to
          BY <1>7, <1>18, <2>1, <4>2
        <5> QED BY <1>9, <2>3, <4>2, <5>1
      <4> QED BY <4>1, <4>2
    <3>2. HasCard(p, y) \/ \E d \in Callers : Going(d) /\ req[d].moved = Media /\ p = To(d)
      BY <1>18, <3>1 DEF IInv, CardsFit
    <3>3. CASE HasCard(p, y)
      BY <3>1, <3>3 DEF HasCard
    <3>4. CASE \E d \in Callers : Going(d) /\ req[d].moved = Media /\ p = To(d)
      <4>1. PICK d \in Callers : Going(d) /\ req[d].moved = Media /\ p = To(d)
        BY <3>4
      <4>2. d # c
        BY <1>2, <3>1, <4>1, PartsAre
      <4> QED BY <1>14, <4>1, <4>2
    <3> QED BY <3>2, <3>3, <3>4
  <2> QED BY <2>2, <2>3
<1>22. IndexFits'
  <2> SUFFICES ASSUME Kept', NEW j \in Indexed
               PROVE  \/ disk'[index[j].path] = index[j].of
                      \/ \E d \in Callers : /\ Going(d)' /\ req'[d].phase # "user"
                                            /\ req'[d].id = j /\ req'[d].moved # NoPart
    BY <1>11 DEF IndexFits
  <2>1. index[j].path \in Paths /\ index[j].of \in Contents
    BY DEF IInv, TypeOK
  <2>2. CASE j = i /\ moved # NoPart
    BY <1>7, <1>18, <2>2
  <2>3. CASE j # i \/ moved = NoPart
    <3>1. CASE disk[index[j].path] = index[j].of
      <4>1. CASE moved = NoPart
        BY <1>5, <3>1, <4>1
      <4>2. CASE moved # NoPart
        <5>1. index[j].path # from
          BY <1>18, <2>3, <4>2 DEF IInv, TypeOK
        <5>2. index[j].path # to
          BY <1>18, <2>3, <3>1, <4>2 DEF IInv, OnePlace
        <5> QED BY <1>9, <2>1, <3>1, <5>1, <5>2
      <4> QED BY <4>1, <4>2
    <3>2. CASE disk[index[j].path] # index[j].of
      <4>1. PICK d \in Callers : /\ Going(d) /\ req[d].phase # "user"
                                 /\ req[d].id = j /\ req[d].moved # NoPart
        BY <1>18, <3>2 DEF IInv, IndexFits
      <4>2. d # c
        BY <1>2, <2>3, <4>1
      <4> QED BY <1>14, <4>1, <4>2
    <3> QED BY <3>1, <3>2
  <2> QED BY <2>2, <2>3
<1> QED BY <1>12, <1>15, <1>16, <1>17, <1>20, <1>21, <1>22 DEF IInv, MovesFit

-----------------------------------------------------------------------------
(* A row that goes along with its image.                                   *)

CarryTo(r, i, from, to, m) ==
    IF r.id = i \/ r.path = from
    THEN [r EXCEPT !.path = to, !.md5 = IF @ = Null THEN m ELSE @] ELSE r

\* The tables a move leaves hold nothing but carried rows.
LEMMA CarriedIs ==
    ASSUME NEW c \in Callers, NEW T, NEW s \in Carried(T, req[c], From(c), To(c))
    PROVE  \E r \in T : s = CarryTo(r, req[c].id, From(c), To(c), Who(c).md5)
BY DEF Carried, CarryTo, Who

\* A carried favourite is a favourite, with another place at most.
LEMMA CarryFav ==
    ASSUME NEW r \in FavRow, NEW i, NEW from, NEW to \in Paths, NEW m \in Hashes,
           NEW s, s = CarryTo(r, i, from, to, m)
    PROVE  /\ s \in FavRow /\ s.id = r.id /\ s.of = r.of
           /\ IF r.id = i \/ r.path = from THEN s.path = to ELSE s = r
<1>1. CASE r.id = i \/ r.path = from
  <2>1. PICK n \in Hashes : n = IF r.md5 = Null THEN m ELSE r.md5
    BY DEF FavRow
  <2>2. s = [r EXCEPT !.path = to, !.md5 = n]
    BY <1>1, <2>1 DEF CarryTo, FavRow
  <2> QED BY <1>1, <2>1, <2>2 DEF FavRow
<1>2. CASE ~(r.id = i \/ r.path = from)
  BY <1>2 DEF CarryTo
<1> QED BY <1>1, <1>2

\* A carried item stays in its collection.
LEMMA CarryItem ==
    ASSUME NEW r \in ItemRow, NEW i, NEW from, NEW to \in Paths, NEW m \in Hashes,
           NEW s, s = CarryTo(r, i, from, to, m)
    PROVE  /\ s \in ItemRow /\ s.id = r.id /\ s.of = r.of /\ s.coll = r.coll
           /\ IF r.id = i \/ r.path = from THEN s.path = to ELSE s = r
<1>1. CASE r.id = i \/ r.path = from
  <2>1. PICK n \in Hashes : n = IF r.md5 = Null THEN m ELSE r.md5
    BY DEF ItemRow
  <2>2. s = [r EXCEPT !.path = to, !.md5 = n]
    BY <1>1, <2>1 DEF CarryTo, ItemRow
  <2> QED BY <1>1, <2>1, <2>2 DEF ItemRow
<1>2. CASE ~(r.id = i \/ r.path = from)
  BY <1>2 DEF CarryTo
<1> QED BY <1>1, <1>2

\* A carried tag is a tag.
LEMMA CarryTag ==
    ASSUME NEW r \in TagRow, NEW i, NEW from, NEW to \in Paths, NEW m \in Hashes,
           NEW s, s = CarryTo(r, i, from, to, m)
    PROVE  /\ s \in TagRow /\ s.id = r.id /\ s.of = r.of
           /\ IF r.id = i \/ r.path = from THEN s.path = to ELSE s = r
<1>1. CASE r.id = i \/ r.path = from
  <2>1. PICK n \in Hashes : n = IF r.md5 = Null THEN m ELSE r.md5
    BY DEF TagRow
  <2>2. s = [r EXCEPT !.path = to, !.md5 = n]
    BY <1>1, <2>1 DEF CarryTo, TagRow
  <2> QED BY <1>1, <2>1, <2>2 DEF TagRow
<1>2. CASE ~(r.id = i \/ r.path = from)
  BY <1>2 DEF CarryTo
<1> QED BY <1>1, <1>2

\* A carried count counts the same.
LEMMA CarryCount ==
    ASSUME NEW r, Counts(r), NEW i, NEW from, NEW to \in Paths, NEW m \in Hashes,
           NEW s, s = CarryTo(r, i, from, to, m)
    PROVE  /\ Counts(s) /\ s.id = r.id /\ s.of = r.of
           /\ IF r.id = i \/ r.path = from THEN s.path = to ELSE s = r
<1>1. CASE r.id = i \/ r.path = from
  <2>1. PICK n \in Hashes : n = IF r.md5 = Null THEN m ELSE r.md5
    BY DEF Counts
  <2>2. PICK id, path, md5, of, v, h : r = [id |-> id, path |-> path, md5 |-> md5, of |-> of,
                                            views |-> v, hearts |-> h]
    BY DEF Counts
  <2>3. s = [id |-> id, path |-> to, md5 |-> n, of |-> of, views |-> v, hearts |-> h]
    <3>1. PICK r1 : r1 = [r EXCEPT !.path = to]
      OBVIOUS
    <3>2. r1 = [id |-> id, path |-> to, md5 |-> md5, of |-> of, views |-> v, hearts |-> h]
      BY <2>2, <3>1
    <3>3. PICK r2 : r2 = [r1 EXCEPT !.md5 = IF @ = Null THEN m ELSE @]
      OBVIOUS
    <3>4. r2 = [id |-> id, path |-> to, md5 |-> n, of |-> of, views |-> v, hearts |-> h]
      BY <2>1, <2>2, <3>2, <3>3
    <3> QED BY <1>1, <3>1, <3>3, <3>4 DEF CarryTo
  <2>4. s.id = r.id /\ s.of = r.of /\ s.path = to /\ s.md5 = n
    BY <2>2, <2>3
  <2>5. s = [id |-> s.id, path |-> s.path, md5 |-> s.md5, of |-> s.of, views |-> s.views, hearts |-> s.hearts]
    BY <2>3
  <2> QED BY <1>1, <2>1, <2>4, <2>5 DEF Counts
<1>2. CASE ~(r.id = i \/ r.path = from)
  BY <1>2 DEF CarryTo
<1> QED BY <1>1, <1>2

\* The tables as a move leaves them.
LEMMA CarriedFit ==
    ASSUME IInv, NEW c \in Callers, Going(c), colls' = colls,
           favs' = Carried(favs, req[c], From(c), To(c)), items' = Carried(items, req[c], From(c), To(c)),
           tags' = Carried(tags, req[c], From(c), To(c)), views' = Carried(views, req[c], From(c), To(c)),
           \A r, s \in tags' : r.path = s.path /\ r.path # Null => r = s
    PROVE  /\ FavsFit' /\ ItemsFit' /\ TagsFit' /\ ViewsFit'
           /\ \A s \in Rows' : \E r \in Rows :
                 /\ s.id = r.id /\ s.of = r.of
                 /\ IF r.id = req[c].id \/ r.path = From(c) THEN s.path = To(c) ELSE s = r
<1>1. PICK i, from, to, m : i = req[c].id /\ from = From(c) /\ to = To(c) /\ m = Who(c).md5
  OBVIOUS
<1>2. to \in Paths /\ to # Null /\ m \in Hashes
  <2>1. to \in Paths /\ m \in Hashes
    BY <1>1, GoingIs DEF Image
  <2> QED BY <2>1, NullAssumption
<1>3. /\ \A s \in favs' : \E r \in favs : s = CarryTo(r, i, from, to, m)
      /\ \A s \in items' : \E r \in items : s = CarryTo(r, i, from, to, m)
      /\ \A s \in tags' : \E r \in tags : s = CarryTo(r, i, from, to, m)
      /\ \A s \in views' : \E r \in views : s = CarryTo(r, i, from, to, m)
  <2>1. \A T : \A s \in Carried(T, req[c], From(c), To(c)) :
            \E r \in T : s = CarryTo(r, req[c].id, From(c), To(c), Who(c).md5)
    BY CarriedIs
  <2>2. \A T : \A s \in Carried(T, req[c], From(c), To(c)) : \E r \in T : s = CarryTo(r, i, from, to, m)
    BY <1>1, <2>1
  <2> QED BY <2>2
<1>4. FavsFit /\ ItemsFit /\ TagsFit /\ ViewsFit
  BY TablesAre
<1>5. \A s \in favs' : \E r \in favs :
          /\ s = CarryTo(r, i, from, to, m) /\ s \in FavRow /\ s.id = r.id /\ s.of = r.of
          /\ IF r.id = i \/ r.path = from THEN s.path = to ELSE s = r
  <2> SUFFICES ASSUME NEW r \in favs, NEW s, s = CarryTo(r, i, from, to, m)
               PROVE  /\ s \in FavRow /\ s.id = r.id /\ s.of = r.of
                      /\ IF r.id = i \/ r.path = from THEN s.path = to ELSE s = r
    BY <1>3
  <2>1. r \in FavRow
    BY <1>4 DEF FavsFit
  <2> QED BY <1>2, <2>1, CarryFav
<1>6. \A s \in items' : \E r \in items :
          /\ s = CarryTo(r, i, from, to, m) /\ s \in ItemRow /\ s.id = r.id /\ s.of = r.of /\ s.coll = r.coll
          /\ IF r.id = i \/ r.path = from THEN s.path = to ELSE s = r
  <2> SUFFICES ASSUME NEW r \in items, NEW s, s = CarryTo(r, i, from, to, m)
               PROVE  /\ s \in ItemRow /\ s.id = r.id /\ s.of = r.of /\ s.coll = r.coll
                      /\ IF r.id = i \/ r.path = from THEN s.path = to ELSE s = r
    BY <1>3
  <2>1. r \in ItemRow
    BY <1>4 DEF ItemsFit
  <2> QED BY <1>2, <2>1, CarryItem
<1>7. \A s \in tags' : \E r \in tags :
          /\ s = CarryTo(r, i, from, to, m) /\ s \in TagRow /\ s.id = r.id /\ s.of = r.of
          /\ IF r.id = i \/ r.path = from THEN s.path = to ELSE s = r
  <2> SUFFICES ASSUME NEW r \in tags, NEW s, s = CarryTo(r, i, from, to, m)
               PROVE  /\ s \in TagRow /\ s.id = r.id /\ s.of = r.of
                      /\ IF r.id = i \/ r.path = from THEN s.path = to ELSE s = r
    BY <1>3
  <2>1. r \in TagRow
    BY <1>4 DEF TagsFit
  <2> QED BY <1>2, <2>1, CarryTag
<1>8. \A s \in views' : \E r \in views :
          /\ s = CarryTo(r, i, from, to, m) /\ Counts(s) /\ s.id = r.id /\ s.of = r.of
          /\ IF r.id = i \/ r.path = from THEN s.path = to ELSE s = r
  <2> SUFFICES ASSUME NEW r \in views, NEW s, s = CarryTo(r, i, from, to, m)
               PROVE  /\ Counts(s) /\ s.id = r.id /\ s.of = r.of
                      /\ IF r.id = i \/ r.path = from THEN s.path = to ELSE s = r
    BY <1>3
  <2>1. Counts(r)
    BY <1>4 DEF ViewsFit
  <2> QED BY <1>2, <2>1, CarryCount
<1>9. FavsFit'
  <2>1. Unique(favs')
    BY <1>4, <1>5 DEF FavsFit, Unique
  <2>2. favs' \subseteq FavRow
    BY <1>5
  <2>3. \A s \in favs' : s.path = Null => s.md5 = Null
    BY <1>2, <1>4, <1>5 DEF FavsFit
  <2> QED BY <2>1, <2>2, <2>3 DEF FavsFit, Unique
<1>10. ItemsFit'
  <2>1. items' \subseteq ItemRow /\ \A s \in items' : s.coll \in Live
    BY <1>4, <1>6 DEF ItemsFit
  <2>2. ASSUME NEW k \in Colls, NEW s \in In(k)', NEW t \in In(k)', s.id = t.id PROVE s = t
    <3>1. s \in items' /\ t \in items' /\ s.coll = k /\ t.coll = k
      BY <2>2 DEF In
    <3>2. PICK p \in items : s = CarryTo(p, i, from, to, m) /\ s.id = p.id /\ s.coll = p.coll
      BY <1>6, <3>1
    <3>3. PICK r \in items : t = CarryTo(r, i, from, to, m) /\ t.id = r.id /\ t.coll = r.coll
      BY <1>6, <3>1
    <3>4. p \in In(k) /\ r \in In(k) /\ p.id = r.id
      BY <2>2, <3>1, <3>2, <3>3 DEF In
    <3> QED BY <1>4, <3>2, <3>3, <3>4 DEF ItemsFit, Unique
  <2>3. Live' = Live
    BY DEF Live
  <2> QED BY <1>4, <2>1, <2>2, <2>3 DEF ItemsFit, Unique
<1>11. TagsFit'
  BY <1>7 DEF TagsFit
<1>12. ViewsFit'
  <2>1. Unique(views')
    BY <1>4, <1>8 DEF ViewsFit, Unique
  <2> QED BY <1>8, <2>1 DEF ViewsFit, Unique
<1>13. \A s \in Rows' : \E r \in Rows :
                 /\ s.id = r.id /\ s.of = r.of
                 /\ IF r.id = i \/ r.path = from THEN s.path = to ELSE s = r
  <2> SUFFICES ASSUME NEW s \in Rows'
               PROVE  \E r \in Rows : /\ s.id = r.id /\ s.of = r.of
                                      /\ IF r.id = i \/ r.path = from THEN s.path = to ELSE s = r
    OBVIOUS
  <2>1. CASE s \in favs'
    BY <1>5, <2>1 DEF Rows
  <2>2. CASE s \in items'
    BY <1>6, <2>2 DEF Rows
  <2>3. CASE s \in tags'
    BY <1>7, <2>3 DEF Rows
  <2>4. CASE s \in views'
    BY <1>8, <2>4 DEF Rows
  <2> QED BY <2>1, <2>2, <2>3, <2>4 DEF Rows
<1> QED BY <1>1, <1>9, <1>10, <1>11, <1>12, <1>13

\* A row that is carried belongs to the image that is moved.
LEMMA CarriedOf ==
    ASSUME IInv, NEW c \in Callers, Leaving(c), Clean, NEW r, RowFits(r),
           r.id = req[c].id \/ r.path = From(c)
    PROVE  r.of = {Who(c).of}
<1>1. Kept /\ Going(c) /\ req[c].phase = "user" /\ MoveAt(c)
  BY DEF Clean, Leaving, IInv, MovesFit
<1>2. PICK i, from, x : i = req[c].id /\ from = From(c) /\ x = Who(c).of
  OBVIOUS
<1>3. /\ i \in Indexed /\ index[i].of = x /\ \A j \in Indexed : index[j].path # from
      /\ \A d \in Callers \ {c} : Going(d) => To(d) # To(c)
      /\ from \in Paths /\ from # Null
  <2>1. req[c].moved # NoPart /\ from \in Paths
    BY <1>1, <1>2, GoingIs
  <2>2. from # Null
    BY <2>1, NullAssumption
  <2> QED BY <1>1, <1>2, <2>1, <2>2 DEF MoveAt
<1>4. PICK y \in Contents : /\ r.of = {y}
                            /\ r.path # Null => IsAt(r.path, y)
                            /\ r.id \in Indexed => index[r.id].of = y
  BY DEF RowFits
<1>5. CASE r.id = i
  BY <1>2, <1>3, <1>4, <1>5
<1>6. CASE r.path = from
  <2>1. PICK j \in Indexed : index[j].of = y
    BY <1>1 DEF IInv, NothingLost, Kept
  <2>2. PICK d \in Callers : Leaving(d) /\ Who(d).of = y /\ from = From(d)
    BY <1>3, <1>4, <1>6, <2>1 DEF IsAt
  <2>3. d = c
    <3>1. Going(d) /\ To(d) = To(c)
      BY <1>2, <2>2 DEF Leaving, To
    <3> QED BY <1>3, <3>1
  <2> QED BY <1>2, <1>4, <2>2, <2>3
<1> QED BY <1>2, <1>5, <1>6

\* The user's tables following a move keep the invariant.
LEMMA MoveUserKeeps ==
    ASSUME IInv, NEW c \in Callers, MoveUser(c)
    PROVE  IInv'
<1>1. /\ req[c].op = "move" /\ req[c].phase = "user" /\ Going(c) /\ Leaving(c)
      /\ UNCHANGED <<index, disk, side, colls, home>>
      /\ \E result : EndMove(c, result)
      /\ \/ UNCHANGED user /\ past' = [past EXCEPT !.cut = TRUE]
         \/ /\ favs' = Carried(favs, req[c], From(c), To(c)) /\ items' = Carried(items, req[c], From(c), To(c))
            /\ tags' = Carried(tags, req[c], From(c), To(c)) /\ views' = Carried(views, req[c], From(c), To(c))
            /\ \A r, s \in tags' : r.path = s.path /\ r.path # Null => r = s
            /\ past' = past
  BY DEF MoveUser, Going, Leaving
<1>2. PICK q : req' = [req EXCEPT ![c] = q] /\ (q = Idle \/ (Relocation(q) /\ q.phase = "check" /\ q.who = {}))
  BY <1>1, EndsAs
<1>3. /\ past' \in [drift : BOOLEAN, cut : BOOLEAN, raced : BOOLEAN, overlapped : BOOLEAN,
                    overwrote : BOOLEAN]
      /\ past'.overlapped = past.overlapped /\ past'.drift = past.drift /\ past'.raced = past.raced
      /\ past'.cut \/ past' = past
  BY <1>1 DEF IInv, Tables
<1>4. (Kept' => Kept /\ past' = past) /\ (Clean' => Clean)
  BY <1>3 DEF Kept, Clean
<1>5. index' = index /\ disk' = disk /\ side' = side /\ Indexed' = Indexed
  BY <1>1 DEF Indexed
<1>6. past' = past => Grows
  BY NothingGrows
<1>7. TypeOK' /\ Tables'
  <2>1. {home'.page, home'.building} \subseteq {"none", "fresh", "stale"}
    BY <1>1, HomeStays
  <2>2. CASE UNCHANGED user
    BY <1>1, <1>3, <2>2, FilesFit DEF IInv, Tables
  <2>3. CASE ~UNCHANGED user
    <3>1. FavsFit' /\ ItemsFit' /\ TagsFit' /\ ViewsFit'
      BY <1>1, <2>3, CarriedFit
    <3> QED BY <1>1, <1>5, <1>6, <2>1, <2>3, <3>1, TablesFit
  <2> QED BY <2>2, <2>3
<1>8. req'[c] = q /\ ~Going(c)' /\ ~Leaving(c)'
  <2>1. req'[c] = q
    BY <1>2, Others
  <2>2. q = Idle \/ q.phase = "check"
    BY <1>2
  <2> QED BY <2>1, <2>2 DEF Going, Leaving, Idle
<1>9. \A d \in Callers : d # c => /\ req'[d] = req[d]
                                  /\ (Going(d)' <=> Going(d)) /\ (Leaving(d)' <=> Leaving(d))
                                  /\ Who(d)' = Who(d) /\ From(d)' = From(d) /\ To(d)' = To(d)
  BY <1>2, Others
<1>10. ReqsFit' /\ SeenFits' /\ WhosFit'
  <2>1. ReqsFit' /\ SeenFits'
    BY <1>2, <1>4, ReqsKept, SeenKept
  <2>2. q # Idle => \A w \in q.who : Kept => WhoFits(w)
    BY <1>2
  <2> QED BY <1>2, <1>4, <1>5, <1>8, <2>1, <2>2, WhosKept
<1>11. OnePlace' /\ NothingLost'
  <2>1. OnePlace'
    BY <1>5 DEF IInv, OnePlace
  <2>2. NothingLost'
    BY <1>3, <1>5, <1>8, <1>9 DEF IInv, NothingLost
  <2> QED BY <2>1, <2>2
<1>12. MovesFit'
  <2> SUFFICES ASSUME Kept', NEW d \in Callers, Going(d)' PROVE MoveAt(d)'
    BY DEF MovesFit
  <2>1. d # c /\ Going(d) /\ MoveAt(d) /\ Kept
    BY <1>4, <1>8, <1>9 DEF IInv, MovesFit
  <2>2. \A p, x : HasCard(p, x)' <=> HasCard(p, x)
    BY <1>5 DEF HasCard
  <2>3. \A e \in Callers \ {d} : Going(e)' => Going(e) /\ To(e)' = To(e)
    BY <1>8, <1>9
  <2> QED BY <1>5, <1>9, <2>1, <2>2, <2>3 DEF MoveAt
<1>13. CardsFit'
  <2> SUFFICES ASSUME Kept', NEW p \in Paths, disk[p] \in Tagged
               PROVE  HasCard(p, disk[p]) \/ \E d \in Callers : Going(d)' /\ req'[d].moved = Media /\ p = To(d)'
    BY <1>5 DEF CardsFit, HasCard
  <2>1. CASE HasCard(p, disk[p])
    BY <2>1
  <2>2. CASE \E d \in Callers : Going(d) /\ req[d].moved = Media /\ p = To(d)
    <3>1. PICK d \in Callers : Going(d) /\ req[d].moved = Media /\ p = To(d)
      BY <2>2
    <3>2. MoveAt(d)
      BY <1>4, <3>1 DEF IInv, MovesFit
    <3>3. disk[p] = Who(d).of
      BY <3>1, <3>2, PartsAre DEF MoveAt
    <3>4. req[d].phase \in {"files", "undo"}
      BY <3>1, <3>2, <3>3 DEF MoveAt
    <3>5. d # c
      BY <1>1, <3>4
    <3> QED BY <1>9, <3>1, <3>5
  <2> QED BY <1>4, <2>1, <2>2 DEF IInv, CardsFit
<1>14. IndexFits'
  BY <1>1, <1>4, <1>5, <1>9 DEF IInv, IndexFits
<1>15. RowsFit'
  <2> SUFFICES ASSUME Clean', NEW s \in Rows' PROVE RowFits(s)'
    BY DEF RowsFit
  <2>1. Clean /\ Kept /\ past' = past
    BY <1>4 DEF Clean, Kept
  <2>2. past'.cut = FALSE
    BY <2>1, <1>3 DEF Clean, Kept
  <2>3. PICK r \in Rows : /\ s.id = r.id /\ s.of = r.of
                          /\ IF r.id = req[c].id \/ r.path = From(c) THEN s.path = To(c) ELSE s = r
    <3>1. [past EXCEPT !.cut = TRUE].cut
      BY DEF IInv, Tables
    <3> QED BY <1>1, <2>2, <3>1, CarriedFit
  <2>4. RowFits(r)
    BY <2>1, RowsAre
  <2>5. PICK y \in Contents : /\ r.of = {y}
                              /\ r.path = Null => r.id \in Indexed
                              /\ r.path # Null => IsAt(r.path, y)
                              /\ r.id \in Indexed => index[r.id].of = y
    BY <2>4 DEF RowFits
  <2>6. CASE r.id = req[c].id \/ r.path = From(c)
    <3>1. y = Who(c).of
      BY <1>1, <2>1, <2>4, <2>5, <2>6, CarriedOf
    <3>2. MoveAt(c)
      BY <1>1, <2>1 DEF IInv, MovesFit
    <3>3. \A j \in Indexed : index[j].of = y => index[j].path = To(c)
      BY <1>1, <3>1, <3>2 DEF MoveAt, IInv, OnePlace
    <3>4. IsAt(s.path, y)'
      BY <1>5, <2>3, <2>6, <3>3 DEF IsAt
    <3>5. s.path # Null
      <4>1. To(c) \in Paths
        BY <1>1, GoingIs
      <4> QED BY <2>3, <2>6, <4>1, NullAssumption
    <3> QED BY <1>5, <2>3, <2>5, <3>4, <3>5 DEF RowFits
  <2>7. CASE ~(r.id = req[c].id \/ r.path = From(c))
    <3>1. s = r
      BY <2>3, <2>7
    <3>2. s.path # Null => IsAt(s.path, y)'
      BY <1>5, <1>9, <2>5, <2>7, <3>1 DEF IsAt
    <3> QED BY <1>5, <2>5, <3>1, <3>2 DEF RowFits
  <2> QED BY <2>6, <2>7
<1> QED BY <1>7, <1>10, <1>11, <1>12, <1>13, <1>14, <1>15 DEF IInv

-----------------------------------------------------------------------------
(* Rebuilds and restarts.                                                  *)

\* An index built from what is on disk.
BuiltFrom(f) ==
    /\ \A p \in DOMAIN f : p \in Paths /\ disk[p] # Null /\ f[p] \in Ids
    /\ \A p \in Paths : disk[p] # Null => p \in DOMAIN f
    /\ \A p, r \in DOMAIN f : f[p] = f[r] => p = r
    /\ \A p \in DOMAIN f : f[p] \in Indexed'
    /\ \A i \in Indexed' : \E p \in DOMAIN f : /\ f[p] = i
                                               /\ index'[i] = [path |-> p, md5 |-> Md5[disk[p]], of |-> disk[p]]

\* A rebuild is one, whatever ids it gives.
LEMMA RebuiltIs ==
    ASSUME Rebuild
    PROVE  /\ \E f : BuiltFrom(f)
           /\ index' \in [Indexed' -> {index'[i] : i \in Indexed'}]
<1>1. PICK found : found = {p \in Paths : disk[p] # Null}
  OBVIOUS
<1>2. PICK f \in [found -> Ids] :
          /\ \A p, r \in found : f[p] = f[r] => p = r
          /\ index' = [i \in {f[p] : p \in found} |->
                              LET p == CHOOSE r \in found : f[r] = i
                              IN  [path |-> p, md5 |-> Md5[disk[p]], of |-> disk[p]]]
  BY <1>1 DEF Rebuild
<1>3. Indexed' = {f[p] : p \in found}
  BY <1>2 DEF Indexed
<1>4. ASSUME NEW i \in Indexed'
      PROVE  \E p \in found : f[p] = i /\ index'[i] = [path |-> p, md5 |-> Md5[disk[p]], of |-> disk[p]]
  <2>1. PICK p : p = CHOOSE r \in found : f[r] = i
    OBVIOUS
  <2>2. p \in found /\ f[p] = i
    BY <1>3, <1>4, <2>1
  <2>3. index'[i] = [path |-> p, md5 |-> Md5[disk[p]], of |-> disk[p]]
    BY <1>2, <1>3, <1>4, <2>1
  <2> QED BY <2>2, <2>3
<1>5. DOMAIN f = found
  OBVIOUS
<1>6. BuiltFrom(f)
  <2>1. \A p \in DOMAIN f : p \in Paths /\ disk[p] # Null /\ f[p] \in Ids
    BY <1>1, <1>5
  <2>2. \A p \in Paths : disk[p] # Null => p \in DOMAIN f
    BY <1>1, <1>5
  <2>3. \A p, r \in DOMAIN f : f[p] = f[r] => p = r
    BY <1>2, <1>5
  <2>4. \A p \in DOMAIN f : f[p] \in Indexed'
    BY <1>3, <1>5
  <2>5. \A i \in Indexed' : \E p \in DOMAIN f :
            f[p] = i /\ index'[i] = [path |-> p, md5 |-> Md5[disk[p]], of |-> disk[p]]
    BY <1>4, <1>5
  <2> QED BY <2>1, <2>2, <2>3, <2>4, <2>5 DEF BuiltFrom
<1>7. index' \in [Indexed' -> {index'[i] : i \in Indexed'}]
  BY <1>2, <1>3
<1> QED BY <1>6, <1>7

\* The new index names every image on disk, once, at its place.
LEMMA RebuiltFits ==
    ASSUME IInv, Rebuild
    PROVE  /\ Indexed' \subseteq Ids /\ index' \in [Indexed' -> File]
           /\ \A i \in Indexed' : /\ index'[i].path \in Paths /\ index'[i].of \in Contents
                                  /\ disk[index'[i].path] = index'[i].of
           /\ \A i, j \in Indexed' : index'[i].path = index'[j].path => i = j
           /\ \A i, j \in Indexed' : index'[i].of = index'[j].of => i = j
           /\ \A p \in Paths : disk[p] # Null => \E i \in Indexed' : index'[i].of = disk[p]
<1>1. PICK f : BuiltFrom(f)
  BY RebuiltIs
<1>2. disk \in [Paths -> Contents \cup {Null}] /\ \A p, r \in Paths : disk[p] = disk[r] /\ disk[p] # Null => p = r
  BY DEF IInv, Tables, OnePlace
<1>3. \A i \in Indexed' : \E p \in DOMAIN f :
          /\ f[p] = i /\ p \in Paths /\ disk[p] \in Contents /\ i \in Ids
          /\ index'[i] \in File /\ index'[i].path = p /\ index'[i].of = disk[p]
  <2> SUFFICES ASSUME NEW i \in Indexed'
               PROVE  \E p \in DOMAIN f :
                        /\ f[p] = i /\ p \in Paths /\ disk[p] \in Contents /\ i \in Ids
                        /\ index'[i] \in File /\ index'[i].path = p /\ index'[i].of = disk[p]
    OBVIOUS
  <2>1. PICK p \in DOMAIN f : f[p] = i /\ index'[i] = [path |-> p, md5 |-> Md5[disk[p]], of |-> disk[p]]
    BY <1>1 DEF BuiltFrom
  <2>2. p \in Paths /\ disk[p] \in Contents /\ i \in Ids
    BY <1>1, <1>2, <2>1 DEF BuiltFrom
  <2>3. Md5[disk[p]] \in Hashes
    BY <2>2 DEF Hashes
  <2> QED BY <2>1, <2>2, <2>3 DEF File
<1>4. index' \in [Indexed' -> File] /\ Indexed' \subseteq Ids
  BY <1>3, RebuiltIs
<1>5. \A i, j \in Indexed' : index'[i].of = index'[j].of => i = j
  <2> SUFFICES ASSUME NEW i \in Indexed', NEW j \in Indexed', index'[i].of = index'[j].of PROVE i = j
    OBVIOUS
  <2>1. PICK p \in DOMAIN f : f[p] = i /\ p \in Paths /\ disk[p] \in Contents /\ index'[i].of = disk[p]
    BY <1>3
  <2>2. PICK r \in DOMAIN f : f[r] = j /\ r \in Paths /\ index'[j].of = disk[r]
    BY <1>3
  <2> QED BY <1>2, <2>1, <2>2, NullAssumption
<1>6. \A i, j \in Indexed' : index'[i].path = index'[j].path => i = j
  BY <1>3
<1>7. \A p \in Paths : disk[p] # Null => \E i \in Indexed' : index'[i].of = disk[p]
  <2> SUFFICES ASSUME NEW p \in Paths, disk[p] # Null PROVE \E i \in Indexed' : index'[i].of = disk[p]
    OBVIOUS
  <2>1. p \in DOMAIN f /\ f[p] \in Indexed'
    BY <1>1 DEF BuiltFrom
  <2>2. PICK r \in DOMAIN f : f[r] = f[p] /\ index'[f[p]].of = disk[r]
    BY <1>3, <2>1
  <2>3. r = p
    BY <1>1, <2>1, <2>2 DEF BuiltFrom
  <2> QED BY <2>1, <2>2, <2>3
<1> QED BY <1>3, <1>4, <1>5, <1>6, <1>7

\* Rebuilding the index from the files keeps the invariant.
LEMMA RebuildKeeps ==
    ASSUME IInv, Rebuild
    PROVE  IInv'
<1>1. /\ disk' = disk /\ side' = side /\ favs' = favs /\ items' = items /\ tags' = tags /\ views' = views
      /\ colls' = colls /\ home' = home /\ req' = req /\ Rows' = Rows /\ Live' = Live
  BY DEF Rebuild, user, Rows, Live
<1>2. PICK d \in BOOLEAN, m \in BOOLEAN :
          /\ d = (past.drift \/ \E r \in Rows : Strays(r, index'))
          /\ m = (past.cut \/ \E c \in Moving : req[c].phase # "check")
          /\ past' = [past EXCEPT !.drift = d, !.cut = m]
  BY DEF Rebuild, IInv, Tables
<1>3. /\ past' \in [drift : BOOLEAN, cut : BOOLEAN, raced : BOOLEAN, overlapped : BOOLEAN,
                    overwrote : BOOLEAN]
      /\ past'.drift = d /\ past'.cut = m /\ past'.raced = past.raced /\ past'.overlapped = past.overlapped
  BY <1>2 DEF IInv, Tables
<1>4. \A c \in Callers : /\ (Going(c)' <=> Going(c)) /\ (Leaving(c)' <=> Leaving(c))
                         /\ Who(c)' = Who(c) /\ From(c)' = From(c) /\ To(c)' = To(c)
  BY <1>1 DEF Going, Leaving, Who, From, To
<1>5. ASSUME Kept' PROVE Kept /\ \A c \in Callers : ~Going(c) /\ ~Leaving(c)
  BY <1>2, <1>3, <1>5 DEF Kept, Going, Leaving, Moving
<1>6. /\ Indexed' \subseteq Ids /\ index' \in [Indexed' -> File]
      /\ \A i \in Indexed' : /\ index'[i].path \in Paths /\ index'[i].of \in Contents
                             /\ disk[index'[i].path] = index'[i].of
      /\ \A i, j \in Indexed' : index'[i].path = index'[j].path => i = j
      /\ \A i, j \in Indexed' : index'[i].of = index'[j].of => i = j
      /\ \A p \in Paths : disk[p] # Null => \E i \in Indexed' : index'[i].of = disk[p]
  BY RebuiltFits
<1>7. TypeOK' /\ Tables'
  <2>1. \A k \in Colls : In(k)' = In(k)
    BY <1>1 DEF In
  <2>2. TypeOK'
    BY <1>1, <1>6, <2>1 DEF IInv, TypeOK, Unique
  <2>3. Tables'
    BY <1>1, <1>3, <1>6 DEF IInv, Tables
  <2> QED BY <2>2, <2>3
<1>8. ReqsFit'
  BY <1>1 DEF IInv, ReqsFit
<1>9. OnePlace'
  BY <1>1, <1>6 DEF IInv, OnePlace
<1>10. NothingLost'
  <2> SUFFICES ASSUME ~past'.overlapped, NEW x \in Contents
               PROVE  /\ \E p \in Paths : disk[p] = x
                      /\ \E i \in Indexed' : index'[i].of = x
    BY <1>1, <1>3, <1>4 DEF IInv, NothingLost
  <2>1. PICK p \in Paths : disk[p] = x
    BY <1>3 DEF IInv, NothingLost
  <2>2. x # Null
    BY NullAssumption
  <2> QED BY <1>6, <2>1, <2>2
<1>11. MovesFit'
  BY <1>4, <1>5 DEF MovesFit
<1>12. CardsFit'
  BY <1>1, <1>5 DEF IInv, CardsFit, HasCard
<1>13. IndexFits'
  BY <1>1, <1>6 DEF IndexFits
\* A file of the new index had a row in the old one.
<1>14. ASSUME Kept', NEW i \in Indexed'
       PROVE  \E j \in Indexed : index[j].path = index'[i].path /\ index[j].of = index'[i].of
  <2>1. PICK j \in Indexed : index[j].of = index'[i].of
    BY <1>5, <1>6, <1>14 DEF IInv, NothingLost, Kept
  <2>2. disk[index[j].path] = index[j].of /\ index[j].path \in Paths
    BY <1>5, <1>14 DEF IInv, IndexFits, TypeOK
  <2>3. index[j].path = index'[i].path
    BY <1>6, <2>1, <2>2, NullAssumption DEF IInv, OnePlace
  <2> QED BY <2>1, <2>3
<1>15. WhosFit'
  <2> SUFFICES ASSUME Kept', NEW c \in Callers, req[c] # Idle, NEW w \in req[c].who
               PROVE  WhoFits(w)'
    BY <1>1 DEF WhosFit
  <2>1. WhoFits(w)
    BY <1>5 DEF IInv, WhosFit
  <2>2. ASSUME NEW i \in Indexed'
        PROVE  /\ index'[i].path = w.path => index'[i].of = w.of
               /\ index'[i].of = w.of => \/ index'[i].path = w.path
                                         \/ ~InRoot(w.path) /\ InRoot(index'[i].path)
    <3>1. PICK j \in Indexed : index[j].path = index'[i].path /\ index[j].of = index'[i].of
      BY <1>14
    <3> QED BY <2>1, <3>1 DEF WhoFits
  <2>3. \A e \in Callers : ~Leaving(e)'
    BY <1>4, <1>5
  <2> QED BY <2>2, <2>3 DEF WhoFits, InRoot
<1>16. RowsFit'
  <2> SUFFICES ASSUME Clean', NEW r \in Rows PROVE RowFits(r)'
    BY <1>1 DEF RowsFit
  <2>1. Kept' /\ Clean /\ ~Strays(r, index')
    BY <1>2, <1>3, <1>5 DEF Clean
  <2>2. RowFits(r)
    BY <2>1, RowsAre
  <2>3. PICK x \in Contents : /\ r.of = {x}
                              /\ r.path # Null => IsAt(r.path, x)
                              /\ r.id \in Indexed => index[r.id].of = x
    BY <2>2 DEF RowFits
  <2>4. /\ r.path = Null => r.id \in Indexed'
        /\ r.id \in Indexed' => index'[r.id].of = x
    BY <2>1, <2>3 DEF Strays, Indexed
  <2>5. ASSUME r.path # Null, NEW i \in Indexed', index'[i].of = x PROVE r.path = index'[i].path
    <3>1. PICK j \in Indexed : index[j].path = index'[i].path /\ index[j].of = index'[i].of
      BY <1>14, <2>1
    <3> QED BY <1>5, <2>1, <2>3, <2>5, <3>1 DEF IsAt
  <2>6. r.path # Null => IsAt(r.path, x)'
    BY <2>5 DEF IsAt
  <2> QED BY <2>3, <2>4, <2>6 DEF RowFits
<1>17. SeenFits'
  <2>1. Clean' => Clean
    BY <1>2, <1>3, <1>5 DEF Clean
  <2> QED BY <1>1, <1>4, <2>1 DEF IInv, SeenFits
<1> QED BY <1>7, <1>8, <1>9, <1>10, <1>11, <1>12, <1>13, <1>15, <1>16, <1>17 DEF IInv

\* Filling a row gives it the place of the file with its id.
Filled(r) == IF r.path = Null /\ r.id \in Indexed
             THEN [r EXCEPT !.path = index[r.id].path, !.md5 = index[r.id].md5] ELSE r

\* Rows that have a place are left alone.
LEMMA NothingFilled ==
    ASSUME NEW T, \A r \in T : r.path # Null
    PROVE  Backfilled(T) = T
<1>1. \A r \in T : (IF r.path = Null /\ r.id \in Indexed
                    THEN [r EXCEPT !.path = index[r.id].path, !.md5 = index[r.id].md5] ELSE r) = r
  OBVIOUS
<1>2. Backfilled(T) = {r : r \in T}
  BY <1>1 DEF Backfilled
<1> QED BY <1>2

\* A filled favourite has the place and the hash of the file with its id.
LEMMA FilledIs ==
    ASSUME IInv, NEW s \in Backfilled(favs)
    PROVE  \E r \in favs : /\ s = Filled(r) /\ s \in FavRow /\ s.id = r.id /\ s.of = r.of
                           /\ IF r.path = Null /\ r.id \in Indexed
                              THEN s.path = index[r.id].path /\ s.path # Null ELSE s = r
<1>1. PICK r \in favs : s = Filled(r)
  BY DEF Backfilled, Filled
<1>2. r \in FavRow
  BY DEF IInv, Tables
<1>3. CASE r.path = Null /\ r.id \in Indexed
  <2>1. PICK p, m : p = index[r.id].path /\ m = index[r.id].md5
    OBVIOUS
  <2>2. p \in Paths /\ m \in Hashes
    BY <1>3, <2>1 DEF IInv, Tables, File
  <2>3. s = [r EXCEPT !.path = p, !.md5 = m]
    BY <1>1, <1>3, <2>1 DEF Filled
  <2>4. s \in FavRow /\ s.id = r.id /\ s.of = r.of /\ s.path = p
    BY <1>2, <2>2, <2>3 DEF FavRow
  <2> QED BY <1>1, <1>3, <2>1, <2>2, <2>4, NullAssumption
<1>4. CASE ~(r.path = Null /\ r.id \in Indexed)
  BY <1>1, <1>2, <1>4 DEF Filled
<1> QED BY <1>3, <1>4

\* A kill and the next start keep the invariant.
LEMMA RestartKeeps ==
    ASSUME IInv, Restart
    PROVE  IInv'
<1>1. /\ index' = index /\ disk' = disk /\ side' = side /\ colls' = colls
      /\ req' = [c \in Callers |-> Idle] /\ home' = [page |-> "none", building |-> "none"]
      /\ favs' = Backfilled(favs)
      /\ Indexed' = Indexed /\ Live' = Live
  BY DEF Restart, Indexed, Live
<1>2. items' = items /\ tags' = tags /\ views' = views
  <2>1. /\ \A r \in items : r.path # Null
        /\ \A r \in tags : r.path # Null
        /\ \A r \in views : r.path # Null
    BY NullAssumption DEF IInv, Tables, ItemRow, TagRow, Counts
  <2>2. /\ items' = Backfilled(items) /\ tags' = Backfilled(tags) /\ views' = Backfilled(views)
    BY DEF Restart
  <2> QED BY <2>1, <2>2, NothingFilled
<1>3. PICK m \in BOOLEAN :
          /\ m = (past.cut \/ \E c \in Moving : req[c].moved # <<>>)
          /\ past' = [past EXCEPT !.cut = m]
  BY DEF Restart, IInv, Tables
<1>4. /\ past' \in [drift : BOOLEAN, cut : BOOLEAN, raced : BOOLEAN, overlapped : BOOLEAN,
                    overwrote : BOOLEAN]
      /\ past'.drift = past.drift /\ past'.cut = m /\ past'.raced = past.raced
      /\ past'.overlapped = past.overlapped
  BY <1>3 DEF IInv, Tables
<1>5. \A c \in Callers : req'[c] = Idle /\ ~Going(c)' /\ ~Leaving(c)'
  BY <1>1 DEF Going, Leaving, Idle
<1>6. ASSUME Kept'
      PROVE  Kept /\ \A c \in Callers : Going(c) => req[c].moved = NoPart /\ ~Leaving(c)
  <2>1. Kept /\ \A c \in Moving : req[c].moved = NoPart
    BY <1>3, <1>4, <1>6 DEF Kept, NoPart
  <2>2. ASSUME NEW c \in Callers, Going(c) PROVE req[c].moved = NoPart /\ ~Leaving(c)
    <3>1. req[c].moved = NoPart
      BY <2>1, <2>2 DEF Going, Moving
    <3>2. req[c].phase # "user"
      BY <2>2, <3>1, GoingIs
    <3> QED BY <3>1, <3>2 DEF Leaving
  <2> QED BY <2>1, <2>2
<1>7. \A s \in favs' : \E r \in favs :
          /\ s = Filled(r) /\ s \in FavRow /\ s.id = r.id /\ s.of = r.of
          /\ IF r.path = Null /\ r.id \in Indexed
             THEN s.path = index[r.id].path /\ s.path # Null ELSE s = r
  BY <1>1, FilledIs
<1>8. FavsFit'
  <2>1. FavsFit
    BY TablesAre
  <2>2. Unique(favs')
    BY <1>7, <2>1 DEF FavsFit, Unique
  <2>3. favs' \subseteq FavRow /\ \A s \in favs' : s.path = Null => s.md5 = Null
    BY <1>7, <2>1 DEF FavsFit
  <2> QED BY <2>2, <2>3 DEF FavsFit, Unique
<1>9. TypeOK' /\ Tables'
  <2>1. ItemsFit' /\ TagsFit' /\ ViewsFit'
    BY <1>1, <1>2, TablesStayFit
  <2>2. Tables'
    BY <1>1, <1>2, <1>4, <1>8 DEF IInv, Tables, FavsFit
  <2>3. {home'.page, home'.building} \subseteq {"none", "fresh", "stale"}
    BY <1>1
  <2>4. TypeOK'
    BY <1>1, <1>8, <2>1, <2>3 DEF IInv, TypeOK, FavsFit, ItemsFit, TagsFit, ViewsFit
  <2> QED BY <2>2, <2>4
<1>10. ReqsFit' /\ WhosFit' /\ SeenFits' /\ MovesFit'
  <2>1. ReqsFit'
    <3>1. req' \in [Callers -> {req'[c] : c \in Callers}]
      BY <1>1
    <3> QED BY <1>5, <3>1 DEF ReqsFit
  <2>2. WhosFit' /\ MovesFit'
    BY <1>5 DEF WhosFit, MovesFit
  <2>3. SeenFits'
    BY <1>5 DEF SeenFits, Idle, Counting
  <2> QED BY <2>1, <2>2, <2>3
<1>11. OnePlace' /\ NothingLost'
  BY <1>1, <1>4, <1>5 DEF IInv, OnePlace, NothingLost
<1>12. CardsFit'
  BY <1>1, <1>6, PartsAre DEF IInv, CardsFit, HasCard
<1>13. IndexFits'
  BY <1>1, <1>6 DEF IInv, IndexFits
<1>14. RowsFit'
  <2> SUFFICES ASSUME Clean', NEW s \in Rows' PROVE RowFits(s)'
    BY DEF RowsFit
  <2>1. Clean /\ Kept' /\ Kept
    BY <1>4, <1>6 DEF Clean
  <2>2. \A c \in Callers : ~Leaving(c)
    BY <1>6, <2>1 DEF Leaving
  <2>3. PICK r \in Rows : /\ s.id = r.id /\ s.of = r.of
                          /\ s = r \/ (/\ r.path = Null /\ r.id \in Indexed /\ s.path # Null
                                       /\ s.path = index[r.id].path)
    <3>1. CASE s \in favs'
      <4>1. PICK r \in favs : /\ s.id = r.id /\ s.of = r.of
                              /\ IF r.path = Null /\ r.id \in Indexed
                                 THEN s.path = index[r.id].path /\ s.path # Null ELSE s = r
        BY <1>7, <3>1
      <4> QED BY <4>1 DEF Rows
    <3>2. CASE s \notin favs'
      BY <1>2, <3>2 DEF Rows
    <3> QED BY <3>1, <3>2
  <2>4. RowFits(r)
    BY <2>1, RowsAre
  <2>5. PICK x \in Contents : /\ r.of = {x}
                              /\ r.path = Null => r.id \in Indexed
                              /\ r.path # Null => IsAt(r.path, x)
                              /\ r.id \in Indexed => index[r.id].of = x
    BY <2>4 DEF RowFits
  <2>6. s.path # Null => IsAt(s.path, x)'
    <3>1. CASE s = r
      BY <1>1, <2>2, <2>5, <3>1 DEF IsAt
    <3>2. CASE r.path = Null /\ r.id \in Indexed /\ s.path = index[r.id].path
      BY <1>1, <2>5, <3>2 DEF IsAt, IInv, OnePlace
    <3> QED BY <2>3, <3>1, <3>2
  <2> QED BY <1>1, <2>3, <2>5, <2>6 DEF RowFits
<1> QED BY <1>9, <1>10, <1>11, <1>12, <1>13, <1>14 DEF IInv

-----------------------------------------------------------------------------
(* The inductive invariant.                                                *)

\* The index of the first state names each image once, at its home.
LEMMA FirstIndex ==
    ASSUME Init
    PROVE  /\ Indexed \subseteq Ids /\ index \in [Indexed -> File]
           /\ \A i \in Indexed : index[i].of \in Contents /\ index[i].path = Homes[index[i].of]
           /\ \A i, j \in Indexed : index[i].of = index[j].of => i = j
           /\ \A x \in Contents : \E i \in Indexed : index[i].of = x
<1>1. PICK f \in [Contents -> Ids] :
          /\ \A c, d \in Contents : f[c] = f[d] => c = d
          /\ index = [i \in {f[c] : c \in Contents} |->
                         LET c == CHOOSE d \in Contents : f[d] = i
                         IN  [path |-> Homes[c], md5 |-> Md5[c], of |-> c]]
  BY DEF Init
<1>2. Indexed = {f[c] : c \in Contents}
  BY <1>1 DEF Indexed
<1>3. ASSUME NEW i \in Indexed
      PROVE  \E c \in Contents : /\ f[c] = i /\ index[i] \in File
                                 /\ index[i].of = c /\ index[i].path = Homes[c]
  <2>1. PICK c : c = CHOOSE d \in Contents : f[d] = i
    OBVIOUS
  <2>2. c \in Contents /\ f[c] = i
    BY <1>2, <1>3, <2>1
  <2>3. index[i] = [path |-> Homes[c], md5 |-> Md5[c], of |-> c]
    BY <1>1, <1>2, <1>3, <2>1
  <2>4. Homes[c] \in Paths /\ Md5[c] \in Hashes
    BY <2>2, ImageAssumption DEF Hashes
  <2> QED BY <2>2, <2>3, <2>4 DEF File
<1>4. index \in [Indexed -> File]
  BY <1>1, <1>2, <1>3
<1>5. \A x \in Contents : \E i \in Indexed : index[i].of = x
  <2> SUFFICES ASSUME NEW x \in Contents PROVE \E i \in Indexed : index[i].of = x
    OBVIOUS
  <2>1. f[x] \in Indexed
    BY <1>2
  <2>2. PICK c \in Contents : f[c] = f[x] /\ index[f[x]].of = c
    BY <1>3, <2>1
  <2> QED BY <1>1, <2>1, <2>2
<1>6. \A i, j \in Indexed : index[i].of = index[j].of => i = j
  BY <1>3
<1> QED BY <1>2, <1>3, <1>4, <1>5, <1>6

\* Each image lies at its home at first, with its card.
LEMMA FirstFiles ==
    ASSUME Init
    PROVE  /\ disk \in [Paths -> Contents \cup {Null}] /\ side \in [Paths -> Card \cup {Null}]
           /\ \A p \in Paths : disk[p] # Null => disk[p] \in Contents /\ Homes[disk[p]] = p
           /\ \A x \in Contents : disk[Homes[x]] = x
           /\ \A p \in Paths : disk[p] \in Tagged => HasCard(p, disk[p])
<1>1. /\ disk = [p \in Paths |-> IF \E c \in Contents : Homes[c] = p
                                 THEN CHOOSE c \in Contents : Homes[c] = p ELSE Null]
      /\ side = [p \in Paths |-> IF disk[p] \in Tagged THEN [of |-> disk[p], names |-> p] ELSE Null]
  BY DEF Init
<1>2. \A p \in Paths : \/ disk[p] \in Contents /\ Homes[disk[p]] = p
                       \/ disk[p] = Null /\ ~\E c \in Contents : Homes[c] = p
  BY <1>1
<1>3. disk \in [Paths -> Contents \cup {Null}]
  BY <1>1, <1>2
<1>4. \A x \in Contents : disk[Homes[x]] = x
  BY <1>2, ImageAssumption
<1>5. \A p \in Paths : disk[p] \in Tagged => side[p] = [of |-> disk[p], names |-> p] /\ side[p] \in Card
  BY <1>1, ImageAssumption DEF Card
<1>6. side \in [Paths -> Card \cup {Null}]
  BY <1>1, <1>5
<1>7. \A p \in Paths : disk[p] \in Tagged => HasCard(p, disk[p])
  <2>1. Null \notin Card
    BY NullAssumption DEF Card
  <2>2. ASSUME NEW p \in Paths, disk[p] \in Tagged PROVE side[p].of = disk[p]
    <3>1. side[p] = [of |-> disk[p], names |-> p]
      BY <1>5, <2>2
    <3> QED BY <3>1
  <2> QED BY <1>5, <2>1, <2>2 DEF HasCard
<1> QED BY <1>2, <1>3, <1>4, <1>6, <1>7

\* A favourite there may be from before rows had paths.
LEMMA FirstRows ==
    ASSUME Init
    PROVE  /\ items = {} /\ tags = {} /\ views = {}
           /\ \E c \in Contents, i \in Ids :
                 \A r \in favs : r = [id |-> i, path |-> Null, md5 |-> Null, of |-> {c}, pinned |-> FALSE]
           /\ past \in [drift : BOOLEAN, cut : BOOLEAN, raced : BOOLEAN, overlapped : BOOLEAN,
                        overwrote : BOOLEAN]
           /\ ~past.drift => \A r \in favs : ~Strays(r, index)
<1>1. PICK c \in Contents, i \in Ids, d \in BOOLEAN :
          /\ favs \subseteq {[id |-> i, path |-> Null, md5 |-> Null, of |-> {c}, pinned |-> FALSE]}
          /\ d = (\E r \in favs : Strays(r, index))
          /\ past = [NoPast EXCEPT !.drift = d]
  BY DEF Init
<1>2. past = [NoPast EXCEPT !.drift = d]
  BY <1>1
<1>3. past = [drift |-> d, cut |-> FALSE, raced |-> FALSE, overlapped |-> FALSE, overwrote |-> FALSE]
  BY <1>2 DEF NoPast
<1>4. /\ past \in [drift : BOOLEAN, cut : BOOLEAN, raced : BOOLEAN, overlapped : BOOLEAN,
                   overwrote : BOOLEAN]
      /\ past.drift = d
  BY <1>3
<1>5. \A r \in favs : r = [id |-> i, path |-> Null, md5 |-> Null, of |-> {c}, pinned |-> FALSE]
  BY <1>1
<1>6. items = {} /\ tags = {} /\ views = {}
  BY DEF Init
<1> QED BY <1>1, <1>4, <1>5, <1>6

\* The invariant holds at the start.
LEMMA InitKeeps == ASSUME Init PROVE IInv
<1>1. /\ Indexed \subseteq Ids /\ index \in [Indexed -> File]
      /\ \A i \in Indexed : index[i].of \in Contents /\ index[i].path = Homes[index[i].of]
      /\ \A i, j \in Indexed : index[i].of = index[j].of => i = j
      /\ \A x \in Contents : \E i \in Indexed : index[i].of = x
  BY FirstIndex
<1>2. /\ disk \in [Paths -> Contents \cup {Null}] /\ side \in [Paths -> Card \cup {Null}]
      /\ \A p \in Paths : disk[p] # Null => disk[p] \in Contents /\ Homes[disk[p]] = p
      /\ \A x \in Contents : disk[Homes[x]] = x
      /\ \A p \in Paths : disk[p] \in Tagged => HasCard(p, disk[p])
  BY FirstFiles
<1>3. /\ items = {} /\ tags = {} /\ views = {}
      /\ past \in [drift : BOOLEAN, cut : BOOLEAN, raced : BOOLEAN, overlapped : BOOLEAN,
                   overwrote : BOOLEAN]
      /\ ~past.drift => \A r \in favs : ~Strays(r, index)
  BY FirstRows
<1>4. PICK x \in Contents, n \in Ids :
          \A r \in favs : r = [id |-> n, path |-> Null, md5 |-> Null, of |-> {x}, pinned |-> FALSE]
  BY FirstRows
<1>5. /\ \A c \in Callers : req[c] = Idle /\ ~Going(c) /\ ~Leaving(c)
      /\ req \in [Callers -> {req[c] : c \in Callers}]
      /\ colls = [k \in Colls |-> "new"] /\ home = [page |-> "none", building |-> "none"]
  BY DEF Init, Going, Leaving, Idle
<1>6. /\ favs \subseteq FavRow /\ Unique(favs)
      /\ \A r \in favs : r.id = n /\ r.path = Null /\ r.md5 = Null /\ r.of = {x}
  <2>1. PICK s : s = [id |-> n, path |-> Null, md5 |-> Null, of |-> {x}, pinned |-> FALSE]
    OBVIOUS
  <2>2. s.id = n /\ s.path = Null /\ s.md5 = Null /\ s.of = {x}
    BY <2>1
  <2>3. s \in FavRow
    BY <2>1 DEF FavRow, Hashes
  <2>4. \A r \in favs : r = s
    BY <1>4, <2>1
  <2> QED BY <2>2, <2>3, <2>4 DEF Unique
<1>7. \A i \in Indexed : index[i].path \in Paths /\ disk[index[i].path] = index[i].of
  BY <1>1, <1>2, ImageAssumption
<1>8. TypeOK
  <2>1. \A k \in Colls : Unique(In(k))
    BY <1>3 DEF Unique, In
  <2>2. Unique(views)
    BY <1>3 DEF Unique
  <2>3. \A i, j \in Indexed : index[i].path = index[j].path => i = j
    BY <1>1, ImageAssumption
  <2>4. {r.coll : r \in items} \subseteq Live /\ \A r, s \in tags : r.path = s.path /\ r.path # Null => r = s
    BY <1>3
  <2>5. {home.page, home.building} \subseteq {"none", "fresh", "stale"}
    BY <1>5
  <2> QED BY <1>1, <1>2, <1>6, <1>7, <2>1, <2>2, <2>3, <2>4, <2>5 DEF TypeOK
<1>9. Tables
  <2>1. items \subseteq ItemRow /\ tags \subseteq TagRow /\ \A r \in views : Counts(r)
    BY <1>3
  <2>2. colls \in [Colls -> {"new", "plain", "pinned", "gone"}]
    BY <1>5
  <2> QED BY <1>1, <1>2, <1>3, <1>6, <2>1, <2>2 DEF Tables
<1>10. ReqsFit /\ MovesFit /\ WhosFit /\ SeenFits
  <2>1. ReqsFit
    BY <1>5 DEF ReqsFit
  <2>2. MovesFit /\ WhosFit
    BY <1>5 DEF MovesFit, WhosFit
  <2>3. SeenFits
    BY <1>5 DEF SeenFits, Idle, Counting
  <2> QED BY <2>1, <2>2, <2>3
<1>11. OnePlace
  <2>1. \A p, r \in Paths : disk[p] = disk[r] /\ disk[p] # Null => p = r
    BY <1>2
  <2> QED BY <1>1, <2>1 DEF OnePlace
<1>12. NothingLost
  BY <1>1, <1>2, <1>5, ImageAssumption DEF NothingLost
<1>13. CardsFit /\ IndexFits
  BY <1>2, <1>7 DEF CardsFit, IndexFits
<1>14. RowsFit
  <2> SUFFICES ASSUME Clean, NEW r \in Rows PROVE RowFits(r)
    BY DEF RowsFit
  <2>1. r \in favs /\ ~Strays(r, index)
    BY <1>3 DEF Rows, Clean
  <2>2. r.id \in Indexed /\ index[r.id].of = x
    BY <1>6, <2>1 DEF Strays, Indexed
  <2> QED BY <1>6, <2>1, <2>2 DEF RowFits
<1> QED BY <1>8, <1>9, <1>10, <1>11, <1>12, <1>13, <1>14 DEF IInv

\* Nothing happens.
LEMMA StaysKeeps == ASSUME IInv, UNCHANGED vars PROVE IInv'
<1>1. req' = req /\ UNCHANGED <<index, disk, side, user, colls, past>> /\ home' = home
  BY DEF vars
<1>2. {home'.page, home'.building} \subseteq {"none", "fresh", "stale"}
  BY <1>1 DEF IInv, TypeOK
<1> QED BY <1>1, <1>2, Refused

\* Every step of a request keeps the invariant.
LEMMA PerCallerKeeps ==
    ASSUME IInv, NEW c \in Callers, PerCaller(c)
    PROVE  IInv'
<1>1. CASE \E i \in Ids : \E op \in {"toggle", "pin", "view", "heart", "tag", "untag"} : Identify(c, op, i)
  BY <1>1, IdentifyKeeps
<1>2. CASE \E I \in SUBSET Ids \ {{}} : \E op \in {"add", "remove"} : IdentifyBatch(c, op, I)
  BY <1>2, IdentifyBatchKeeps
<1>3. CASE \E I \in SUBSET Ids \ {{}} : \E i \in I : \E op \in {"put", "take"} : \E k \in Colls :
               IdentifyItems(c, op, k, I, i)
  <2>1. PICK I \in SUBSET Ids, i \in Ids, op \in {"put", "take"}, k \in Colls : IdentifyItems(c, op, k, I, i)
    BY <1>3
  <2> QED BY <2>1, IdentifyItemsKeeps
<1>4. CASE \E i \in Ids : \E k \in Colls : IdentifyItems(c, "hold", k, {i}, i)
  <2>1. PICK i \in Ids, k \in Colls : IdentifyItems(c, "hold", k, {i}, i)
    BY <1>4
  <2>2. PICK I \in SUBSET Ids : I = {i}
    OBVIOUS
  <2> QED BY <2>1, <2>2, IdentifyItemsKeeps
<1>5. CASE IdentifyNext(c) \/ Look(c) \/ LookForClash(c)
  BY <1>5, IdentifyNextKeeps, LookKeeps, LookForClashKeeps
<1>6. CASE AddFavorites(c) \/ RemoveFavorites(c) \/ ToggleFavorite(c) \/ ToggleFavoritePin(c)
  BY <1>6, AddFavoritesKeeps, RemoveFavoritesKeeps, ToggleFavoriteKeeps, ToggleFavoritePinKeeps
<1>7. CASE PutItems(c) \/ TakeItems(c) \/ HoldItem(c)
  BY <1>7, PutItemsKeeps, TakeItemsKeeps, HoldItemKeeps
<1>8. CASE AddUserTag(c) \/ RemoveUserTag(c)
  BY <1>8, AddUserTagKeeps, RemoveUserTagKeeps
<1>9. CASE RecordView(c) \/ RecordHeart(c)
  BY <1>9, RecordedKeeps DEF RecordView, RecordHeart, Ready, Counting
<1>10. CASE \E i \in Ids : \E folder \in {"root", "named"} : StartMoves(c, <<i>>, folder)
  BY <1>10, StartMovesKeeps
<1>11. CASE \E i, j \in Ids : i # j /\ StartMoves(c, <<i, j>>, "root")
  BY <1>11, StartMovesKeeps
<1>12. CASE CheckMove(c) \/ MoveFile(c) \/ MoveIndex(c) \/ UndoMove(c) \/ MoveUser(c)
  BY <1>12, CheckMoveKeeps, MoveFileKeeps, MoveIndexKeeps, UndoMoveKeeps, MoveUserKeeps
<1> QED BY <1>1, <1>2, <1>3, <1>4, <1>5, <1>6, <1>7, <1>8, <1>9, <1>10, <1>11, <1>12 DEF PerCaller

\* Every step keeps the invariant.
LEMMA NextKeeps == ASSUME IInv, [Next]_vars PROVE IInv'
<1>1. CASE \E c \in Callers : PerCaller(c)
  BY <1>1, PerCallerKeeps
<1>2. CASE \E k \in Colls : CreateCollection(k) \/ PinCollection(k) \/ DeleteCollection(k)
  BY <1>2, CreateCollectionKeeps
<1>3. CASE \/ \E k \in Colls : RenameCollection(k)
           \/ ToggleFavoriteTag \/ ToggleFavoriteTagPin \/ HideTag \/ ShowTag
           \/ \E names \in {<<"a">>, <<"a", "b">>, <<"b", "a">>} : CreateCombo(names)
           \/ \E n \in 1..MaxRequests : DeleteCombo(n)
           \/ BuildHome \/ StoreHome \/ ExpireHome
  BY <1>3, ListsKeep
<1>4. CASE Rebuild \/ Restart
  BY <1>4, RebuildKeeps, RestartKeeps
<1>5. CASE UNCHANGED vars
  BY <1>5, StaysKeeps
<1> QED BY <1>1, <1>2, <1>3, <1>4, <1>5 DEF Next

\* In every state the tables keep their keys, every image has one place and one
\* row, and, until a rebuild, a cut move or an outdated request breaks it, every
\* row of user data belongs to one image.
THEOREM LibraryInductive == Spec => []IInv
<1>1. Init => IInv
  BY InitKeeps
<1>2. IInv /\ [Next]_vars => IInv'
  BY NextKeeps
<1> QED BY <1>1, <1>2, PTL DEF Spec

\* The tables keep their keys, no move loses an image, and once moves have ended
\* every indexed file is where the index says, its sidecar with it, unless two
\* moves to one place overlapped or one was cut short (move_image_folder).
THEOREM LibraryIsSound == Spec => []Sound
<1>1. IInv => Sound
  <2> SUFFICES ASSUME IInv, ~past.overlapped
               PROVE  /\ \A c \in Contents : \E p \in Paths : disk[p] = c
                      /\ \/ past.cut \/ Moving # {}
                         \/ \A i \in Indexed :
                               LET p == index[i].path
                               IN  /\ disk[p] = index[i].of
                                   /\ disk[p] \in Tagged => side[p] # Null /\ side[p].of = disk[p]
    BY DEF Sound, FilesAreKept, IInv
  <2>1. \A c \in Contents : \E p \in Paths : disk[p] = c
    BY DEF IInv, NothingLost
  <2>2. ASSUME ~past.cut, Moving = {}, NEW i \in Indexed, NEW p, p = index[i].path
        PROVE  disk[p] = index[i].of /\ (disk[p] \in Tagged => side[p] # Null /\ side[p].of = disk[p])
    <3>1. Kept /\ (\A c \in Callers : ~Going(c)) /\ p \in Paths
      BY <2>2 DEF Kept, Going, Moving, IInv, TypeOK
    <3>2. disk[p] = index[i].of
      BY <2>2, <3>1 DEF IInv, IndexFits
    <3>3. disk[p] \in Tagged => HasCard(p, disk[p])
      BY <3>1 DEF IInv, CardsFit
    <3> QED BY <3>2, <3>3 DEF HasCard
  <2> QED BY <2>1, <2>2
<1> QED BY <1>1, LibraryInductive, PTL

\* A row that fits matches the files of its image and no other.
LEMMA FitsMatches ==
    ASSUME IInv, Clean, Moving = {}, NEW r \in Rows, NEW i \in Indexed
    PROVE  Matches(r, Identity(i)) <=> index[i].of \in r.of
<1>1. PICK x \in Contents : /\ r.of = {x}
                            /\ r.path = Null => r.id \in Indexed
                            /\ r.path # Null => IsAt(r.path, x)
                            /\ r.id \in Indexed => index[r.id].of = x
  BY RowsAre DEF RowFits
<1>2. r.path = Null => r.md5 = Null
  BY NullAssumption DEF Rows, IInv, Tables, ItemRow, TagRow, Counts
<1>3. PICK w : w = Identity(i)
  OBVIOUS
<1>4. w.id = i /\ w.path = index[i].path /\ w.path # Null
  BY <1>3, NullAssumption DEF Identity, IInv, TypeOK
<1>5. PICK j \in Indexed : index[j].of = x
  BY DEF IInv, NothingLost, Clean, Kept
<1>6. CASE r.path = Null
  BY <1>1, <1>2, <1>3, <1>4, <1>6 DEF Matches, IInv, OnePlace
<1>7. CASE r.path # Null
  <2>1. r.path = index[j].path
    BY <1>1, <1>5, <1>7 DEF IsAt, Leaving, Going, Moving
  <2>2. Matches(r, w) <=> index[i].path = index[j].path
    BY <1>4, <1>7, <2>1 DEF Matches
  <2>3. index[i].path = index[j].path <=> index[i].of = index[j].of
    BY DEF IInv, TypeOK, OnePlace
  <2> QED BY <1>1, <1>3, <1>5, <2>2, <2>3
<1> QED BY <1>6, <1>7

\* Between moves, every favourite, item, tag and count belongs to the image the
\* user gave it to and to no other, as long as no rebuild has given a row's id to
\* another image, no move was cut short and no request wrote for an image that
\* had moved meanwhile (user_file_lookup_sql, move_image_folder).
THEOREM RowsStayWithImage == Spec => []StaysWithImage
<1>1. IInv => StaysWithImage
  <2> SUFFICES ASSUME IInv, Clean, Moving = {} PROVE OwnRows
    BY DEF StaysWithImage, Clean, Kept
  <2> QED BY FitsMatches DEF OwnRows
<1> QED BY <1>1, LibraryInductive, PTL

-----------------------------------------------------------------------------
(* What requests answer.                                                   *)

Liking   == {"toggle", "add", "remove"}
Tagging  == {"tag", "untag"}
Filing   == {"put", "take"}

\* What a list shows of an image: whether a row matches it.
LEMMA ShownIs ==
    ASSUME NEW w, w.id \in Indexed', w = Identity(w.id)'
    PROVE  /\ w.id \in FavoriteIds' <=> \E r \in favs' : Matches(r, w)
           /\ w.id \in Shown(tags)' <=> \E r \in tags' : Matches(r, w)
           /\ \A k : w.id \in Memberships(k)' <=> \E r \in items' : r.coll = k /\ Matches(r, w)
<1>1. w.id \in FavoriteIds' <=> \E r \in favs' : Matches(r, w)
  BY DEF FavoriteIds, Shown, Of
<1>2. w.id \in Shown(tags)' <=> \E r \in tags' : Matches(r, w)
  BY DEF Shown, Of
<1>3. \A k : w.id \in Memberships(k)' <=> \E r \in items' : r.coll = k /\ Matches(r, w)
  BY DEF Memberships, Shown, Of, In
<1> QED BY <1>1, <1>2, <1>3

\* The step tells the truth to a caller.
Truth(c) ==
    LET still == {w \in said'.who : w.id \in DOMAIN index' /\ w = Identity(w.id)'}
        show == CASE said'.op \in {"toggle", "add", "remove"} -> FavoriteIds'
                  [] said'.op \in {"tag", "untag"} -> Shown(tags)'
                  [] said'.op \in {"put", "take"} ->
                        UNION {Memberships(k)' : k \in Colls \cap {req[c].coll}}
    IN  req'[c] # req[c] /\ said'.op \in {"toggle", "add", "remove", "put", "take", "tag", "untag"} =>
           /\ \A w \in still : w.id \in said'.shown <=> w.id \in show
           /\ favs' # favs /\ said'.op \in {"toggle", "add", "remove"} => home'.page # "fresh"

\* It is enough that each list shows what was answered.
LEMMA TruthIs ==
    ASSUME NEW c,
           said'.op \in Liking => /\ \A w \in said'.who : w.id \in Indexed' /\ w = Identity(w.id)' =>
                                        (w.id \in said'.shown <=> \E r \in favs' : Matches(r, w))
                                  /\ favs' # favs => home'.page # "fresh",
           said'.op \in Tagging => \A w \in said'.who : w.id \in Indexed' /\ w = Identity(w.id)' =>
                                        (w.id \in said'.shown <=> \E r \in tags' : Matches(r, w)),
           said'.op \in Filing =>
               \A w \in said'.who : w.id \in Indexed' /\ w = Identity(w.id)' =>
                   /\ req[c].coll \in Colls
                   /\ w.id \in said'.shown <=> \E r \in items' : r.coll = req[c].coll /\ Matches(r, w)
    PROVE  Truth(c)
<1>1. PICK still : still = {w \in said'.who : w.id \in DOMAIN index' /\ w = Identity(w.id)'}
  OBVIOUS
<1>2. \A w \in still : w \in said'.who /\ w.id \in Indexed' /\ w = Identity(w.id)'
  BY <1>1 DEF Indexed
<1>3. CASE said'.op \in Liking
  <2>1. \A w \in still : w.id \in said'.shown <=> w.id \in FavoriteIds'
    BY <1>2, <1>3, ShownIs
  <2> QED BY <1>1, <1>3, <2>1 DEF Truth, Liking
<1>4. CASE said'.op \in Tagging
  <2>1. \A w \in still : w.id \in said'.shown <=> w.id \in Shown(tags)'
    BY <1>2, <1>4, ShownIs
  <2> QED BY <1>1, <1>4, <2>1 DEF Truth, Tagging
<1>5. CASE said'.op \in Filing
  <2>1. ASSUME NEW w \in still
        PROVE  w.id \in said'.shown <=> w.id \in UNION {Memberships(k)' : k \in Colls \cap {req[c].coll}}
    <3>1. PICK n : n = req[c].coll
      OBVIOUS
    <3>2. /\ n \in Colls
          /\ w.id \in said'.shown <=> \E r \in items' : r.coll = n /\ Matches(r, w)
      BY <1>2, <1>5, <3>1
    <3>3. w.id \in said'.shown <=> w.id \in Memberships(n)'
      BY <1>2, <3>2, ShownIs
    <3>4. Colls \cap {req[c].coll} = {n}
      BY <3>1, <3>2
    <3>5. UNION {Memberships(k)' : k \in {n}} = Memberships(n)'
      OBVIOUS
    <3> QED BY <3>3, <3>4, <3>5
  <2> QED BY <1>1, <1>5, <2>1 DEF Truth, Filing
<1>6. CASE said'.op \notin Liking \cup Tagging \cup Filing
  BY <1>6 DEF Truth, Liking, Tagging, Filing
<1> QED BY <1>3, <1>4, <1>5, <1>6

\* A step that answers nothing of the kind.
LEMMA OtherTruth ==
    ASSUME NEW c, req'[c] = req[c] \/ said'.op \notin Liking \cup Tagging \cup Filing
    PROVE  Truth(c)
BY DEF Truth, Liking, Tagging, Filing

\* An answer concerns the one who asked.
LEMMA AnswerIs ==
    ASSUME IInv, NEW c \in Callers, NEW result, NEW W, NEW ids, Answer(c, result, W, ids)
    PROVE  /\ said'.op = req[c].op /\ said'.who = W /\ said'.shown = ids
           /\ \A d \in Callers \ {c} : req'[d] = req[d]
<1>1. said' = [op |-> req[c].op, result |-> result, who |-> W, shown |-> ids]
  BY DEF Answer
<1>2. \A d \in Callers \ {c} : req'[d] = req[d]
  BY DEF Answer, IInv, ReqsFit
<1> QED BY <1>1, <1>2

\* The page built before a change of favourites is gone.
LEMMA Forgotten == ASSUME Forget PROVE home'.page # "fresh"
BY DEF Forget

\* A new row of an image matches the image.
LEMMA NewMatches == ASSUME NEW w \in Image PROVE Matches(New(w), w)
<1>1. New(w).path = w.path /\ New(w).path # Null
  BY NewFav
<1> QED BY <1>1 DEF Matches

\* Answers about favourites.
LEMMA ToggleTells ==
    ASSUME IInv, NEW c \in Callers, ToggleFavorite(c), NEW d \in Callers
    PROVE  Truth(d)
<1>1. req[c].op = "toggle" /\ req[c].op \in Asking /\ req[c].op \in Singles
  BY DEF ToggleFavorite, Ready, Asking, Singles
<1>2. Who(c) \in Image /\ req[c].who = {Who(c)}
  BY <1>1, BusyIs
<1>3. CASE Answer(c, "removed", req[c].who, {}) /\ favs' = Without(favs, req[c].who) /\ Forget
  <2>1. said'.op = "toggle" /\ said'.who = req[c].who /\ said'.shown = {} /\ home'.page # "fresh"
    BY <1>1, <1>3, AnswerIs, Forgotten
  <2>2. \A w \in said'.who : ~\E r \in favs' : Matches(r, w)
    BY <1>3, <2>1 DEF Without
  <2> QED BY <2>1, <2>2, TruthIs DEF Liking, Tagging, Filing
<1>4. CASE Answer(c, "error", {}, {}) /\ favs' = favs
  <2>1. said'.op = "toggle" /\ said'.who = {}
    BY <1>1, <1>4, AnswerIs
  <2> QED BY <1>4, <2>1, TruthIs DEF Liking, Tagging, Filing
<1>5. CASE Answer(c, "added", req[c].who, {Who(c).id}) /\ favs' = favs \cup {New(Who(c))} /\ Forget
  <2>1. said'.op = "toggle" /\ said'.who = {Who(c)} /\ said'.shown = {Who(c).id} /\ home'.page # "fresh"
    BY <1>1, <1>2, <1>5, AnswerIs, Forgotten
  <2>2. New(Who(c)) \in favs' /\ Matches(New(Who(c)), Who(c))
    BY <1>2, <1>5, NewMatches
  <2> QED BY <2>1, <2>2, TruthIs DEF Liking, Tagging, Filing
<1> QED BY <1>3, <1>4, <1>5 DEF ToggleFavorite

\* Changes of favourites answer what is so, and disturb no other answer.
LEMMA FavoritesTell ==
    ASSUME IInv, NEW c \in Callers, AddFavorites(c) \/ RemoveFavorites(c), NEW d \in Callers
    PROVE  Truth(d)
<1>1. CASE AddFavorites(c)
  <2>1. PICK W, ids : /\ W = req[c].who /\ ids = {w.id : w \in {v \in W : Of(favs', v) # {}}}
                      /\ Answer(c, "updated", W, ids) /\ Forget /\ req[c].op = "add"
    BY <1>1 DEF AddFavorites, Ready
  <2>2. said'.op = "add" /\ said'.who = W /\ said'.shown = ids /\ home'.page # "fresh"
    BY <2>1, AnswerIs, Forgotten
  <2>3. \A v, w \in W : v.id = w.id => v = w
    BY <2>1, BusyIs DEF Request, Asking
  <2>4. \A w \in W : w.id \in ids <=> \E r \in favs' : Matches(r, w)
    <3>1. \A w \in W : w.id \in ids <=> Of(favs', w) # {}
      BY <2>1, <2>3
    <3> QED BY <3>1 DEF Of
  <2> QED BY <2>2, <2>4, TruthIs DEF Liking, Tagging, Filing
<1>2. CASE RemoveFavorites(c)
  <2>1. /\ Answer(c, "updated", req[c].who, {}) /\ favs' = Without(favs, req[c].who) /\ Forget
        /\ req[c].op = "remove"
    BY <1>2 DEF RemoveFavorites, Ready
  <2>2. said'.op = "remove" /\ said'.who = req[c].who /\ said'.shown = {} /\ home'.page # "fresh"
    BY <2>1, AnswerIs, Forgotten
  <2>3. \A w \in said'.who : ~\E r \in favs' : Matches(r, w)
    BY <2>1, <2>2 DEF Without
  <2> QED BY <2>2, <2>3, TruthIs DEF Liking, Tagging, Filing
<1> QED BY <1>1, <1>2

\* Answers about a collection's images.
LEMMA ItemsTell ==
    ASSUME IInv, NEW c \in Callers, PutItems(c) \/ TakeItems(c), NEW d \in Callers
    PROVE  Truth(d)
<1>1. PICK W, k : W = req[c].who /\ k = req[c].coll
  OBVIOUS
<1>2. req[c].op \in Asking /\ k \in Colls /\ \A v, w \in W : v.id = w.id => v = w
  <2>1. req[c].op \in {"put", "take"} /\ req[c].op \in Asking
    BY DEF PutItems, TakeItems, Ready, Asking
  <2> QED BY <1>1, <2>1, BusyIs DEF Request
<1>3. CASE PutItems(c)
  <2>1. CASE Answer(c, "error", {}, {})
    <3>1. said'.op = "put" /\ said'.who = {}
      BY <1>3, <2>1, AnswerIs DEF PutItems, Ready
    <3> QED BY <3>1, TruthIs DEF Liking, Tagging, Filing
  <2>2. CASE ~Answer(c, "error", {}, {})
    <3>1. PICK ids : /\ ids = {w.id : w \in {v \in W : \E r \in items' : r.coll = k /\ Matches(r, v)}}
                     /\ Answer(c, "updated", W, ids) /\ req[c].op = "put"
      BY <1>1, <1>3, <2>2 DEF PutItems, Ready
    <3>2. said'.op = "put" /\ said'.who = W /\ said'.shown = ids /\ \A e \in Callers \ {c} : req'[e] = req[e]
      BY <3>1, AnswerIs
    <3>3. \A w \in W : w.id \in ids <=> \E r \in items' : r.coll = k /\ Matches(r, w)
      BY <1>2, <3>1
    <3>4. CASE d = c
      BY <1>1, <1>2, <3>2, <3>3, <3>4, TruthIs DEF Liking, Tagging, Filing
    <3>5. CASE d # c
      BY <3>2, <3>5, OtherTruth
    <3> QED BY <3>4, <3>5
  <2> QED BY <2>1, <2>2
<1>4. CASE TakeItems(c)
  <2>1. /\ Answer(c, "updated", W, {}) /\ req[c].op = "take"
        /\ items' = (items \ In(k)) \cup Without(In(k), W)
    BY <1>1, <1>4 DEF TakeItems, Ready
  <2>2. said'.op = "take" /\ said'.who = W /\ said'.shown = {} /\ \A e \in Callers \ {c} : req'[e] = req[e]
    BY <2>1, AnswerIs
  <2>3. \A w \in W : ~\E r \in items' : r.coll = k /\ Matches(r, w)
    BY <2>1 DEF Without, In
  <2>4. CASE d = c
    BY <1>1, <1>2, <2>2, <2>3, <2>4, TruthIs DEF Liking, Tagging, Filing
  <2>5. CASE d # c
    BY <2>2, <2>5, OtherTruth
  <2> QED BY <2>4, <2>5
<1> QED BY <1>3, <1>4

\* A request about a collection that reads on says nothing of an image.
LEMMA ReadingTells ==
    ASSUME IInv, NEW c \in Callers, IdentifyNext(c), NEW d \in Callers
    PROVE  Truth(d)
<1>1. req[c].op \in {"put", "take"} /\ (said' = Quiet \/ Answer(c, "refused", {}, {}))
  BY DEF IdentifyNext
<1>2. CASE said' = Quiet
  <2>1. said'.op \notin Liking \cup Tagging \cup Filing
    BY <1>2 DEF Quiet, Liking, Tagging, Filing
  <2> QED BY <2>1, OtherTruth
<1>3. CASE Answer(c, "refused", {}, {})
  <2>1. said'.op \in {"put", "take"} /\ said'.who = {}
    BY <1>1, <1>3, AnswerIs
  <2> QED BY <2>1, TruthIs DEF Liking, Tagging, Filing
<1> QED BY <1>1, <1>2, <1>3

\* Answers about own tags.
LEMMA TagsTell ==
    ASSUME IInv, NEW c \in Callers, AddUserTag(c) \/ RemoveUserTag(c), NEW d \in Callers
    PROVE  Truth(d)
<1>1. req[c].op \in Tagging /\ req[c].op \in Asking /\ req[c].op \in Singles
  BY DEF AddUserTag, RemoveUserTag, Tagging, Asking, Singles
<1>2. req[c].who = {Who(c)}
  BY <1>1, BusyIs
<1>3. \E result : Answer(c, result, {Who(c)}, UserTags(tags', Who(c)))
  BY <1>2 DEF AddUserTag, RemoveUserTag
<1>4. said'.op \in Tagging /\ said'.who = {Who(c)} /\ said'.shown = UserTags(tags', Who(c))
  BY <1>1, <1>3, AnswerIs
<1>5. Who(c).id \in said'.shown <=> \E r \in tags' : Matches(r, Who(c))
  BY <1>4 DEF UserTags, Of
<1> QED BY <1>4, <1>5, TruthIs DEF Liking, Tagging, Filing

\* Every step of a caller tells the truth.
LEMMA PerCallerTells ==
    ASSUME IInv, NEW c \in Callers, PerCaller(c), NEW d \in Callers
    PROVE  Truth(d)
<1> DEFINE Silent == req' = req \/ said'.op \notin Liking \cup Tagging \cup Filing
<1>0. Silent => Truth(d)
  BY OtherTruth
<1>1. Quiet.op = "none"
  BY DEF Quiet
<1>2. \A r \in {"move", "none", "pin", "hold", "view", "heart"} : r \notin Liking \cup Tagging \cup Filing
  BY DEF Liking, Tagging, Filing
<1>3. ASSUME NEW op, NEW i, NEW I, NEW k,
             Identify(c, op, i) \/ IdentifyBatch(c, op, I) \/ IdentifyItems(c, op, k, I, i)
      PROVE  Silent
  BY <1>1, <1>2, <1>3 DEF Identify, IdentifyBatch, IdentifyItems, Refuse
<1>4. Look(c) \/ LookForClash(c) => Silent
  BY <1>1, <1>2 DEF Look, LookForClash
<1>5. AddFavorites(c) \/ RemoveFavorites(c) \/ ToggleFavorite(c) => Truth(d)
  BY FavoritesTell, ToggleTells
<1>6. ASSUME ToggleFavoritePin(c) \/ HoldItem(c) \/ RecordView(c) \/ RecordHeart(c)
      PROVE  Silent
  <2>1. /\ req[c].op \in {"pin", "hold", "view", "heart"}
        /\ \E result : Answer(c, result, {}, {})
    BY <1>6 DEF ToggleFavoritePin, HoldItem, RecordView, RecordHeart, Recorded, Ready
  <2> QED BY <1>2, <2>1, AnswerIs
<1>7. PutItems(c) \/ TakeItems(c) \/ IdentifyNext(c) \/ AddUserTag(c) \/ RemoveUserTag(c) => Truth(d)
  BY ItemsTell, ReadingTells, TagsTell
<1>8. ASSUME NEW todo, NEW folder, StartMoves(c, todo, folder) PROVE Silent
  BY <1>1, <1>2, <1>8 DEF StartMoves
<1>9. \A result : EndMove(c, result) => Silent
  BY <1>2 DEF EndMove
<1>10. \A q : Proceed(c, q) => Silent
  BY <1>1, <1>2 DEF Proceed
<1>11. CheckMove(c) \/ MoveFile(c) \/ MoveIndex(c) \/ UndoMove(c) \/ MoveUser(c) => Silent
  BY <1>9, <1>10 DEF CheckMove, MoveFile, MoveIndex, UndoMove, MoveUser
<1> HIDE DEF Silent
<1> QED BY <1>0, <1>3, <1>4, <1>5, <1>6, <1>7, <1>8, <1>11 DEF PerCaller

\* So does every other step: it answers nobody about images.
LEMMA OthersTell ==
    ASSUME Next, \A c \in Callers : ~PerCaller(c), NEW d \in Callers
    PROVE  Truth(d)
<1>1. Quiet.op = "none"
  BY DEF Quiet
<1>2. req' = req \/ said' = Quiet
  BY DEF Next, CreateCollection, PinCollection, RenameCollection, DeleteCollection, ToggleFavoriteTag,
         ToggleFavoriteTagPin, HideTag, ShowTag, CreateCombo, DeleteCombo, BuildHome, StoreHome, ExpireHome,
         Rebuild, Restart, Direct
<1> QED BY <1>1, <1>2, OtherTruth DEF Liking, Tagging, Filing

\* What a favourites, collection or tag request answers is what its list shows
\* from then on, for images that are still what they were, and no home page
\* cached before a change of favourites is left, however requests, moves and
\* rebuilds overlap (routers/user_library.py, routers/collections.py).
THEOREM AnswersStayTrue == Spec => AnswersAreTrue
<1>1. IInv /\ [Next]_vars => [\A c \in Callers : Truth(c)]_vars
  BY PerCallerTells, OthersTell
<1>2. IInv /\ [Next]_vars =>
        [ \A c \in Callers :
          LET still == {w \in said'.who : w.id \in DOMAIN index' /\ w = Identity(w.id)'}
              show == CASE said'.op \in {"toggle", "add", "remove"} -> FavoriteIds'
                        [] said'.op \in {"tag", "untag"} -> Shown(tags)'
                        [] said'.op \in {"put", "take"} ->
                              UNION {Memberships(k)' : k \in Colls \cap {req[c].coll}}
          IN  req'[c] # req[c] /\ said'.op \in {"toggle", "add", "remove", "put", "take", "tag", "untag"} =>
                 /\ \A w \in still : w.id \in said'.shown <=> w.id \in show
                 /\ favs' # favs /\ said'.op \in {"toggle", "add", "remove"} => home'.page # "fresh"
        ]_vars
  BY <1>1 DEF Truth
<1> QED BY <1>2, LibraryInductive, PTL DEF AnswersAreTrue, Spec

-----------------------------------------------------------------------------
(* Sums of counts.                                                         *)

Kinds == {"views", "hearts"}

\* Finitely many rows, with counts that are numbers.
Sums(T) == IsFiniteSet(T) /\ \A r \in T : r.views \in Nat /\ r.hearts \in Nat

\* What the counts of a row are.
LEMMA CountIs ==
    ASSUME NEW r
    PROVE  Count(r)["views"] = r.views /\ Count(r)["hearts"] = r.hearts
BY DEF Count

\* One row counts what it says.
LEMMA TotalOfOne ==
    ASSUME NEW r, NEW kind, NEW n \in Nat, Count(r)[kind] = n
    PROVE  /\ IsFiniteSet({r} \X (1..n)) /\ Each({r}, kind) = {r} \X (1..n)
           /\ Total({r}, kind) = n
<1>1. Each({r}, kind) = {r} \X (1..n)
  <2>1. {{s} \X (1..Count(s)[kind]) : s \in {r}} = {{r} \X (1..n)}
    OBVIOUS
  <2> QED BY <2>1 DEF Each
<1>2. IsFiniteSet({r}) /\ Cardinality({r}) = 1
  BY FS_Singleton
<1>3. IsFiniteSet(1..n) /\ Cardinality(1..n) = n
  BY FS_Interval
<1>4. PICK S, T : S = {r} /\ T = 1..n
  OBVIOUS
<1>5. IsFiniteSet(S \X T) /\ Cardinality(S \X T) = Cardinality(S) * Cardinality(T)
  <2>1. IsFiniteSet(S) /\ IsFiniteSet(T)
    BY <1>2, <1>3, <1>4
  <2> QED BY ONLY <2>1, FS_Product, Zenon
<1>6. Cardinality(S \X T) = n
  BY <1>2, <1>3, <1>4, <1>5
<1> QED BY <1>1, <1>4, <1>5, <1>6 DEF Total

\* The counts of finitely many rows are finitely many.
LEMMA EachIsFinite ==
    ASSUME NEW T, Sums(T), NEW kind \in Kinds
    PROVE  IsFiniteSet(Each(T, kind)) /\ Total(T, kind) \in Nat
<1>1. PICK F : F = {{r} \X (1..Count(r)[kind]) : r \in T}
  OBVIOUS
<1>2. PICK f : f = [r \in T |-> {r} \X (1..Count(r)[kind])]
  OBVIOUS
<1>3. f \in Surjection(T, F)
  <2>1. f \in [T -> F]
    BY <1>1, <1>2
  <2>2. \A S \in F : \E r \in T : f[r] = S
    BY <1>1, <1>2
  <2> QED BY <2>1, <2>2 DEF Surjection
<1>4. IsFiniteSet(F)
  BY <1>3, FS_Surjection DEF Sums
<1>5. ASSUME NEW S \in F PROVE IsFiniteSet(S)
  <2>1. PICK r \in T : S = {r} \X (1..Count(r)[kind])
    BY <1>1
  <2>2. Count(r)[kind] \in Nat
    BY CountIs DEF Sums, Kinds
  <2> QED BY <2>1, <2>2, TotalOfOne
<1>6. IsFiniteSet(UNION F)
  BY <1>4, <1>5, FS_UNION
<1>7. Each(T, kind) = UNION F
  BY <1>1 DEF Each
<1> QED BY <1>6, <1>7, FS_CardinalityType DEF Total

\* What a pair of Each is.
LEMMA EachIs ==
    ASSUME NEW T, NEW kind
    PROVE  /\ \A p \in Each(T, kind) : p[1] \in T /\ p[2] \in 1..Count(p[1])[kind] /\ p = <<p[1], p[2]>>
           /\ \A r \in T : \A n \in 1..Count(r)[kind] : <<r, n>> \in Each(T, kind)
BY DEF Each

\* No rows count nothing.
LEMMA TotalOfNone == ASSUME NEW kind PROVE Total({}, kind) = 0
<1>1. Each({}, kind) = {}
  BY DEF Each
<1> QED BY <1>1, FS_EmptySet DEF Total

\* The counts of two sets of rows add up.
LEMMA TotalsAdd ==
    ASSUME NEW S, Sums(S), NEW T, Sums(T), S \cap T = {}, NEW kind \in Kinds
    PROVE  Sums(S \cup T) /\ Total(S \cup T, kind) = Total(S, kind) + Total(T, kind)
<1>1. Sums(S \cup T)
  <2>1. IsFiniteSet(S \cup T)
    BY FS_Union, Zenon DEF Sums
  <2> QED BY <2>1 DEF Sums
<1>2. Each(S \cup T, kind) = Each(S, kind) \cup Each(T, kind)
  <2>1. \A p : p \in Each(S \cup T, kind) <=> \E r \in S \cup T : p \in {r} \X (1..Count(r)[kind])
    BY DEF Each
  <2>2. \A p : p \in Each(S, kind) <=> \E r \in S : p \in {r} \X (1..Count(r)[kind])
    BY DEF Each
  <2>3. \A p : p \in Each(T, kind) <=> \E r \in T : p \in {r} \X (1..Count(r)[kind])
    BY DEF Each
  <2> QED BY <2>1, <2>2, <2>3
<1>3. Each(S, kind) \cap Each(T, kind) = {}
  BY EachIs
<1>4. IsFiniteSet(Each(S, kind)) /\ IsFiniteSet(Each(T, kind))
  BY EachIsFinite
<1>5. Cardinality(Each(S, kind) \cup Each(T, kind))
        = Cardinality(Each(S, kind)) + Cardinality(Each(T, kind)) - Cardinality(Each(S, kind) \cap Each(T, kind))
  BY <1>4, FS_Union
<1>6. Cardinality(Each(S, kind) \cap Each(T, kind)) = 0
  BY <1>3, FS_EmptySet
<1>7. Cardinality(Each(S, kind)) \in Nat /\ Cardinality(Each(T, kind)) \in Nat
  BY <1>4, FS_CardinalityType
<1>8. Total(S \cup T, kind) = Total(S, kind) + Total(T, kind)
  <2>1. PICK A, B : A = Each(S, kind) /\ B = Each(T, kind)
    OBVIOUS
  <2>2. Cardinality(A \cup B) = Cardinality(A) + Cardinality(B)
    BY <1>5, <1>6, <1>7, <2>1
  <2>3. /\ Total(S \cup T, kind) = Cardinality(A \cup B)
        /\ Total(S, kind) = Cardinality(A) /\ Total(T, kind) = Cardinality(B)
    BY <1>2, <2>1, Zenon DEF Total
  <2> QED BY <2>2, <2>3
<1> QED BY <1>1, <1>8

\* Rows of a set have sums too.
LEMMA SumsOfPart ==
    ASSUME NEW T, Sums(T), NEW S, S \subseteq T
    PROVE  Sums(S)
BY FS_Subset DEF Sums

\* Changing what else rows say changes no count.
LEMMA SameTotal ==
    ASSUME NEW T, Sums(T), NEW U, NEW g \in [T -> U], \A s \in U : \E r \in T : s = g[r],
           \A r, s \in T : g[r] = g[s] => r = s,
           \A r \in T : g[r].views = r.views /\ g[r].hearts = r.hearts
    PROVE  Sums(U) /\ \A kind \in Kinds : Total(U, kind) = Total(T, kind)
<1>1. Sums(U)
  <2>1. g \in Surjection(T, U)
    BY DEF Surjection
  <2> QED BY <2>1, FS_Surjection DEF Sums
<1>2. ASSUME NEW kind \in Kinds PROVE Total(U, kind) = Total(T, kind)
  <2>1. \A r \in T : Count(g[r])[kind] = Count(r)[kind]
    BY CountIs DEF Kinds
  <2>2. PICK h : h = [p \in Each(T, kind) |-> <<g[p[1]], p[2]>>]
    OBVIOUS
  <2>3. h \in [Each(T, kind) -> Each(U, kind)] /\ DOMAIN h = Each(T, kind)
    <3>1. ASSUME NEW p \in Each(T, kind) PROVE <<g[p[1]], p[2]>> \in Each(U, kind)
      <4>1. p[1] \in T /\ p[2] \in 1..Count(p[1])[kind]
        BY EachIs
      <4>2. g[p[1]] \in U /\ p[2] \in 1..Count(g[p[1]])[kind]
        BY <2>1, <4>1
      <4> QED BY <4>2, EachIs
    <3> QED BY <2>2, <3>1
  <2>4. h \in Injection(Each(T, kind), Each(U, kind))
    <3>1. ASSUME NEW p \in Each(T, kind), NEW q \in Each(T, kind), h[p] = h[q] PROVE p = q
      <4>1. g[p[1]] = g[q[1]] /\ p[2] = q[2]
        <5>1. PICK a, b, m, n : a = g[p[1]] /\ b = g[q[1]] /\ m = p[2] /\ n = q[2]
          OBVIOUS
        <5>2. h[p] = <<a, m>> /\ h[q] = <<b, n>>
          BY <2>2, <5>1
        <5>3. <<a, m>> = <<b, n>>
          BY <3>1, <5>2
        <5>4. a = b /\ m = n
          BY <5>3
        <5> QED BY <5>1, <5>4
      <4>2. p[1] \in T /\ q[1] \in T /\ p = <<p[1], p[2]>> /\ q = <<q[1], q[2]>>
        BY EachIs
      <4> QED BY <4>1, <4>2
    <3>2. \A p, q \in Each(T, kind) : h[p] = h[q] => p = q
      BY <3>1
    <3> QED BY <2>3, <3>2, Zenon DEF Injection, IsInjective
  <2>5. h \in Surjection(Each(T, kind), Each(U, kind))
    <3>1. ASSUME NEW q \in Each(U, kind) PROVE \E p \in Each(T, kind) : h[p] = q
      <4>1. q[1] \in U /\ q[2] \in 1..Count(q[1])[kind] /\ q = <<q[1], q[2]>>
        BY EachIs
      <4>2. PICK r \in T : q[1] = g[r]
        BY <4>1
      <4>3. <<r, q[2]>> \in Each(T, kind)
        BY <2>1, <4>1, <4>2, EachIs
      <4>4. h[<<r, q[2]>>] = <<g[r], q[2]>>
        BY <2>2, <4>3
      <4> QED BY <4>1, <4>2, <4>3, <4>4
    <3> QED BY <2>3, <3>1 DEF Surjection
  <2>6. ExistsBijection(Each(T, kind), Each(U, kind))
    BY <2>4, <2>5 DEF ExistsBijection, Bijection
  <2>7. IsFiniteSet(Each(T, kind))
    BY EachIsFinite
  <2> QED BY <2>6, <2>7, FS_Bijection DEF Total
<1> QED BY <1>1, <1>2

-----------------------------------------------------------------------------
(* Views and hearts are counted once.                                      *)

\* The row a request will write and the row it will merge are two.
Apart == \A c \in Callers : req[c].op \in Counting /\ req[c].phase = "write" =>
             req[c].seen \cap req[c].clash = {}

\* The counts are numbers and add up, until one is overwritten.
Tallied ==
    ~past.overwrote => /\ Sums(views) /\ counted \in [Kinds -> Nat]
                       /\ \A kind \in Kinds : Total(views, kind) = counted[kind]

\* Steps that count nothing.
LEMMA Uncounted ==
    ASSUME Apart, Tallied, views' = views, counted' = counted, past'.overwrote = past.overwrote,
           \A d \in Callers : \/ req'[d] = req[d]
                              \/ req'[d].op \notin Counting \/ req'[d].phase # "write"
    PROVE  Apart' /\ Tallied'
<1>1. Apart'
  BY DEF Apart
<1>2. Tallied'
  BY DEF Tallied
<1> QED BY <1>1, <1>2

\* A request that goes on to something else than counting.
LEMMA TurnsAway ==
    ASSUME IInv, Apart, Tallied, views' = views, counted' = counted,
           past'.overwrote = past.overwrote, NEW c \in Callers, NEW q, req' = [req EXCEPT ![c] = q],
           q.op \notin Counting \/ q.phase # "write"
    PROVE  Apart' /\ Tallied'
<1>1. req'[c] = q /\ \A d \in Callers \ {c} : req'[d] = req[d]
  BY Others
<1> QED BY <1>1, Uncounted

\* Noting anything else keeps the note about counts.
LEMMA NotedElse ==
    ASSUME IInv, NEW b,
           \/ past' = past
           \/ past' = [past EXCEPT !.raced = b]
           \/ past' = [past EXCEPT !.cut = b]
           \/ past' = [past EXCEPT !.overlapped = b]
    PROVE  past'.overwrote = past.overwrote
<1>1. past \in [drift : BOOLEAN, cut : BOOLEAN, raced : BOOLEAN, overlapped : BOOLEAN,
                overwrote : BOOLEAN]
  BY DEF IInv, Tables
<1> QED BY <1>1

\* A request that wrote for an image that has moved is noted, and nothing else.
LEMMA RacedNotes == ASSUME IInv, NEW W, Raced(W) \/ past' = past PROVE past'.overwrote = past.overwrote
<1>1. PICK b : b = (past.raced \/ \E w \in W : Outdated(w))
  OBVIOUS
<1>2. past' = past \/ past' = [past EXCEPT !.raced = b]
  BY <1>1 DEF Raced
<1> QED BY <1>2, NotedElse

\* Requests about favourites, collections and tags.
LEMMA OthersCountNothing ==
    ASSUME IInv, Apart, Tallied, NEW c \in Callers,
           \/ AddFavorites(c) \/ RemoveFavorites(c) \/ ToggleFavorite(c) \/ ToggleFavoritePin(c)
           \/ PutItems(c) \/ TakeItems(c) \/ HoldItem(c) \/ AddUserTag(c) \/ RemoveUserTag(c)
    PROVE  Apart' /\ Tallied'
<1>1. views' = views /\ counted' = counted /\ req' = [req EXCEPT ![c] = Idle]
  BY DEF AddFavorites, RemoveFavorites, ToggleFavorite, ToggleFavoritePin, PutItems, TakeItems,
         HoldItem, AddUserTag, RemoveUserTag, Answer
<1>2. past' = past \/ \E W : Raced(W)
  BY DEF AddFavorites, RemoveFavorites, ToggleFavorite, ToggleFavoritePin, PutItems, TakeItems,
         HoldItem, AddUserTag, RemoveUserTag
<1>3. past'.overwrote = past.overwrote
  BY <1>2, RacedNotes
<1>4. Idle.op \notin Counting
  BY DEF Idle, Counting
<1> QED BY <1>1, <1>3, <1>4, TurnsAway

\* Requests that begin.
LEMMA BeginningCountsNothing ==
    ASSUME IInv, Apart, Tallied, NEW c \in Callers,
           \/ \E i, op : Identify(c, op, i)
           \/ \E I : \E op \in {"add", "remove"} : IdentifyBatch(c, op, I)
           \/ \E k, I, i : \E op \in {"put", "take", "hold"} : IdentifyItems(c, op, k, I, i)
           \/ \E todo, folder : StartMoves(c, todo, folder)
    PROVE  Apart' /\ Tallied'
<1>1. views' = views /\ counted' = counted /\ past' = past
  BY DEF Identify, IdentifyBatch, IdentifyItems, StartMoves, user
<1>2. \/ req' = req
      \/ \E q : req' = [req EXCEPT ![c] = q] /\ (q.op \notin Counting \/ q.phase # "write")
  <2>1. CASE \E i, op : Identify(c, op, i)
    <3>1. PICK i, op : Identify(c, op, i)
      BY <2>1
    <3>2. CASE req' = req
      BY <3>2
    <3>3. CASE i \in Indexed
      <4>1. PICK q : q = [op |-> op, who |-> {Identity(i)}, coll |-> Null, rest |-> {},
                          phase |-> "look", seen |-> {}, clash |-> {}]
        OBVIOUS
      <4>2. q.phase # "write" /\ req' = [req EXCEPT ![c] = q]
        BY <3>1, <3>3, <4>1 DEF Identify
      <4> QED BY <4>2
    <3> QED BY <3>1, <3>2, <3>3 DEF Identify, Refuse
  <2>2. CASE \E I : \E op \in {"add", "remove"} : IdentifyBatch(c, op, I)
    <3>1. PICK I : \E op \in {"add", "remove"} : IdentifyBatch(c, op, I)
      BY <2>2
    <3>2. PICK op \in {"add", "remove"} : IdentifyBatch(c, op, I)
      BY <3>1
    <3>3. CASE I \subseteq Indexed
      <4>1. PICK q : q = [op |-> op, who |-> {Identity(i) : i \in I}, coll |-> Null, rest |-> {},
                          phase |-> "write", seen |-> {}, clash |-> {}]
        OBVIOUS
      <4>2. req' = [req EXCEPT ![c] = q]
        BY <3>2, <3>3, <4>1 DEF IdentifyBatch
      <4>3. q.op = op
        BY <4>1
      <4> QED BY <4>2, <4>3 DEF Counting
    <3> QED BY <3>2, <3>3 DEF IdentifyBatch, Refuse
  <2>3. CASE \E k, I, i : \E op \in {"put", "take", "hold"} : IdentifyItems(c, op, k, I, i)
    <3>1. PICK k, I, i : \E op \in {"put", "take", "hold"} : IdentifyItems(c, op, k, I, i)
      BY <2>3
    <3>2. PICK op \in {"put", "take", "hold"} : IdentifyItems(c, op, k, I, i)
      BY <3>1
    <3>3. CASE k \in Live /\ i \in Indexed
      <4>1. PICK q : q = [op |-> op, who |-> {Identity(i)}, coll |-> k, rest |-> I \ {i},
                          phase |-> IF op = "hold" THEN "look"
                                    ELSE IF I = {i} THEN "write" ELSE "more",
                          seen |-> {}, clash |-> {}]
        OBVIOUS
      <4>2. req' = [req EXCEPT ![c] = q]
        BY <3>2, <3>3, <4>1 DEF IdentifyItems
      <4>3. q.op = op
        BY <4>1
      <4> QED BY <4>2, <4>3 DEF Counting
    <3> QED BY <3>2, <3>3 DEF IdentifyItems, Refuse
  <2>4. CASE \E todo, folder : StartMoves(c, todo, folder)
    <3>1. PICK todo, folder : StartMoves(c, todo, folder)
      BY <2>4
    <3>2. PICK q : q = [op |-> "move", phase |-> "check", todo |-> todo, folder |-> folder,
                        id |-> Head(todo), who |-> {}, parts |-> <<>>, moved |-> <<>>]
      OBVIOUS
    <3>3. q.phase # "write" /\ req' = [req EXCEPT ![c] = q]
      BY <3>1, <3>2 DEF StartMoves
    <3> QED BY <3>3
  <2> QED BY <2>1, <2>2, <2>3, <2>4
<1>3. past'.overwrote = past.overwrote
  BY <1>1
<1> QED BY <1>1, <1>2, <1>3, TurnsAway, Uncounted

\* Steps of a move, before the user's tables follow.
LEMMA MovingCountsNothing ==
    ASSUME IInv, Apart, Tallied, NEW c \in Callers,
           CheckMove(c) \/ MoveFile(c) \/ MoveIndex(c) \/ UndoMove(c)
    PROVE  Apart' /\ Tallied'
<1>1. req[c].op = "move" /\ Relocation(req[c]) /\ views' = views /\ counted' = counted
  <2>1. req[c].op = "move" /\ views' = views /\ counted' = counted
    BY DEF CheckMove, MoveFile, MoveIndex, UndoMove, user
  <2> QED BY <2>1, RelocationIs
<1>2. ASSUME NEW result, EndMove(c, result)
      PROVE  \E q : req' = [req EXCEPT ![c] = q] /\ q.op \notin Counting
  <2>1. PICK q : req' = [req EXCEPT ![c] = q] /\ (q = Idle \/ Relocation(q))
    BY <1>1, <1>2, EndsAs
  <2>2. q.op \in {"idle", "move"}
    BY <2>1 DEF Idle, Relocation
  <2> QED BY <2>1, <2>2 DEF Counting
<1>3. PICK p, t, d, i, w, ps, m : req[c] = [op |-> "move", phase |-> p, todo |-> t, folder |-> d, id |-> i,
                                          who |-> w, parts |-> ps, moved |-> m]
  BY <1>1 DEF Relocation
<1>4. CASE CheckMove(c)
  <2>1. past'.overwrote = past.overwrote
    BY <1>4 DEF CheckMove
  <2>2. CASE \E result : EndMove(c, result)
    BY <1>1, <1>2, <2>1, <2>2, TurnsAway
  <2>3. CASE \E a, b : Proceed(c, [req[c] EXCEPT !.phase = "files", !.who = a, !.parts = b])
    <3>1. PICK a, b : Proceed(c, [req[c] EXCEPT !.phase = "files", !.who = a, !.parts = b])
      BY <2>3
    <3>2. PICK q : q = [req[c] EXCEPT !.phase = "files", !.who = a, !.parts = b]
      OBVIOUS
    <3>3. q.op = "move"
      BY <1>3, <3>2
    <3>4. req' = [req EXCEPT ![c] = q]
      BY <3>1, <3>2 DEF Proceed
    <3> QED BY <1>1, <2>1, <3>3, <3>4, TurnsAway DEF Counting
  <2> QED BY <1>4, <2>2, <2>3 DEF CheckMove
<1>5. CASE MoveFile(c)
  <2>1. past'.overwrote = past.overwrote
    <3>1. PICK b : b = (past.overlapped \/ \E e \in Moving \ {c} :
                            req[e].phase \notin {"check"} /\ To(e) = To(c))
      OBVIOUS
    <3>2. past' = past \/ past' = [past EXCEPT !.overlapped = b]
      BY <1>5, <3>1 DEF MoveFile
    <3> QED BY <3>2, NotedElse
  <2>2. PICK part : part = Head(req[c].parts)
    OBVIOUS
  <2>3. CASE Proceed(c, Renamed(req[c], part))
    <3>1. PICK q : q = Renamed(req[c], part)
      OBVIOUS
    <3>2. q.op = "move"
      <4>1. PICK r, s : r = Tail(req[c].parts) /\ s = <<part>> \o req[c].moved
        OBVIOUS
      <4>2. PICK e : e = [req[c] EXCEPT !.parts = r, !.moved = s]
        OBVIOUS
      <4>3. e = [op |-> "move", phase |-> p, todo |-> t, folder |-> d, id |-> i, who |-> w,
                 parts |-> r, moved |-> s]
        <5>1. PICK f : f = [req[c] EXCEPT !.parts = r]
          OBVIOUS
        <5>2. f = [op |-> "move", phase |-> p, todo |-> t, folder |-> d, id |-> i, who |-> w,
                   parts |-> r, moved |-> m]
          BY <1>3, <5>1
        <5>3. e = [f EXCEPT !.moved = s]
          BY <4>2, <5>1
        <5> QED BY <5>2, <5>3
      <4>4. [e EXCEPT !.phase = "index"].op = "move"
        BY <4>3
      <4> QED BY <3>1, <4>1, <4>2, <4>3, <4>4 DEF Renamed
    <3>3. req' = [req EXCEPT ![c] = q]
      BY <2>3, <3>1 DEF Proceed
    <3> QED BY <1>1, <2>1, <3>2, <3>3, TurnsAway DEF Counting
  <2>4. CASE Proceed(c, Turned(req[c], "undo"))
    <3>1. PICK q : q = Turned(req[c], "undo")
      OBVIOUS
    <3>2. q.op = "move"
      BY <1>3, <3>1 DEF Turned
    <3>3. req' = [req EXCEPT ![c] = q]
      BY <2>4, <3>1 DEF Proceed
    <3> QED BY <1>1, <2>1, <3>2, <3>3, TurnsAway DEF Counting
  <2> QED BY <1>5, <2>2, <2>3, <2>4 DEF MoveFile, Renamed, Turned
<1>6. CASE MoveIndex(c)
  <2>1. past'.overwrote = past.overwrote
    BY <1>6, RacedNotes DEF MoveIndex
  <2>2. PICK phase \in {"undo", "user"} : Proceed(c, Turned(req[c], phase))
    BY <1>6 DEF MoveIndex, Turned
  <2>3. PICK q : q = Turned(req[c], phase)
    OBVIOUS
  <2>4. q.op = "move"
    BY <1>3, <2>3 DEF Turned
  <2>5. req' = [req EXCEPT ![c] = q]
    BY <2>2, <2>3 DEF Proceed
  <2> QED BY <1>1, <2>1, <2>4, <2>5, TurnsAway DEF Counting
<1>7. CASE UndoMove(c)
  <2>1. EndMove(c, "failed") /\ \E stuck : past' = [past EXCEPT !.cut = @ \/ stuck # {}]
    BY <1>7 DEF UndoMove
  <2>2. PICK stuck : past' = [past EXCEPT !.cut = @ \/ stuck # {}]
    BY <2>1
  <2>3. PICK b : b = (past.cut \/ stuck # {})
    OBVIOUS
  <2>4. past'.overwrote = past.overwrote
    BY <2>2, <2>3, NotedElse
  <2> QED BY <1>1, <1>2, <2>1, <2>4, TurnsAway
<1> QED BY <1>4, <1>5, <1>6, <1>7

\* Steps without a caller, but for the rebuild and the start.
LEMMA ListsCountNothing ==
    ASSUME IInv, Apart, Tallied,
           \/ \E k \in Colls : \/ CreateCollection(k) \/ PinCollection(k)
                               \/ RenameCollection(k) \/ DeleteCollection(k)
           \/ ToggleFavoriteTag \/ ToggleFavoriteTagPin \/ HideTag \/ ShowTag
           \/ \E names : CreateCombo(names)
           \/ \E n : DeleteCombo(n)
           \/ BuildHome \/ StoreHome \/ ExpireHome
    PROVE  Apart' /\ Tallied'
<1>1. req' = req /\ views' = views /\ counted' = counted /\ past' = past
  BY DEF CreateCollection, PinCollection, RenameCollection, DeleteCollection, ToggleFavoriteTag,
         ToggleFavoriteTagPin, HideTag, ShowTag, CreateCombo, DeleteCombo, BuildHome, StoreHome,
         ExpireHome, Direct, user
<1> QED BY <1>1, Uncounted

\* A rebuild numbers the images anew; the counts stay in their rows.
LEMMA RebuildCountsNothing ==
    ASSUME IInv, Apart, Tallied, Rebuild
    PROVE  Apart' /\ Tallied'
<1>1. req' = req /\ views' = views /\ counted' = counted
  BY DEF Rebuild, user
<1>2. PICK a, b : /\ a = (past.drift \/ \E r \in Rows : Strays(r, index'))
                  /\ b = (past.cut \/ \E c \in Moving : req[c].phase # "check")
  OBVIOUS
<1>3. past' = [past EXCEPT !.drift = a, !.cut = b]
  BY <1>2 DEF Rebuild
<1>4. past'.overwrote = past.overwrote
  <2>1. past \in [drift : BOOLEAN, cut : BOOLEAN, raced : BOOLEAN, overlapped : BOOLEAN,
                  overwrote : BOOLEAN]
    BY DEF IInv, Tables
  <2> QED BY <1>3, <2>1
<1> QED BY <1>1, <1>4, Uncounted

\* A request about a collection that reads on counts nothing.
LEMMA IdentifyNextCountsNothing ==
    ASSUME IInv, Apart, Tallied, NEW c \in Callers, IdentifyNext(c)
    PROVE  Apart' /\ Tallied'
<1>1. views' = views /\ counted' = counted /\ past' = past /\ req[c].op \in {"put", "take"}
  BY DEF IdentifyNext, user
<1>2. req[c].op \in Asking /\ req[c].op \notin Counting
  BY <1>1 DEF Asking, Counting
<1>4. \E q : req' = [req EXCEPT ![c] = q] /\ q.op \notin Counting
  <2>1. PICK i \in req[c].rest : \E phase \in {"more", "write"} :
            \/ /\ i \in Indexed
               /\ req' = [req EXCEPT ![c] =
                             [op |-> req[c].op, who |-> req[c].who \cup {Identity(i)}, coll |-> req[c].coll,
                              rest |-> req[c].rest \ {i}, phase |-> phase, seen |-> req[c].seen,
                              clash |-> req[c].clash]]
            \/ Answer(c, "refused", {}, {})
    BY ReadsOn
  <2>2. ASSUME NEW phase, NEW q,
               q = [op |-> req[c].op, who |-> req[c].who \cup {Identity(i)}, coll |-> req[c].coll,
                    rest |-> req[c].rest \ {i}, phase |-> phase, seen |-> req[c].seen,
                    clash |-> req[c].clash]
        PROVE  q.op \notin Counting
    BY <1>2, <2>2
  <2>3. CASE Answer(c, "refused", {}, {})
    <3>1. req' = [req EXCEPT ![c] = Idle] /\ Idle.op \notin Counting
      BY <2>3 DEF Answer, Idle, Counting
    <3> QED BY <3>1
  <2> QED BY <2>1, <2>2, <2>3
<1>5. past'.overwrote = past.overwrote
  BY <1>1
<1> QED BY <1>1, <1>4, <1>5, TurnsAway

\* What a request reads before it counts are two different rows.
LEMMA LookCountsNothing ==
    ASSUME IInv, Apart, Tallied, NEW c \in Callers, Look(c) \/ LookForClash(c)
    PROVE  Apart' /\ Tallied'
<1>1. views' = views /\ counted' = counted /\ past' = past /\ req[c].op \in Asking
  BY DEF Look, LookForClash, user, Asking, Singles, Counting
<1>2. Request(req[c])
  BY <1>1, BusyIs
<1>3. \E q : req' = [req EXCEPT ![c] = q] /\ q.seen \cap q.clash = {}
  <2>1. CASE Look(c)
    <3>1. req[c].clash = {}
      BY <1>2, <2>1 DEF Look, Request
    <3>2. PICK seen : req' = [req EXCEPT ![c].seen = seen,
                                         ![c].phase = IF /\ req[c].op \in {"view", "heart"}
                                                         /\ \E s \in seen : s.id # Who(c).id
                                                      THEN "clash" ELSE "write"]
      BY <2>1 DEF Look
    <3>3. PICK phase : phase = IF /\ req[c].op \in {"view", "heart"}
                                  /\ \E s \in seen : s.id # Who(c).id
                               THEN "clash" ELSE "write"
      OBVIOUS
    <3>4. req' = [req EXCEPT ![c].seen = seen, ![c].phase = phase]
      BY <3>2, <3>3
    <3>5. PICK q : q = [op |-> req[c].op, who |-> req[c].who, coll |-> req[c].coll, rest |-> req[c].rest,
                        phase |-> phase, seen |-> seen, clash |-> req[c].clash]
      OBVIOUS
    <3>6. [[req[c] EXCEPT !.seen = seen] EXCEPT !.phase = phase] = q
      BY <1>2, <3>5, LooksOn
    <3>7. req' = [req EXCEPT ![c] = q]
      BY <3>4, <3>6
    <3>8. q.clash = {}
      BY <3>1, <3>5
    <3> QED BY <3>7, <3>8
  <2>2. CASE LookForClash(c)
    <3>1. PICK clash : clash = {r \in views \ req[c].seen : r.id = Who(c).id}
      OBVIOUS
    <3>2. req' = [req EXCEPT ![c].clash = clash, ![c].phase = "write"]
      BY <2>2, <3>1 DEF LookForClash
    <3>3. PICK q : q = [op |-> req[c].op, who |-> req[c].who, coll |-> req[c].coll, rest |-> req[c].rest,
                        phase |-> "write", seen |-> req[c].seen, clash |-> clash]
      OBVIOUS
    <3>4. [[req[c] EXCEPT !.clash = clash] EXCEPT !.phase = "write"] = q
      BY <1>2, <3>3, ClashesOn
    <3>5. req' = [req EXCEPT ![c] = q]
      BY <3>2, <3>4
    <3>6. q.seen = req[c].seen /\ q.clash = clash
      BY <3>3
    <3>7. q.seen \cap q.clash = {}
      BY <3>1, <3>6
    <3> QED BY <3>5, <3>7
  <2> QED BY <2>1, <2>2
<1>4. PICK q : req' = [req EXCEPT ![c] = q] /\ q.seen \cap q.clash = {}
  BY <1>3
<1>5. Apart'
  <2> SUFFICES ASSUME NEW d \in Callers, req'[d].op \in Counting, req'[d].phase = "write"
               PROVE  req'[d].seen \cap req'[d].clash = {}
    BY DEF Apart
  <2>1. CASE d = c
    BY <1>4, <2>1, Others
  <2>2. CASE d # c
    <3>1. req'[d] = req[d]
      BY <1>4, <2>2, Others
    <3> QED BY <3>1 DEF Apart
  <2> QED BY <2>1, <2>2
<1>6. Tallied'
  BY <1>1 DEF Tallied
<1> QED BY <1>5, <1>6

\* Rows that are told their path, or hash, keep what they count.
LEMMA ToldCountTheSame ==
    ASSUME IInv, Tallied, NEW g \in [views -> views'], views' = {g[r] : r \in views},
           \A r \in views : g[r].id = r.id /\ g[r].views = r.views /\ g[r].hearts = r.hearts,
           counted' = counted, past'.overwrote = past.overwrote
    PROVE  Tallied'
<1> SUFFICES ASSUME ~past.overwrote
             PROVE  /\ Sums(views') /\ counted' \in [Kinds -> Nat]
                    /\ \A kind \in Kinds : Total(views', kind) = counted'[kind]
  BY DEF Tallied
<1>1. Sums(views) /\ counted \in [Kinds -> Nat] /\ \A kind \in Kinds : Total(views, kind) = counted[kind]
  BY DEF Tallied
<1>2. \A r, s \in views : g[r] = g[s] => r = s
  BY DEF IInv, TypeOK, Unique
<1>3. \A s \in views' : \E r \in views : s = g[r]
  OBVIOUS
<1>4. Sums(views') /\ \A kind \in Kinds : Total(views', kind) = Total(views, kind)
  <2>1. PICK T, U : T = views /\ U = views'
    OBVIOUS
  <2>2. /\ Sums(T) /\ g \in [T -> U] /\ \A s \in U : \E r \in T : s = g[r]
        /\ \A r, s \in T : g[r] = g[s] => r = s
        /\ \A r \in T : g[r].views = r.views /\ g[r].hearts = r.hearts
    BY <1>1, <1>2, <1>3, <2>1
  <2>3. Sums(U) /\ \A kind \in Kinds : Total(U, kind) = Total(T, kind)
    BY <2>2, SameTotal
  <2> QED BY <2>1, <2>3
<1> QED BY <1>1, <1>4

\* The user's tables follow a move: the rows of the image get its place.
LEMMA MoveUserCountsNothing ==
    ASSUME IInv, Apart, Tallied, NEW c \in Callers, MoveUser(c)
    PROVE  Apart' /\ Tallied'
<1>1. counted' = counted /\ req[c].op = "move"
  BY DEF MoveUser
<1>2. \A d \in Callers : req'[d] = req[d] \/ req'[d].op \notin Counting
  <2>1. PICK result : EndMove(c, result)
    BY DEF MoveUser
  <2>2. PICK q : req' = [req EXCEPT ![c] = q] /\ (q = Idle \/ Relocation(q))
    BY <1>1, <2>1, EndsAs
  <2>3. q.op \in {"idle", "move"}
    BY <2>2 DEF Idle, Relocation
  <2> QED BY <2>2, <2>3, Others DEF Counting
<1>3. past'.overwrote = past.overwrote
  <2>1. past' = past \/ past' = [past EXCEPT !.cut = TRUE]
    BY DEF MoveUser
  <2> QED BY <2>1, NotedElse
<1>4. CASE views' = views
  BY <1>1, <1>2, <1>3, <1>4, Uncounted
<1>5. CASE views' = Carried(views, req[c], From(c), To(c))
  <2>1. PICK i, from, to, m : i = req[c].id /\ from = From(c) /\ to = To(c) /\ m = Who(c).md5
    OBVIOUS
  <2>2. PICK g : g = [r \in views |-> CarryTo(r, i, from, to, m)]
    OBVIOUS
  <2>3. views' = {g[r] : r \in views}
    <3>1. \A s : s \in Carried(views, req[c], From(c), To(c)) <=>
                     \E r \in views : s = CarryTo(r, req[c].id, From(c), To(c), Who(c).md5)
      BY DEF Carried, CarryTo, Who
    <3>2. \A s : s \in views' <=> \E r \in views : s = g[r]
      BY <1>5, <2>1, <2>2, <3>1
    <3> QED BY <3>2
  <2>4. ASSUME NEW r \in views
        PROVE  g[r].id = r.id /\ g[r].views = r.views /\ g[r].hearts = r.hearts
    <3>1. Counts(r)
      BY DEF IInv, Tables
    <3>2. g[r] = CarryTo(r, i, from, to, m)
      BY <2>2
    <3>3. PICK n : n = IF r.md5 = Null THEN m ELSE r.md5
      OBVIOUS
    <3>4. PICK r1 : r1 = [r EXCEPT !.path = to]
      OBVIOUS
    <3>5. r1 = [id |-> r.id, path |-> to, md5 |-> r.md5, of |-> r.of, views |-> r.views, hearts |-> r.hearts]
      BY <3>1, <3>4 DEF Counts
    <3>6. PICK r2 : r2 = [r1 EXCEPT !.md5 = n]
      OBVIOUS
    <3>7. r2.id = r.id /\ r2.views = r.views /\ r2.hearts = r.hearts
      BY <3>5, <3>6
    <3>8. g[r] = r \/ g[r] = r2
      BY <3>2, <3>3, <3>4, <3>6 DEF CarryTo
    <3> QED BY <3>7, <3>8
  <2>5. g \in [views -> views']
    BY <2>2, <2>3
  <2>6. Tallied'
    BY <1>1, <1>3, <2>3, <2>4, <2>5, ToldCountTheSame
  <2>7. Apart'
    BY <1>2 DEF Apart
  <2> QED BY <2>6, <2>7
<1> QED BY <1>4, <1>5 DEF MoveUser, user

\* After a kill nobody counts, and the rows of counts have their paths.
LEMMA RestartCountsNothing ==
    ASSUME IInv, Apart, Tallied, Restart
    PROVE  Apart' /\ Tallied'
<1>1. counted' = counted /\ views' = Backfilled(views) /\ \A d \in Callers : req'[d] = Idle
  BY DEF Restart
<1>2. views' = views
  <2>1. \A r \in views : r.path # Null
    BY NullAssumption DEF IInv, Tables, Counts
  <2> QED BY <1>1, <2>1, NothingFilled
<1>3. PICK b : b = (past.cut \/ \E c \in Moving : req[c].moved # <<>>)
  OBVIOUS
<1>4. past' = [past EXCEPT !.cut = b]
  BY <1>3 DEF Restart
<1>5. past'.overwrote = past.overwrote
  BY <1>4, NotedElse
<1>6. Idle.op \notin Counting
  BY DEF Idle, Counting
<1> QED BY <1>1, <1>2, <1>5, <1>6, Uncounted

\* The row made of some rows counts what they do and once more.
LEMMA MadeCounts ==
    ASSUME NEW S, Sums(S), NEW w, NEW kind \in Kinds, NEW m, m = Made(S, w, kind)
    PROVE  /\ Sums({m})
           /\ \A k \in Kinds : Total({m}, k) = Total(S, k) + (IF k = kind THEN 1 ELSE 0)
<1>1. PICK f : f = [k \in Kinds |-> Total(S, k) + (IF k = kind THEN 1 ELSE 0)]
  OBVIOUS
<1>2. \A k \in Kinds : f[k] \in Nat /\ f[k] = Total(S, k) + (IF k = kind THEN 1 ELSE 0)
  BY <1>1, EachIsFinite
<1>3. m.views = f["views"] /\ m.hearts = f["hearts"]
  <2>1. m.views = Total(S, "views") + (IF "views" = kind THEN 1 ELSE 0)
    BY DEF Made
  <2>2. m.hearts = Total(S, "hearts") + (IF "hearts" = kind THEN 1 ELSE 0)
    BY DEF Made
  <2> QED BY <1>1, <2>1, <2>2 DEF Kinds
<1>4. IsFiniteSet({m})
  BY FS_Singleton
<1>5. Sums({m})
  BY <1>2, <1>3, <1>4 DEF Sums, Kinds
<1>6. ASSUME NEW k \in Kinds PROVE Total({m}, k) = f[k]
  <2>1. Count(m)[k] = f[k]
    BY <1>3, CountIs DEF Kinds
  <2> QED BY <1>2, <2>1, TotalOfOne
<1> QED BY <1>2, <1>5, <1>6

\* Rows that become one, counted once more, are counted once more.
LEMMA MergedCounts ==
    ASSUME NEW T, Sums(T), NEW S, S \subseteq T, NEW w, NEW kind \in Kinds,
           NEW m, m = Made(S, w, kind), m \notin T \ S
    PROVE  /\ Sums((T \ S) \cup {m})
           /\ \A k \in Kinds : Total((T \ S) \cup {m}, k) = Total(T, k) + (IF k = kind THEN 1 ELSE 0)
<1>1. Sums(S) /\ Sums(T \ S)
  BY SumsOfPart
<1>2. Sums({m}) /\ \A k \in Kinds : Total({m}, k) = Total(S, k) + (IF k = kind THEN 1 ELSE 0)
  BY <1>1, MadeCounts
<1>3. (T \ S) \cap {m} = {} /\ (T \ S) \cap S = {} /\ (T \ S) \cup S = T
  OBVIOUS
<1>4. PICK R : R = T \ S
  OBVIOUS
<1>5. ASSUME NEW k \in Kinds
      PROVE  /\ Sums(R \cup {m})
             /\ Total(R \cup {m}, k) = Total(T, k) + (IF k = kind THEN 1 ELSE 0)
  <2>1. Sums(R \cup {m}) /\ Total(R \cup {m}, k) = Total(R, k) + Total({m}, k)
    <3>1. Sums(R) /\ Sums({m}) /\ R \cap {m} = {}
      BY <1>1, <1>2, <1>3, <1>4
    <3> QED BY <3>1, TotalsAdd
  <2>2. Total(T, k) = Total(R, k) + Total(S, k)
    <3>1. Sums(R) /\ Sums(S) /\ R \cap S = {} /\ R \cup S = T
      BY <1>1, <1>3, <1>4
    <3>2. Total(R \cup S, k) = Total(R, k) + Total(S, k)
      BY <3>1, TotalsAdd
    <3> QED BY <3>1, <3>2
  <2>3. Total(R, k) \in Nat /\ Total(S, k) \in Nat
    BY <1>1, <1>4, EachIsFinite
  <2>4. Total({m}, k) = Total(S, k) + (IF k = kind THEN 1 ELSE 0)
    BY <1>2
  <2> QED BY <2>1, <2>2, <2>3, <2>4
<1> QED BY <1>4, <1>5 DEF Kinds

\* A request that counts merges the row of its image, or the one that has the
\* image's id, or both, into one; no other row says the same as that one.
LEMMA RecordMerges ==
    ASSUME IInv, Apart, NEW c \in Callers, req[c].op \in Counting, req[c].phase = "write",
           NEW kind, ~Blocked(c), ~Overwrote(c), Record(c, kind)
    PROVE  \E S : /\ S \subseteq views /\ Made(S, Who(c), kind) \notin views \ S
                  /\ views' = (views \ S) \cup {Made(S, Who(c), kind)}
<1>1. PICK q, w : q = req[c] /\ w = Who(c)
  OBVIOUS
<1>2. /\ Request(q) /\ w \in Image /\ w \in q.who /\ q.op \in Counting
      /\ \A s, t \in q.seen : s = t
      /\ \A s \in q.clash : s.id = w.id
      /\ q.seen \cap q.clash = {}
  <2>1. req[c].op \in Asking /\ req[c].op \in Singles
    BY DEF Asking, Singles
  <2>2. Request(q) /\ w \in Image /\ w \in q.who
    BY <1>1, <2>1, BusyIs
  <2> QED BY <1>1, <2>2 DEF Request, Apart
<1>3. Unique(views) /\ q.seen \subseteq views /\ q.clash \subseteq views /\ \A r \in views : Counts(r)
  BY <1>1, TablesAre DEF ViewsFit, Overwrote
<1>4. ASSUME NEW S, S \subseteq views, \A r \in views \ S : r.id # w.id
      PROVE  Made(S, w, kind) \notin views \ S
  <2>1. w \in Image /\ \A r \in S : Counts(r)
    BY <1>2, <1>3, <1>4
  <2>2. Made(S, w, kind).id = w.id
    BY ONLY <2>1, MadeIs
  <2> QED BY <1>4, <2>2
<1>5. CASE q.seen = {}
  <2>1. PICK held : held = {r \in views : r.id = w.id}
    OBVIOUS
  <2>2. views' = (views \ held) \cup {Made(held, w, kind)}
    BY <1>1, <1>5, <2>1 DEF Record
  <2>3. held \subseteq views /\ \A r \in views \ held : r.id # w.id
    BY <2>1
  <2>4. Made(held, w, kind) \notin views \ held
    BY <1>4, <2>3
  <2> QED BY <1>1, <2>2, <2>3, <2>4
<1>6. CASE q.seen # {}
  <2>1. PICK s : q.seen = {s}
    BY <1>2, <1>6
  <2>2. PICK S : S = q.seen \cup q.clash
    OBVIOUS
  <2>3. PICK m : m = Made(S, w, kind)
    OBVIOUS
  <2>4. \A r : r \in views /\ (\E t \in q.clash : t.id = r.id) <=> r \in q.clash
    BY <1>3 DEF Unique
  <2>5. \A r \in views : (\E t \in q.seen : t.id = r.id) <=> r = s
    BY <1>3, <2>1 DEF Unique
  <2>6. views' = {IF \E t \in q.seen : t.id = r.id THEN m ELSE r :
                      r \in views \ {r \in views : \E t \in q.clash : t.id = r.id}}
    <3>1. Made(req[c].seen \cup req[c].clash, Who(c), kind) = m
      BY <1>1, <2>2, <2>3
    <3>2. views' = {IF \E t \in req[c].seen : t.id = r.id
                    THEN Made(req[c].seen \cup req[c].clash, Who(c), kind) ELSE r :
                       r \in views \ {r \in views : \E t \in req[c].clash : t.id = r.id}}
      BY <1>1, <1>6 DEF Record
    <3>3. views' = {IF \E t \in req[c].seen : t.id = r.id THEN m ELSE r :
                       r \in views \ {r \in views : \E t \in req[c].clash : t.id = r.id}}
      BY <3>1, <3>2
    <3> QED BY <1>1, <3>3
  <2>7. \A x : x \in views' <=> \E r \in views \ q.clash : x = IF r = s THEN m ELSE r
    BY <2>4, <2>5, <2>6
  <2>8. s \in views \ q.clash
    BY <1>2, <1>3, <2>1
  <2>9. views' = (views \ S) \cup {m}
    <3>1. \A x : x \in views' <=> x = m \/ (x \in views \ q.clash /\ x # s)
      BY <2>7, <2>8
    <3> QED BY <2>1, <2>2, <3>1
  <2>10. \A r \in views \ S : r.id # w.id
    <3> SUFFICES ASSUME NEW r \in views \ S, r.id = w.id PROVE FALSE
      OBVIOUS
    <3>1. \A t \in q.seen \cup q.clash : t.id # r.id
      BY <1>3, <2>2 DEF Unique
    <3>2. r \in views \ q.seen /\ s \in q.seen /\ s \in views
      BY <2>1, <2>2, <2>8
    <3> QED BY <1>1, <3>1, <3>2 DEF Blocked
  <2>11. S \subseteq views
    BY <1>3, <2>2
  <2>12. m \notin views \ S
    BY <1>4, <2>3, <2>10, <2>11
  <2> QED BY <1>1, <2>3, <2>9, <2>11, <2>12
<1> QED BY <1>5, <1>6

\* A view or a heart is counted in one row, with what the merged rows counted.
LEMMA RecordedAddsUp ==
    ASSUME IInv, Apart, Tallied, NEW c \in Callers, NEW kind \in Kinds,
           req[c].op \in Counting, req[c].phase = "write", Recorded(c, kind)
    PROVE  Apart' /\ Tallied'
<1>1. req' = [req EXCEPT ![c] = Idle] /\ Idle.op \notin Counting
  BY DEF Recorded, Answer, Idle, Counting
<1>2. Apart'
  <2>1. \A d \in Callers : req'[d] = req[d] \/ req'[d].op \notin Counting
    BY <1>1, Others
  <2> QED BY <2>1 DEF Apart
<1>3. ~past'.overwrote => ~past.overwrote /\ ~Overwrote(c)
  <2>1. PICK a, b : /\ a = (past.overwrote \/ Overwrote(c))
                    /\ b = (past.raced \/ Outdated(Who(c)) \/ ~ req[c].clash \subseteq views)
    OBVIOUS
  <2>2. past' = [past EXCEPT !.overwrote = a, !.raced = b]
    BY <2>1 DEF Recorded
  <2>3. past \in [drift : BOOLEAN, cut : BOOLEAN, raced : BOOLEAN, overlapped : BOOLEAN,
                  overwrote : BOOLEAN]
    BY DEF IInv, Tables
  <2>4. past'.overwrote = a
    BY <2>2, <2>3
  <2> QED BY <2>1, <2>4
<1>4. Tallied'
  <2> SUFFICES ASSUME ~past'.overwrote
               PROVE  /\ Sums(views') /\ counted' \in [Kinds -> Nat]
                      /\ \A k \in Kinds : Total(views', k) = counted'[k]
    BY DEF Tallied
  <2>1. /\ ~Overwrote(c) /\ Sums(views) /\ counted \in [Kinds -> Nat]
        /\ \A k \in Kinds : Total(views, k) = counted[k]
    BY <1>3 DEF Tallied
  <2>2. CASE Blocked(c)
    BY <2>1, <2>2 DEF Recorded
  <2>3. CASE ~Blocked(c)
    <3>1. /\ Record(c, kind) /\ counted' = [counted EXCEPT ![kind] = @ + 1]
      BY <2>3 DEF Recorded
    <3>2. /\ counted' \in [Kinds -> Nat]
          /\ \A k \in Kinds : counted'[k] = counted[k] + (IF k = kind THEN 1 ELSE 0)
      BY <2>1, <3>1
    <3>3. PICK S : /\ S \subseteq views /\ Made(S, Who(c), kind) \notin views \ S
                   /\ views' = (views \ S) \cup {Made(S, Who(c), kind)}
      BY <2>1, <2>3, <3>1, RecordMerges
    <3>4. PICK m : m = Made(S, Who(c), kind)
      OBVIOUS
    <3>5. /\ Sums((views \ S) \cup {m})
          /\ \A k \in Kinds : Total((views \ S) \cup {m}, k) = Total(views, k) + (IF k = kind THEN 1 ELSE 0)
      <4>1. PICK T : T = views
        OBVIOUS
      <4>2. Sums(T) /\ S \subseteq T /\ m = Made(S, Who(c), kind) /\ m \notin T \ S
        BY <2>1, <3>3, <3>4, <4>1
      <4>3. PICK w : w = Who(c)
        OBVIOUS
      <4>4. m = Made(S, w, kind)
        BY <4>2, <4>3
      <4>5. kind \in Kinds
        OBVIOUS
      <4>6. /\ Sums((T \ S) \cup {m})
            /\ \A k \in Kinds : Total((T \ S) \cup {m}, k) = Total(T, k) + (IF k = kind THEN 1 ELSE 0)
        BY ONLY <4>2, <4>4, <4>5, MergedCounts
      <4> QED BY <4>1, <4>6
    <3>6. PICK after : after = views' /\ after = (views \ S) \cup {m}
      BY <3>3, <3>4
    <3>7. Sums(after) /\ \A k \in Kinds : Total(after, k) = counted'[k]
      BY <2>1, <3>2, <3>5, <3>6
    <3> QED BY <3>2, <3>6, <3>7
  <2> QED BY <2>2, <2>3
<1> QED BY <1>2, <1>4

\* At first nothing is counted.
LEMMA InitTallies == ASSUME Init PROVE Apart /\ Tallied
<1>1. Apart
  BY DEF Init, Apart, Idle, Counting
<1>2. views = {} /\ counted = [k \in Kinds |-> 0]
  BY DEF Init, Kinds
<1>3. Sums(views)
  BY <1>2, FS_EmptySet DEF Sums
<1>4. \A k \in Kinds : Total(views, k) = counted[k]
  BY <1>2, TotalOfNone
<1> QED BY <1>1, <1>2, <1>3, <1>4 DEF Tallied

\* Every step keeps the counts.
LEMMA NextTallies ==
    ASSUME IInv, Apart, Tallied, [Next]_vars
    PROVE  Apart' /\ Tallied'
<1>1. ASSUME NEW c \in Callers, PerCaller(c) PROVE Apart' /\ Tallied'
  <2>1. CASE \/ \E i \in Ids : \E op \in {"toggle", "pin", "view", "heart", "tag", "untag"} : Identify(c, op, i)
             \/ \E I \in SUBSET Ids \ {{}} : \E op \in {"add", "remove"} : IdentifyBatch(c, op, I)
             \/ \E i \in Ids : \E folder \in {"root", "named"} : StartMoves(c, <<i>>, folder)
             \/ \E i, j \in Ids : i # j /\ StartMoves(c, <<i, j>>, "root")
    <3>1. \/ \E i, op : Identify(c, op, i)
          \/ \E I : \E op \in {"add", "remove"} : IdentifyBatch(c, op, I)
          \/ \E todo, folder : StartMoves(c, todo, folder)
      BY <2>1
    <3> QED BY <3>1, BeginningCountsNothing
  <2>2. CASE Look(c) \/ LookForClash(c)
    BY <2>2, LookCountsNothing
  <2>7. CASE IdentifyNext(c)
    BY <2>7, IdentifyNextCountsNothing
  <2>8. CASE \E I \in SUBSET Ids \ {{}} : \E i \in I : \E op \in {"put", "take"} : \E k \in Colls :
                 IdentifyItems(c, op, k, I, i)
    <3>1. PICK I \in SUBSET Ids, i \in Ids, op \in {"put", "take"}, k \in Colls : IdentifyItems(c, op, k, I, i)
      BY <2>8
    <3>2. op \in {"put", "take", "hold"}
      OBVIOUS
    <3>3. \E k1, I1, i1 : \E o \in {"put", "take", "hold"} : IdentifyItems(c, o, k1, I1, i1)
      BY <3>1, <3>2, Zenon
    <3> QED BY <1>1, <3>3, BeginningCountsNothing
  <2>9. CASE \E i \in Ids : \E k \in Colls : IdentifyItems(c, "hold", k, {i}, i)
    <3>1. PICK i \in Ids, k \in Colls : IdentifyItems(c, "hold", k, {i}, i)
      BY <2>9
    <3>2. \E k1, I1, i1 : \E o \in {"put", "take", "hold"} : IdentifyItems(c, o, k1, I1, i1)
      BY <3>1
    <3> QED BY <1>1, <3>2, BeginningCountsNothing
  <2>3. CASE \/ AddFavorites(c) \/ RemoveFavorites(c) \/ ToggleFavorite(c) \/ ToggleFavoritePin(c)
             \/ PutItems(c) \/ TakeItems(c) \/ HoldItem(c) \/ AddUserTag(c) \/ RemoveUserTag(c)
    BY <2>3, OthersCountNothing
  <2>4. CASE RecordView(c) \/ RecordHeart(c)
    <3>1. /\ req[c].op \in Counting /\ req[c].phase = "write"
          /\ Recorded(c, "views") \/ Recorded(c, "hearts")
      BY <2>4 DEF RecordView, RecordHeart, Ready, Counting
    <3> QED BY <3>1, RecordedAddsUp DEF Kinds
  <2>5. CASE CheckMove(c) \/ MoveFile(c) \/ MoveIndex(c) \/ UndoMove(c)
    BY <2>5, MovingCountsNothing
  <2>6. CASE MoveUser(c)
    BY <2>6, MoveUserCountsNothing
  <2> QED BY <1>1, <2>1, <2>2, <2>3, <2>4, <2>5, <2>6, <2>7, <2>8, <2>9 DEF PerCaller
<1>2. CASE \/ \E k \in Colls : \/ CreateCollection(k) \/ PinCollection(k)
                               \/ RenameCollection(k) \/ DeleteCollection(k)
           \/ ToggleFavoriteTag \/ ToggleFavoriteTagPin \/ HideTag \/ ShowTag
           \/ \E names \in {<<"a">>, <<"a", "b">>, <<"b", "a">>} : CreateCombo(names)
           \/ \E n \in 1..MaxRequests : DeleteCombo(n)
           \/ BuildHome \/ StoreHome \/ ExpireHome
  BY <1>2, ListsCountNothing
<1>3. CASE Rebuild \/ Restart
  BY <1>3, RebuildCountsNothing, RestartCountsNothing
<1>4. CASE UNCHANGED vars
  BY <1>4, Uncounted DEF vars, user
<1> QED BY <1>1, <1>2, <1>3, <1>4 DEF Next

\* Views and hearts add up over all rows to those that were answered, through
\* moves, rebuilds and merges of two rows, unless one was written over rows
\* changed since its read (record_image_view, record_heart_spam).
THEOREM CountsStayTrue == Spec => []CountsAddUp
<1>1. Init => Apart /\ Tallied
  BY InitTallies
<1>2. IInv /\ Apart /\ Tallied /\ [Next]_vars => Apart' /\ Tallied'
  BY NextTallies
<1>3. Tallied => CountsAddUp
  BY DEF Tallied, CountsAddUp, Kinds
<1> QED BY <1>1, <1>2, <1>3, LibraryInductive, PTL DEF Spec
=============================================================================
