----------------------------- MODULE FoldersProofs -----------------------------
(***************************************************************************)
(* Proofs about Folders, for every set of folders, files, roots and        *)
(* callers, batches of every length and any number of requests and faults. *)
(***************************************************************************)
EXTENDS Folders, SequenceTheorems, WellFoundedInduction, TLAPS

-----------------------------------------------------------------------------
\* What a request of each kind holds.
Roles   == {"none", "files", "danbooru", "manga"}
Targets == {"files", "danbooru", "manga", "forget", "none"}
Change  == [f : Dirs, from : Roles, to : Targets]
StepFits(q) ==
    \/ q.kind = "save" /\ q.at \in {"next", "register", "scan", "adopt", "insert", "upsert",
           "import", "forget", "letgo", "check", "cut", "unregister", "relabel", "settle",
           "drop", "ancestors"}
    \/ q.kind = "remove" /\ q.at \in {"check", "cut", "unregister", "relabel"}
    \/ q.kind = "add" /\ q.at \in {"insert", "upsert", "import"}
    \/ q.kind = "files" /\ q.at \in {"register", "scan"}
    \/ q.kind \in {"scan", "browse"} /\ q.at \in {"list", "scan"}
    \/ q.kind = "rescan" /\ q.at \in {"list", "scan", "import"}
    \/ q.kind = "relocate" /\ q.at \in {"move", "import", "publish", "drop", "scan"}
    \/ q.kind = "put" /\ q.at \in {"move", "import"}
Kinds  == {"save", "remove", "add", "files", "scan", "browse", "rescan", "relocate", "put"}
Places == {"next", "register", "scan", "adopt", "insert", "upsert", "import", "forget", "letgo",
           "check", "cut", "unregister", "relabel", "settle", "drop", "ancestors", "list",
           "move", "publish"}
Job == [kind : Kinds, at : Places, todo : Seq(Change),
        asked : SUBSET Change, root : Roots \cup {"none"}, path : Dirs \cup {<<>>},
        doomed : SUBSET Media, gone : SUBSET Dirs, seen : SUBSET Dirs, alone : BOOLEAN]

\* The steps a change of a batch takes, by what it asks.
HeadFits(at, h) ==
    /\ at \in {"register", "scan"} => h.from = "none"
    /\ at = "forget" => h.from = "files" /\ h.to = "forget"
    /\ at = "letgo" => h.from = "manga"
    /\ at \in {"check", "cut", "unregister", "relabel"} => h.from = "danbooru"
    /\ at = "settle" => h.to = "files" /\ h.from # "none"
    /\ at = "drop" => h.to = "forget" /\ h.from # "none"
    /\ at = "adopt" => h.to \in {"danbooru", "manga"}
    /\ at \in {"insert", "upsert", "import"} => h.to = "danbooru"
ChangeFits(h) ==
    /\ h.to \in {"files", "danbooru", "manga", "forget"} /\ h.to # h.from
    /\ h.from = "none" => h.to # "forget"
BatchFits(todo) ==
    \A i, j \in DOMAIN todo : i < j =>
        todo[i].f # todo[j].f /\ (todo[i].from = "none" => todo[j].from = "none")

Fits(q) ==
    /\ q \in Job /\ StepFits(q)
    /\ q.todo = <<>> => q.kind = "save" /\ q.at \in {"next", "ancestors"}
    /\ q.kind = "save" => /\ \A ch \in Range(q.todo) : ChangeFits(ch)
                          /\ BatchFits(q.todo)
                          /\ q.at \notin {"next", "ancestors"} => HeadFits(q.at, Head(q.todo))
                          /\ q.at = "ancestors" => q.todo = <<>>
    /\ q.kind = "remove" => Head(q.todo).to = "forget"
    /\ q.kind = "rescan" => Head(q.todo).to # "none" /\ (q.at = "import" => Head(q.todo).to = "danbooru")
    /\ q.kind \in {"relocate", "put"} /\ q.at = "move" => q.path \in Dirs
    /\ q.at \in {"cut", "unregister"} => q.root \in Roots
    /\ q.at \notin {"cut", "unregister", "relabel"} => q.root = "none"
JobsFit ==
    /\ job \in [Callers -> {job[c] : c \in Callers}]
    /\ \A c \in Callers : job[c] = Idle \/ Fits(job[c])

\* The running import has folders and roots.
ToolFits == tool.scope \subseteq Dirs /\ tool.roots \in [Roots -> Dirs \cup {<<>>}]
PastFits == past \in [drift : BOOLEAN, raced : BOOLEAN, cut : SUBSET Dirs, moved : SUBSET Dirs]

\* As long as nothing raced or no publication is due, requests run one at a time;
\* and so does one that saw nothing else.
OneAtATime ==
    /\ ~past.raced \/ ~past.drift =>
           \A c, d \in Callers : Busy(c) /\ Busy(d) => c = d
    /\ \A c \in Callers : Busy(c) /\ job[c].alone => Others(c) = {}

\* The registered folders, and those the shared list calls Danbooru's.
Reg == {registered[r] : r \in Live}
Dan == {d \in Dirs : source[d] = "danbooru"}

\* Where the two lists are on their way, between two commits.
Leaving(q)  == q.at = "relabel" /\ q.root # "none"
Entering(q) == q.at = "upsert"
Moving(q)   == q.kind = "relocate" /\ q.at \in {"import", "publish"}

\* What a request knows of the lists when no publication is due.
ListsFit(q) ==
    LET f == Head(q.todo).f
    IN  /\ Leaving(q) => Dan = Reg \cup {q.path} /\ q.path \notin Reg /\ q.path = f
        /\ Entering(q) => Reg = Dan \cup {f}
        /\ ~Leaving(q) /\ ~Entering(q) /\ ~Moving(q) => Dan = Reg
        /\ q.at \in {"cut", "unregister"} => registered[q.root] = f
        /\ q.at \in {"relabel", "forget", "settle"} /\ ~Leaving(q) => source[f] # "danbooru"
        /\ q.kind = "save" /\ (q.at \in {"register", "scan"} \/ (q.at = "adopt" /\ Head(q.todo).to = "manga")) => source[f] # "danbooru"
        /\ q.kind = "save" => \A i \in DOMAIN q.todo :
               i > 1 \/ q.at = "next" => source[q.todo[i].f] = q.todo[i].from
        /\ q.kind = "rescan" => source[f] = Head(q.todo).to
        /\ q.at = "import" => f \in Reg
Agreement ==
    ~past.drift => /\ Quiet => Dan = Reg
                   /\ \A c \in Callers : Busy(c) => ListsFit(job[c])

\* What a release knows of the rows, and what else is known of them, as long as
\* nothing raced.
RowsFit(q) ==
    /\ q.at \in {"cut", "unregister"} => ~Running /\ registered[q.root] = Head(q.todo).f
    /\ q.at = "cut" => Doomed(q.root) \subseteq q.doomed
    /\ q.at = "unregister" => Doomed(q.root) = {}
    /\ q.at = "insert" => RootAt(Head(q.todo).f) = {}
    /\ q.at = "upsert" => RootAt(Head(q.todo).f) # {}
Rooted ==
    ~past.raced =>
        /\ \A x \in row : x.root \in Live
        /\ Running => /\ \A r \in Roots : tool.roots[r] # <<>> => r \in Live
                      /\ \A f \in tool.scope : \E r \in Roots : tool.roots[r] = f
        /\ \A c \in Callers : Busy(c) => RowsFit(job[c])
        /\ \A d \in Dirs : source[d] = "danbooru" /\ RootAt(d) = {} => d \in past.cut \cup past.moved

\* What a batch that saw nothing else has seen to.
Had(q, ch) == ch \notin Range(q.todo)
Nearest(m, f) == /\ home[m] \in there /\ Within(home[m], f)
                 /\ \A d \in Listed : Below(d, f) => ~Within(home[m], d)
Saved(q) ==
    /\ Range(q.todo) \subseteq q.asked /\ \A x, y \in q.asked : x.f = y.f => x = y
    /\ \A x \in q.asked : ChangeFits(x)
    /\ \A x \in q.asked, y \in Range(q.todo) : Had(q, x) /\ x.from = "none" => y.from = "none"
    /\ q.at \in {"scan", "ancestors"} => q.seen = Listed
    /\ \A x \in q.asked : Had(q, x) /\ x.to = "forget" => x.f \in q.gone
    /\ \A x \in q.asked : x.from = "none" =>
          /\ Had(q, x) \/ (q.at \notin {"next", "register"} /\ x = Head(q.todo)) => source[x.f] # "none"
          /\ Had(q, x) \/ (q.at \notin {"next", "register", "scan"} /\ x = Head(q.todo)) =>
                 \A m \in Media : Nearest(m, x.f) =>
                     [at |-> home[m], m |-> m, src |-> x.f, on |-> TRUE] \in entry
Batched == \A c \in Callers : job[c].kind = "save" /\ job[c].alone => Saved(job[c])

IInv ==
    /\ TypeOK
    /\ JobsFit
    /\ ToolFits
    /\ PastFits
    /\ OneAtATime
    /\ Agreement
    /\ Rooted
    /\ Batched

-----------------------------------------------------------------------------
(* Paths.                                                                  *)

LessThan == {p \in Nat \X Nat : p[1] < p[2]}

\* A set of numbers that is not empty has a least element.
LEMMA LeastNumber ==
    ASSUME NEW T, T \subseteq Nat, T # {}
    PROVE  \E x \in T : \A y \in T : x <= y
<1>1. IsWellFoundedOn(LessThan, Nat)
  BY NatLessThanWellFounded DEF OpToRel, LessThan
<1>2. PICK x \in T : \A y \in T : ~ (<<y, x>> \in LessThan)
  BY <1>1, WFMin
<1>3. ASSUME NEW y \in T PROVE x <= y
  <2>1. ~ (y < x)
    BY <1>2 DEF LessThan
  <2> QED BY <2>1
<1> QED BY <1>3

\* A folder is a path of at least one component.
LEMMA Paths ==
    ASSUME NEW d \in Dirs
    PROVE  d \in Seq(Parts) /\ d # <<>> /\ Len(d) \in Nat
BY PathAssumption, LenProperties

\* A folder lies within the folders whose components it begins with.
LEMMA WithinIs ==
    ASSUME NEW d \in Dirs, NEW f \in Dirs
    PROVE  Within(d, f) <=> /\ Len(f) <= Len(d)
                            /\ \A i \in 1..Len(f) : f[i] = d[i]
<1>1. /\ d \in Seq(Parts) /\ f \in Seq(Parts) /\ Len(d) \in Nat /\ Len(f) \in Nat
      /\ SubSeq(f, 1, Len(f)) = f
  BY Paths, SubSeqFull
<1>2. ASSUME Len(f) <= Len(d)
      PROVE  SubSeq(f, 1, Len(f)) = SubSeq(d, 1, Len(f)) <=> \A i \in 1..Len(f) : f[i] = d[i]
  <2> DEFINE e == SubSeq(d, 1, Len(f))
  <2>1. \A i \in 1..Len(f) : d[i] \in Parts
    BY <1>1, <1>2, ElementOfSeq
  <2>2. e \in Seq(Parts) /\ Len(e) = Len(f) /\ \A i \in 1..Len(f) : e[i] = d[i]
    <3>1. /\ e \in Seq(Parts) /\ Len(e) = IF 1 <= Len(f) THEN Len(f) - 1 + 1 ELSE 0
          /\ \A i \in 1..Len(f) - 1 + 1 : e[i] = d[1 + i - 1]
      BY <1>1, <2>1, SubSeqProperties
    <3> HIDE DEF e
    <3> QED BY <1>1, <3>1
  <2> HIDE DEF e
  <2>3. CASE f = e
    BY <1>1, <2>2, <2>3 DEF e
  <2>4. CASE \A i \in 1..Len(f) : f[i] = d[i]
    <3>1. \A i \in 1..Len(f) : f[i] = e[i]
      BY <2>2, <2>4
    <3>2. f = e
      BY <1>1, <2>2, <3>1, SeqEqual
    <3> QED BY <1>1, <3>2, <2>4 DEF e
  <2> QED BY <1>1, <2>3, <2>4 DEF e
<1> QED BY <1>2 DEF Within, IsPrefix

\* Within is a partial order, and total on the folders that a folder lies in.
LEMMA WithinOrder ==
    ASSUME NEW d \in Dirs, NEW f \in Dirs
    PROVE  /\ Within(d, d)
           /\ \A g \in Dirs : Within(d, f) /\ Within(f, g) => Within(d, g)
           /\ Within(d, f) => Len(f) <= Len(d)
           /\ Within(d, f) /\ Len(d) <= Len(f) => d = f
           /\ \A m \in Dirs : Within(m, d) /\ Within(m, f) /\ Len(f) <= Len(d) => Within(d, f)
<1>1. Len(d) \in Nat /\ Len(f) \in Nat /\ d \in Seq(Parts) /\ f \in Seq(Parts)
  BY Paths
<1>2. Within(d, d)
  BY <1>1, WithinIs
<1>3. ASSUME NEW g \in Dirs, Within(d, f), Within(f, g) PROVE Within(d, g)
  <2>1. Len(g) \in Nat
    BY Paths
  <2> QED BY <1>1, <1>3, <2>1, WithinIs
<1>4. ASSUME Within(d, f), Len(d) <= Len(f) PROVE d = f
  <2>1. Len(d) = Len(f) /\ \A i \in 1..Len(d) : d[i] = f[i]
    BY <1>1, <1>4, WithinIs
  <2> QED BY <1>1, <2>1, SeqEqual
<1>5. ASSUME NEW m \in Dirs, Within(m, d), Within(m, f), Len(f) <= Len(d) PROVE Within(d, f)
  <2>1. /\ \A i \in 1..Len(d) : d[i] = m[i]
        /\ \A i \in 1..Len(f) : f[i] = m[i]
    BY <1>5, WithinIs
  <2>2. \A i \in 1..Len(f) : f[i] = d[i]
    BY <1>1, <1>5, <2>1
  <2> QED BY <1>5, <2>2, WithinIs
<1> QED BY <1>2, <1>3, <1>4, <1>5, WithinIs

\* What lies below a folder, by Within.
LEMMA BelowIs ==
    ASSUME NEW d, NEW f
    PROVE  Below(d, f) <=> Within(d, f) /\ f # d
BY DEF Below, Within, IsStrictPrefix

\* Among paths of one folder there is a longest.
LEMMA LongestIs ==
    ASSUME NEW m \in Dirs, NEW S, S \subseteq Dirs, S # {}, \A d \in S : Within(m, d)
    PROVE  \E d \in S : \A e \in S : Len(e) <= Len(d)
<1> DEFINE T == {Len(m) - Len(d) : d \in S}
<1>1. \A d \in S : Len(d) \in Nat /\ Len(m) \in Nat /\ Len(d) <= Len(m)
  BY Paths, WithinOrder
<1>2. T \subseteq Nat /\ T # {}
  BY <1>1
<1>3. PICK x \in T : \A y \in T : x <= y
  BY <1>2, LeastNumber
<1>4. PICK d \in S : x = Len(m) - Len(d)
  OBVIOUS
<1>5. ASSUME NEW e \in S PROVE Len(e) <= Len(d)
  <2>1. Len(m) - Len(d) <= Len(m) - Len(e)
    BY <1>3, <1>4
  <2> QED BY <2>1, <1>1
<1> QED BY <1>5

\* The deepest of some folders over one place is one of them.
LEMMA DeepestIs ==
    ASSUME NEW m \in Dirs, NEW S, S \subseteq Dirs, S # {}, \A d \in S : Within(m, d)
    PROVE  Deepest(S) \in S /\ \A e \in S : Len(e) <= Len(Deepest(S))
BY LongestIs DEF Deepest

\* The root of a file is one of those that were read, if any lies over it.
LEMMA RootIs ==
    ASSUME NEW d \in Dirs, NEW roots \in [Roots -> Dirs \cup {<<>>}],
           \E r \in Roots : roots[r] # <<>> /\ Within(d, roots[r])
    PROVE  RootOf(d, roots) \in Roots /\ roots[RootOf(d, roots)] # <<>>
<1> DEFINE over == {r \in Roots : roots[r] # <<>> /\ Within(d, roots[r])}
           S == {roots[r] : r \in over}
<1>1. S \subseteq Dirs /\ S # {} /\ \A e \in S : Within(d, e)
  OBVIOUS
<1>2. \E e \in S : \A g \in S : Len(g) <= Len(e)
  BY <1>1, LongestIs
<1>3. \E r \in over : \A s \in over : Len(roots[s]) <= Len(roots[r])
  BY <1>2
<1>4. RootOf(d, roots) \in over
  BY <1>3 DEF RootOf
<1> QED BY <1>4

\* What is carried from one folder to another does not fall together.
LEMMA CarryApart ==
    ASSUME NEW f \in Dirs, NEW g \in Dirs, NEW d \in Dirs, NEW e \in Dirs,
           Within(d, f), Within(e, f), Carry(d, f, g) = Carry(e, f, g)
    PROVE  d = e
<1> DEFINE tail(x) == SubSeq(x, Len(f) + 1, Len(x))
<1>1. /\ Len(d) \in Nat /\ Len(e) \in Nat /\ Len(f) \in Nat /\ g \in Seq(Parts)
      /\ Len(f) <= Len(d) /\ Len(f) <= Len(e) /\ d \in Seq(Parts) /\ e \in Seq(Parts)
  BY Paths, WithinOrder
<1>2. ASSUME NEW x \in {d, e}
      PROVE  /\ tail(x) \in Seq(Parts) /\ Len(tail(x)) = Len(x) - Len(f)
             /\ \A i \in 1..Len(x) - Len(f) : tail(x)[i] = x[Len(f) + i]
  <2>1. \A i \in Len(f) + 1 .. Len(x) : x[i] \in Parts
    BY <1>1, ElementOfSeq
  <2>2. /\ tail(x) \in Seq(Parts)
        /\ Len(tail(x)) = IF Len(f) + 1 <= Len(x) THEN Len(x) - (Len(f) + 1) + 1 ELSE 0
        /\ \A i \in 1..Len(x) - (Len(f) + 1) + 1 : tail(x)[i] = x[Len(f) + 1 + i - 1]
    BY <1>1, <2>1, SubSeqProperties
  <2> HIDE DEF tail
  <2> QED BY <1>1, <2>2
<1>3. tail(d) = tail(e)
  <2>1. g \o tail(d) = g \o tail(e)
    BY DEF Carry
  <2> HIDE DEF tail
  <2> QED BY <1>1, <1>2, <2>1, ConcatSimplifications
<1> HIDE DEF tail
<1>4. Len(d) = Len(e)
  <2>1. Len(d) - Len(f) = Len(e) - Len(f)
    BY <1>2, <1>3
  <2> QED BY <1>1, <2>1
<1>5. ASSUME NEW i \in 1..Len(d) PROVE d[i] = e[i]
  <2>1. CASE i <= Len(f)
    BY <1>1, <2>1, WithinIs
  <2>2. CASE i > Len(f)
    <3>1. i - Len(f) \in 1..Len(d) - Len(f) /\ Len(f) + (i - Len(f)) = i
      BY <1>1, <2>2
    <3> QED BY <1>2, <1>3, <1>4, <3>1
  <2> QED BY <1>1, <2>1, <2>2
<1> QED BY <1>1, <1>4, <1>5, SeqEqual

-----------------------------------------------------------------------------
(* Scans.                                                                  *)

Entry == [at : Dirs, m : Media, src : Dirs, on : BOOLEAN]
SamePlace(x, y) == x.at = y.at /\ x.m = y.m

\* A source's own files, as entries.
LEMMA MineIs ==
    ASSUME home \in [Media -> Dirs], NEW f \in Dirs, NEW seen, seen \subseteq Dirs,
           NEW x \in Mine(f, seen)
    PROVE  /\ x \in Entry /\ x.src = f /\ x.on /\ x.at = home[x.m]
           /\ home[x.m] \in there /\ Within(home[x.m], f)
           /\ \A d \in seen : Below(d, f) => ~Within(home[x.m], d)
<1>1. PICK m \in Media : /\ x = [at |-> home[m], m |-> m, src |-> f, on |-> TRUE]
                        /\ home[m] \in there /\ Within(home[m], f)
                        /\ \A d \in Descendants(f, seen) : ~Within(home[m], d)
  BY DEF Mine
<1>2. x.m = m /\ x.src = f /\ x.on /\ x.at = home[m] /\ home[m] \in Dirs
  BY <1>1
<1>3. x \in Entry
  BY <1>1, <1>2 DEF Entry
<1>4. \A d \in seen : Below(d, f) => ~Within(home[m], d)
  BY <1>1 DEF Descendants
<1> QED BY <1>1, <1>2, <1>3, <1>4

\* No file is the own of two of the sources of one list.
LEMMA OwnOfOne ==
    ASSUME home \in [Media -> Dirs], NEW seen, seen \subseteq Dirs,
           NEW f \in Dirs, NEW g \in Dirs, f = g \/ (f \in seen /\ g \in seen), NEW x \in Mine(f, seen), NEW y \in Mine(g, seen),
           SamePlace(x, y)
    PROVE  x = y
<1>1. /\ x \in Entry /\ y \in Entry /\ x.on /\ y.on /\ x.src = f /\ y.src = g
      /\ x.m = y.m /\ x.at = y.at /\ x.m \in Media /\ home[x.m] \in Dirs
      /\ Within(home[x.m], f) /\ Within(home[x.m], g)
      /\ f # g => ~Below(f, g) /\ ~Below(g, f)
  BY MineIs DEF SamePlace, Entry
<1>2. Len(f) \in Nat /\ Len(g) \in Nat
  BY Paths
<1>3. Within(f, g) \/ Within(g, f)
  <2>1. CASE Len(f) <= Len(g)
    BY <1>1, <2>1, WithinOrder
  <2>2. CASE Len(g) <= Len(f)
    BY <1>1, <2>2, WithinOrder
  <2> QED BY <1>2, <2>1, <2>2
<1>4. f = g
  BY <1>1, <1>3, BelowIs
<1> QED BY <1>1, <1>4 DEF Entry

\* What a scan of some sources makes of the entries known before.
LEMMA ScanIs ==
    ASSUME home \in [Media -> Dirs], NEW known, known \subseteq Entry,
           NEW over, over \subseteq Dirs, NEW seen, seen \subseteq Dirs
    PROVE  /\ ScanAll(known, over, seen) \subseteq Entry
           /\ \A f \in over : Mine(f, seen) \subseteq ScanAll(known, over, seen)
           /\ \A x \in known :
                 \/ \E f \in over : \E y \in Mine(f, seen) : SamePlace(x, y)
                 \/ x.src \in over \/ x \in ScanAll(known, over, seen)
<1> DEFINE mine == UNION {Mine(f, seen) : f \in over}
           rest == {x \in known : \A y \in mine : x.at # y.at \/ x.m # y.m}
           off(x) == IF x.src \in over THEN [x EXCEPT !.on = FALSE] ELSE x
<1>1. ScanAll(known, over, seen) = {off(x) : x \in rest} \cup mine
  BY DEF ScanAll
<1>2. mine \subseteq Entry
  BY MineIs
<1>3. \A x \in known : off(x) \in Entry
  BY DEF Entry
<1>4. \A x \in known : x.src \in over \/ off(x) = x
  OBVIOUS
<1>5. \A x \in known : x \in rest \/ \E y \in mine : SamePlace(x, y)
  BY DEF SamePlace
<1> HIDE DEF off
<1>6. ScanAll(known, over, seen) \subseteq Entry
  BY <1>1, <1>2, <1>3
<1>7. \A f \in over : Mine(f, seen) \subseteq ScanAll(known, over, seen)
  BY <1>1
<1>8. ASSUME NEW x \in known, x.src \notin over, x \in rest PROVE x \in ScanAll(known, over, seen)
  BY <1>8, <1>1, <1>4
<1> QED BY <1>5, <1>6, <1>7, <1>8

\* The scan of one source, as a case of the scan of several.
LEMMA OneScanIs ==
    ASSUME home \in [Media -> Dirs], NEW known, known \subseteq Entry, NEW f \in Dirs,
           NEW seen, seen \subseteq Dirs
    PROVE  /\ Scan(known, f, seen) \subseteq Entry
           /\ Mine(f, seen) \subseteq Scan(known, f, seen)
           /\ \A x \in known : \/ \E y \in Mine(f, seen) : SamePlace(x, y)
                               \/ x.src = f \/ x \in Scan(known, f, seen)
<1>1. PICK over : over = {f}
  OBVIOUS
<1>2. Scan(known, f, seen) = ScanAll(known, over, seen) /\ over \subseteq Dirs /\ f \in over
      /\ \A g \in over : g = f
  BY <1>1 DEF Scan
<1>3. /\ ScanAll(known, over, seen) \subseteq Entry
      /\ \A g \in over : Mine(g, seen) \subseteq ScanAll(known, over, seen)
      /\ \A x \in known :
            \/ \E g \in over : \E y \in Mine(g, seen) : SamePlace(x, y)
            \/ x.src \in over \/ x \in ScanAll(known, over, seen)
  BY <1>2, ScanIs
<1> QED BY <1>2, <1>3

\* The index keeps one entry of a place, when one source is scanned, or some of
\* those that the scans know of.
LEMMA ScanApart ==
    ASSUME home \in [Media -> Dirs], NEW known, known \subseteq Entry, NEW seen, seen \subseteq Dirs,
           NEW over, over \subseteq Dirs, over \subseteq seen \/ \E f \in Dirs : over = {f},
           \A x, y \in known : SamePlace(x, y) => x = y
    PROVE  \A x, y \in ScanAll(known, over, seen) : SamePlace(x, y) => x = y
<1> DEFINE mine == UNION {Mine(f, seen) : f \in over}
           rest == {x \in known : \A y \in mine : x.at # y.at \/ x.m # y.m}
           off(x) == IF x.src \in over THEN [x EXCEPT !.on = FALSE] ELSE x
<1>1. ScanAll(known, over, seen) = {off(x) : x \in rest} \cup mine
  BY DEF ScanAll
<1>2. \A x, y \in mine : SamePlace(x, y) => x = y
  BY OwnOfOne
<1>3. \A x \in rest : off(x).at = x.at /\ off(x).m = x.m
  BY DEF Entry
<1>4. \A x \in rest, y \in mine : ~SamePlace(off(x), y)
  BY <1>3 DEF SamePlace
<1>5. \A x, y \in rest : SamePlace(off(x), off(y)) => x = y
  BY <1>3 DEF SamePlace
<1> HIDE DEF off, rest, mine
<1>6. ASSUME NEW x \in ScanAll(known, over, seen), NEW y \in ScanAll(known, over, seen),
             SamePlace(x, y)
      PROVE  x = y
  <2>1. SamePlace(y, x)
    BY <1>6 DEF SamePlace
  <2>2. CASE x \in mine
    BY <1>1, <1>2, <1>4, <1>6, <2>1, <2>2
  <2>3. CASE y \in mine
    BY <1>1, <1>2, <1>4, <1>6, <2>1, <2>3
  <2>4. CASE x \notin mine /\ y \notin mine
    BY <1>1, <1>5, <1>6, <2>4
  <2> QED BY <2>2, <2>3, <2>4
<1> QED BY <1>6

\* Scanning one more source after some others is scanning it with them: the
\* model's single step for a loop of scans leaves nothing out.
LEMMA ScansAddUp ==
    ASSUME home \in [Media -> Dirs], NEW known, known \subseteq Entry, NEW seen, seen \subseteq Dirs,
           NEW over, over \subseteq seen, NEW g \in seen \ over
    PROVE  Scan(ScanAll(known, over, seen), g, seen) = ScanAll(known, over \cup {g}, seen)
<1> DEFINE first == UNION {Mine(f, seen) : f \in over}
           more  == Mine(g, seen)
           hidden(x, M) == \E y \in M : SamePlace(x, y)
           off(x, S) == IF x.src \in S THEN [x EXCEPT !.on = FALSE] ELSE x
           A == {off(x, over) : x \in {z \in known : ~hidden(z, first)}} \cup first
           B == {off(x, {g}) : x \in {z \in A : ~hidden(z, more)}} \cup more
           C == {off(x, over \cup {g}) : x \in {z \in known : ~hidden(z, first \cup more)}}
                \cup first \cup more
<1>1. ScanAll(known, over, seen) = A
  BY DEF ScanAll, SamePlace
<1>2. Scan(A, g, seen) = B
  BY DEF Scan, ScanAll, SamePlace
<1>3. ScanAll(known, over \cup {g}, seen) = C
  <2>1. UNION {Mine(f, seen) : f \in over \cup {g}} = first \cup more
    OBVIOUS
  <2> QED BY <2>1 DEF ScanAll, SamePlace
<1>4. /\ first \subseteq Entry /\ more \subseteq Entry
      /\ \A x \in first : x.src # g /\ ~hidden(x, more)
  <2>1. \A x \in first : x.src \in over /\ x \in Entry
    BY MineIs
  <2>2. \A y \in more : y.src = g /\ y \in Entry
    BY MineIs
  <2>3. ASSUME NEW f \in over, NEW x \in Mine(f, seen), NEW y \in more, SamePlace(x, y)
        PROVE  FALSE
    <3>1. x = y
      BY <2>3, OwnOfOne
    <3> QED BY <3>1, <2>1, <2>2
  <2> QED BY <2>1, <2>2, <2>3
<1>5. ASSUME NEW x \in known
      PROVE  /\ off(off(x, over), {g}) = off(x, over \cup {g})
             /\ hidden(off(x, over), more) <=> hidden(x, more)
             /\ hidden(x, first \cup more) <=> hidden(x, first) \/ hidden(x, more)
  BY DEF Entry, SamePlace
<1>6. \A x \in first : off(x, {g}) = x
  BY <1>4
<1> HIDE DEF first, more, hidden, off
<1>7. B = C
  <2>1. ASSUME NEW z \in B PROVE z \in C
    <3>1. CASE z \in more
      BY <3>1
    <3>2. ASSUME z \notin more
          PROVE  \E x \in A : z = off(x, {g}) /\ ~hidden(x, more)
      BY <3>2
    <3>3. ASSUME NEW x \in first, z = off(x, {g}) PROVE z \in C
      BY <3>3, <1>6
    <3>4. ASSUME NEW x \in known, ~hidden(x, first), z = off(off(x, over), {g}),
                 ~hidden(off(x, over), more)
          PROVE  z \in C
      BY <3>4, <1>5
    <3>5. \A x \in A : x \in first \/ \E y \in known : ~hidden(y, first) /\ x = off(y, over)
      OBVIOUS
    <3> HIDE DEF A, B, C
    <3> QED BY <3>1, <3>2, <3>3, <3>4, <3>5
  <2>2. ASSUME NEW z \in C PROVE z \in B
    <3>1. CASE z \in more
      BY <3>1
    <3>2. CASE z \in first
      <4>1. z \in A /\ ~hidden(z, more) /\ off(z, {g}) = z
        BY <3>2, <1>4, <1>6
      <4> HIDE DEF A
      <4> QED BY <4>1
    <3>3. ASSUME NEW x \in known, ~hidden(x, first \cup more), z = off(x, over \cup {g})
          PROVE  z \in B
      <4>1. ~hidden(x, first) /\ ~hidden(off(x, over), more) /\ z = off(off(x, over), {g})
        BY <3>3, <1>5
      <4>2. off(x, over) \in A
        BY <4>1
      <4> HIDE DEF A
      <4> QED BY <4>1, <4>2
    <3>4. \/ z \in first \cup more
          \/ \E x \in known : ~hidden(x, first \cup more) /\ z = off(x, over \cup {g})
      OBVIOUS
    <3> HIDE DEF B, C
    <3> QED BY <3>1, <3>2, <3>3, <3>4
  <2> QED BY <2>1, <2>2
<1> QED BY <1>1, <1>2, <1>3, <1>7

-----------------------------------------------------------------------------
(* Requests and what they hold.                                            *)

\* The changes a request has before it.
LEMMA Heads ==
    ASSUME NEW todo \in Seq(Change), todo # <<>>
    PROVE  /\ Head(todo) \in Change /\ Head(todo) \in Range(todo)
           /\ Head(todo) = todo[1] /\ 1 \in DOMAIN todo
           /\ Tail(todo) \in Seq(Change)
           /\ \A i \in DOMAIN Tail(todo) :
                 i + 1 \in DOMAIN todo /\ i + 1 > 1 /\ Tail(todo)[i] = todo[i + 1]
           /\ Range(Tail(todo)) \subseteq Range(todo)
           /\ \A x \in Range(todo) : x = Head(todo) \/ x \in Range(Tail(todo))
<1>1. /\ Len(todo) \in Nat \ {0} /\ DOMAIN todo = 1..Len(todo)
      /\ Head(todo) \in Change /\ Tail(todo) \in Seq(Change) /\ Len(Tail(todo)) = Len(todo) - 1
      /\ DOMAIN Tail(todo) = 1..Len(todo) - 1
      /\ \A i \in 1..Len(Tail(todo)) : Tail(todo)[i] = todo[i + 1]
  BY HeadTailProperties, LenProperties, EmptySeq
<1>2. Head(todo) = todo[1]
  OBVIOUS
<1>3. \A i \in DOMAIN Tail(todo) :
         i + 1 \in DOMAIN todo /\ i + 1 > 1 /\ Tail(todo)[i] = todo[i + 1]
  BY <1>1
<1>4. ASSUME NEW i \in DOMAIN todo, i # 1 PROVE i - 1 \in DOMAIN Tail(todo) /\ Tail(todo)[i - 1] = todo[i]
  <2>1. i - 1 \in 1..Len(todo) - 1 /\ (i - 1) + 1 = i
    BY <1>1, <1>4
  <2> QED BY <2>1, <1>1
<1>5. Range(Tail(todo)) \subseteq Range(todo)
  BY <1>3 DEF Range
<1>6. \A x \in Range(todo) : x = Head(todo) \/ x \in Range(Tail(todo))
  BY <1>2, <1>4 DEF Range
<1> QED BY <1>1, <1>2, <1>3, <1>5, <1>6 DEF Range

\* What is left of a batch after its first change.
LEMMA Tails ==
    ASSUME NEW todo \in Seq(Change), todo # <<>>, BatchFits(todo)
    PROVE  /\ BatchFits(Tail(todo))
           /\ \A x \in Range(Tail(todo)) :
                 x.f # Head(todo).f /\ (Head(todo).from = "none" => x.from = "none")
<1>1. DOMAIN todo \subseteq Nat /\ DOMAIN Tail(todo) \subseteq Nat
  BY HeadTailProperties, LenProperties
<1>2. BatchFits(Tail(todo))
  <2> SUFFICES ASSUME NEW i \in DOMAIN Tail(todo), NEW j \in DOMAIN Tail(todo), i < j
               PROVE  /\ Tail(todo)[i].f # Tail(todo)[j].f
                      /\ Tail(todo)[i].from = "none" => Tail(todo)[j].from = "none"
    BY DEF BatchFits
  <2>1. i + 1 \in DOMAIN todo /\ j + 1 \in DOMAIN todo /\ i + 1 < j + 1
        /\ Tail(todo)[i] = todo[i + 1] /\ Tail(todo)[j] = todo[j + 1]
    BY <1>1, Heads
  <2> QED BY <2>1 DEF BatchFits
<1>3. ASSUME NEW x \in Range(Tail(todo))
      PROVE  x.f # Head(todo).f /\ (Head(todo).from = "none" => x.from = "none")
  <2>1. PICK i \in DOMAIN Tail(todo) : x = Tail(todo)[i]
    BY DEF Range
  <2>2. i + 1 \in DOMAIN todo /\ 1 \in DOMAIN todo /\ 1 < i + 1 /\ x = todo[i + 1]
        /\ Head(todo) = todo[1]
    BY <2>1, Heads
  <2> QED BY <2>2 DEF BatchFits
<1> QED BY <1>2, <1>3

\* A list of one change.
LEMMA OneChange ==
    ASSUME NEW ch \in Change
    PROVE  /\ <<ch>> \in Seq(Change) /\ <<ch>> # <<>> /\ Head(<<ch>>) = ch
           /\ Range(<<ch>>) = {ch}
<1>1. Range(<<ch>>) = {ch}
  BY DEF Range
<1> QED BY <1>1

\* A request at work, its folder, and where it may be.
LEMMA AtWork ==
    ASSUME IInv, NEW c \in Callers, job[c].at # "idle"
    PROVE  /\ Busy(c) /\ Fits(job[c]) /\ job[c] \in Job /\ job[c] # Idle
           /\ job[c].todo # <<>> => /\ Head1(c) \in Change /\ Folder(c) \in Dirs
                                    /\ Folder(c) # <<>>
           /\ job[c].at \notin {"next", "ancestors"} => job[c].todo # <<>>
<1>1. Busy(c) /\ Fits(job[c]) /\ job[c] # Idle
  BY DEF IInv, JobsFit, Idle, Busy, TypeOK
<1>2. job[c] \in Job /\ job[c].todo \in Seq(Change)
  BY <1>1 DEF Fits, Job
<1>3. job[c].todo # <<>> => Head1(c) \in Change
  BY <1>2, Heads DEF Head1
<1>4. job[c].todo # <<>> => Folder(c) \in Dirs /\ Folder(c) # <<>>
  BY <1>3, Paths DEF Folder, Change
<1> QED BY <1>1, <1>2, <1>3, <1>4 DEF Fits

\* A step of one request.
Moves(c) == job' = [job EXCEPT ![c] = job'[c]] /\ (job'[c] = Idle \/ Fits(job'[c]))

\* A step of one request leaves the others as they are.
LEMMA OthersStay ==
    ASSUME IInv, NEW c \in Callers, Moves(c)
    PROVE  /\ JobsFit' /\ DOMAIN job = Callers
           /\ \A u \in Callers : u # c => job'[u] = job[u]
BY DEF IInv, JobsFit, Moves

\* A request that is not at work fits no kind of request.
LEMMA IdleIs == Idle.kind = "idle" /\ Idle.at = "idle" /\ ~Fits(Idle)
BY DEF Idle, Fits, StepFits

\* A request is known to be idle by its kind.
LEMMA IdleKind ==
    ASSUME NEW q, q = Idle \/ Fits(q)
    PROVE  (q.kind = "idle" <=> q = Idle) /\ (q.at = "idle" <=> q = Idle)
BY IdleIs DEF Fits, StepFits

-----------------------------------------------------------------------------
(* What a step of a request has to do for the invariant.                   *)

\* The parts of the invariant that are about the request that makes the step.
Agrees(c) == /\ job[c] = Idle => Dan = Reg
             /\ job[c] # Idle => ListsFit(job[c])
RowsHeld  == \A x \in row : x.root \in Live
ToolHeld  == Running => /\ \A r \in Roots : tool.roots[r] # <<>> => r \in Live
                        /\ \A f \in tool.scope : \E r \in Roots : tool.roots[r] = f
CutKnown  == \A d \in Dirs : source[d] = "danbooru" /\ RootAt(d) = {} => d \in past.cut \cup past.moved
Holds(c)  == RowsHeld /\ ToolHeld /\ CutKnown /\ (job[c] # Idle => RowsFit(job[c]))

\* A step of a request keeps the invariant when it keeps what is known of a
\* request that is the only one, and remembers what it did beside others.
LEMMA StepKeeps ==
    ASSUME IInv, NEW c \in Callers, job[c].at # "idle", Moves(c), TypeOK', ToolFits', PastFits',
           job'[c] # Idle => job'[c].alone = job[c].alone,
           past.raced => past'.raced,
           past.drift /\ Others(c) # {} => past'.drift,
           ~past'.drift /\ Others(c) = {} => Agrees(c)',
           ~past'.raced /\ Others(c) = {} => Holds(c)',
           job'[c].kind = "save" /\ job'[c].alone /\ Others(c) = {} => Saved(job[c])'
    PROVE  IInv'
<1>1. /\ JobsFit' /\ DOMAIN job = Callers /\ \A u \in Callers : u # c => job'[u] = job[u]
      /\ Busy(c)
  BY OthersStay, AtWork
<1>2. \A u \in Callers : Busy(u)' => Busy(u)
  BY <1>1 DEF Busy
<1>3. ~past'.raced \/ ~past'.drift => Others(c) = {}
  <2>1. ~past.raced \/ ~past.drift => Others(c) = {}
    BY <1>1 DEF IInv, OneAtATime, Others
  <2> QED BY <2>1
<1>4. OneAtATime'
  <2>1. ASSUME ~past'.raced \/ ~past'.drift, NEW a \in Callers, NEW b \in Callers,
               Busy(a)', Busy(b)'
        PROVE  a = b
    BY <2>1, <1>1, <1>2, <1>3 DEF Others
  <2>2. ASSUME NEW a \in Callers, Busy(a)', job'[a].alone PROVE (Others(a) = {})'
    <3>1. Busy(a) /\ job[a].alone
      <4>1. CASE a = c
        BY <4>1, <2>2, <1>1, IdleIs DEF Busy
      <4>2. CASE a # c
        BY <4>2, <2>2, <1>1, <1>2
      <4> QED BY <4>1, <4>2
    <3>2. Others(a) = {}
      BY <3>1 DEF IInv, OneAtATime
    <3> QED BY <3>2, <1>2 DEF Others
  <2> QED BY <2>1, <2>2 DEF OneAtATime
<1>5. Agreement'
  <2> SUFFICES ASSUME ~past'.drift
               PROVE  /\ Quiet' => Dan' = Reg'
                      /\ \A a \in Callers : Busy(a)' => ListsFit(job[a])'
    BY DEF Agreement
  <2>1. Agrees(c)' /\ \A a \in Callers : Busy(a)' => a = c
    BY <1>2, <1>3 DEF Others
  <2>2. ASSUME NEW a \in Callers PROVE Busy(a)' <=> job'[a] # Idle
    BY <1>1, IdleKind DEF JobsFit, Busy
  <2> QED BY <2>1, <2>2 DEF Agrees, Quiet
<1>6. Rooted'
  <2> SUFFICES ASSUME ~past'.raced
               PROVE  /\ RowsHeld' /\ ToolHeld' /\ CutKnown'
                      /\ \A a \in Callers : Busy(a)' => RowsFit(job[a])'
    BY DEF Rooted, RowsHeld, ToolHeld, CutKnown
  <2>1. Holds(c)' /\ \A a \in Callers : Busy(a)' => a = c
    BY <1>2, <1>3 DEF Others
  <2>2. ASSUME NEW a \in Callers PROVE Busy(a)' <=> job'[a] # Idle
    BY <1>1, IdleKind DEF JobsFit, Busy
  <2> QED BY <2>1, <2>2 DEF Holds
<1>7. Batched'
  <2> SUFFICES ASSUME NEW a \in Callers, job'[a].kind = "save", job'[a].alone
               PROVE  Saved(job[a])'
    BY DEF Batched
  <2>1. CASE a = c
    <3>1. job'[c] # Idle /\ job[c].alone
      BY <2>1, IdleIs
    <3>2. Others(c) = {}
      BY <3>1, <1>1 DEF IInv, OneAtATime
    <3> QED BY <3>2, <2>1
  <2>2. CASE a # c
    <3>1. job[a].kind = "save" /\ job[a].alone /\ Busy(a)
      BY <2>2, <1>1 DEF Busy
    <3>2. c \in Others(a)
      BY <2>2, <1>1 DEF Others
    <3> QED BY <3>1, <3>2 DEF IInv, OneAtATime
  <2> QED BY <2>1, <2>2
<1> QED BY <1>1, <1>4, <1>5, <1>6, <1>7 DEF IInv

\* A request, by its fields.
LEMMA JobIs ==
    ASSUME NEW q \in Job, NEW a \in Places, NEW t \in Seq(Change),
           NEW r \in Roots \cup {"none"}, NEW f \in Dirs \cup {<<>>},
           NEW D \in SUBSET Media, NEW g \in SUBSET Dirs, NEW s \in SUBSET Dirs
    PROVE  [kind |-> q.kind, at |-> a, todo |-> t, asked |-> q.asked, root |-> r, path |-> f,
            doomed |-> D, gone |-> g, seen |-> s, alone |-> q.alone] \in Job
BY DEF Job

\* A request that goes on to another step.
LEMMA FitsAt ==
    ASSUME NEW q, Fits(q), NEW a \in Places, StepFits([q EXCEPT !.at = a]), a # "move",
           q.todo = <<>> => a \in {"next", "ancestors"},
           a = "ancestors" => q.todo = <<>>,
           q.kind = "save" /\ a \notin {"next", "ancestors"} => HeadFits(a, Head(q.todo)),
           q.kind = "rescan" /\ a = "import" => Head(q.todo).to = "danbooru",
           a \in {"cut", "unregister"} => q.root \in Roots,
           a \in {"cut", "unregister", "relabel"} \/ q.root = "none"
    PROVE  Fits([q EXCEPT !.at = a])
<1> DEFINE p == [q EXCEPT !.at = a]
<1>1. /\ p \in Job /\ p.at = a /\ p.kind = q.kind /\ p.todo = q.todo /\ p.root = q.root
      /\ StepFits(p)
  BY DEF Fits, Job
<1> HIDE DEF p
<1>2. Fits(p)
  BY <1>1 DEF Fits
<1> QED BY <1>2 DEF p

\* A request that goes on to another step keeps its other fields.
LEMMA ToIs ==
    ASSUME IInv, NEW c \in Callers, NEW a, To(c, a), Fits([job[c] EXCEPT !.at = a]), job[c] \in Job
    PROVE  /\ Moves(c) /\ job'[c] # Idle /\ job'[c].at = a
           /\ job'[c].kind = job[c].kind /\ job'[c].todo = job[c].todo
           /\ job'[c].asked = job[c].asked /\ job'[c].root = job[c].root
           /\ job'[c].path = job[c].path /\ job'[c].doomed = job[c].doomed
           /\ job'[c].gone = job[c].gone /\ job'[c].seen = job[c].seen
           /\ job'[c].alone = job[c].alone
<1>1. job'[c] = [job[c] EXCEPT !.at = a] /\ job' = [job EXCEPT ![c] = job'[c]]
  BY DEF To, IInv, JobsFit
<1>2. job'[c] # Idle
  BY <1>1, IdleIs
<1> QED BY <1>1, <1>2 DEF Moves, Job

\* A request that ends its change.
LEMMA TailIs ==
    ASSUME IInv, NEW c \in Callers, job[c].kind = "save", Fits(job[c]), job[c].todo # <<>>,
           job[c].at \notin {"cut", "unregister", "relabel"},
           job' = [job EXCEPT ![c].at = "next", ![c].todo = Tail(@)]
    PROVE  /\ Moves(c) /\ job'[c] # Idle /\ job'[c].at = "next"
           /\ job'[c].kind = "save" /\ job'[c].todo = Tail(job[c].todo)
           /\ job'[c].asked = job[c].asked /\ job'[c].gone = job[c].gone
           /\ job'[c].alone = job[c].alone
<1> DEFINE p == [job[c] EXCEPT !.at = "next", !.todo = Tail(@)]
<1>1. job'[c] = p /\ job' = [job EXCEPT ![c] = job'[c]]
  BY DEF IInv, JobsFit
<1>2. /\ job[c] \in Job /\ job[c].todo \in Seq(Change)
      /\ BatchFits(job[c].todo) /\ \A ch \in Range(job[c].todo) : ChangeFits(ch)
  BY DEF Fits, Job
<1>3. /\ Tail(job[c].todo) \in Seq(Change) /\ BatchFits(Tail(job[c].todo))
      /\ \A ch \in Range(Tail(job[c].todo)) : ChangeFits(ch)
  BY <1>2, Heads, Tails
<1>4. /\ p \in Job /\ p.at = "next" /\ p.kind = "save" /\ p.todo = Tail(job[c].todo)
      /\ p.asked = job[c].asked /\ p.gone = job[c].gone /\ p.alone = job[c].alone
      /\ p.root = job[c].root
  <2> DEFINE q == job[c]
             t == Tail(job[c].todo)
  <2>1. q \in Job /\ t \in Seq(Change) /\ q.kind = "save" /\ p = [q EXCEPT !.at = "next", !.todo = t]
    BY <1>2, <1>3
  <2> HIDE DEF q, t, p
  <2>2. q = [kind |-> q.kind, at |-> q.at, todo |-> q.todo, asked |-> q.asked, root |-> q.root,
             path |-> q.path, doomed |-> q.doomed, gone |-> q.gone, seen |-> q.seen,
             alone |-> q.alone]
    BY <2>1 DEF Job
  <2>3. p = [kind |-> q.kind, at |-> "next", todo |-> t, asked |-> q.asked, root |-> q.root,
             path |-> q.path, doomed |-> q.doomed, gone |-> q.gone, seen |-> q.seen,
             alone |-> q.alone]
    BY <2>1, <2>2
  <2>4. p \in Job
    <3>1. /\ q \in Job /\ t \in Seq(Change) /\ "next" \in Places
          /\ q.root \in Roots \cup {"none"} /\ q.path \in Dirs \cup {<<>>}
          /\ q.doomed \in SUBSET Media /\ q.gone \in SUBSET Dirs /\ q.seen \in SUBSET Dirs
      BY <2>1 DEF Job, Places
    <3> QED BY <2>3, <3>1, JobIs
  <2>5. /\ p.at = "next" /\ p.kind = "save" /\ p.todo = t /\ p.root = q.root
        /\ p.asked = q.asked /\ p.gone = q.gone /\ p.alone = q.alone
    BY <2>1, <2>3
  <2> QED BY <2>4, <2>5 DEF q, t
<1> HIDE DEF p
<1>5. Fits(p)
  <2>1. p.root = "none"
    BY <1>4 DEF Fits
  <2> QED BY <2>1, <1>3, <1>4 DEF Fits, StepFits
<1>6. p # Idle
  BY <1>5, IdleIs
<1> QED BY <1>1, <1>4, <1>5, <1>6 DEF Moves

\* A request that is answered is at work no more.
LEMMA AnswerIs ==
    ASSUME IInv, NEW c \in Callers, Answer(c)
    PROVE  Moves(c) /\ job'[c] = Idle
BY DEF Answer, Moves, IInv, JobsFit

\* What is known of a request that is the only one.
LEMMA Known ==
    ASSUME IInv, NEW c \in Callers, job[c].at # "idle"
    PROVE  /\ ~past.drift => ListsFit(job[c])
           /\ ~past.raced => RowsHeld /\ ToolHeld /\ CutKnown /\ RowsFit(job[c])
           /\ job[c].kind = "save" /\ job[c].alone => Saved(job[c])
BY AtWork DEF IInv, Agreement, Rooted, Batched, RowsHeld, ToolHeld, CutKnown

\* What does not change with the lists, or with the registrations alone.
LEMMA RegsKept ==
    ASSUME registered' = registered
    PROVE  Reg' = Reg /\ Live' = Live /\ \A d : (RootAt(d))' = RootAt(d)
BY DEF Reg, Live, RootAt

\* What does not change with the shared list alone.
LEMMA SourceKept ==
    ASSUME source' = source
    PROVE  Dan' = Dan /\ Listed' = Listed
BY DEF Dan, Listed

\* TypeOK but for the requests.
Stores ==
    /\ there \subseteq Dirs /\ home \in [Media -> Dirs]
    /\ source \in [Dirs -> Roles]
    /\ registered \in [Roots -> Dirs \cup {<<>>}]
    /\ row \subseteq [at : Dirs, m : Media, root : Roots \cup {"stray"}]
    /\ \A x, y \in row : x.at = y.at /\ x.m = y.m => x = y
    /\ entry \subseteq Entry
    /\ \A x, y \in entry : SamePlace(x, y) => x = y
    /\ past.raced \/ \A r, s \in Live : registered[r] = registered[s] => r = s
    /\ up \in BOOLEAN

\* The type invariant holds of the stores.
LEMMA StoresAre == ASSUME IInv PROVE Stores
BY DEF IInv, TypeOK, Stores, Roles, Entry, SamePlace

\* The type invariant, from the stores and the requests.
LEMMA TypeKept ==
    ASSUME JobsFit', Stores'
    PROVE  TypeOK'
<1>1. \A u \in Callers : job'[u].kind = "idle" <=> job'[u] = Idle
  BY IdleKind DEF JobsFit
<1> QED BY <1>1 DEF TypeOK, Stores, Roles, Entry, SamePlace

-----------------------------------------------------------------------------
(* What most steps keep.                                                   *)

\* Rows, import and released folders, of a step that leaves the registrations.
LEMMA HoldsKept ==
    ASSUME RowsHeld, ToolHeld, CutKnown, registered' = registered, row' \subseteq row,
           tool' = tool, Dan' \subseteq Dan,
           past.cut \cup past.moved \subseteq past'.cut \cup past'.moved
    PROVE  RowsHeld' /\ ToolHeld' /\ CutKnown'
<1>1. Live' = Live /\ \A d : (RootAt(d))' = RootAt(d)
  BY RegsKept
<1>2. RowsHeld' /\ ToolHeld'
  BY <1>1 DEF RowsHeld, ToolHeld, Running
<1>3. CutKnown'
  BY <1>1 DEF CutKnown, Dan
<1> QED BY <1>2, <1>3

\* A batch that goes on with its change.
LEMMA SavedKept ==
    ASSUME IInv, NEW c \in Callers, job[c].at # "idle", job[c].kind = "save", job[c].alone,
           disk' = disk, entry \subseteq entry',
           Listed \subseteq Listed' \/ (job[c].todo # <<>> /\ Head1(c).from # "none"),
           job'[c].asked = job[c].asked, job'[c].gone = job[c].gone, job'[c].todo = job[c].todo,
           job'[c].at \in {"scan", "ancestors"} => job'[c].seen = Listed',
           job[c].todo # <<>> /\ Head1(c).from = "none" =>
               /\ job'[c].at \notin {"next", "register"} => Folder(c) \in Listed'
               /\ job'[c].at \notin {"next", "register", "scan"} =>
                      job[c].at \notin {"next", "register", "scan"}
    PROVE  Saved(job[c])'
<1> DEFINE q == job[c]
<1>1. /\ Saved(q) /\ q \in Job /\ q.todo \in Seq(Change) /\ q.asked \subseteq Change
      /\ q.todo # <<>> => Head(q.todo) \in Range(q.todo)
      /\ q.todo = <<>> => Range(q.todo) = {}
  <2>1. Saved(q) /\ q \in Job
    BY Known, AtWork
  <2>2. q.todo \in Seq(Change) /\ q.asked \subseteq Change
    BY <2>1 DEF Job
  <2>3. q.todo = <<>> => Range(q.todo) = {}
    BY DEF Range
  <2> QED BY <2>1, <2>2, <2>3, Heads
<1>2. /\ Range(job'[c].todo) \subseteq job'[c].asked
      /\ \A x, y \in job'[c].asked : x.f = y.f => x = y
      /\ \A x \in job'[c].asked : ChangeFits(x)
      /\ \A x \in job'[c].asked, y \in Range(job'[c].todo) :
             Had(job'[c], x) /\ x.from = "none" => y.from = "none"
      /\ \A x \in job'[c].asked : Had(job'[c], x) /\ x.to = "forget" => x.f \in job'[c].gone
  BY <1>1 DEF Saved, Had
<1>3. ASSUME NEW x \in q.asked, x.from = "none"
      PROVE  /\ \/ Had(job'[c], x)
                \/ job'[c].at \notin {"next", "register"} /\ x = Head(job'[c].todo)
                => source'[x.f] # "none"
             /\ \/ Had(job'[c], x)
                \/ job'[c].at \notin {"next", "register", "scan"} /\ x = Head(job'[c].todo)
                => \A m \in Media : Nearest(m, x.f)' =>
                       [at |-> home[m], m |-> m, src |-> x.f, on |-> TRUE] \in entry'
  <2>1. x \in Change /\ x.f \in Dirs
    BY <1>1 DEF Change
  <2>2. CASE ~(Listed \subseteq Listed')
    <3>1. q.todo # <<>> /\ Head(q.todo) \in Range(q.todo) /\ Head(q.todo).from # "none"
      BY <2>2, <1>1 DEF Head1
    <3>2. ~Had(q, x) /\ x # Head(q.todo)
      BY <3>1, <1>1, <1>3 DEF Saved
    <3> QED BY <3>2 DEF Had
  <2>3. CASE Listed \subseteq Listed'
    <3>1. \A m \in Media : Nearest(m, x.f)' => Nearest(m, x.f)
      BY <2>3 DEF Nearest, disk
    <3>2. Had(q, x) => /\ x.f \in Listed
                       /\ \A m \in Media : Nearest(m, x.f) =>
                              [at |-> home[m], m |-> m, src |-> x.f, on |-> TRUE] \in entry
      BY <1>1, <1>3, <2>1 DEF Saved, Listed
    <3>3. CASE Had(q, x)
      BY <2>3, <3>1, <3>2, <3>3 DEF Listed
    <3>4. CASE ~Had(q, x) /\ x = Head(q.todo)
      <4>1. q.todo # <<>> /\ Head1(c) = x /\ Folder(c) = x.f
        BY <1>1, <3>4 DEF Had, Head1, Folder
      <4>2. job'[c].at \notin {"next", "register"} => source'[x.f] # "none"
        BY <4>1, <1>3 DEF Listed
      <4>3. job'[c].at \notin {"next", "register", "scan"} =>
                q.at \notin {"next", "register", "scan"}
        BY <4>1, <1>3
      <4>4. ASSUME q.at \notin {"next", "register", "scan"}, NEW m \in Media, Nearest(m, x.f)
            PROVE  [at |-> home[m], m |-> m, src |-> x.f, on |-> TRUE] \in entry
        <5>1. Saved(q)
          BY <1>1
        <5> QED BY <5>1, <4>4, <3>4, <1>3 DEF Saved
      <4> QED BY <4>2, <4>3, <4>4, <3>1, <3>4 DEF Had
    <3>5. CASE ~Had(q, x) /\ x # Head(q.todo)
      BY <3>5 DEF Had
    <3> QED BY <3>3, <3>4, <3>5
  <2> QED BY <2>2, <2>3
<1>4. home' = home
  BY DEF disk
<1> QED BY <1>2, <1>3, <1>4 DEF Saved

\* A batch that ends its change.
LEMMA SavedDone ==
    ASSUME IInv, NEW c \in Callers, job[c].at # "idle", job[c].kind = "save", job[c].alone,
           disk' = disk, job[c].todo # <<>>,
           (entry \subseteq entry' /\ Listed \subseteq Listed') \/ Head1(c).from # "none",
           job'[c].asked = job[c].asked, job[c].gone \subseteq job'[c].gone,
           job'[c].todo = Tail(job[c].todo), job'[c].at = "next",
           Head1(c).to = "forget" => Folder(c) \in job'[c].gone,
           Head1(c).from = "none" => /\ Folder(c) \in Listed'
                                     /\ job[c].at \notin {"next", "register", "scan"}
    PROVE  Saved(job[c])'
<1> DEFINE q == job[c]
           h == Head(job[c].todo)
<1>1. /\ Saved(q) /\ q \in Job /\ q.todo \in Seq(Change) /\ q.asked \subseteq Change
      /\ BatchFits(q.todo) /\ h \in Range(q.todo)
      /\ Range(Tail(q.todo)) \subseteq Range(q.todo)
      /\ \A x \in Range(q.todo) : x = h \/ x \in Range(Tail(q.todo))
      /\ \A x \in Range(Tail(q.todo)) : h.from = "none" => x.from = "none"
  <2>1. Saved(q) /\ q \in Job /\ Fits(q)
    BY Known, AtWork
  <2>2. q.todo \in Seq(Change) /\ q.asked \subseteq Change /\ BatchFits(q.todo)
    BY <2>1 DEF Job, Fits
  <2> QED BY <2>1, <2>2, Heads, Tails
<1>2. \A x \in q.asked : Had(job'[c], x) => Had(q, x) \/ x = h
  BY <1>1 DEF Had
<1>3. /\ Range(job'[c].todo) \subseteq job'[c].asked
      /\ \A x, y \in job'[c].asked : x.f = y.f => x = y
      /\ \A x \in job'[c].asked : ChangeFits(x)
  BY <1>1 DEF Saved
<1>4. \A x \in job'[c].asked, y \in Range(job'[c].todo) :
          Had(job'[c], x) /\ x.from = "none" => y.from = "none"
  BY <1>1, <1>2 DEF Saved
<1>5. \A x \in job'[c].asked : Had(job'[c], x) /\ x.to = "forget" => x.f \in job'[c].gone
  BY <1>1, <1>2 DEF Saved, Head1, Folder
<1>6. ASSUME NEW x \in q.asked, x.from = "none", Had(job'[c], x)
      PROVE  /\ source'[x.f] # "none"
             /\ \A m \in Media : Nearest(m, x.f)' =>
                    [at |-> home[m], m |-> m, src |-> x.f, on |-> TRUE] \in entry'
  <2>1. x \in Change /\ x.f \in Dirs
    BY <1>1 DEF Change
  <2>2. CASE h.from # "none"
    BY <2>2, <1>1, <1>2, <1>6 DEF Saved
  <2>3. CASE h.from = "none"
    <3>1. entry \subseteq entry' /\ Listed \subseteq Listed'
      BY <2>3 DEF Head1
    <3>2. x.f \in Listed'
      BY <3>1, <2>1, <2>3, <1>1, <1>2, <1>6 DEF Saved, Listed, Head1, Folder
    <3>3. \A m \in Media : Nearest(m, x.f)' => Nearest(m, x.f)
      BY <3>1 DEF Nearest, disk
    <3>4. \A m \in Media : Nearest(m, x.f) =>
              [at |-> home[m], m |-> m, src |-> x.f, on |-> TRUE] \in entry
      BY <2>3, <1>1, <1>2, <1>6 DEF Saved, Head1
    <3> QED BY <3>1, <3>2, <3>3, <3>4 DEF Listed
  <2> QED BY <2>2, <2>3
<1>7. home' = home
  BY DEF disk
<1> QED BY <1>3, <1>4, <1>5, <1>6, <1>7 DEF Saved

\* A step that leaves rows, registrations and the import alone.
LEMMA ListStep ==
    ASSUME IInv, NEW c \in Callers, job[c].at # "idle", Moves(c),
           UNCHANGED <<disk, registered, row, tool, up, past>>,
           source' \in [Dirs -> Roles], entry' \subseteq Entry,
           \A x, y \in entry' : SamePlace(x, y) => x = y,
           job'[c] # Idle => job'[c].alone = job[c].alone,
           ~past.drift => Agrees(c)',
           \A d \in Dan' : d \in Dan \/ RootAt(d) # {},
           job'[c].at \in {"cut", "unregister", "insert", "upsert"} /\ ~past.raced =>
               RowsFit(job[c])',
           job'[c].kind = "save" /\ job'[c].alone /\ job[c].alone => Saved(job[c])'
    PROVE  IInv'
<1>1. TypeOK'
  <2>1. JobsFit'
    BY OthersStay
  <2>2. Stores'
    BY StoresAre DEF Stores, disk, Live
  <2> QED BY <2>1, <2>2, TypeKept
<1>2. ToolFits' /\ PastFits'
  BY DEF IInv, ToolFits, PastFits
<1>3. ASSUME ~past.raced PROVE Holds(c)'
  <2>1. RowsHeld /\ ToolHeld /\ CutKnown
    BY <1>3, Known
  <2>2. Live' = Live /\ \A d : (RootAt(d))' = RootAt(d)
    BY RegsKept
  <2>3. RowsHeld' /\ ToolHeld'
    BY <2>1, <2>2 DEF RowsHeld, ToolHeld, Running
  <2>4. CutKnown'
    BY <2>1, <2>2 DEF CutKnown, Dan
  <2>5. job'[c] # Idle => RowsFit(job[c])'
    BY <1>3 DEF RowsFit
  <2> QED BY <2>3, <2>4, <2>5 DEF Holds
<1>4. job'[c].kind = "save" /\ job'[c].alone => Saved(job[c])'
  BY IdleIs
<1> QED BY <1>1, <1>2, <1>3, <1>4, StepKeeps

\* A step that changes nothing but the request.
LEMMA JobStep ==
    ASSUME IInv, NEW c \in Callers, job[c].at # "idle", Moves(c),
           UNCHANGED <<disk, lists, row, entry, tool, up, past>>,
           job'[c] # Idle => job'[c].alone = job[c].alone,
           ~past.drift => Agrees(c)',
           job'[c].at \in {"cut", "unregister", "insert", "upsert"} /\ ~past.raced =>
               RowsFit(job[c])',
           job'[c].kind = "save" /\ job'[c].alone /\ job[c].alone => Saved(job[c])'
    PROVE  IInv'
<1>1. Stores /\ source' = source /\ registered' = registered /\ entry' = entry
  BY StoresAre DEF lists
<1>2. \A d \in Dan' : d \in Dan
  BY <1>1, SourceKept
<1>3. /\ source' \in [Dirs -> Roles] /\ entry' \subseteq Entry
      /\ \A x, y \in entry' : SamePlace(x, y) => x = y
  BY <1>1 DEF Stores
<1> QED BY <1>1, <1>2, <1>3, ListStep

\* An answer, of a request that left the lists as they were.
LEMMA Answered ==
    ASSUME IInv, NEW c \in Callers, job[c].at # "idle", Answer(c),
           UNCHANGED <<disk, lists, row, entry, tool, up, past>>,
           ~Leaving(job[c]), ~Entering(job[c]), ~Moving(job[c])
    PROVE  IInv'
<1>1. Moves(c) /\ job'[c] = Idle
  BY AnswerIs
<1>2. source' = source /\ registered' = registered
  BY DEF lists
<1>3. ASSUME ~past.drift PROVE Agrees(c)'
  <2>1. Dan = Reg
    BY <1>3, Known DEF ListsFit
  <2> QED BY <1>1, <1>2, <2>1, RegsKept, SourceKept DEF Agrees
<1> QED BY <1>1, <1>3, JobStep, IdleIs

\* The next change of a batch, or the list read after the last.
LEMMA Next1Keeps == ASSUME IInv, NEW c \in Callers, Next1(c) PROVE IInv'
<1> DEFINE q == job[c]
           h == Head1(c)
<1>1. /\ q.at = "next" /\ q.todo # <<>> /\ Fits(q) /\ q \in Job /\ q.kind = "save"
      /\ h \in Change /\ Folder(c) \in Dirs /\ ChangeFits(h) /\ h = Head(q.todo)
      /\ h \in Range(q.todo)
      /\ UNCHANGED <<disk, lists, row, entry, tool, up, past>>
  <2>1. q.at = "next" /\ q.todo # <<>> /\ UNCHANGED <<disk, lists, row, entry, tool, up, past>>
    BY DEF Next1
  <2>2. Fits(q) /\ q \in Job /\ h \in Change /\ Folder(c) \in Dirs
    BY <2>1, AtWork
  <2>3. q.todo \in Seq(Change) /\ q.kind = "save"
    BY <2>1, <2>2 DEF Fits, StepFits, Job
  <2>4. h \in Range(q.todo)
    BY <2>1, <2>3, Heads DEF Head1
  <2> QED BY <2>1, <2>2, <2>3, <2>4 DEF Fits, Head1
<1>2. PICK a \in {"register", "check", "letgo", "forget", "adopt"} :
          /\ To(c, a) /\ HeadFits(a, h) /\ (a = "register" <=> h.from = "none")
          /\ a = "forget" => h.from = "files"
          /\ a = "adopt" => h.from = "files"
  <2>1. PICK a : /\ To(c, a)
                 /\ a = CASE h.from = "none"     -> "register"
                          [] h.from = "danbooru" -> "check"
                          [] h.from = "manga"    -> "letgo"
                          [] h.from = "files"    -> IF h.to = "forget" THEN "forget" ELSE "adopt"
    BY DEF Next1
  <2>2. h.from \in Roles /\ h.to \in Targets /\ ChangeFits(h)
    BY <1>1 DEF Change
  <2> HIDE DEF h
  <2>3. /\ a \in {"register", "check", "letgo", "forget", "adopt"}
        /\ a = "register" <=> h.from = "none"
        /\ a \in {"forget", "adopt"} => h.from = "files"
        /\ a = "check" => h.from = "danbooru"
        /\ a = "letgo" => h.from = "manga"
        /\ a = "forget" <=> h.from = "files" /\ h.to = "forget"
    <3>1. CASE h.from = "none"
      BY <2>1, <3>1
    <3>2. CASE h.from = "danbooru"
      BY <2>1, <3>2
    <3>3. CASE h.from = "manga"
      BY <2>1, <3>3
    <3>4. CASE h.from = "files" /\ h.to = "forget"
      BY <2>1, <3>4
    <3>5. CASE h.from = "files" /\ h.to # "forget"
      BY <2>1, <3>5
    <3> QED BY <2>2, <3>1, <3>2, <3>3, <3>4, <3>5 DEF Roles
  <2>4. a = "adopt" => h.to \in {"danbooru", "manga"}
    BY <2>2, <2>3 DEF ChangeFits
  <2>5. HeadFits(a, h)
    BY <2>3, <2>4 DEF HeadFits
  <2> QED BY <2>1, <2>3, <2>5
<1>3. Fits([q EXCEPT !.at = a])
  <2>1. a \in Places /\ [q EXCEPT !.at = a].at = a /\ [q EXCEPT !.at = a].kind = "save"
    BY <1>1 DEF Places, Job
  <2>2. StepFits([q EXCEPT !.at = a])
    BY <2>1 DEF StepFits
  <2>3. q.root = "none"
    BY <1>1 DEF Fits
  <2> QED BY <1>1, <1>2, <2>1, <2>2, <2>3, FitsAt
<1>4. /\ Moves(c) /\ job'[c] # Idle /\ job'[c].at = a /\ job'[c].kind = "save"
      /\ job'[c].todo = q.todo /\ job'[c].asked = q.asked /\ job'[c].gone = q.gone
      /\ job'[c].alone = q.alone /\ job'[c].seen = q.seen
  BY <1>1, <1>2, <1>3, ToIs
<1>5. source' = source /\ registered' = registered /\ disk' = disk /\ entry' = entry
  BY <1>1 DEF lists
<1>6. ASSUME ~past.drift PROVE Agrees(c)'
  <2>1. ListsFit(q)
    BY <1>1, <1>6, Known
  <2>2. Dan = Reg /\ \A i \in DOMAIN q.todo : source[q.todo[i].f] = q.todo[i].from
    BY <1>1, <2>1 DEF ListsFit, Leaving, Entering, Moving
  <2>3. source[h.f] = h.from
    BY <1>1, <2>2, Heads DEF Job
  <2>4. Dan' = Reg'
    BY <1>5, <2>2, RegsKept, SourceKept
  <2>5. ListsFit(job[c])'
    BY <1>1, <1>2, <1>4, <1>5, <2>2, <2>3, <2>4 DEF ListsFit, Leaving, Entering, Moving, HeadFits
  <2> QED BY <1>4, <2>5 DEF Agrees
<1>7. ASSUME job[c].alone PROVE Saved(job[c])'
  <2>1. Listed' = Listed
    BY <1>5, SourceKept
  <2> QED BY <1>1, <1>2, <1>4, <1>5, <1>7, <2>1, SavedKept
<1> QED BY <1>1, <1>4, <1>6, <1>7, JobStep

\* A batch reads the list after its last change.
LEMMA ReadListKeeps == ASSUME IInv, NEW c \in Callers, ReadList(c) PROVE IInv'
<1> DEFINE q == job[c]
           p == [job[c] EXCEPT !.at = "ancestors", !.seen = Listed]
<1>1. /\ q.at = "next" /\ q.todo = <<>> /\ Fits(q) /\ q \in Job /\ q.kind = "save"
      /\ UNCHANGED <<disk, lists, row, entry, tool, up, past>>
      /\ job' = [job EXCEPT ![c] = p]
  <2>1. q.at = "next" /\ q.todo = <<>> /\ Fits(q) /\ q \in Job
    BY AtWork DEF ReadList
  <2> QED BY <2>1 DEF ReadList, Fits, StepFits
<1>2. p = job'[c] /\ job' = [job EXCEPT ![c] = job'[c]]
  BY <1>1 DEF IInv, JobsFit
<1>3. /\ p \in Job /\ p.at = "ancestors" /\ p.kind = "save" /\ p.todo = q.todo
      /\ p.asked = q.asked /\ p.gone = q.gone /\ p.alone = q.alone /\ p.seen = Listed
      /\ p.root = q.root
  <2>1. "ancestors" \in Places /\ Listed \in SUBSET Dirs /\ q \in Job /\ q.kind = "save"
    BY <1>1 DEF Places, Listed
  <2> DEFINE r == q
             s == Listed
  <2> HIDE DEF r, s
  <2>2. r \in Job /\ s \in SUBSET Dirs /\ p = [r EXCEPT !.at = "ancestors", !.seen = s]
        /\ r.kind = "save" /\ "ancestors" \in Places
    BY <2>1 DEF r, s
  <2>3. /\ p \in Job /\ p.at = "ancestors" /\ p.kind = "save" /\ p.todo = r.todo
        /\ p.asked = r.asked /\ p.gone = r.gone /\ p.alone = r.alone /\ p.seen = s
        /\ p.root = r.root
    BY <2>2 DEF Job
  <2> QED BY <2>3 DEF r, s
<1> HIDE DEF p
<1>4. Fits(p) /\ p # Idle
  <2>1. Fits(p)
    BY <1>1, <1>3 DEF Fits, StepFits
  <2> QED BY <2>1, IdleIs
<1>5. source' = source /\ registered' = registered /\ disk' = disk /\ entry' = entry
  BY <1>1 DEF lists
<1>6. ASSUME ~past.drift PROVE Agrees(c)'
  <2>1. ListsFit(q)
    BY <1>1, <1>6, Known
  <2>2. Dan = Reg
    BY <1>1, <2>1 DEF ListsFit, Leaving, Entering, Moving
  <2>3. Dan' = Reg'
    BY <1>5, <2>2, RegsKept, SourceKept
  <2>4. ListsFit(job[c])'
    BY <1>1, <1>2, <1>3, <2>3 DEF ListsFit, Leaving, Entering, Moving
  <2> QED BY <1>2, <1>4, <2>4 DEF Agrees
<1>7. Listed' = Listed
  BY <1>5, SourceKept
<1>8. ASSUME job[c].alone PROVE Saved(job[c])'
  BY <1>1, <1>2, <1>3, <1>5, <1>7, <1>8, SavedKept
<1> QED BY <1>1, <1>2, <1>3, <1>4, <1>6, <1>8, JobStep DEF Moves

\* A request on one source reads the list.
LEMMA ReadSourceKeeps == ASSUME IInv, NEW c \in Callers, ReadSource(c) PROVE IInv'
<1> DEFINE q == job[c]
           p == [job[c] EXCEPT !.at = "scan", !.seen = Listed]
<1>1. /\ q.at = "list" /\ Fits(q) /\ q \in Job /\ q.kind \in {"scan", "browse", "rescan"}
      /\ q.todo # <<>> /\ UNCHANGED <<disk, lists, row, entry, tool, up, past>>
  <2>1. q.at = "list" /\ Fits(q) /\ q \in Job /\ q.todo # <<>>
    BY AtWork DEF ReadSource
  <2> QED BY <2>1 DEF ReadSource, Fits, StepFits
<1>2. CASE Answer(c)
  BY <1>1, <1>2, Answered DEF Leaving, Entering, Moving
<1>3. CASE job' = [job EXCEPT ![c] = p]
  <2>1. p = job'[c] /\ job' = [job EXCEPT ![c] = job'[c]]
    BY <1>3 DEF IInv, JobsFit
  <2>2. /\ p \in Job /\ p.at = "scan" /\ p.kind = q.kind /\ p.todo = q.todo /\ p.alone = q.alone
        /\ p.root = q.root
    <3>1. "scan" \in Places /\ Listed \in SUBSET Dirs /\ q \in Job
      BY <1>1 DEF Places, Listed
    <3> DEFINE r == q
               s == Listed
    <3> HIDE DEF r, s
    <3>2. r \in Job /\ s \in SUBSET Dirs /\ p = [r EXCEPT !.at = "scan", !.seen = s]
          /\ "scan" \in Places
      BY <3>1 DEF r, s
    <3>3. p \in Job /\ p.at = "scan" /\ p.kind = r.kind /\ p.todo = r.todo /\ p.alone = r.alone
          /\ p.root = r.root
      BY <3>2 DEF Job
    <3> QED BY <3>3 DEF r, s
  <2> HIDE DEF p
  <2>3. Fits(p) /\ p # Idle
    <3>1. Fits(p)
      BY <1>1, <2>2 DEF Fits, StepFits
    <3> QED BY <3>1, IdleIs
  <2>4. source' = source /\ registered' = registered
    BY <1>1 DEF lists
  <2>5. ASSUME ~past.drift PROVE Agrees(c)'
    <3>1. ListsFit(q)
      BY <1>1, <2>5, Known
    <3>2. Dan = Reg
      BY <1>1, <3>1 DEF ListsFit, Leaving, Entering, Moving
    <3>3. Dan' = Reg'
      BY <2>4, <3>2, RegsKept, SourceKept
    <3>4. ListsFit(job[c])'
      BY <1>1, <2>1, <2>2, <2>4, <3>1, <3>3 DEF ListsFit, Leaving, Entering, Moving
    <3> QED BY <2>1, <2>3, <3>4 DEF Agrees
  <2> QED BY <1>1, <2>1, <2>2, <2>3, <2>5, JobStep DEF Moves
<1> QED BY <1>2, <1>3 DEF ReadSource

-----------------------------------------------------------------------------
(* The steps of a batch on the lists.                                      *)

\* The changes that are left concern other folders than the first.
LEMMA RestApart ==
    ASSUME NEW todo \in Seq(Change), todo # <<>>, BatchFits(todo),
           NEW i \in DOMAIN todo, i > 1
    PROVE  todo[i].f \in Dirs /\ todo[i].f # Head(todo).f
<1>1. DOMAIN todo = 1..Len(todo) /\ todo[i] \in Change
  BY LenProperties, ElementOfSeq
<1>2. 1 \in DOMAIN todo /\ Head(todo) = todo[1] /\ 1 < i
  BY <1>1, Heads
<1> QED BY <1>1, <1>2 DEF BatchFits, Change

\* The folders of the changes that are left keep their roles.
LEMMA BatchKept ==
    ASSUME IInv, NEW c \in Callers, job[c].at # "idle", job[c].kind = "save",
           job[c].todo # <<>>, ListsFit(job[c]),
           \A d \in Dirs \ {Folder(c)} : source'[d] = source[d]
    PROVE  /\ job'[c].todo = job[c].todo =>
                  \A i \in DOMAIN job'[c].todo :
                      i > 1 => source'[job'[c].todo[i].f] = job'[c].todo[i].from
           /\ job'[c].todo = Tail(job[c].todo) =>
                  \A i \in DOMAIN job'[c].todo : source'[job'[c].todo[i].f] = job'[c].todo[i].from
<1> DEFINE todo == job[c].todo
<1>1. todo \in Seq(Change) /\ BatchFits(todo) /\ todo # <<>>
  BY AtWork DEF Fits, Job
<1>2. \A i \in DOMAIN todo : i > 1 => source'[todo[i].f] = todo[i].from
  <2>1. \A i \in DOMAIN todo : i > 1 => source[todo[i].f] = todo[i].from
    BY DEF ListsFit
  <2>2. \A i \in DOMAIN todo : i > 1 => todo[i].f \in Dirs /\ todo[i].f # Folder(c)
    BY <1>1, RestApart DEF Folder, Head1
  <2> QED BY <2>1, <2>2
<1>3. \A i \in DOMAIN Tail(todo) : source'[Tail(todo)[i].f] = Tail(todo)[i].from
  BY <1>1, <1>2, Heads
<1> QED BY <1>2, <1>3

\* What is known of a batch at one of its changes.
LEMMA AtChange ==
    ASSUME IInv, NEW c \in Callers, job[c].at # "idle", job[c].todo # <<>>
    PROVE  /\ Fits(job[c]) /\ job[c] \in Job /\ job[c].todo \in Seq(Change)
           /\ Head1(c) = Head(job[c].todo) /\ Head1(c) \in Change /\ Head1(c) \in Range(job[c].todo)
           /\ Folder(c) = Head1(c).f /\ Folder(c) \in Dirs /\ Folder(c) # <<>>
           /\ job[c].kind = "save" => ChangeFits(Head1(c))
           /\ job[c].kind = "save" /\ job[c].at \notin {"next", "ancestors"} =>
                  HeadFits(job[c].at, Head1(c))
           /\ source \in [Dirs -> Roles] /\ registered \in [Roots -> Dirs \cup {<<>>}]
<1>1. Fits(job[c]) /\ job[c] \in Job /\ Head1(c) \in Change /\ Folder(c) \in Dirs /\ Folder(c) # <<>>
  BY AtWork
<1>2. job[c].todo \in Seq(Change)
  BY <1>1 DEF Job
<1>3. Head1(c) \in Range(job[c].todo)
  BY <1>2, Heads DEF Head1
<1> QED BY <1>1, <1>2, <1>3, StoresAre DEF Fits, Head1, Folder, Stores

\* A folder registered in Files.
LEMMA RegisterKeeps == ASSUME IInv, NEW c \in Callers, Register(c) PROVE IInv'
<1> DEFINE q == job[c]
           f == Folder(c)
           s == {d \in Dirs : source'[d] # "none"}
           p == [job[c] EXCEPT !.at = "scan", !.seen = s]
<1>1. /\ q.at = "register" /\ q.todo # <<>> /\ Fits(q) /\ q \in Job /\ q.kind \in {"save", "files"}
      /\ f \in Dirs /\ source \in [Dirs -> Roles]
      /\ q.kind = "save" => HeadFits("register", Head(q.todo))
      /\ source' = [source EXCEPT ![f] = IF @ = "none" THEN "files" ELSE @]
      /\ UNCHANGED <<disk, registered, row, entry, tool, up, past>>
      /\ job' = [job EXCEPT ![c] = p]
  <2>1. q.at = "register" /\ q.todo # <<>>
    BY AtWork DEF Register
  <2> QED BY <2>1, AtChange DEF Register, Fits, StepFits
<1>2. p = job'[c] /\ job' = [job EXCEPT ![c] = job'[c]]
  BY <1>1 DEF IInv, JobsFit
<1>3. /\ p \in Job /\ p.at = "scan" /\ p.seen = s /\ p.kind = q.kind /\ p.todo = q.todo
      /\ p.asked = q.asked /\ p.gone = q.gone /\ p.alone = q.alone /\ p.root = q.root
  <2>1. "scan" \in Places /\ s \in SUBSET Dirs /\ q \in Job
    BY <1>1 DEF Places
  <2>2. p = [q EXCEPT !.at = "scan", !.seen = s]
    OBVIOUS
  <2> HIDE DEF p, q, s
  <2> QED BY <2>1, <2>2 DEF Job
<1>4. s = Listed'
  BY DEF Listed
<1> HIDE DEF p, s
<1>5. Fits(p) /\ p # Idle
  <2>1. Fits(p)
    BY <1>1, <1>3 DEF Fits, StepFits, HeadFits
  <2> QED BY <2>1, IdleIs
<1>6. /\ source' \in [Dirs -> Roles] /\ Listed \subseteq Listed' /\ f \in Listed' /\ Dan' = Dan
      /\ \A d \in Dirs \ {f} : source'[d] = source[d]
      /\ source[f] # "danbooru" => source'[f] # "danbooru"
  BY <1>1 DEF Roles, Listed, Dan
<1>7. ASSUME ~past.drift PROVE Agrees(c)'
  <2>1. ListsFit(q)
    BY <1>1, <1>7, Known
  <2>2. Dan = Reg /\ (q.kind = "save" => source[f] # "danbooru")
    BY <1>1, <2>1 DEF ListsFit, Leaving, Entering, Moving, Folder, Head1
  <2>3. Dan' = Reg'
    BY <1>1, <1>6, <2>2, RegsKept
  <2>4. q.kind = "save" => \A i \in DOMAIN job'[c].todo :
            i > 1 => source'[job'[c].todo[i].f] = job'[c].todo[i].from
    BY <1>1, <1>2, <1>3, <1>6, <2>1, BatchKept
  <2>5. q.kind = "save" => source'[Head(job'[c].todo).f] # "danbooru"
    BY <1>2, <1>3, <1>6, <2>2 DEF Folder, Head1
  <2>6. ListsFit(job[c])'
    BY <1>1, <1>2, <1>3, <2>3, <2>4, <2>5 DEF ListsFit, Leaving, Entering, Moving
  <2> QED BY <1>2, <1>5, <2>6 DEF Agrees
<1>8. ASSUME q.kind = "save", job[c].alone PROVE Saved(job[c])'
  BY <1>1, <1>2, <1>3, <1>4, <1>6, <1>8, SavedKept
<1>9. /\ entry' \subseteq Entry /\ \A x, y \in entry' : SamePlace(x, y) => x = y
  BY <1>1, StoresAre DEF Stores
<1> QED BY <1>1, <1>2, <1>3, <1>5, <1>6, <1>7, <1>8, <1>9, ListStep DEF Moves

\* A batch goes to another step of its change.
LEMMA SaveTo ==
    ASSUME IInv, NEW c \in Callers, job[c].at # "idle", job[c].kind = "save", job[c].todo # <<>>,
           NEW a \in {"register", "scan", "adopt", "insert", "upsert", "import", "forget",
                      "letgo", "check", "relabel", "settle", "drop"},
           job[c].at \notin {"cut", "unregister", "relabel"}, To(c, a), HeadFits(a, Head1(c))
    PROVE  /\ Moves(c) /\ job'[c] # Idle /\ job'[c].at = a /\ job'[c].kind = "save"
           /\ job'[c].todo = job[c].todo /\ job'[c].asked = job[c].asked
           /\ job'[c].gone = job[c].gone /\ job'[c].alone = job[c].alone
           /\ job'[c].seen = job[c].seen /\ job'[c].path = job[c].path
           /\ job'[c].root = job[c].root
<1>1. Fits(job[c]) /\ job[c] \in Job
  BY AtWork
<1>2. a \in Places /\ [job[c] EXCEPT !.at = a].at = a /\ [job[c] EXCEPT !.at = a].kind = "save"
  BY <1>1 DEF Places, Job
<1>3. StepFits([job[c] EXCEPT !.at = a])
  BY <1>2 DEF StepFits
<1>4. Fits([job[c] EXCEPT !.at = a])
  <2>1. job[c].root = "none"
    BY <1>1 DEF Fits
  <2> QED BY <1>1, <1>2, <1>3, <2>1, FitsAt DEF Head1
<1> QED BY <1>1, <1>4, ToIs

\* Where a change goes once its owner has let the folder go.
LEMMA AfterFits ==
    ASSUME NEW h \in Change, ChangeFits(h), h.from # "none"
    PROVE  /\ AfterRelease(h) \in {"drop", "settle", "adopt"} /\ HeadFits(AfterRelease(h), h)
           /\ AfterRelease(h) = "adopt" => h.to \in {"danbooru", "manga"}
<1>1. CASE h.to = "forget"
  BY <1>1 DEF AfterRelease, HeadFits
<1>2. CASE h.to = "files"
  BY <1>2 DEF AfterRelease, HeadFits
<1>3. CASE h.to \in {"danbooru", "manga"}
  BY <1>3 DEF AfterRelease, HeadFits
<1> QED BY <1>1, <1>2, <1>3 DEF ChangeFits

\* The lists agree about a batch that goes on with its change.
LEMMA BatchAgrees ==
    ASSUME IInv, NEW c \in Callers, job[c].at # "idle", job[c].kind = "save",
           job[c].todo # <<>>, ListsFit(job[c]), registered' = registered, Dan' = Reg',
           \A d \in Dirs \ {Folder(c)} : source'[d] = source[d],
           job'[c] # Idle, job'[c].kind = "save",
           \/ /\ job'[c].todo = job[c].todo
              /\ job'[c].at \in {"scan", "settle", "drop", "insert", "adopt", "import"}
              /\ job'[c].at = "adopt" /\ Head1(c).to = "manga" => source'[Folder(c)] # "danbooru"
              /\ job'[c].at = "import" => RootAt(Folder(c)) # {}
              /\ job'[c].at \in {"scan", "settle"} => source'[Folder(c)] # "danbooru"
           \/ job'[c].todo = Tail(job[c].todo) /\ job'[c].at = "next"
    PROVE  Agrees(c)'
<1>2. Dan' = Reg'
  OBVIOUS
<1>3. CASE /\ job'[c].todo = job[c].todo
           /\ job'[c].at \in {"scan", "settle", "drop", "insert", "adopt", "import"}
  <2>1. \A i \in DOMAIN job'[c].todo :
            i > 1 => source'[job'[c].todo[i].f] = job'[c].todo[i].from
    BY <1>3, BatchKept
  <2>2. Head(job'[c].todo).f = Folder(c) /\ Head(job'[c].todo) = Head1(c)
    BY <1>3 DEF Folder, Head1
  <2>3. job'[c].at = "import" => Folder(c) \in Reg'
    <3>1. RootAt(Folder(c)) # {} => Folder(c) \in Reg
      BY DEF RootAt, Reg
    <3> QED BY <3>1, RegsKept
  <2>4. ListsFit(job[c])'
    BY <1>2, <1>3, <2>1, <2>2, <2>3 DEF ListsFit, Leaving, Entering, Moving
  <2> QED BY <2>4 DEF Agrees
<1>4. CASE job'[c].todo = Tail(job[c].todo) /\ job'[c].at = "next"
  <2>1. \A i \in DOMAIN job'[c].todo : source'[job'[c].todo[i].f] = job'[c].todo[i].from
    BY <1>4, BatchKept
  <2>2. ListsFit(job[c])'
    BY <1>2, <1>4, <2>1 DEF ListsFit, Leaving, Entering, Moving
  <2> QED BY <2>2 DEF Agrees
<1> QED BY <1>3, <1>4

\* A folder that only Files has, forgotten.
LEMMA ForgetKeeps == ASSUME IInv, NEW c \in Callers, Forget(c) PROVE IInv'
<1> DEFINE q == job[c]
           f == Folder(c)
<1>1. /\ q.at = "forget" /\ q.todo # <<>> /\ q.kind = "save" /\ f \in Dirs
      /\ Head1(c).from = "files" /\ Head1(c).to = "forget" /\ source \in [Dirs -> Roles]
      /\ source' = [source EXCEPT ![f] = "none"]
      /\ To(c, "drop") \/ Answer(c)
      /\ UNCHANGED <<disk, registered, row, entry, tool, up, past>>
  <2>1. q.at = "forget" /\ q.todo # <<>>
    BY AtWork DEF Forget
  <2>2. q.kind = "save"
    BY <2>1, AtWork DEF Fits, StepFits
  <2> QED BY <2>1, <2>2, AtChange DEF Forget, HeadFits
<1>2. /\ source' \in [Dirs -> Roles] /\ Dan' \subseteq Dan
      /\ source[f] # "danbooru" => Dan' = Dan
      /\ \A d \in Dirs \ {f} : source'[d] = source[d]
  BY <1>1 DEF Roles, Dan
<1>3. /\ entry' \subseteq Entry /\ \A x, y \in entry' : SamePlace(x, y) => x = y
  BY <1>1, StoresAre DEF Stores
<1>4. ASSUME ~past.drift PROVE ListsFit(q) /\ Dan' = Dan /\ Dan = Reg
  <2>1. ListsFit(q)
    BY <1>1, <1>4, Known
  <2>2. source[f] # "danbooru" /\ Dan = Reg
    BY <1>1, <2>1 DEF ListsFit, Leaving, Entering, Moving, Folder, Head1
  <2> QED BY <2>1, <2>2, <1>2
<1>5. CASE Answer(c)
  <2>1. Moves(c) /\ job'[c] = Idle
    BY <1>5, AnswerIs
  <2>2. ~past.drift => Agrees(c)'
    BY <2>1, <1>1, <1>4, RegsKept DEF Agrees
  <2> QED BY <2>1, <2>2, <1>1, <1>2, <1>3, ListStep, IdleIs
<1>6. CASE To(c, "drop")
  <2>1. HeadFits("drop", Head1(c))
    BY <1>1 DEF HeadFits
  <2>2. /\ Moves(c) /\ job'[c] # Idle /\ job'[c].at = "drop" /\ job'[c].kind = "save"
        /\ job'[c].todo = q.todo /\ job'[c].asked = q.asked /\ job'[c].gone = q.gone
        /\ job'[c].alone = q.alone
    BY <1>1, <1>6, <2>1, SaveTo
  <2>3. ASSUME ~past.drift PROVE Agrees(c)'
    <3>1. job[c].at # "idle" /\ ListsFit(job[c]) /\ registered' = registered /\ Dan' = Reg'
      BY <1>1, <1>4, <2>3, RegsKept
    <3> QED BY <1>1, <1>2, <2>2, <3>1, BatchAgrees
  <2>4. q.alone => Saved(job[c])'
    BY <1>1, <2>2, SavedKept
  <2> QED BY <1>1, <1>2, <1>3, <2>2, <2>3, <2>4, ListStep
<1> QED BY <1>1, <1>5, <1>6

\* A folder that manga has, let go.
LEMMA MangaReleaseKeeps == ASSUME IInv, NEW c \in Callers, MangaRelease(c) PROVE IInv'
<1> DEFINE q == job[c]
           f == Folder(c)
           h == Head1(c)
<1>1. /\ q.at = "letgo" /\ q.todo # <<>> /\ q.kind = "save" /\ f \in Dirs
      /\ h \in Change /\ ChangeFits(h) /\ h.from = "manga" /\ source \in [Dirs -> Roles]
      /\ registered' = registered
      /\ UNCHANGED <<disk, registered, row, entry, tool, up, past>>
  <2>1. q.at = "letgo" /\ q.todo # <<>>
    BY AtWork DEF MangaRelease
  <2>2. q.kind = "save"
    BY <2>1, AtWork DEF Fits, StepFits
  <2> QED BY <2>1, <2>2, AtChange DEF MangaRelease, HeadFits
<1>2. CASE Answer(c) /\ UNCHANGED source
  <2>1. ~Leaving(q) /\ ~Entering(q) /\ ~Moving(q)
    BY <1>1 DEF Leaving, Entering, Moving
  <2> QED BY <1>1, <1>2, <2>1, Answered DEF lists
<1>3. CASE /\ source[f] = "manga" /\ To(c, AfterRelease(h))
           /\ source' = [source EXCEPT ![f] = IF h.to = "forget" THEN "none" ELSE "files"]
  <2>1. /\ AfterRelease(h) \in {"drop", "settle", "adopt"} /\ HeadFits(AfterRelease(h), h)
        /\ AfterRelease(h) = "adopt" => h.to \in {"danbooru", "manga"}
    BY <1>1, AfterFits
  <2>2. /\ Moves(c) /\ job'[c] # Idle /\ job'[c].at = AfterRelease(h) /\ job'[c].kind = "save"
        /\ job'[c].todo = q.todo /\ job'[c].asked = q.asked /\ job'[c].gone = q.gone
        /\ job'[c].alone = q.alone
    BY <1>1, <1>3, <2>1, SaveTo
  <2>3. /\ source' \in [Dirs -> Roles] /\ Dan' = Dan /\ source'[f] # "danbooru"
        /\ \A d \in Dirs \ {f} : source'[d] = source[d]
    BY <1>1, <1>3 DEF Roles, Dan
  <2>4. /\ entry' \subseteq Entry /\ \A x, y \in entry' : SamePlace(x, y) => x = y
    BY <1>1, StoresAre DEF Stores
  <2>5. ASSUME ~past.drift PROVE Agrees(c)'
    <3>1. job[c].at # "idle" /\ ListsFit(job[c]) /\ registered' = registered /\ Dan' = Reg'
      <4>1. ListsFit(q)
        BY <1>1, <2>5, Known
      <4>2. Dan = Reg
        BY <1>1, <4>1 DEF ListsFit, Leaving, Entering, Moving
      <4> QED BY <1>1, <2>3, <4>1, <4>2, RegsKept
    <3>2. job'[c].at \in {"settle", "drop", "adopt"} /\ source'[f] # "danbooru"
      BY <2>1, <2>2, <2>3
    <3> QED BY <1>1, <2>2, <2>3, <3>1, <3>2, BatchAgrees
  <2>6. q.alone => Saved(job[c])'
    BY <1>1, <2>1, <2>2, SavedKept
  <2> QED BY <1>1, <2>1, <2>2, <2>3, <2>4, <2>5, <2>6, ListStep
<1> QED BY <1>2, <1>3 DEF MangaRelease

\* A folder given to Files.
LEMMA SettleKeeps == ASSUME IInv, NEW c \in Callers, Settle(c) PROVE IInv'
<1> DEFINE q == job[c]
           f == Folder(c)
           h == Head1(c)
<1>1. /\ q.at = "settle" /\ q.todo # <<>> /\ q.kind = "save" /\ f \in Dirs /\ Fits(q)
      /\ h \in Change /\ ChangeFits(h) /\ h.from # "none" /\ h.to = "files"
      /\ source \in [Dirs -> Roles]
      /\ source' = [source EXCEPT ![f] = IF @ = "none" THEN @ ELSE "files"] /\ Done(c)
      /\ UNCHANGED <<disk, registered, row, entry, tool, up, past>>
  <2>1. q.at = "settle" /\ q.todo # <<>>
    BY AtWork DEF Settle
  <2>2. q.kind = "save"
    BY <2>1, AtWork DEF Fits, StepFits
  <2> QED BY <2>1, <2>2, AtChange DEF Settle, HeadFits
<1>2. job' = [job EXCEPT ![c].at = "next", ![c].todo = Tail(@)]
  BY <1>1 DEF Done
<1>3. /\ Moves(c) /\ job'[c] # Idle /\ job'[c].at = "next" /\ job'[c].kind = "save"
      /\ job'[c].todo = Tail(q.todo) /\ job'[c].asked = q.asked /\ job'[c].gone = q.gone
      /\ job'[c].alone = q.alone
  BY <1>1, <1>2, TailIs
<1>4. /\ source' \in [Dirs -> Roles] /\ Dan' \subseteq Dan /\ Listed' = Listed
      /\ source[f] # "danbooru" => Dan' = Dan
      /\ \A d \in Dirs \ {f} : source'[d] = source[d]
  BY <1>1 DEF Roles, Dan, Listed
<1>5. /\ entry' \subseteq Entry /\ \A x, y \in entry' : SamePlace(x, y) => x = y
  BY <1>1, StoresAre DEF Stores
<1>6. ASSUME ~past.drift PROVE Agrees(c)'
  <2>1. ListsFit(q)
    BY <1>1, <1>6, Known
  <2>2. source[f] # "danbooru" /\ Dan = Reg
    BY <1>1, <2>1 DEF ListsFit, Leaving, Entering, Moving, Folder, Head1
  <2>3. Dan' = Reg'
    BY <1>1, <1>4, <2>2, RegsKept
  <2> QED BY <1>1, <1>3, <1>4, <2>1, <2>2, <2>3, BatchAgrees
<1>7. q.alone => Saved(job[c])'
  BY <1>1, <1>3, <1>4, SavedDone
<1> QED BY <1>1, <1>3, <1>4, <1>5, <1>6, <1>7, ListStep

\* What a batch that saw nothing else has listed.
LEMMA HeadListed ==
    ASSUME IInv, NEW c \in Callers, job[c].at # "idle", job[c].kind = "save", job[c].alone,
           job[c].todo # <<>>, Head1(c).from = "none", job[c].at \notin {"next", "register"}
    PROVE  Folder(c) \in Listed
<1>1. Saved(job[c])
  BY Known
<1>2. Head1(c) \in Range(job[c].todo) /\ Head1(c) = Head(job[c].todo) /\ Folder(c) = Head1(c).f
      /\ Folder(c) \in Dirs
  BY AtChange
<1> QED BY <1>1, <1>2 DEF Saved, Listed

\* A folder given to manga.
LEMMA AdoptMangaKeeps == ASSUME IInv, NEW c \in Callers, AdoptManga(c) PROVE IInv'
<1> DEFINE q == job[c]
           f == Folder(c)
           h == Head1(c)
<1>1. /\ q.at = "adopt" /\ q.todo # <<>> /\ q.kind = "save" /\ f \in Dirs /\ Fits(q)
      /\ h \in Change /\ ChangeFits(h) /\ h.to = "manga" /\ h = Head(q.todo) /\ f = h.f
      /\ source \in [Dirs -> Roles]
      /\ source' = [source EXCEPT ![f] = IF @ = "none" THEN @ ELSE "manga"]
      /\ UNCHANGED <<disk, registered, row, entry, tool, up, past>>
  <2>1. q.at = "adopt" /\ q.todo # <<>>
    BY AtWork DEF AdoptManga
  <2>2. q.kind = "save"
    BY <2>1, AtWork DEF Fits, StepFits
  <2> QED BY <2>1, <2>2, AtChange DEF AdoptManga
<1>2. /\ source' \in [Dirs -> Roles] /\ Dan' \subseteq Dan /\ Listed' = Listed
      /\ source[f] # "danbooru" => Dan' = Dan
      /\ \A d \in Dirs \ {f} : source'[d] = source[d]
  BY <1>1 DEF Roles, Dan, Listed
<1>3. /\ entry' \subseteq Entry /\ \A x, y \in entry' : SamePlace(x, y) => x = y
  BY <1>1, StoresAre DEF Stores
<1>4. ASSUME ~past.drift PROVE ListsFit(q) /\ Dan' = Reg'
  <2>1. ListsFit(q)
    BY <1>1, <1>4, Known
  <2>2. source[f] # "danbooru" /\ Dan = Reg
    BY <1>1, <2>1 DEF ListsFit, Leaving, Entering, Moving
  <2> QED BY <2>1, <2>2, <1>1, <1>2, RegsKept
<1>5. CASE Answer(c)
  <2>1. Moves(c) /\ job'[c] = Idle
    BY <1>5, AnswerIs
  <2>2. ~past.drift => Agrees(c)'
    BY <2>1, <1>4 DEF Agrees
  <2> QED BY <2>1, <2>2, <1>1, <1>2, <1>3, ListStep, IdleIs
<1>6. CASE Done(c)
  <2>1. job' = [job EXCEPT ![c].at = "next", ![c].todo = Tail(@)]
    BY <1>1, <1>6 DEF Done
  <2>2. /\ Moves(c) /\ job'[c] # Idle /\ job'[c].at = "next" /\ job'[c].kind = "save"
        /\ job'[c].todo = Tail(q.todo) /\ job'[c].asked = q.asked /\ job'[c].gone = q.gone
        /\ job'[c].alone = q.alone
    BY <1>1, <2>1, TailIs
  <2>3. ASSUME ~past.drift PROVE Agrees(c)'
    BY <1>1, <1>2, <1>4, <2>2, <2>3, BatchAgrees
  <2>4. ASSUME q.alone PROVE Saved(job[c])'
    <3>1. h.from = "none" => f \in Listed'
      BY <1>1, <1>2, <2>4, HeadListed
    <3> QED BY <1>1, <1>2, <2>2, <2>4, <3>1, SavedDone
  <2> QED BY <1>1, <1>2, <1>3, <2>2, <2>3, <2>4, ListStep
<1> QED BY <1>5, <1>6 DEF AdoptManga

\* A folder given to Danbooru.
LEMMA AdoptKeeps == ASSUME IInv, NEW c \in Callers, Adopt(c) PROVE IInv'
<1> DEFINE q == job[c]
           f == Folder(c)
           h == Head1(c)
<1>1. /\ q.at = "adopt" /\ q.todo # <<>> /\ q.kind = "save" /\ f \in Dirs /\ Fits(q)
      /\ h \in Change /\ ChangeFits(h) /\ h.to = "danbooru" /\ h = Head(q.todo) /\ f = h.f
      /\ source \in [Dirs -> Roles] /\ registered' = registered
      /\ UNCHANGED <<disk, registered, row, entry, tool, up, past>>
  <2>1. q.at = "adopt" /\ q.todo # <<>>
    BY AtWork DEF Adopt
  <2>2. q.kind = "save"
    BY <2>1, AtWork DEF Fits, StepFits
  <2> QED BY <2>1, <2>2, AtChange DEF Adopt
<1>2. /\ entry' \subseteq Entry /\ \A x, y \in entry' : SamePlace(x, y) => x = y
  BY <1>1, StoresAre DEF Stores
<1>3. ASSUME ~past.drift PROVE ListsFit(q) /\ Dan = Reg
  <2>1. ListsFit(q)
    BY <1>1, <1>3, Known
  <2> QED BY <1>1, <2>1 DEF ListsFit, Leaving, Entering, Moving
<1>4. HeadFits("import", h) /\ HeadFits("insert", h)
  BY <1>1 DEF HeadFits
<1>5. q.alone /\ h.from = "none" => f \in Listed
  BY <1>1, HeadListed
<1>6. CASE Answer(c) /\ UNCHANGED source
  <2>1. ~Leaving(q) /\ ~Entering(q) /\ ~Moving(q)
    BY <1>1 DEF Leaving, Entering, Moving
  <2> QED BY <1>1, <1>6, <2>1, Answered DEF lists
<1>7. CASE source[f] # "none" /\ RootAt(f) = {} /\ To(c, "insert") /\ UNCHANGED source
  <2>1. /\ Moves(c) /\ job'[c] # Idle /\ job'[c].at = "insert" /\ job'[c].kind = "save"
        /\ job'[c].todo = q.todo /\ job'[c].asked = q.asked /\ job'[c].gone = q.gone
        /\ job'[c].alone = q.alone
    BY <1>1, <1>4, <1>7, SaveTo
  <2>2. Dan' = Dan /\ Listed' = Listed /\ source' \in [Dirs -> Roles] /\ source' = source
    BY <1>1, <1>7, SourceKept
  <2>3. ASSUME ~past.drift PROVE Agrees(c)'
    <3>1. ListsFit(q) /\ Dan' = Reg'
      BY <1>1, <1>3, <2>2, <2>3, RegsKept
    <3> QED BY <1>1, <2>1, <2>2, <3>1, BatchAgrees
  <2>4. RowsFit(job[c])'
    <3>1. PICK g : g = f
      OBVIOUS
    <3>2. Head(job'[c].todo).f = g /\ RootAt(g)' = {}
      BY <1>1, <1>7, <2>1, <3>1, RegsKept
    <3> QED BY <2>1, <3>2 DEF RowsFit, RootAt
  <2>5. ASSUME q.alone PROVE Saved(job[c])'
    BY <1>1, <1>5, <2>1, <2>2, <2>5, SavedKept
  <2> QED BY <1>1, <1>2, <2>1, <2>2, <2>3, <2>4, <2>5, ListStep
<1>8. CASE /\ source[f] # "none" /\ RootAt(f) # {} /\ To(c, "import")
           /\ source' = [source EXCEPT ![f] = "danbooru"]
  <2>1. /\ Moves(c) /\ job'[c] # Idle /\ job'[c].at = "import" /\ job'[c].kind = "save"
        /\ job'[c].todo = q.todo /\ job'[c].asked = q.asked /\ job'[c].gone = q.gone
        /\ job'[c].alone = q.alone
    BY <1>1, <1>4, <1>8, SaveTo
  <2>2. /\ source' \in [Dirs -> Roles] /\ Dan' = Dan \cup {f} /\ Listed' = Listed
        /\ \A d \in Dirs \ {f} : source'[d] = source[d]
    BY <1>1, <1>8 DEF Roles, Dan, Listed
  <2>3. ASSUME ~past.drift PROVE Agrees(c)'
    <3>1. f \in Reg
      BY <1>8 DEF Reg, RootAt
    <3>2. ListsFit(q) /\ Dan' = Reg'
      BY <1>1, <1>3, <2>2, <2>3, <3>1, RegsKept
    <3> QED BY <1>1, <1>8, <2>1, <2>2, <3>2, BatchAgrees
  <2>4. \A d \in Dan' : d \in Dan \/ RootAt(d) # {}
    BY <2>2, <1>8
  <2>5. ASSUME q.alone PROVE Saved(job[c])'
    BY <1>1, <1>5, <2>1, <2>2, <2>5, SavedKept
  <2> QED BY <1>1, <1>2, <2>1, <2>2, <2>3, <2>4, <2>5, ListStep
<1> QED BY <1>6, <1>7, <1>8 DEF Adopt

\* The look for a running tool before a release.
LEMMA ReleaseCheckKeeps == ASSUME IInv, NEW c \in Callers, ReleaseCheck(c) PROVE IInv'
<1> DEFINE q == job[c]
           f == Folder(c)
           h == Head1(c)
<1>1. /\ q.at = "check" /\ q.todo # <<>> /\ q.kind \in {"save", "remove"} /\ f \in Dirs /\ Fits(q)
      /\ h \in Change /\ h = Head(q.todo) /\ f = h.f /\ f # <<>> /\ q.root = "none"
      /\ source' = source /\ registered' = registered /\ row' = row /\ tool' = tool
      /\ q.kind = "save" => h.from = "danbooru" /\ HeadFits("relabel", h) /\ HeadFits("cut", h)
      /\ UNCHANGED <<disk, lists, row, entry, tool, up, past>>
  <2>1. q.at = "check" /\ q.todo # <<>>
    BY AtWork DEF ReleaseCheck
  <2>2. q.kind \in {"save", "remove"} /\ q.root = "none"
    BY <2>1, AtWork DEF Fits, StepFits
  <2> QED BY <2>1, <2>2, AtChange DEF ReleaseCheck, HeadFits, lists
<1>2. ASSUME ~past.drift
      PROVE  /\ ListsFit(q) /\ Dan = Reg /\ Dan' = Reg'
             /\ q.kind = "save" /\ job'[c].todo = q.todo => \A i \in DOMAIN job'[c].todo :
                    i > 1 => source'[job'[c].todo[i].f] = job'[c].todo[i].from
  <2>1. ListsFit(q)
    BY <1>1, <1>2, Known
  <2>2. Dan = Reg
    BY <1>1, <2>1 DEF ListsFit, Leaving, Entering, Moving
  <2>3. q.kind = "save" /\ job'[c].todo = q.todo => \A i \in DOMAIN job'[c].todo :
            i > 1 => source'[job'[c].todo[i].f] = job'[c].todo[i].from
    BY <1>1, <2>1, BatchKept
  <2> QED BY <1>1, <2>1, <2>2, <2>3, RegsKept, SourceKept
<1>3. CASE Answer(c)
  <2>1. ~Leaving(q) /\ ~Entering(q) /\ ~Moving(q)
    BY <1>1 DEF Leaving, Entering, Moving
  <2> QED BY <1>1, <1>3, <2>1, Answered
<1>4. CASE RootAt(f) = {} /\ To(c, "relabel") /\ q.kind = "save"
  <2>1. /\ Moves(c) /\ job'[c] # Idle /\ job'[c].at = "relabel" /\ job'[c].kind = "save"
        /\ job'[c].todo = q.todo /\ job'[c].asked = q.asked /\ job'[c].gone = q.gone
        /\ job'[c].alone = q.alone /\ job'[c].root = "none"
    BY <1>1, <1>4, SaveTo
  <2>2. ASSUME ~past.drift PROVE Agrees(c)'
    <3>1. source'[f] # "danbooru"
      <4>1. f \notin Reg
        BY <1>4 DEF Reg, RootAt
      <4>2. f \notin Dan
        BY <4>1, <1>2, <2>2
      <4> QED BY <4>2, <1>1 DEF Dan
    <3>2. /\ Head(job'[c].todo).f = f /\ Dan' = Reg' /\ job'[c].root = "none"
          /\ job'[c].at = "relabel" /\ job'[c].kind = "save"
          /\ \A i \in DOMAIN job'[c].todo :
                 i > 1 => source'[job'[c].todo[i].f] = job'[c].todo[i].from
      BY <1>1, <1>2, <1>4, <2>1, <2>2
    <3>3. ListsFit(job[c])'
      BY <3>1, <3>2 DEF ListsFit, Leaving, Entering, Moving
    <3> QED BY <2>1, <3>3 DEF Agrees
  <2>3. ASSUME q.alone PROVE Saved(job[c])'
    BY <1>1, <1>4, <2>1, <2>3, SourceKept, SavedKept DEF lists
  <2> QED BY <1>1, <2>1, <2>2, <2>3, JobStep
<1>5. CASE /\ ~Running
           /\ \E r \in RootAt(f) :
                  job' = [job EXCEPT ![c].at = "cut", ![c].root = r, ![c].doomed = Doomed(r)]
  <2>1. PICK r \in RootAt(f) :
            job' = [job EXCEPT ![c].at = "cut", ![c].root = r, ![c].doomed = Doomed(r)]
    BY <1>5
  <2> DEFINE D == Doomed(r)
             p == [job[c] EXCEPT !.at = "cut", !.root = r, !.doomed = D]
  <2>2. r \in Roots /\ registered[r] = f /\ D \in SUBSET Media
    BY <2>1, StoresAre DEF RootAt, Live, Doomed, Stores
  <2>3. p = job'[c] /\ job' = [job EXCEPT ![c] = job'[c]]
    BY <2>1 DEF IInv, JobsFit
  <2>4. /\ p \in Job /\ p.at = "cut" /\ p.root = r /\ p.doomed = D /\ p.kind = q.kind
        /\ p.todo = q.todo /\ p.asked = q.asked /\ p.gone = q.gone /\ p.alone = q.alone
        /\ p.seen = q.seen /\ p.path = q.path
    <3>1. "cut" \in Places /\ D \in SUBSET Media /\ r \in Roots /\ q \in Job
      BY <1>1, <2>2 DEF Places, Fits
    <3>2. p = [q EXCEPT !.at = "cut", !.root = r, !.doomed = D]
      OBVIOUS
    <3> HIDE DEF p, q, D
    <3> QED BY <3>1, <3>2 DEF Job
  <2> HIDE DEF p, D
  <2>5. Fits(p) /\ p # Idle
    <3>1. Fits(p)
      BY <1>1, <2>2, <2>4 DEF Fits, StepFits
    <3> QED BY <3>1, IdleIs
  <2>6. ASSUME ~past.drift PROVE Agrees(c)'
    <3>1. ListsFit(job[c])'
      BY <1>1, <1>2, <2>2, <2>3, <2>4, <2>6 DEF ListsFit, Leaving, Entering, Moving
    <3> QED BY <2>3, <2>5, <3>1 DEF Agrees
  <2>7. RowsFit(job[c])'
    <3>1. (Doomed(r))' = D
      BY <1>1 DEF Doomed, D
    <3> QED BY <1>1, <1>5, <2>2, <2>3, <2>4, <3>1 DEF RowsFit, Running
  <2>8. ASSUME q.kind = "save", q.alone PROVE Saved(job[c])'
    BY <1>1, <2>3, <2>4, <2>8, SourceKept, SavedKept DEF lists
  <2> QED BY <1>1, <2>3, <2>4, <2>5, <2>6, <2>7, <2>8, JobStep DEF Moves
<1> QED BY <1>1, <1>3, <1>4, <1>5 DEF ReleaseCheck

-----------------------------------------------------------------------------
(* The steps on the base index.                                            *)

\* A source leaves the base index.
LEMMA DropSourceKeeps == ASSUME IInv, NEW c \in Callers, DropSource(c) PROVE IInv'
<1> DEFINE q == job[c]
           f == Folder(c)
           h == Head1(c)
<1>1. /\ q.at = "drop" /\ q.todo # <<>> /\ q.kind \in {"save", "relocate"} /\ f \in Dirs /\ Fits(q)
      /\ q \in Job /\ h \in Change /\ h = Head(q.todo) /\ f = h.f /\ q.root = "none"
      /\ q.kind = "save" => h.from # "none" /\ h.to = "forget"
      /\ source' = source /\ registered' = registered /\ source \in [Dirs -> Roles]
      /\ Dan' = Dan /\ Reg' = Reg /\ Listed' = Listed /\ entry' \subseteq entry
      /\ UNCHANGED <<disk, lists, row, tool, up, past>>
  <2>1. q.at = "drop" /\ q.todo # <<>>
    BY AtWork DEF DropSource
  <2>2. q.kind \in {"save", "relocate"} /\ q.root = "none"
    BY <2>1, AtWork DEF Fits, StepFits
  <2>3. source' = source /\ registered' = registered
    BY DEF DropSource, lists
  <2>4. entry' \subseteq entry
    BY DEF DropSource, Dropped
  <2> QED BY <2>1, <2>2, <2>3, <2>4, AtChange, SourceKept, RegsKept DEF DropSource, HeadFits
<1>2. entry' \subseteq Entry /\ \A x, y \in entry' : SamePlace(x, y) => x = y
  BY <1>1, StoresAre DEF Stores
<1>3. ASSUME ~past.drift PROVE ListsFit(q) /\ Dan = Reg /\ Dan' = Reg'
  <2>1. ListsFit(q)
    BY <1>1, <1>3, Known
  <2> QED BY <1>1, <2>1 DEF ListsFit, Leaving, Entering, Moving
<1>4. CASE q.kind = "relocate"
  <2>1. To(c, "scan")
    BY <1>4 DEF DropSource
  <2>2. Fits([q EXCEPT !.at = "scan"])
    <3>1. "scan" \in Places /\ [q EXCEPT !.at = "scan"].at = "scan"
          /\ [q EXCEPT !.at = "scan"].kind = "relocate"
      BY <1>1, <1>4 DEF Places, Job
    <3>2. StepFits([q EXCEPT !.at = "scan"])
      BY <3>1 DEF StepFits
    <3> QED BY <1>1, <1>4, <3>1, <3>2, FitsAt
  <2>3. /\ Moves(c) /\ job'[c] # Idle /\ job'[c].at = "scan" /\ job'[c].kind = "relocate"
        /\ job'[c].alone = q.alone
    BY <1>1, <1>4, <2>1, <2>2, ToIs
  <2>4. ASSUME ~past.drift PROVE Agrees(c)'
    <3>1. ListsFit(job[c])'
      BY <1>3, <2>3, <2>4 DEF ListsFit, Leaving, Entering, Moving
    <3> QED BY <2>3, <3>1 DEF Agrees
  <2> QED BY <1>1, <1>2, <2>3, <2>4, ListStep
<1>5. CASE q.kind = "save"
  <2> DEFINE t == Tail(job[c].todo)
             g == job[c].gone \cup {Folder(c)}
             p == [job[c] EXCEPT !.at = "next", !.todo = t, !.gone = g]
  <2>1. p = job'[c] /\ job' = [job EXCEPT ![c] = job'[c]]
    <3>1. job' = [job EXCEPT ![c].at = "next", ![c].todo = Tail(@),
                             ![c].gone = @ \cup {Folder(c)}]
      BY <1>5 DEF DropSource
    <3> QED BY <3>1 DEF IInv, JobsFit
  <2>2. /\ t \in Seq(Change) /\ g \in SUBSET Dirs /\ BatchFits(t)
        /\ \A ch \in Range(t) : ChangeFits(ch)
    <3>1. q.todo \in Seq(Change) /\ q.gone \in SUBSET Dirs
      BY <1>1 DEF Job
    <3> QED BY <1>1, <1>5, <3>1, Heads, Tails DEF Fits
  <2>3. /\ p \in Job /\ p.at = "next" /\ p.todo = t /\ p.gone = g /\ p.kind = "save"
        /\ p.asked = q.asked /\ p.alone = q.alone /\ p.root = "none"
    <3>1. "next" \in Places /\ t \in Seq(Change) /\ g \in SUBSET Dirs /\ q \in Job
          /\ q.kind = "save" /\ q.root = "none"
      BY <1>1, <1>5, <2>2 DEF Places
    <3>2. p = [q EXCEPT !.at = "next", !.todo = t, !.gone = g]
      OBVIOUS
    <3> HIDE DEF p, q, t, g
    <3> QED BY <3>1, <3>2 DEF Job
  <2> HIDE DEF p
  <2>4. Fits(p) /\ p # Idle
    <3>1. Fits(p)
      BY <2>2, <2>3 DEF Fits, StepFits
    <3> QED BY <3>1, IdleIs
  <2>5. ASSUME ~past.drift PROVE Agrees(c)'
    BY <1>1, <1>3, <1>5, <2>1, <2>3, <2>4, <2>5, BatchAgrees
  <2>6. ASSUME q.alone PROVE Saved(job[c])'
    <3>1. disk' = disk
      BY <1>1
    <3> QED BY <1>1, <1>5, <2>1, <2>3, <2>6, <3>1, SavedDone
  <2>7. \A d \in Dan' : d \in Dan
    BY <1>1
  <2> QED BY <1>1, <1>2, <2>1, <2>3, <2>4, <2>5, <2>6, <2>7, ListStep DEF Moves
<1> QED BY <1>1, <1>4, <1>5

\* What a batch scans stays listed under the folders it has added.
LEMMA NearestIs ==
    ASSUME NEW f \in Dirs, NEW m \in Media, Nearest(m, f)
    PROVE  [at |-> home[m], m |-> m, src |-> f, on |-> TRUE] \in Mine(f, Listed)
BY DEF Nearest, Mine, Descendants

\* A scan of one source leaves what another shows in the index.
LEMMA ScanShows ==
    ASSUME Stores, NEW f \in Listed, NEW x \in Listed, NEW m \in Media, Nearest(m, x),
           entry' = Scan(entry, f, Listed),
           \/ x = f
           \/ [at |-> home[m], m |-> m, src |-> x, on |-> TRUE] \in entry
    PROVE  [at |-> home[m], m |-> m, src |-> x, on |-> TRUE] \in entry'
<1> DEFINE e == [at |-> home[m], m |-> m, src |-> x, on |-> TRUE]
<1>1. /\ home \in [Media -> Dirs] /\ entry \subseteq Entry /\ Listed \subseteq Dirs
      /\ f \in Dirs /\ x \in Dirs /\ entry' = Scan(entry, f, Listed)
  BY DEF Stores, Listed
<1>2. e \in Mine(x, Listed)
  BY <1>1, NearestIs
<1>3. CASE x = f
  BY <1>1, <1>2, <1>3, OneScanIs
<1>4. CASE x # f /\ e \in entry
  <2>1. ASSUME NEW y \in Mine(f, Listed), SamePlace(e, y) PROVE FALSE
    <3>1. e = y
      BY <1>1, <1>2, <2>1, OwnOfOne
    <3>2. y.src = f
      BY <1>1, MineIs
    <3> QED BY <1>4, <3>1, <3>2
  <2>2. e.src # f
    BY <1>4
  <2> HIDE DEF e
  <2>3. e \in Scan(entry, f, Listed)
    BY <1>1, <1>4, <2>1, <2>2, OneScanIs
  <2> QED BY <1>1, <2>3 DEF e
<1> QED BY <1>3, <1>4

\* The scan of one source.
LEMMA ScanSourceKeeps == ASSUME IInv, NEW c \in Callers, ScanSource(c) PROVE IInv'
<1> DEFINE q == job[c]
           f == Folder(c)
           h == Head1(c)
<1>1. /\ q.at = "scan" /\ q.todo # <<>> /\ f \in Dirs /\ Fits(q)
      /\ q.kind \in {"save", "files", "scan", "browse", "rescan", "relocate"}
      /\ q \in Job /\ h \in Change /\ h = Head(q.todo) /\ f = h.f /\ q.root = "none"
      /\ q.kind = "save" => h.from = "none" /\ ChangeFits(h)
      /\ source' = source /\ registered' = registered /\ source \in [Dirs -> Roles]
      /\ Dan' = Dan /\ Reg' = Reg /\ Listed' = Listed /\ q.seen \subseteq Dirs
      /\ entry' = entry \/ entry' = Scan(entry, f, q.seen)
      /\ q.kind # "browse" => entry' = Scan(entry, f, q.seen)
      /\ UNCHANGED <<disk, lists, row, tool, up, past>>
  <2>1. q.at = "scan" /\ q.todo # <<>>
    BY AtWork DEF ScanSource
  <2>2. /\ q.kind \in {"save", "files", "scan", "browse", "rescan", "relocate"} /\ q.root = "none"
        /\ q.seen \subseteq Dirs
    BY <2>1, AtWork DEF Fits, StepFits, Job
  <2>3. source' = source /\ registered' = registered
    BY DEF ScanSource, lists
  <2> QED BY <2>1, <2>2, <2>3, AtChange, SourceKept, RegsKept DEF ScanSource, HeadFits
<1>2. entry' \subseteq Entry /\ \A x, y \in entry' : SamePlace(x, y) => x = y
  <2>1. /\ home \in [Media -> Dirs] /\ entry \subseteq Entry
        /\ \A x, y \in entry : SamePlace(x, y) => x = y
    BY StoresAre DEF Stores
  <2>2. Scan(entry, f, q.seen) \subseteq Entry
    BY <1>1, <2>1, OneScanIs
  <2>3. \A x, y \in Scan(entry, f, q.seen) : SamePlace(x, y) => x = y
    BY <1>1, <2>1, ScanApart DEF Scan
  <2> QED BY <1>1, <2>1, <2>2, <2>3
<1>3. ASSUME ~past.drift PROVE ListsFit(q) /\ Dan = Reg /\ Dan' = Reg'
  <2>1. ListsFit(q)
    BY <1>1, <1>3, Known
  <2> QED BY <1>1, <2>1 DEF ListsFit, Leaving, Entering, Moving
<1>4. ASSUME q.kind = "save", q.alone, job'[c].todo = q.todo \/ job'[c].todo = Tail(q.todo),
             job'[c].asked = q.asked, job'[c].gone = q.gone, job'[c].at \in {"adopt", "next"},
             job'[c].at = "next" <=> job'[c].todo = Tail(q.todo)
      PROVE  Saved(job[c])'
  <2>1. /\ Saved(q) /\ q.seen = Listed /\ q.todo \in Seq(Change) /\ q.asked \subseteq Change
        /\ entry' = Scan(entry, f, Listed) /\ f \in Listed /\ home' = home
        /\ Range(Tail(q.todo)) \subseteq Range(q.todo) /\ h \in Range(q.todo)
        /\ \A x \in Range(q.todo) : x = h \/ x \in Range(Tail(q.todo))
        /\ \A x \in Range(Tail(q.todo)) : x.from = "none"
        /\ h.to # "forget"
    <3>1. Saved(q) /\ q.seen = Listed
      BY <1>1, <1>4, Known DEF Saved
    <3>2. q.todo \in Seq(Change) /\ q.asked \subseteq Change /\ BatchFits(q.todo)
      BY <1>1, <1>4 DEF Job, Fits
    <3>3. f \in Listed
      BY <1>1, <1>4, HeadListed
    <3> QED BY <1>1, <1>4, <3>1, <3>2, <3>3, Heads, Tails DEF disk, ChangeFits
  <2>2. \A x \in q.asked : Had(job'[c], x) \/ (x = Head(job'[c].todo) /\ job'[c].at # "next") =>
            Had(q, x) \/ x = h
    BY <1>1, <1>4, <2>1 DEF Had
  <2>3. /\ Range(job'[c].todo) \subseteq job'[c].asked
        /\ \A x, y \in job'[c].asked : x.f = y.f => x = y
        /\ \A x \in job'[c].asked : ChangeFits(x)
    BY <1>4, <2>1 DEF Saved
  <2>4. /\ \A x \in job'[c].asked, y \in Range(job'[c].todo) :
               Had(job'[c], x) /\ x.from = "none" => y.from = "none"
        /\ \A x \in job'[c].asked : Had(job'[c], x) /\ x.to = "forget" => x.f \in job'[c].gone
    <3>1. \A y \in Range(q.todo) : y.from = "none"
      BY <1>1, <1>4, <2>1
    <3>2. \A y \in Range(job'[c].todo) : y.from = "none"
      BY <1>4, <2>1, <3>1
    <3>3. \A x \in job'[c].asked : Had(job'[c], x) /\ x.to = "forget" => Had(q, x)
      BY <1>4, <2>1, <2>2
    <3> QED BY <1>4, <2>1, <3>2, <3>3 DEF Saved
  <2>5. ASSUME NEW x \in q.asked, x.from = "none", Had(q, x) \/ x = h
        PROVE  /\ source'[x.f] # "none"
               /\ \A m \in Media : Nearest(m, x.f)' =>
                      [at |-> home[m], m |-> m, src |-> x.f, on |-> TRUE] \in entry'
    <3>1. x.f \in Listed
      BY <2>1, <2>5, <1>1 DEF Saved, Listed, Change
    <3>2. ASSUME NEW m \in Media, Nearest(m, x.f)
          PROVE  \/ x.f = f
                 \/ [at |-> home[m], m |-> m, src |-> x.f, on |-> TRUE] \in entry
      BY <2>1, <2>5, <3>2, <1>1 DEF Saved
    <3>3. \A m \in Media : Nearest(m, x.f)' => Nearest(m, x.f)
      BY <1>1 DEF Nearest, disk
    <3>4. source'[x.f] # "none"
      BY <3>1, <1>1 DEF Listed
    <3> QED BY <2>1, <3>1, <3>2, <3>3, <3>4, StoresAre, ScanShows
  <2> QED BY <1>4, <2>1, <2>2, <2>3, <2>4, <2>5 DEF Saved
<1>5. CASE q.kind = "save" /\ To(c, "adopt") /\ h.to # "files"
  <2>1. HeadFits("adopt", h)
    BY <1>1, <1>5 DEF ChangeFits, HeadFits
  <2>2. /\ Moves(c) /\ job'[c] # Idle /\ job'[c].at = "adopt" /\ job'[c].kind = "save"
        /\ job'[c].todo = q.todo /\ job'[c].asked = q.asked /\ job'[c].gone = q.gone
        /\ job'[c].alone = q.alone
    BY <1>1, <1>5, <2>1, SaveTo
  <2>3. ASSUME ~past.drift PROVE Agrees(c)'
    <3>1. source'[f] # "danbooru"
      BY <1>1, <1>3, <1>5, <2>3 DEF ListsFit
    <3> QED BY <1>1, <1>3, <1>5, <2>2, <2>3, <3>1, BatchAgrees
  <2>4. job'[c].todo # Tail(q.todo)
    <3>1. q.todo \in Seq(Change)
      BY <1>1 DEF Job
    <3>2. Len(Tail(q.todo)) = Len(q.todo) - 1 /\ Len(q.todo) \in Nat
      BY <1>1, <3>1, HeadTailProperties, LenProperties
    <3>3. Len(Tail(q.todo)) # Len(q.todo)
      BY <3>2
    <3>4. Tail(q.todo) # q.todo
      BY <3>3
    <3> QED BY <2>2, <3>4
  <2>5. ASSUME q.alone PROVE Saved(job[c])'
    BY <1>4, <1>5, <2>2, <2>4, <2>5
  <2> QED BY <1>1, <1>2, <2>2, <2>3, <2>5, ListStep
<1>6. CASE q.kind = "save" /\ Done(c)
  <2>1. job' = [job EXCEPT ![c].at = "next", ![c].todo = Tail(@)]
    BY <1>6 DEF Done
  <2>2. /\ Moves(c) /\ job'[c] # Idle /\ job'[c].at = "next" /\ job'[c].kind = "save"
        /\ job'[c].todo = Tail(q.todo) /\ job'[c].asked = q.asked /\ job'[c].gone = q.gone
        /\ job'[c].alone = q.alone
    BY <1>1, <1>6, <2>1, TailIs
  <2>3. ASSUME ~past.drift PROVE Agrees(c)'
    BY <1>1, <1>3, <1>6, <2>2, <2>3, BatchAgrees
  <2>4. ASSUME q.alone PROVE Saved(job[c])'
    BY <1>4, <1>6, <2>2, <2>4
  <2> QED BY <1>1, <1>2, <2>2, <2>3, <2>4, ListStep
<1>7. CASE q.kind = "rescan" /\ To(c, "import") /\ h.to = "danbooru"
  <2>2. Fits([q EXCEPT !.at = "import"])
    <3>1. "import" \in Places /\ [q EXCEPT !.at = "import"].at = "import"
          /\ [q EXCEPT !.at = "import"].kind = "rescan"
      BY <1>1, <1>7 DEF Places, Job
    <3>2. StepFits([q EXCEPT !.at = "import"])
      BY <3>1 DEF StepFits
    <3> QED BY <1>1, <1>7, <3>1, <3>2, FitsAt
  <2>3. /\ Moves(c) /\ job'[c] # Idle /\ job'[c].at = "import" /\ job'[c].kind = "rescan"
        /\ job'[c].alone = q.alone /\ job'[c].todo = q.todo
    BY <1>1, <1>7, <2>2, ToIs
  <2>4. ASSUME ~past.drift PROVE Agrees(c)'
    <3>1. source[f] = "danbooru" /\ source'[f] = "danbooru"
      BY <1>1, <1>3, <1>7, <2>4 DEF ListsFit
    <3>2. f \in Reg'
      BY <1>1, <1>3, <2>4, <3>1 DEF Dan
    <3>3. ListsFit(job[c])'
      BY <1>1, <1>3, <1>7, <2>3, <2>4, <3>1, <3>2 DEF ListsFit, Leaving, Entering, Moving
    <3> QED BY <2>3, <3>3 DEF Agrees
  <2> QED BY <1>1, <1>2, <2>3, <2>4, ListStep
<1>8. CASE Answer(c)
  <2>1. Moves(c) /\ job'[c] = Idle
    BY <1>8, AnswerIs
  <2>2. ~past.drift => Agrees(c)'
    BY <2>1, <1>3 DEF Agrees
  <2> QED BY <2>1, <2>2, <1>1, <1>2, ListStep, IdleIs
<1>9. Done(c) => q.kind = "save" \/ Answer(c)
  BY <1>1 DEF Done
<1> QED BY <1>5, <1>6, <1>7, <1>8, <1>9 DEF ScanSource

\* The sources over what a batch has forgotten are of the list it read.
LEMMA OverIs ==
    ASSUME NEW seen, seen \subseteq Dirs, NEW gone, gone \subseteq Dirs
    PROVE  {Deepest(Ancestors(f, seen)) : f \in {g \in gone : Ancestors(g, seen) # {}}} \subseteq seen
<1>1. ASSUME NEW f \in gone, Ancestors(f, seen) # {} PROVE Deepest(Ancestors(f, seen)) \in seen
  <2>1. /\ Ancestors(f, seen) \subseteq Dirs /\ Ancestors(f, seen) \subseteq seen /\ f \in Dirs
        /\ \A d \in Ancestors(f, seen) : Within(f, d)
    BY BelowIs DEF Ancestors
  <2> QED BY <1>1, <2>1, DeepestIs
<1> QED BY <1>1

\* The scan of what a batch has brought out of hiding.
LEMMA RescanAncestorsKeeps == ASSUME IInv, NEW c \in Callers, RescanAncestors(c) PROVE IInv'
<1> DEFINE q == job[c]
<1>1. /\ q.at = "ancestors" /\ q.kind = "save" /\ q.seen \subseteq Dirs /\ q.gone \subseteq Dirs
      /\ Answer(c)
      /\ source' = source /\ registered' = registered /\ source \in [Dirs -> Roles]
      /\ Dan' = Dan /\ Reg' = Reg
      /\ UNCHANGED <<disk, lists, row, tool, up, past>>
  <2>1. q.at = "ancestors"
    BY DEF RescanAncestors
  <2>2. q.kind = "save" /\ q.seen \subseteq Dirs /\ q.gone \subseteq Dirs
    BY <2>1, AtWork DEF Fits, StepFits, Job
  <2>3. source' = source /\ registered' = registered
    BY DEF RescanAncestors, lists
  <2> QED BY <2>1, <2>2, <2>3, SourceKept, RegsKept, StoresAre DEF RescanAncestors, Stores
<1>2. entry' \subseteq Entry /\ \A x, y \in entry' : SamePlace(x, y) => x = y
  <2>1. PICK over : over = {Deepest(Ancestors(f, q.seen)) :
                                f \in {g \in q.gone : Ancestors(g, q.seen) # {}}}
    OBVIOUS
  <2>2. over \subseteq q.seen /\ over \subseteq Dirs
    BY <1>1, <2>1, OverIs
  <2>3. entry' = ScanAll(entry, over, q.seen)
    BY <2>1 DEF RescanAncestors
  <2>4. /\ home \in [Media -> Dirs] /\ entry \subseteq Entry
        /\ \A x, y \in entry : SamePlace(x, y) => x = y
    BY StoresAre DEF Stores
  <2>5. ScanAll(entry, over, q.seen) \subseteq Entry
    <3>1. PICK s : s = q.seen /\ s \subseteq Dirs
      BY <1>1
    <3>2. PICK known : known = entry
      OBVIOUS
    <3>3. ScanAll(known, over, s) \subseteq Entry
      BY <2>2, <2>4, <3>1, <3>2, ScanIs
    <3> QED BY <3>1, <3>2, <3>3
  <2>6. \A x, y \in ScanAll(entry, over, q.seen) : SamePlace(x, y) => x = y
    BY <1>1, <2>2, <2>4, ScanApart
  <2> QED BY <2>3, <2>5, <2>6
<1>3. ASSUME ~past.drift PROVE Dan' = Reg'
  <2>1. ListsFit(q)
    BY <1>1, <1>3, Known
  <2> QED BY <1>1, <2>1 DEF ListsFit, Leaving, Entering, Moving
<1>4. Moves(c) /\ job'[c] = Idle
  BY <1>1, AnswerIs
<1>5. ~past.drift => Agrees(c)'
  BY <1>3, <1>4 DEF Agrees
<1> QED BY <1>1, <1>2, <1>4, <1>5, ListStep, IdleIs

-----------------------------------------------------------------------------
(* The steps of a release.                                                 *)

\* The rows of a root go.
LEMMA DeleteRowsKeeps == ASSUME IInv, NEW c \in Callers, DeleteRows(c) PROVE IInv'
<1> DEFINE q == job[c]
           f == Folder(c)
<1>1. /\ q.at = "cut" /\ q.todo # <<>> /\ q.kind \in {"save", "remove"} /\ f \in Dirs /\ Fits(q)
      /\ q \in Job /\ f = Head(q.todo).f /\ q.root \in Roots
      /\ q.kind = "save" => HeadFits("cut", Head(q.todo)) /\ Head1(c).from # "none"
      /\ source' = source /\ registered' = registered /\ To(c, "unregister")
      /\ Dan' = Dan /\ Reg' = Reg /\ Listed' = Listed /\ Live' = Live
      /\ row' = {x \in row : x.root # q.root \/ x.m \notin q.doomed}
      /\ UNCHANGED <<disk, lists, entry, tool, up, past>>
  <2>1. q.at = "cut" /\ q.todo # <<>>
    BY AtWork DEF DeleteRows
  <2>2. q.kind \in {"save", "remove"} /\ q.root \in Roots
    BY <2>1, AtWork DEF Fits, StepFits
  <2>3. source' = source /\ registered' = registered
    BY DEF DeleteRows, lists
  <2> QED BY <2>1, <2>2, <2>3, AtChange, SourceKept, RegsKept DEF DeleteRows, HeadFits
<1>2. Fits([q EXCEPT !.at = "unregister"])
  <2>1. "unregister" \in Places /\ [q EXCEPT !.at = "unregister"].at = "unregister"
        /\ [q EXCEPT !.at = "unregister"].kind = q.kind
    BY <1>1 DEF Places, Job
  <2>2. StepFits([q EXCEPT !.at = "unregister"])
    BY <1>1, <2>1 DEF StepFits
  <2>3. q.kind = "save" => HeadFits("unregister", Head(q.todo))
    BY <1>1 DEF HeadFits
  <2> QED BY <1>1, <2>1, <2>2, <2>3, FitsAt
<1>3. /\ Moves(c) /\ job'[c] # Idle /\ job'[c].at = "unregister" /\ job'[c].kind = q.kind
      /\ job'[c].todo = q.todo /\ job'[c].asked = q.asked /\ job'[c].gone = q.gone
      /\ job'[c].alone = q.alone /\ job'[c].root = q.root
  BY <1>1, <1>2, ToIs
<1>4. TypeOK'
  <2>1. JobsFit'
    BY <1>1, <1>3, OthersStay
  <2>2. Stores'
    BY <1>1, StoresAre DEF Stores, disk
  <2> QED BY <2>1, <2>2, TypeKept
<1>5. ToolFits' /\ PastFits'
  BY <1>1 DEF IInv, ToolFits, PastFits
<1>6. ASSUME ~past.drift PROVE Agrees(c)'
  <2>1. ListsFit(q)
    BY <1>1, <1>6, Known
  <2>2. Dan = Reg /\ registered[q.root] = f
    BY <1>1, <2>1 DEF ListsFit, Leaving, Entering, Moving
  <2>3. q.kind = "save" => \A i \in DOMAIN job'[c].todo :
            i > 1 => source'[job'[c].todo[i].f] = job'[c].todo[i].from
    BY <1>1, <1>3, <2>1, BatchKept
  <2>4. ListsFit(job[c])'
    BY <1>1, <1>3, <2>2, <2>3 DEF ListsFit, Leaving, Entering, Moving
  <2> QED BY <1>3, <2>4 DEF Agrees
<1>7. ASSUME ~past.raced PROVE Holds(c)'
  <2>1. RowsHeld /\ ToolHeld /\ CutKnown /\ RowsFit(q)
    BY <1>1, <1>7, Known
  <2>2. RowsHeld' /\ ToolHeld' /\ CutKnown'
    BY <1>1, <2>1, HoldsKept
  <2>3. ~Running /\ registered[q.root] = f /\ Doomed(q.root) \subseteq q.doomed
    BY <1>1, <2>1 DEF RowsFit
  <2>4. \A x \in row' : x.root # q.root
    BY <1>1, <2>3 DEF Doomed
  <2>5. RowsFit(job[c])'
    BY <1>1, <1>3, <2>3, <2>4 DEF RowsFit, Running, Doomed
  <2> QED BY <2>2, <2>5 DEF Holds
<1>8. ASSUME job'[c].kind = "save", job'[c].alone PROVE Saved(job[c])'
  BY <1>1, <1>3, <1>8, SavedKept
<1> QED BY <1>1, <1>3, <1>4, <1>5, <1>6, <1>7, <1>8, StepKeeps

\* A root leaves Danbooru's list.
LEMMA UnregisterKeeps == ASSUME IInv, NEW c \in Callers, Unregister(c) PROVE IInv'
<1> DEFINE q == job[c]
           f == Folder(c)
           d == registered[job[c].root]
           p == [job[c] EXCEPT !.at = "relabel", !.path = d]
<1>1. /\ q.at = "unregister" /\ q.todo # <<>> /\ q.kind \in {"save", "remove"} /\ f \in Dirs
      /\ q \in Job /\ Fits(q) /\ f = Head(q.todo).f /\ f # <<>> /\ q.root \in Roots
      /\ d \in Dirs \cup {<<>>} /\ q.root # "none"
      /\ q.kind = "save" => HeadFits("unregister", Head(q.todo)) /\ Head1(c).from # "none"
      /\ source' = source /\ row' = row /\ tool' = tool
      /\ registered' = [registered EXCEPT ![q.root] = <<>>]
      /\ registered \in [Roots -> Dirs \cup {<<>>}]
      /\ past' = [past EXCEPT !.cut = @ \cup ({d} \ {<<>>}),
                              !.drift = @ \/ \E s \in Live \ {q.root} : registered[s] = d]
      /\ past \in [drift : BOOLEAN, raced : BOOLEAN, cut : SUBSET Dirs, moved : SUBSET Dirs]
      /\ job' = [job EXCEPT ![c].at = "relabel", ![c].path = d]
      /\ UNCHANGED <<disk, source, row, entry, tool, up>>
  <2>1. q.at = "unregister" /\ q.todo # <<>>
    BY AtWork DEF Unregister
  <2>2. q.kind \in {"save", "remove"} /\ q.root \in Roots
    BY <2>1, AtWork DEF Fits, StepFits
  <2>3. q.root # "none"
    BY <2>2, RootAssumption
  <2>4. past \in [drift : BOOLEAN, raced : BOOLEAN, cut : SUBSET Dirs, moved : SUBSET Dirs]
    BY DEF IInv, PastFits
  <2> QED BY <2>1, <2>2, <2>3, <2>4, AtChange DEF Unregister, HeadFits
<1>2. p = job'[c] /\ job' = [job EXCEPT ![c] = job'[c]]
  BY <1>1 DEF IInv, JobsFit
<1>3. /\ p \in Job /\ p.at = "relabel" /\ p.path = d /\ p.kind = q.kind /\ p.todo = q.todo
      /\ p.asked = q.asked /\ p.gone = q.gone /\ p.alone = q.alone /\ p.root = q.root
  <2>1. "relabel" \in Places /\ d \in Dirs \cup {<<>>} /\ q \in Job
    BY <1>1 DEF Places
  <2>2. p = [q EXCEPT !.at = "relabel", !.path = d]
    OBVIOUS
  <2> HIDE DEF p, q, d
  <2> QED BY <2>1, <2>2 DEF Job
<1> HIDE DEF p
<1>4. Fits(p) /\ p # Idle
  <2>1. Fits(p)
    BY <1>1, <1>3 DEF Fits, StepFits, HeadFits
  <2> QED BY <2>1, IdleIs
<1>5. /\ Live' = Live \ {q.root} /\ \A s \in Live' : registered'[s] = registered[s]
      /\ past'.raced = past.raced /\ past'.moved = past.moved
      /\ past'.cut = past.cut \cup ({d} \ {<<>>})
      /\ past'.drift = (past.drift \/ \E s \in Live \ {q.root} : registered[s] = d)
      /\ Dan' = Dan /\ Listed' = Listed
  <2>1. Live' = Live \ {q.root} /\ \A s \in Live' : registered'[s] = registered[s]
    BY <1>1 DEF Live
  <2> HIDE DEF d
  <2>2. /\ past'.raced = past.raced /\ past'.moved = past.moved
        /\ past'.cut = past.cut \cup ({d} \ {<<>>})
        /\ past'.drift = (past.drift \/ \E s \in Live \ {q.root} : registered[s] = d)
    BY <1>1
  <2> QED BY <1>1, <2>1, <2>2, SourceKept
<1>6. TypeOK'
  <2>1. JobsFit'
    BY <1>1, <1>2, <1>4, OthersStay DEF Moves
  <2>2. Stores'
    BY <1>1, <1>5, StoresAre DEF Stores, disk
  <2> QED BY <2>1, <2>2, TypeKept
<1>7. ToolFits' /\ PastFits'
  <2>1. ToolFits'
    BY <1>1 DEF IInv, ToolFits
  <2>2. PastFits'
    <3> HIDE DEF d
    <3> QED BY <1>1 DEF PastFits
  <2> QED BY <2>1, <2>2
<1>8. ASSUME ~past'.drift PROVE Agrees(c)'
  <2>1. ListsFit(q)
    BY <1>1, <1>5, <1>8, Known
  <2>2. Dan = Reg /\ d = f
    BY <1>1, <2>1 DEF ListsFit, Leaving, Entering, Moving
  <2>3. q.kind = "save" => \A i \in DOMAIN job'[c].todo :
            i > 1 => source'[job'[c].todo[i].f] = job'[c].todo[i].from
    BY <1>1, <1>2, <1>3, <2>1, BatchKept
  <2>4. Reg = Reg' \cup {f} /\ f \notin Reg'
    <3>1. \A s \in Live \ {q.root} : registered[s] # f
      BY <1>5, <1>8, <2>2
    <3>2. q.root \in Live
      BY <1>1, <2>2 DEF Live
    <3> QED BY <1>5, <2>2, <3>1, <3>2 DEF Reg
  <2>5. Head(job'[c].todo).f = f /\ job'[c].path = f /\ job'[c].root # "none"
        /\ job'[c].at = "relabel" /\ job'[c].kind = q.kind
    BY <1>1, <1>2, <1>3, <2>2
  <2>6. ListsFit(job[c])'
    BY <1>1, <1>5, <2>2, <2>3, <2>4, <2>5 DEF ListsFit, Leaving, Entering, Moving
  <2> QED BY <1>2, <1>4, <2>6 DEF Agrees
<1>9. ASSUME ~past'.raced PROVE Holds(c)'
  <2>1. RowsHeld /\ ToolHeld /\ CutKnown /\ RowsFit(q)
    BY <1>1, <1>5, <1>9, Known
  <2>2. ~Running /\ Doomed(q.root) = {} /\ d = f
    BY <1>1, <2>1 DEF RowsFit
  <2>3. RowsHeld'
    <3>1. \A x \in row : x.root # q.root
      BY <2>2 DEF Doomed
    <3> QED BY <1>1, <1>5, <2>1, <3>1 DEF RowsHeld
  <2>4. ToolHeld'
    BY <1>1, <2>2 DEF ToolHeld, Running
  <2>5. CutKnown'
    <3>1. ASSUME NEW e \in Dirs, source'[e] = "danbooru", RootAt(e)' = {}
          PROVE  e \in past'.cut \cup past'.moved
      <4>1. CASE e = f
        BY <1>1, <1>5, <2>2, <4>1
      <4>2. CASE e # f
        <5>1. RootAt(e) = {}
          BY <1>1, <1>5, <2>2, <3>1, <4>2 DEF RootAt
        <5> QED BY <1>1, <1>5, <2>1, <3>1, <5>1 DEF CutKnown
      <4> QED BY <4>1, <4>2
    <3> QED BY <3>1 DEF CutKnown
  <2>6. RowsFit(job[c])'
    BY <1>2, <1>3 DEF RowsFit
  <2> QED BY <2>3, <2>4, <2>5, <2>6 DEF Holds
<1>10. ASSUME job'[c].kind = "save", job'[c].alone PROVE Saved(job[c])'
  BY <1>1, <1>2, <1>3, <1>5, <1>10, SavedKept
<1> QED BY <1>1, <1>2, <1>3, <1>4, <1>5, <1>6, <1>7, <1>8, <1>9, <1>10, StepKeeps DEF Moves

\* A released folder is given back to Files, or withdrawn.
LEMMA RelabelKeeps == ASSUME IInv, NEW c \in Callers, Relabel(c) PROVE IInv'
<1> DEFINE q == job[c]
           f == Folder(c)
           h == Head1(c)
<1>1. /\ q.at = "relabel" /\ q.todo # <<>> /\ q.kind \in {"save", "remove"} /\ f \in Dirs
      /\ q \in Job /\ Fits(q) /\ h = Head(q.todo) /\ f = h.f /\ f # <<>> /\ h \in Change
      /\ q.kind = "save" => h.from = "danbooru" /\ ChangeFits(h)
      /\ registered' = registered /\ row' = row /\ tool' = tool /\ Reg' = Reg
      /\ source \in [Dirs -> Roles] /\ past.cut \subseteq Dirs
      /\ past \in [drift : BOOLEAN, raced : BOOLEAN, cut : SUBSET Dirs, moved : SUBSET Dirs]
      /\ UNCHANGED <<disk, registered, row, entry, tool, up>>
  <2>1. q.at = "relabel" /\ q.todo # <<>>
    BY AtWork DEF Relabel
  <2>2. q.kind \in {"save", "remove"}
    BY <2>1, AtWork DEF Fits, StepFits
  <2>3. past \in [drift : BOOLEAN, raced : BOOLEAN, cut : SUBSET Dirs, moved : SUBSET Dirs]
    BY DEF IInv, PastFits
  <2>4. registered' = registered
    BY DEF Relabel
  <2> QED BY <2>1, <2>2, <2>3, <2>4, AtChange, RegsKept DEF Relabel, HeadFits
<1>2. PICK p : /\ p = IF q.root = "none" THEN f ELSE q.path
               /\ p \in Dirs \cup {<<>>}
               /\ source' = IF p = <<>> THEN source
                            ELSE [source EXCEPT ![p] = IF Keeps(c) /\ @ # "none" THEN "files"
                                                       ELSE "none"]
               /\ past' = [past EXCEPT !.cut = @ \ {p}]
  BY <1>1 DEF Relabel, Job
<1>3. /\ source' \in [Dirs -> Roles] /\ Dan' = Dan \ {p}
      /\ \A d \in Dirs \ {p} : source'[d] = source[d]
      /\ p \in Dirs => source'[p] # "danbooru"
  <2>1. CASE p = <<>>
    <3>1. p \notin Dirs
      BY <2>1, Paths
    <3> QED BY <1>1, <1>2, <2>1, <3>1, SourceKept DEF Dan
  <2>2. CASE p # <<>>
    <3>1. PICK role \in {"files", "none"} : source' = [source EXCEPT ![p] = role]
      BY <1>2, <2>2
    <3>2. p \in Dirs
      BY <1>2, <2>2
    <3> QED BY <1>1, <3>1, <3>2 DEF Roles, Dan
  <2> QED BY <2>1, <2>2
<1>4. /\ past'.drift = past.drift /\ past'.raced = past.raced /\ past'.moved = past.moved
      /\ past'.cut = past.cut \ {p} /\ PastFits'
  BY <1>1, <1>2 DEF PastFits
<1>5. /\ entry' \subseteq Entry /\ \A x, y \in entry' : SamePlace(x, y) => x = y
  BY <1>1, StoresAre DEF Stores
<1>6. ASSUME ~past.drift PROVE ListsFit(q) /\ Dan' = Reg' /\ p = f
  <2>1. ListsFit(q)
    BY <1>1, <1>6, Known
  <2>2. CASE q.root = "none"
    <3>1. ~Leaving(q) /\ ~Entering(q) /\ ~Moving(q)
      BY <1>1, <2>2 DEF Leaving, Entering, Moving
    <3>2. Dan = Reg /\ source[f] # "danbooru"
      BY <1>1, <2>1, <3>1 DEF ListsFit
    <3>3. f \notin Dan
      BY <3>2 DEF Dan
    <3> QED BY <1>1, <1>2, <1>3, <2>1, <2>2, <3>2, <3>3
  <2>3. CASE q.root # "none"
    <3>1. Leaving(q)
      BY <1>1, <2>3 DEF Leaving
    <3>2. Dan = Reg \cup {q.path} /\ q.path \notin Reg /\ q.path = f
      BY <1>1, <2>1, <3>1 DEF ListsFit
    <3> QED BY <1>1, <1>2, <1>3, <2>1, <2>3, <3>2
  <2> QED BY <2>2, <2>3
<1>7. Stores' /\ ToolFits'
  <2>1. Stores'
    BY <1>1, <1>3, <1>4, StoresAre DEF Stores, disk, Live
  <2> QED BY <1>1, <2>1 DEF IInv, ToolFits
<1>8. ASSUME ~past.raced PROVE RowsHeld' /\ ToolHeld' /\ CutKnown'
  <2>1. RowsHeld /\ ToolHeld /\ CutKnown
    BY <1>1, <1>8, Known
  <2>2. RowsHeld' /\ ToolHeld'
    BY <1>1, <2>1 DEF RowsHeld, ToolHeld, Live, Running
  <2>3. CutKnown'
    <3>1. ASSUME NEW d \in Dirs, source'[d] = "danbooru", RootAt(d)' = {}
          PROVE  d \in past'.cut \cup past'.moved
      <4>1. d # p /\ source[d] = "danbooru"
        BY <1>3, <3>1
      <4>2. RootAt(d) = {}
        BY <1>1, <3>1, RegsKept
      <4> QED BY <1>4, <2>1, <4>1, <4>2 DEF CutKnown
    <3> QED BY <3>1 DEF CutKnown
  <2> QED BY <2>2, <2>3
<1>9. CASE q.kind = "remove"
  <2>1. Moves(c) /\ job'[c] = Idle
    BY <1>9, AnswerIs DEF Relabel
  <2>2. TypeOK'
    BY <1>7, <2>1, OthersStay, TypeKept
  <2>3. ~past'.drift => Agrees(c)'
    BY <1>4, <1>6, <2>1 DEF Agrees
  <2>4. ~past'.raced => Holds(c)'
    BY <1>4, <1>8, <2>1 DEF Holds
  <2> QED BY <1>1, <1>4, <1>7, <2>1, <2>2, <2>3, <2>4, IdleIs, StepKeeps
<1>10. CASE q.kind = "save"
  <2>1. /\ AfterRelease(h) \in {"drop", "settle", "adopt"} /\ HeadFits(AfterRelease(h), h)
        /\ AfterRelease(h) = "adopt" => h.to \in {"danbooru", "manga"}
    BY <1>1, <1>10, AfterFits
  <2>2. PICK a : a = AfterRelease(h)
    OBVIOUS
  <2> DEFINE t == [job[c] EXCEPT !.at = a, !.root = "none", !.path = <<>>, !.doomed = {}]
  <2>3. t = job'[c] /\ job' = [job EXCEPT ![c] = job'[c]]
    <3>1. job' = [job EXCEPT ![c].at = a, ![c].root = "none", ![c].path = <<>>, ![c].doomed = {}]
      BY <1>10, <2>2 DEF Relabel
    <3> QED BY <3>1 DEF IInv, JobsFit
  <2>4. /\ t \in Job /\ t.at = a /\ t.root = "none" /\ t.kind = q.kind /\ t.todo = q.todo
        /\ t.asked = q.asked /\ t.gone = q.gone /\ t.alone = q.alone
    <3>1. a \in Places /\ q \in Job
      BY <1>1, <2>1, <2>2 DEF Places
    <3>2. t = [q EXCEPT !.at = a, !.root = "none", !.path = <<>>, !.doomed = {}]
      OBVIOUS
    <3> HIDE DEF t, q
    <3> QED BY <3>1, <3>2 DEF Job
  <2> HIDE DEF t
  <2>5. Fits(t) /\ t # Idle
    <3>1. StepFits(t)
      BY <1>10, <2>1, <2>2, <2>4 DEF StepFits
    <3>2. Fits(t)
      BY <1>1, <1>10, <2>1, <2>2, <2>4, <3>1 DEF Fits
    <3> QED BY <3>2, IdleIs
  <2>6. Moves(c)
    BY <2>3, <2>5 DEF Moves
  <2>7. TypeOK'
    BY <1>7, <2>6, OthersStay, TypeKept
  <2>8. ASSUME ~past'.drift PROVE Agrees(c)'
    <3>1. /\ ListsFit(job[c]) /\ Dan' = Reg' /\ source'[f] # "danbooru"
          /\ \A d \in Dirs \ {Folder(c)} : source'[d] = source[d]
      BY <1>1, <1>3, <1>4, <1>6, <2>8
    <3>2. job'[c].at \in {"drop", "settle", "adopt"} /\ job'[c].todo = job[c].todo
          /\ job'[c].kind = "save" /\ job'[c] # Idle
      BY <1>10, <2>1, <2>2, <2>3, <2>4, <2>5
    <3> QED BY <1>1, <1>10, <3>1, <3>2, BatchAgrees
  <2>9. ASSUME ~past'.raced PROVE Holds(c)'
    <3>1. RowsFit(job[c])'
      BY <2>1, <2>2, <2>3, <2>4 DEF RowsFit
    <3> QED BY <1>4, <1>8, <2>9, <3>1 DEF Holds
  <2>10. ASSUME q.alone PROVE Saved(job[c])'
    <3>1. Head1(c).from # "none"
      BY <1>1, <1>10
    <3>2. job'[c].at \notin {"scan", "ancestors"}
      BY <2>1, <2>2, <2>3, <2>4
    <3>3. disk' = disk /\ entry \subseteq entry'
      BY <1>1
    <3> QED BY <1>1, <1>10, <2>3, <2>4, <2>10, <3>1, <3>2, <3>3, SavedKept
  <2> QED BY <1>1, <1>4, <1>7, <2>3, <2>4, <2>6, <2>7, <2>8, <2>9, <2>10, StepKeeps
<1> QED BY <1>1, <1>9, <1>10

\* A new root.
LEMMA InsertKeeps == ASSUME IInv, NEW c \in Callers, Insert(c) PROVE IInv'
<1> DEFINE q == job[c]
<1>1. /\ q.at = "insert" /\ q.todo # <<>> /\ q.kind \in {"save", "add"}
      /\ q \in Job /\ Fits(q) /\ Folder(c) \in Dirs /\ Folder(c) # <<>> /\ q.root = "none"
      /\ Folder(c) = Head(q.todo).f
      /\ q.kind = "save" => HeadFits("upsert", Head(q.todo))
      /\ source' = source /\ row' = row /\ tool' = tool /\ past' = past /\ To(c, "upsert")
      /\ Dan' = Dan /\ Listed' = Listed /\ registered \in [Roots -> Dirs \cup {<<>>}]
      /\ UNCHANGED <<disk, source, row, entry, tool, up, left, past>>
  <2>1. q.at = "insert" /\ q.todo # <<>>
    BY AtWork DEF Insert
  <2>2. q.kind \in {"save", "add"} /\ q.root = "none"
    BY <2>1, AtWork DEF Fits, StepFits
  <2>3. source' = source
    BY DEF Insert
  <2> QED BY <2>1, <2>2, <2>3, AtChange, SourceKept DEF Insert, HeadFits
<1>2. PICK r \in Fresh, f \in Dirs : /\ registered' = [registered EXCEPT ![r] = f] /\ f = Folder(c)
  BY <1>1 DEF Insert
<1>3. /\ r \in Roots /\ registered[r] = <<>> /\ r \notin Live /\ Live' = Live \cup {r}
      /\ Reg' = Reg \cup {f} /\ RootAt(f)' # {} /\ \A d \in Dirs : RootAt(d) \subseteq RootAt(d)'
  BY <1>1, <1>2 DEF Fresh, Live, Reg, RootAt
<1>4. Fits([q EXCEPT !.at = "upsert"])
  <2>1. "upsert" \in Places /\ [q EXCEPT !.at = "upsert"].at = "upsert"
        /\ [q EXCEPT !.at = "upsert"].kind = q.kind
    BY <1>1 DEF Places, Job
  <2>2. StepFits([q EXCEPT !.at = "upsert"])
    BY <1>1, <2>1 DEF StepFits
  <2> QED BY <1>1, <2>1, <2>2, FitsAt
<1>5. /\ Moves(c) /\ job'[c] # Idle /\ job'[c].at = "upsert" /\ job'[c].kind = q.kind
      /\ job'[c].todo = q.todo /\ job'[c].asked = q.asked /\ job'[c].gone = q.gone
      /\ job'[c].alone = q.alone /\ job'[c].root = "none"
  BY <1>1, <1>4, ToIs
<1>6. TypeOK'
  <2>1. JobsFit'
    BY <1>1, <1>5, OthersStay
  <2>2. past.raced \/ \A s, t \in Live' : registered'[s] = registered'[t] => s = t
    <3>1. ~past.raced => RootAt(f) = {}
      BY <1>1, <1>2, Known DEF RowsFit
    <3>2. ~past.raced => \A s \in Live : registered[s] # f
      BY <3>1 DEF RootAt
    <3> QED BY <1>1, <1>2, <1>3, <3>2, StoresAre DEF Stores
  <2>3. registered' \in [Roots -> Dirs \cup {<<>>}]
    BY <1>1, <1>2
  <2>4. Stores'
    BY <1>1, <2>2, <2>3, StoresAre DEF Stores, disk
  <2> QED BY <2>1, <2>4, TypeKept
<1>7. ToolFits' /\ PastFits'
  BY <1>1 DEF IInv, ToolFits, PastFits
<1>8. ASSUME ~past.drift PROVE Agrees(c)'
  <2>1. ListsFit(q)
    BY <1>1, <1>8, Known
  <2>2. Dan = Reg
    BY <1>1, <2>1 DEF ListsFit, Leaving, Entering, Moving
  <2>3. q.kind = "save" => \A i \in DOMAIN job'[c].todo :
            i > 1 => source'[job'[c].todo[i].f] = job'[c].todo[i].from
    BY <1>1, <1>5, <2>1, BatchKept
  <2>4. Reg' = Dan' \cup {f} /\ f = Head(job'[c].todo).f
    BY <1>1, <1>2, <1>3, <1>5, <2>2
  <2>5. ListsFit(job[c])'
    BY <1>1, <1>5, <2>3, <2>4 DEF ListsFit, Leaving, Entering, Moving
  <2> QED BY <1>5, <2>5 DEF Agrees
<1>9. ASSUME ~past.raced PROVE Holds(c)'
  <2>1. RowsHeld /\ ToolHeld /\ CutKnown
    BY <1>1, <1>9, Known
  <2>2. RowsHeld' /\ ToolHeld'
    BY <1>1, <1>3, <2>1 DEF RowsHeld, ToolHeld, Running
  <2>3. CutKnown'
    BY <1>1, <1>3, <2>1 DEF CutKnown
  <2>4. RowsFit(job[c])'
    <3>1. Head(job'[c].todo).f = f
      BY <1>1, <1>2, <1>5
    <3> QED BY <1>3, <1>5, <3>1 DEF RowsFit, RootAt
  <2> QED BY <2>2, <2>3, <2>4 DEF Holds
<1>10. ASSUME job'[c].kind = "save", job'[c].alone PROVE Saved(job[c])'
  <2>1. Head1(c).from = "none" => Folder(c) \in Listed'
    BY <1>1, <1>5, <1>10, HeadListed
  <2> QED BY <1>1, <1>5, <1>10, <2>1, SavedKept
<1> QED BY <1>1, <1>5, <1>6, <1>7, <1>8, <1>9, <1>10, StepKeeps

\* The new root's folder is called Danbooru's in the shared list.
LEMMA UpsertKeeps == ASSUME IInv, NEW c \in Callers, Upsert(c) PROVE IInv'
<1> DEFINE q == job[c]
<1>1. /\ q.at = "upsert" /\ q.todo # <<>> /\ q.kind \in {"save", "add"}
      /\ q \in Job /\ Fits(q) /\ Folder(c) \in Dirs /\ q.root = "none"
      /\ Folder(c) = Head(q.todo).f
      /\ q.kind = "save" => HeadFits("import", Head(q.todo))
      /\ row' = row /\ tool' = tool /\ To(c, "import") /\ registered' = registered
      /\ source \in [Dirs -> Roles]
      /\ past \in [drift : BOOLEAN, raced : BOOLEAN, cut : SUBSET Dirs, moved : SUBSET Dirs]
      /\ UNCHANGED <<disk, registered, row, entry, tool, up, left>>
  <2>1. q.at = "upsert" /\ q.todo # <<>>
    BY AtWork DEF Upsert
  <2>2. q.kind \in {"save", "add"} /\ q.root = "none"
    BY <2>1, AtWork DEF Fits, StepFits
  <2>3. past \in [drift : BOOLEAN, raced : BOOLEAN, cut : SUBSET Dirs, moved : SUBSET Dirs]
    BY DEF IInv, PastFits
  <2> QED BY <2>1, <2>2, <2>3, AtChange DEF Upsert, HeadFits
<1>2. PICK f \in Dirs : /\ f = Folder(c) /\ source' = [source EXCEPT ![f] = "danbooru"]
                        /\ past' = [past EXCEPT !.cut = @ \ {f}]
  BY <1>1 DEF Upsert
<1>3. /\ source' \in [Dirs -> Roles] /\ Dan' = Dan \cup {f} /\ Listed' = Listed \cup {f}
      /\ \A d \in Dirs \ {f} : source'[d] = source[d]
      /\ past'.drift = past.drift /\ past'.raced = past.raced /\ past'.moved = past.moved
      /\ past'.cut = past.cut \ {f} /\ PastFits' /\ Reg' = Reg
  BY <1>1, <1>2, RegsKept DEF Roles, Dan, Listed, PastFits
<1>4. Fits([q EXCEPT !.at = "import"])
  <2>1. "import" \in Places /\ [q EXCEPT !.at = "import"].at = "import"
        /\ [q EXCEPT !.at = "import"].kind = q.kind
    BY <1>1 DEF Places, Job
  <2>2. StepFits([q EXCEPT !.at = "import"])
    BY <1>1, <2>1 DEF StepFits
  <2> QED BY <1>1, <2>1, <2>2, FitsAt
<1>5. /\ Moves(c) /\ job'[c] # Idle /\ job'[c].at = "import" /\ job'[c].kind = q.kind
      /\ job'[c].todo = q.todo /\ job'[c].asked = q.asked /\ job'[c].gone = q.gone
      /\ job'[c].alone = q.alone /\ job'[c].root = "none"
  BY <1>1, <1>4, ToIs
<1>6. TypeOK' /\ ToolFits'
  <2>1. JobsFit'
    BY <1>1, <1>5, OthersStay
  <2>2. Stores'
    BY <1>1, <1>3, StoresAre DEF Stores, disk, Live
  <2> QED BY <1>1, <2>1, <2>2, TypeKept DEF IInv, ToolFits
<1>7. ASSUME ~past.drift PROVE Agrees(c)'
  <2>1. ListsFit(q)
    BY <1>1, <1>7, Known
  <2>2. Reg = Dan \cup {f}
    BY <1>1, <1>2, <2>1 DEF ListsFit, Entering
  <2>3. q.kind = "save" => \A i \in DOMAIN job'[c].todo :
            i > 1 => source'[job'[c].todo[i].f] = job'[c].todo[i].from
    BY <1>1, <1>2, <1>3, <1>5, <2>1, BatchKept
  <2>4. Dan' = Reg' /\ f \in Reg' /\ f = Head(job'[c].todo).f
    BY <1>1, <1>2, <1>3, <1>5, <2>2
  <2>5. ListsFit(job[c])'
    BY <1>1, <1>5, <2>3, <2>4 DEF ListsFit, Leaving, Entering, Moving
  <2> QED BY <1>5, <2>5 DEF Agrees
<1>8. ASSUME ~past.raced PROVE Holds(c)'
  <2>1. RowsHeld /\ ToolHeld /\ CutKnown /\ RootAt(f) # {}
    BY <1>1, <1>2, <1>8, Known DEF RowsFit
  <2>2. RowsHeld' /\ ToolHeld'
    BY <1>1, <2>1 DEF RowsHeld, ToolHeld, Live, Running
  <2>3. CutKnown'
    <3>1. ASSUME NEW d \in Dirs, source'[d] = "danbooru", RootAt(d)' = {}
          PROVE  d \in past'.cut \cup past'.moved
      <4>1. RootAt(d) = {}
        BY <1>1, <3>1, RegsKept
      <4>2. d # f /\ source[d] = "danbooru"
        BY <1>3, <2>1, <3>1, <4>1
      <4> QED BY <1>3, <2>1, <4>1, <4>2 DEF CutKnown
    <3> QED BY <3>1 DEF CutKnown
  <2>4. RowsFit(job[c])'
    BY <1>5 DEF RowsFit
  <2> QED BY <2>2, <2>3, <2>4 DEF Holds
<1>9. ASSUME job'[c].kind = "save", job'[c].alone PROVE Saved(job[c])'
  <2>1. disk' = disk /\ entry \subseteq entry' /\ Listed \subseteq Listed' /\ Folder(c) \in Listed'
    BY <1>1, <1>2, <1>3
  <2> QED BY <1>1, <1>5, <1>9, <2>1, SavedKept
<1> QED BY <1>1, <1>3, <1>5, <1>6, <1>7, <1>8, <1>9, StepKeeps

-----------------------------------------------------------------------------
(* Imports, and a folder that was moved.                                   *)

\* The import of a request's folder.
LEMMA ImportFolderKeeps == ASSUME IInv, NEW c \in Callers, ImportFolder(c) PROVE IInv'
<1> DEFINE q == job[c]
           h == Head1(c)
<1>1. /\ q.at = "import" /\ q.todo # <<>>
      /\ q.kind \in {"save", "add", "rescan", "relocate", "put"}
      /\ q \in Job /\ Fits(q) /\ Folder(c) \in Dirs /\ q.root = "none" /\ h \in Change
      /\ Folder(c) = Head(q.todo).f /\ h = Head(q.todo)
      /\ q.kind = "save" => h.to = "danbooru" /\ ChangeFits(h)
      /\ StartImport({Folder(c)}) /\ Done(c)
      /\ source' = source /\ registered' = registered /\ row' = row
      /\ registered \in [Roots -> Dirs \cup {<<>>}]
      /\ Dan' = Dan /\ Listed' = Listed /\ Reg' = Reg /\ Live' = Live
      /\ past' = [past EXCEPT !.raced = @ \/ past.drift]
      /\ past \in [drift : BOOLEAN, raced : BOOLEAN, cut : SUBSET Dirs, moved : SUBSET Dirs]
      /\ UNCHANGED <<disk, lists, row, entry, up, left>>
  <2>1. q.at = "import" /\ q.todo # <<>>
    BY AtWork DEF ImportFolder
  <2>2. q.kind \in {"save", "add", "rescan", "relocate", "put"} /\ q.root = "none"
    BY <2>1, AtWork DEF Fits, StepFits
  <2>3. past \in [drift : BOOLEAN, raced : BOOLEAN, cut : SUBSET Dirs, moved : SUBSET Dirs]
    BY DEF IInv, PastFits
  <2>4. source' = source /\ registered' = registered
    BY DEF ImportFolder, lists
  <2> QED BY <2>1, <2>2, <2>3, <2>4, AtChange, SourceKept, RegsKept DEF ImportFolder, HeadFits
<1>2. /\ past'.drift = past.drift /\ past'.raced = (past.raced \/ past.drift)
      /\ past'.cut = past.cut /\ past'.moved = past.moved /\ PastFits'
  BY <1>1 DEF PastFits
<1>3. Stores' /\ ToolFits'
  <2>1. Stores'
    BY <1>1, <1>2, StoresAre DEF Stores, disk
  <2>2. ToolFits'
    <3>1. CASE tool' = tool
      BY <3>1 DEF IInv, ToolFits
    <3>2. CASE tool' = [scope |-> {Folder(c)}, roots |-> registered]
      BY <1>1, <3>2 DEF ToolFits
    <3> QED BY <1>1, <3>1, <3>2 DEF StartImport
  <2> QED BY <2>1, <2>2
<1>4. ASSUME ~past'.drift
      PROVE  ListsFit(q) /\ (q.kind # "relocate" => Dan = Reg) /\ Folder(c) \in Reg
  <2>1. ListsFit(q)
    BY <1>1, <1>2, <1>4, Known
  <2> QED BY <1>1, <2>1 DEF ListsFit, Leaving, Entering, Moving
<1>5. ASSUME ~past'.raced PROVE RowsHeld' /\ ToolHeld' /\ CutKnown'
  <2>1. RowsHeld /\ ToolHeld /\ CutKnown /\ ~past'.drift
    BY <1>1, <1>2, <1>5, Known
  <2>2. RowsHeld' /\ CutKnown'
    BY <1>1, <1>2, <2>1, RegsKept DEF RowsHeld, CutKnown
  <2>3. ToolHeld'
    <3>1. CASE Running
      <4>1. tool' = tool
        BY <1>1, <3>1 DEF StartImport
      <4> QED BY <1>1, <2>1, <4>1 DEF ToolHeld, Running
    <3>2. CASE ~Running
      <4>1. tool' = [scope |-> {Folder(c)}, roots |-> registered]
        BY <1>1, <3>2 DEF StartImport
      <4>2. PICK r \in Live : registered[r] = Folder(c)
        BY <1>4, <2>1 DEF Reg
      <4> QED BY <1>1, <4>1, <4>2 DEF ToolHeld, Live
    <3> QED BY <3>1, <3>2
  <2> QED BY <2>2, <2>3
<1>6. CASE q.kind = "save"
  <2>1. job' = [job EXCEPT ![c].at = "next", ![c].todo = Tail(@)]
    BY <1>1, <1>6 DEF Done
  <2>2. /\ Moves(c) /\ job'[c] # Idle /\ job'[c].at = "next" /\ job'[c].kind = "save"
        /\ job'[c].todo = Tail(q.todo) /\ job'[c].asked = q.asked /\ job'[c].gone = q.gone
        /\ job'[c].alone = q.alone
    BY <1>1, <1>6, <2>1, TailIs
  <2>3. TypeOK'
    BY <1>3, <2>2, OthersStay, TypeKept
  <2>4. ASSUME ~past'.drift PROVE Agrees(c)'
    <3>1. ListsFit(job[c]) /\ Dan' = Reg'
      BY <1>1, <1>4, <1>6, <2>4
    <3> QED BY <1>1, <1>6, <2>2, <3>1, BatchAgrees
  <2>5. ASSUME ~past'.raced PROVE Holds(c)'
    <3>1. RowsFit(job[c])'
      BY <2>2 DEF RowsFit
    <3> QED BY <1>5, <2>5, <3>1 DEF Holds
  <2>6. ASSUME q.alone PROVE Saved(job[c])'
    <3>1. Head1(c).from = "none" => Folder(c) \in Listed'
      BY <1>1, <1>6, <2>6, HeadListed
    <3> QED BY <1>1, <1>6, <2>2, <2>6, <3>1, SavedDone
  <2> QED BY <1>1, <1>2, <1>3, <2>2, <2>3, <2>4, <2>5, <2>6, StepKeeps
<1>7. CASE q.kind = "relocate"
  <2>1. To(c, "publish")
    BY <1>1, <1>7 DEF Done
  <2>2. Fits([q EXCEPT !.at = "publish"])
    <3>1. "publish" \in Places /\ [q EXCEPT !.at = "publish"].at = "publish"
          /\ [q EXCEPT !.at = "publish"].kind = q.kind
      BY <1>1 DEF Places, Job
    <3>2. StepFits([q EXCEPT !.at = "publish"])
      BY <1>7, <3>1 DEF StepFits
    <3> QED BY <1>1, <1>7, <3>1, <3>2, FitsAt
  <2>3. /\ Moves(c) /\ job'[c] # Idle /\ job'[c].at = "publish" /\ job'[c].kind = "relocate"
        /\ job'[c].alone = q.alone
    BY <1>1, <1>7, <2>1, <2>2, ToIs
  <2>4. TypeOK'
    BY <1>3, <2>3, OthersStay, TypeKept
  <2>5. Agrees(c)'
    <3>1. ListsFit(job[c])'
      BY <2>3 DEF ListsFit, Leaving, Entering, Moving
    <3> QED BY <2>3, <3>1 DEF Agrees
  <2>6. ASSUME ~past'.raced PROVE Holds(c)'
    <3>1. RowsFit(job[c])'
      BY <2>3 DEF RowsFit
    <3> QED BY <1>5, <2>6, <3>1 DEF Holds
  <2> QED BY <1>1, <1>2, <1>3, <2>3, <2>4, <2>5, <2>6, StepKeeps
<1>8. CASE q.kind \notin {"save", "relocate"}
  <2>1. Moves(c) /\ job'[c] = Idle
    BY <1>1, <1>8, AnswerIs DEF Done
  <2>2. TypeOK'
    BY <1>3, <2>1, OthersStay, TypeKept
  <2>3. ~past'.drift => Agrees(c)'
    BY <1>1, <1>4, <1>8, <2>1 DEF Agrees
  <2>4. ~past'.raced => Holds(c)'
    BY <1>5, <2>1 DEF Holds
  <2> QED BY <1>1, <1>2, <1>3, <2>1, <2>2, <2>3, <2>4, StepKeeps, IdleIs
<1> QED BY <1>6, <1>7, <1>8

\* A row whose root is pointed elsewhere.
Carried(x, f, g) == [x EXCEPT !.at = Carry(x.at, f, g)]

\* The rows of a root, and those it gets when it is pointed elsewhere.
Movable(r, f, g, mine, moved) ==
    /\ \A x : x \in mine <=> x \in row /\ x.root = r
    /\ \A z : z \in moved <=> \E x \in mine : z = Carried(x, f, g)
    /\ \A x \in mine : /\ Within(x.at, f) /\ Carry(x.at, f, g) \in Dirs
                       /\ \A y \in row \ mine : y.m = x.m => y.at # Carry(x.at, f, g)

\* The rows of a root, moved with its folder, stay apart.
LEMMA MovedApart ==
    ASSUME Stores, NEW r \in Roots, NEW f \in Dirs, NEW g \in Dirs, NEW mine, NEW moved,
           Movable(r, f, g, mine, moved)
    PROVE  /\ moved \subseteq [at : Dirs, m : Media, root : Roots \cup {"stray"}]
           /\ \A x \in moved : x.root = r
           /\ \A x, y \in (row \ mine) \cup moved : x.at = y.at /\ x.m = y.m => x = y
<1>0. /\ \A x : x \in mine <=> x \in row /\ x.root = r
      /\ \A z : z \in moved <=> \E x \in mine : z = Carried(x, f, g)
      /\ \A x \in mine : /\ Within(x.at, f) /\ Carry(x.at, f, g) \in Dirs
                         /\ \A y \in row \ mine : y.m = x.m => y.at # Carry(x.at, f, g)
  BY DEF Movable
<1>1. /\ row \subseteq [at : Dirs, m : Media, root : Roots \cup {"stray"}]
      /\ \A x, y \in row : x.at = y.at /\ x.m = y.m => x = y
  BY DEF Stores
<1>2. ASSUME NEW z \in moved
      PROVE  \E x \in mine : /\ x.at \in Dirs /\ x.m \in Media /\ z.at = Carry(x.at, f, g)
                             /\ z = [at |-> Carry(x.at, f, g), m |-> x.m, root |-> r]
                             /\ z.m = x.m /\ z.root = r /\ Within(x.at, f)
  <2>1. PICK x \in mine : z = [x EXCEPT !.at = Carry(x.at, f, g)]
    BY <1>0 DEF Carried
  <2>2. x = [at |-> x.at, m |-> x.m, root |-> r] /\ x.at \in Dirs /\ x.m \in Media
    BY <1>0, <1>1
  <2>3. PICK e : e = Carry(x.at, f, g)
    OBVIOUS
  <2>4. z = [at |-> e, m |-> x.m, root |-> r]
    BY <2>1, <2>2, <2>3
  <2>5. z.at = e /\ z.m = x.m /\ z.root = r
    BY <2>4
  <2> QED BY <1>0, <2>2, <2>3, <2>4, <2>5
<1>3. ASSUME NEW z \in moved, NEW y \in moved, z.at = y.at, z.m = y.m PROVE z = y
  <2>1. PICK x \in mine : /\ x.at \in Dirs /\ z.at = Carry(x.at, f, g)
                          /\ z = [at |-> Carry(x.at, f, g), m |-> x.m, root |-> r]
                          /\ z.m = x.m /\ Within(x.at, f)
    BY <1>2
  <2>2. PICK w \in mine : /\ w.at \in Dirs /\ y.at = Carry(w.at, f, g)
                          /\ y = [at |-> Carry(w.at, f, g), m |-> w.m, root |-> r]
                          /\ y.m = w.m /\ Within(w.at, f)
    BY <1>2
  <2>3. x.at = w.at /\ x.m = w.m
    BY <1>3, <2>1, <2>2, CarryApart
  <2> QED BY <2>1, <2>2, <2>3
<1>4. ASSUME NEW z \in moved, NEW y \in row \ mine, z.at = y.at, z.m = y.m PROVE FALSE
  <2>1. PICK x \in mine : z.at = Carry(x.at, f, g) /\ z.m = x.m
    BY <1>2
  <2>2. y.m = x.m => y.at # Carry(x.at, f, g)
    BY <1>0
  <2> QED BY <1>4, <2>1, <2>2
<1>5. moved \subseteq [at : Dirs, m : Media, root : Roots \cup {"stray"}]
  BY <1>0, <1>2
<1>6. \A x \in moved : x.root = r
  BY <1>2
<1>7. \A x, y \in (row \ mine) \cup moved : x.at = y.at /\ x.m = y.m => x = y
  <2>1. ASSUME NEW x \in (row \ mine) \cup moved, NEW y \in (row \ mine) \cup moved,
               x.at = y.at, x.m = y.m
        PROVE  x = y
    <3>1. CASE x \in moved /\ y \in moved
      BY <1>3, <2>1, <3>1
    <3>2. CASE x \in moved /\ y \in row \ mine
      BY <1>4, <2>1, <3>2
    <3>3. CASE x \in row \ mine /\ y \in moved
      BY <1>4, <2>1, <3>3
    <3>4. CASE x \in row \ mine /\ y \in row \ mine
      BY <1>1, <2>1, <3>4
    <3> QED BY <3>1, <3>2, <3>3, <3>4
  <2> QED BY <2>1
<1> QED BY <1>5, <1>6, <1>7

\* A root pointed at the place its folder was moved to.
MovesBy(c, r, f, g) ==
    LET mine == {x \in row : x.root = r}
    IN  /\ r \in RootAt(f) /\ ~Running /\ g \in there /\ RootAt(g) \subseteq {r}
        /\ \A x \in mine :
              /\ Within(x.at, f) /\ [x EXCEPT !.at = Carry(x.at, f, g)].at \in Dirs
              /\ \A y \in row \ mine : y.m = x.m => y.at # [x EXCEPT !.at = Carry(x.at, f, g)].at
        /\ registered' = [registered EXCEPT ![r] = g]
        /\ row' = (row \ mine) \cup {[x EXCEPT !.at = Carry(x.at, f, g)] : x \in mine}
        /\ job' = [job EXCEPT ![c].at = "import", ![c].path = f,
                             ![c].todo = One(g, "danbooru", "danbooru")]
        /\ past' = [past EXCEPT !.moved = @ \cup {f}, !.drift = @ \/ job[c].kind = "put"]

\* A root pointed at another folder, by a request.
LEMMA MoveKeeps == ASSUME IInv, NEW c \in Callers, Move(c) PROVE IInv'
<1> DEFINE q == job[c]
<1>1. /\ q.at = "move" /\ q.todo # <<>> /\ q.kind \in {"relocate", "put"}
      /\ q \in Job /\ Fits(q) /\ q.root = "none" /\ q.path \in Dirs
      /\ Folder(c) \in Dirs /\ Folder(c) # <<>>
      /\ source' = source /\ tool' = tool /\ Dan' = Dan
      /\ registered \in [Roots -> Dirs \cup {<<>>}]
      /\ past \in [drift : BOOLEAN, raced : BOOLEAN, cut : SUBSET Dirs, moved : SUBSET Dirs]
      /\ UNCHANGED <<disk, source, entry, tool, up, left>>
  <2>1. q.at = "move" /\ q.todo # <<>>
    BY AtWork DEF Move
  <2>2. q.kind \in {"relocate", "put"} /\ q.root = "none" /\ q.path \in Dirs
    BY <2>1, AtWork DEF Fits, StepFits
  <2>3. past \in [drift : BOOLEAN, raced : BOOLEAN, cut : SUBSET Dirs, moved : SUBSET Dirs]
    BY DEF IInv, PastFits
  <2>4. source' = source
    BY DEF Move
  <2> QED BY <2>1, <2>2, <2>3, <2>4, AtChange, SourceKept DEF Move
<1>2. CASE Answer(c) /\ UNCHANGED <<registered, row, past>>
  <2>1. ~Leaving(q) /\ ~Entering(q) /\ ~Moving(q)
    BY <1>1 DEF Leaving, Entering, Moving
  <2> QED BY <1>1, <1>2, <2>1, Answered DEF lists
<1>3. PICK f \in Dirs, g \in Dirs : f = Folder(c) /\ g = q.path /\ f # <<>> /\ g # <<>>
  BY <1>1, Paths
<1>4. ASSUME NEW r \in RootAt(f), NEW mine, mine = {x \in row : x.root = r}, NEW moved,
             moved = {[x EXCEPT !.at = Carry(x.at, f, g)] : x \in mine},
             ~Running, g \in there, RootAt(g) \subseteq {r},
             \A x \in mine : /\ Within(x.at, f) /\ Carry(x.at, f, g) \in Dirs
                             /\ \A y \in row \ mine : y.m = x.m => y.at # Carry(x.at, f, g),
             registered' = [registered EXCEPT ![r] = g],
             row' = (row \ mine) \cup moved,
             job' = [job EXCEPT ![c].at = "import", ![c].path = f,
                                ![c].todo = One(g, "danbooru", "danbooru")],
             past' = [past EXCEPT !.moved = @ \cup {f}, !.drift = @ \/ q.kind = "put"]
      PROVE  IInv'
  <2> DEFINE todo == One(g, "danbooru", "danbooru")
             p == [job[c] EXCEPT !.at = "import", !.path = f, !.todo = todo]
  <2>1. r \in Roots /\ registered[r] = f /\ r \in Live
    BY <1>4 DEF RootAt, Live
  <2>2. /\ Live' = Live /\ registered' \in [Roots -> Dirs \cup {<<>>}] /\ g \in Reg'
        /\ \A s \in Roots \ {r} : registered'[s] = registered[s]
        /\ registered'[r] = g
    BY <1>1, <1>3, <1>4, <2>1 DEF Live, Reg
  <2>3. /\ moved \subseteq [at : Dirs, m : Media, root : Roots \cup {"stray"}]
        /\ \A x \in moved : x.root = r
        /\ \A x, y \in row' : x.at = y.at /\ x.m = y.m => x = y
    <3>1. Movable(r, f, g, mine, moved)
      BY <1>4 DEF Movable, Carried
    <3>2. /\ moved \subseteq [at : Dirs, m : Media, root : Roots \cup {"stray"}]
          /\ \A x \in moved : x.root = r
          /\ \A x, y \in (row \ mine) \cup moved : x.at = y.at /\ x.m = y.m => x = y
      BY <2>1, <3>1, StoresAre, MovedApart
    <3>3. row' = (row \ mine) \cup moved
      BY <1>4
    <3> HIDE <1>4, <3>1
    <3> QED BY <3>2, <3>3
  <2>4. todo \in Seq(Change) /\ todo # <<>> /\ Head(todo).f = g
    <3>0. [f |-> g, from |-> "danbooru", to |-> "danbooru"] \in Change
      BY DEF Change, Roles, Targets
    <3>1. PICK ch \in Change : ch = [f |-> g, from |-> "danbooru", to |-> "danbooru"]
      BY <3>0
    <3>2. todo = <<ch>> /\ ch.f = g
      BY <3>1 DEF One
    <3> QED BY <3>1, <3>2, OneChange
  <2>5. p = job'[c] /\ job' = [job EXCEPT ![c] = job'[c]]
    BY <1>4 DEF IInv, JobsFit
  <2>6. /\ p \in Job /\ p.at = "import" /\ p.path = f /\ p.todo = todo /\ p.kind = q.kind
        /\ p.alone = q.alone /\ p.root = "none"
    <3>1. "import" \in Places /\ todo \in Seq(Change) /\ q \in Job /\ q.root = "none"
      BY <1>1, <2>4 DEF Places
    <3>2. p = [q EXCEPT !.at = "import", !.path = f, !.todo = todo]
      OBVIOUS
    <3> HIDE DEF p, q, todo
    <3> QED BY <1>3, <3>1, <3>2 DEF Job
  <2> HIDE DEF p, todo
  <2>7. Fits(p) /\ p # Idle
    <3>1. Fits(p)
      BY <1>1, <2>4, <2>6 DEF Fits, StepFits
    <3> QED BY <3>1, IdleIs
  <2>8. /\ past'.raced = past.raced /\ past'.cut = past.cut /\ past'.moved = past.moved \cup {f}
        /\ past'.drift = (past.drift \/ q.kind = "put") /\ PastFits'
    BY <1>1, <1>3, <1>4 DEF PastFits
  <2>9. TypeOK' /\ ToolFits'
    <3>1. JobsFit'
      BY <2>5, <2>7, OthersStay DEF Moves
    <3>2. past.raced \/ \A s, t \in Live' : registered'[s] = registered'[t] => s = t
      <4>1. \A s \in Live \ {r} : registered[s] # g
        BY <1>4 DEF RootAt
      <4>2. \A s \in Live : s \in Roots
        BY DEF Live
      <4> QED BY <2>2, <4>1, <4>2, StoresAre DEF Stores
    <3>3. row' \subseteq [at : Dirs, m : Media, root : Roots \cup {"stray"}]
      BY <1>4, <2>3, StoresAre DEF Stores
    <3>4. Stores'
      BY <1>1, <2>2, <2>3, <2>8, <3>2, <3>3, StoresAre DEF Stores, disk
    <3> QED BY <1>1, <3>1, <3>4, TypeKept DEF IInv, ToolFits
  <2>10. ASSUME ~past'.drift PROVE Agrees(c)'
    <3>1. /\ job'[c].kind = "relocate" /\ job'[c].at = "import" /\ Head(job'[c].todo).f = g
          /\ job'[c] # Idle
      BY <1>1, <2>4, <2>5, <2>6, <2>7, <2>8, <2>10
    <3>2. ListsFit(job[c])'
      BY <2>2, <3>1 DEF ListsFit, Leaving, Entering, Moving
    <3> QED BY <3>1, <3>2 DEF Agrees
  <2>11. ASSUME ~past'.raced PROVE Holds(c)'
    <3>1. RowsHeld /\ CutKnown
      BY <1>1, <2>8, <2>11, Known
    <3>2. RowsHeld'
      BY <1>4, <2>1, <2>2, <2>3, <3>1 DEF RowsHeld
    <3>3. ToolHeld'
      BY <1>1, <1>4 DEF ToolHeld, Running
    <3>4. CutKnown'
      <4>1. ASSUME NEW d \in Dirs, source'[d] = "danbooru", RootAt(d)' = {}
            PROVE  d \in past'.cut \cup past'.moved
        <5>1. CASE d = f
          BY <2>8, <5>1
        <5>2. CASE d # f
          <6>1. RootAt(d) = {}
            BY <2>1, <2>2, <4>1, <5>2 DEF RootAt, Live
          <6> QED BY <1>1, <2>8, <3>1, <4>1, <6>1 DEF CutKnown
        <5> QED BY <5>1, <5>2
      <4> QED BY <4>1 DEF CutKnown
    <3>5. RowsFit(job[c])'
      BY <2>5, <2>6 DEF RowsFit
    <3> QED BY <3>2, <3>3, <3>4, <3>5 DEF Holds
  <2>12. job'[c].kind # "save" /\ Moves(c) /\ job'[c].alone = job[c].alone
    BY <1>1, <2>5, <2>6, <2>7 DEF Moves
  <2> QED BY <1>1, <2>8, <2>9, <2>10, <2>11, <2>12, StepKeeps
<1>5. CASE ~(Answer(c) /\ UNCHANGED <<registered, row, past>>)
  <2>1. \E r \in Roots : MovesBy(c, r, Folder(c), job[c].path)
    BY <1>5 DEF Move, MovesBy, RootAt, Live
  <2>2. PICK r \in Roots : MovesBy(c, r, f, g)
    BY <2>1, <1>3
  <2>3. PICK mine : mine = {y \in row : y.root = r}
    OBVIOUS
  <2>4. PICK moved : moved = {[x EXCEPT !.at = Carry(x.at, f, g)] : x \in mine}
    OBVIOUS
  <2>5. \A x \in mine : [x EXCEPT !.at = Carry(x.at, f, g)].at = Carry(x.at, f, g)
    <3>1. row \subseteq [at : Dirs, m : Media, root : Roots \cup {"stray"}]
      BY StoresAre DEF Stores
    <3> QED BY <2>3, <3>1
  <2>6. \A x \in mine : /\ Within(x.at, f) /\ Carry(x.at, f, g) \in Dirs
                        /\ \A y \in row \ mine : y.m = x.m => y.at # Carry(x.at, f, g)
    BY <2>2, <2>3, <2>5 DEF MovesBy
  <2>7. /\ r \in RootAt(f) /\ ~Running /\ g \in there /\ RootAt(g) \subseteq {r}
        /\ registered' = [registered EXCEPT ![r] = g]
        /\ job' = [job EXCEPT ![c].at = "import", ![c].path = f,
                             ![c].todo = One(g, "danbooru", "danbooru")]
        /\ past' = [past EXCEPT !.moved = @ \cup {f}, !.drift = @ \/ q.kind = "put"]
    BY <2>2 DEF MovesBy
  <2>8. row' = (row \ mine) \cup moved
    BY <2>2, <2>3, <2>4 DEF MovesBy
  <2> HIDE DEF q
  <2> QED BY <1>4, <2>3, <2>4, <2>6, <2>7, <2>8
<1> QED BY <1>2, <1>5

\* Danbooru's roots, published after the move.
LEMMA PublishMoveKeeps == ASSUME IInv, NEW c \in Callers, PublishMove(c) PROVE IInv'
<1> DEFINE q == job[c]
           s == {d \in Dirs : source'[d] # "none"}
           p == [job[c] EXCEPT !.at = "drop", !.seen = s]
<1>1. /\ q.at = "publish" /\ q.todo # <<>> /\ q.kind = "relocate"
      /\ q \in Job /\ Fits(q) /\ q.root = "none"
      /\ tool' = tool /\ row' = row /\ registered' = registered /\ source' = Published
      /\ source \in [Dirs -> Roles] /\ Reg' = Reg
      /\ past' = [past EXCEPT !.drift = @ /\ Others(c) # {}]
      /\ past \in [drift : BOOLEAN, raced : BOOLEAN, cut : SUBSET Dirs, moved : SUBSET Dirs]
      /\ UNCHANGED <<disk, registered, row, entry, tool, up, left>>
  <2>1. q.at = "publish" /\ q.todo # <<>>
    BY AtWork DEF PublishMove
  <2>2. q.kind = "relocate" /\ q.root = "none"
    BY <2>1, AtWork DEF Fits, StepFits
  <2>3. past \in [drift : BOOLEAN, raced : BOOLEAN, cut : SUBSET Dirs, moved : SUBSET Dirs]
    BY DEF IInv, PastFits
  <2>4. registered' = registered
    BY DEF PublishMove
  <2> QED BY <2>1, <2>2, <2>3, <2>4, AtChange, RegsKept DEF PublishMove
<1>2. /\ source' \in [Dirs -> Roles] /\ Dan' = Reg'
      /\ \A d \in Dirs : source'[d] = "danbooru" => RootAt(d) # {}
  <2>1. source' \in [Dirs -> Roles]
    BY <1>1 DEF Published, Roles
  <2>2. \A d \in Dirs : source'[d] = "danbooru" <=> RootAt(d) # {}
    BY <1>1 DEF Published
  <2>3. registered \in [Roots -> Dirs \cup {<<>>}]
    BY StoresAre DEF Stores
  <2>4. Reg = {d \in Dirs : RootAt(d) # {}}
    BY <2>3 DEF Reg, RootAt, Live
  <2> QED BY <1>1, <2>1, <2>2, <2>4 DEF Dan
<1>3. /\ past'.drift = (past.drift /\ Others(c) # {}) /\ past'.raced = past.raced
      /\ past'.cut = past.cut /\ past'.moved = past.moved /\ PastFits'
  BY <1>1 DEF PastFits
<1>4. Stores' /\ ToolFits'
  BY <1>1, <1>2, <1>3, StoresAre DEF Stores, disk, Live, IInv, ToolFits
<1>5. ASSUME ~past'.raced PROVE RowsHeld' /\ ToolHeld' /\ CutKnown'
  <2>1. RowsHeld /\ ToolHeld
    BY <1>1, <1>3, <1>5, Known
  <2> QED BY <1>1, <1>2, <2>1, RegsKept DEF RowsHeld, ToolHeld, CutKnown, Running
<1>6. CASE job' = [job EXCEPT ![c] = Idle]
  <2>1. Moves(c) /\ job'[c] = Idle
    BY <1>6, AnswerIs DEF Answer
  <2>2. TypeOK'
    BY <1>4, <2>1, OthersStay, TypeKept
  <2>3. Agrees(c)'
    BY <1>2, <2>1 DEF Agrees
  <2>4. ~past'.raced => Holds(c)'
    BY <1>5, <2>1 DEF Holds
  <2> QED BY <1>1, <1>3, <1>4, <2>1, <2>2, <2>3, <2>4, StepKeeps, IdleIs
<1>7. CASE job' = [job EXCEPT ![c] = p]
  <2>1. p = job'[c] /\ job' = [job EXCEPT ![c] = job'[c]]
    BY <1>7 DEF IInv, JobsFit
  <2>2. /\ p \in Job /\ p.at = "drop" /\ p.kind = "relocate" /\ p.todo = q.todo
        /\ p.alone = q.alone /\ p.root = "none"
    <3>1. "drop" \in Places /\ s \in SUBSET Dirs /\ q \in Job /\ q.root = "none"
          /\ q.kind = "relocate"
      BY <1>1 DEF Places
    <3>2. p = [q EXCEPT !.at = "drop", !.seen = s]
      OBVIOUS
    <3> HIDE DEF p, q, s
    <3> QED BY <3>1, <3>2 DEF Job
  <2> HIDE DEF p
  <2>3. Fits(p) /\ p # Idle
    <3>1. Fits(p)
      BY <1>1, <2>2 DEF Fits, StepFits
    <3> QED BY <3>1, IdleIs
  <2>4. Moves(c) /\ job'[c].kind # "save" /\ job'[c].alone = job[c].alone
    BY <2>1, <2>2, <2>3 DEF Moves
  <2>5. TypeOK'
    BY <1>4, <2>4, OthersStay, TypeKept
  <2>6. Agrees(c)'
    <3>1. ListsFit(job[c])'
      BY <1>2, <2>1, <2>2 DEF ListsFit, Leaving, Entering, Moving
    <3> QED BY <2>1, <2>3, <3>1 DEF Agrees
  <2>7. ASSUME ~past'.raced PROVE Holds(c)'
    <3>1. RowsFit(job[c])'
      BY <2>1, <2>2 DEF RowsFit
    <3> QED BY <1>5, <2>7, <3>1 DEF Holds
  <2> QED BY <1>1, <1>3, <1>4, <2>4, <2>5, <2>6, <2>7, StepKeeps
<1>8. job' = [job EXCEPT ![c] = Idle] \/ job' = [job EXCEPT ![c] = p]
  BY DEF PublishMove
<1> QED BY <1>6, <1>7, <1>8

-----------------------------------------------------------------------------
(* Requests that begin.                                                    *)

\* A request may lose that it is the only one.
LEMMA AloneFits ==
    ASSUME NEW q, Fits(q)
    PROVE  LET p == [q EXCEPT !.alone = FALSE]
           IN  /\ Fits(p) /\ ~p.alone /\ p.kind = q.kind /\ p.at = q.at /\ p.todo = q.todo
               /\ p.root = q.root /\ p.path = q.path /\ p.doomed = q.doomed
<1> DEFINE p == [q EXCEPT !.alone = FALSE]
<1>1. /\ p \in Job /\ ~p.alone /\ p.kind = q.kind /\ p.at = q.at /\ p.todo = q.todo
      /\ p.root = q.root /\ p.path = q.path /\ p.doomed = q.doomed
  BY DEF Fits, Job
<1> HIDE DEF p
<1>2. Fits(p)
  BY <1>1 DEF Fits, StepFits
<1> QED BY <1>1, <1>2 DEF p

\* What is known of a request depends on its place, folder, root, rows and path.
LEMMA SameLists ==
    ASSUME NEW q, NEW p, p.kind = q.kind, p.at = q.at, p.todo = q.todo, p.root = q.root,
           p.path = q.path, p.doomed = q.doomed
    PROVE  (ListsFit(p) <=> ListsFit(q)) /\ (RowsFit(p) <=> RowsFit(q))
BY DEF ListsFit, RowsFit, Leaving, Entering, Moving

\* The requests, after something else came between.
LEMMA NotAloneIs ==
    ASSUME IInv, NEW u \in Callers
    PROVE  LET p == NotAlone[u]
           IN  /\ p.kind = job[u].kind /\ p.at = job[u].at /\ p.todo = job[u].todo
               /\ p.root = job[u].root /\ p.path = job[u].path /\ p.doomed = job[u].doomed
               /\ p = Idle \/ (Fits(p) /\ ~p.alone)
               /\ p = Idle <=> job[u] = Idle
               /\ p.kind = "idle" <=> p = Idle
               /\ Busy(u) <=> job[u] # Idle
               /\ DOMAIN NotAlone = Callers
<1>1. job[u] = Idle \/ Fits(job[u])
  BY DEF IInv, JobsFit
<1>2. Busy(u) <=> job[u] # Idle
  BY <1>1, IdleKind DEF Busy
<1>3. CASE job[u] = Idle
  <2>1. NotAlone[u] = Idle /\ DOMAIN NotAlone = Callers
    BY <1>2, <1>3 DEF NotAlone
  <2> QED BY <1>2, <1>3, <2>1, IdleIs
<1>4. CASE job[u] # Idle
  <2>1. NotAlone[u] = [job[u] EXCEPT !.alone = FALSE] /\ DOMAIN NotAlone = Callers /\ Fits(job[u])
    BY <1>1, <1>2, <1>4 DEF NotAlone
  <2>2. Fits(NotAlone[u]) /\ ~NotAlone[u].alone /\ NotAlone[u].kind = job[u].kind
        /\ NotAlone[u].at = job[u].at /\ NotAlone[u].todo = job[u].todo
        /\ NotAlone[u].root = job[u].root /\ NotAlone[u].path = job[u].path
        /\ NotAlone[u].doomed = job[u].doomed
    BY <2>1, AloneFits
  <2>3. NotAlone[u] # Idle
    BY <2>2, IdleIs
  <2> QED BY <1>2, <1>4, <2>1, <2>2, <2>3, IdleKind
<1> QED BY <1>3, <1>4

\* A request as it begins, with what it has to know.
Started(c, kind, at, todo, path) ==
    [Idle EXCEPT !.kind = kind, !.at = at, !.todo = todo, !.asked = Range(todo), !.path = path,
                 !.alone = Others(c) = {}]

\* A request begins.
LEMMA BeginKeeps ==
    ASSUME IInv, NEW c \in Callers, ~Busy(c), NEW kind, NEW at, NEW todo, NEW path,
           Begin(c, kind, at, todo, path), NEW p,
           p = Started(c, kind, at, todo, path),
           Fits(p), p.kind = kind, p.alone => Others(c) = {},
           ~past.drift /\ Dan = Reg => ListsFit(p), RowsFit(p), kind = "save" => Saved(p)
    PROVE  IInv'
<1>1. /\ job' = [NotAlone EXCEPT ![c] = p]
      /\ past' = IF Others(c) = {} THEN past ELSE [past EXCEPT !.drift = TRUE, !.raced = TRUE]
      /\ UNCHANGED <<disk, lists, row, entry, tool, up>>
  BY DEF Begin, Started
<1>2. /\ job'[c] = p /\ p # Idle /\ DOMAIN job' = Callers /\ job' = [u \in Callers |-> job'[u]]
      /\ \A u \in Callers \ {c} : job'[u] = NotAlone[u]
  <2>1. DOMAIN NotAlone = Callers /\ NotAlone = [u \in Callers |-> NotAlone[u]]
    BY DEF NotAlone
  <2>2. p # Idle
    BY IdleIs
  <2> HIDE DEF NotAlone
  <2> QED BY <1>1, <2>1, <2>2
<1>3. JobsFit'
  BY <1>2, NotAloneIs DEF JobsFit
<1>4. /\ source' = source /\ registered' = registered /\ disk' = disk /\ entry' = entry
      /\ row' = row /\ tool' = tool /\ up' = up
      /\ Dan' = Dan /\ Reg' = Reg /\ Live' = Live /\ \A d : (RootAt(d))' = RootAt(d)
  BY <1>1, RegsKept, SourceKept DEF lists
<1>5. /\ past' \in [drift : BOOLEAN, raced : BOOLEAN, cut : SUBSET Dirs, moved : SUBSET Dirs]
      /\ past.raced => past'.raced
      /\ Others(c) # {} => past'.drift /\ past'.raced
      /\ Others(c) = {} => past' = past
  BY <1>1 DEF IInv, PastFits
<1>6. TypeOK' /\ ToolFits' /\ PastFits'
  <2>1. Stores'
    BY <1>4, <1>5, StoresAre DEF Stores, disk
  <2> QED BY <1>3, <1>4, <1>5, <2>1, TypeKept DEF IInv, ToolFits, PastFits
<1>7. /\ \A u \in Callers \ {c} : (Busy(u))' <=> Busy(u)
      /\ Others(c) = {} => \A u \in Callers : Busy(u)' => u = c
      /\ \A u \in Callers \ {c} : Busy(u)' => ~job'[u].alone
  BY <1>2, NotAloneIs DEF Busy, Others
<1>8. OneAtATime'
  <2>1. ASSUME ~past'.raced \/ ~past'.drift, NEW a \in Callers, NEW b \in Callers,
               Busy(a)', Busy(b)'
        PROVE  a = b
    BY <2>1, <1>5, <1>7
  <2>2. ASSUME NEW a \in Callers, Busy(a)', job'[a].alone PROVE (Others(a) = {})'
    BY <2>2, <1>2, <1>7 DEF Others
  <2> QED BY <2>1, <2>2 DEF OneAtATime
<1>9. Agreement'
  <2> SUFFICES ASSUME ~past'.drift
               PROVE  /\ Quiet' => Dan' = Reg'
                      /\ \A u \in Callers : Busy(u)' => ListsFit(job[u])'
    BY DEF Agreement
  <2>1. Others(c) = {} /\ ~past.drift
    BY <1>5
  <2>2. Quiet
    BY <2>1 DEF Quiet, Others
  <2>3. Dan = Reg /\ ListsFit(p)
    BY <2>1, <2>2 DEF IInv, Agreement
  <2>4. ListsFit(job[c])'
    BY <1>2, <1>4, <2>3 DEF ListsFit
  <2> QED BY <1>4, <1>7, <2>1, <2>3, <2>4
<1>10. Rooted'
  <2> SUFFICES ASSUME ~past'.raced
               PROVE  /\ RowsHeld' /\ ToolHeld' /\ CutKnown'
                      /\ \A u \in Callers : Busy(u)' => RowsFit(job[u])'
    BY DEF Rooted, RowsHeld, ToolHeld, CutKnown
  <2>1. Others(c) = {} /\ ~past.raced /\ past' = past
    BY <1>5
  <2>2. RowsHeld /\ ToolHeld /\ CutKnown
    BY <2>1 DEF IInv, Rooted, RowsHeld, ToolHeld, CutKnown
  <2>3. RowsHeld' /\ ToolHeld' /\ CutKnown'
    BY <1>4, <2>1, <2>2 DEF RowsHeld, ToolHeld, CutKnown, Running
  <2>4. RowsFit(job[c])'
    BY <1>2, <1>4 DEF RowsFit, Running, Doomed
  <2> QED BY <1>7, <2>1, <2>3, <2>4
<1>11. Batched'
  <2>1. ASSUME NEW u \in Callers, job'[u].kind = "save", job'[u].alone PROVE u = c
    BY <2>1, <1>2, NotAloneIs, IdleIs
  <2>2. kind = "save" => Saved(job[c])'
    <3>1. home' = home /\ there' = there /\ Listed' = Listed
      BY <1>4, SourceKept DEF disk
    <3> QED BY <1>2, <1>4, <3>1 DEF Saved, Nearest, Had
  <2>3. ASSUME NEW u \in Callers, job'[u].kind = "save", job'[u].alone PROVE Saved(job[u])'
    <3>1. u = c /\ kind = "save"
      BY <1>2, <2>1, <2>3
    <3> QED BY <2>2, <3>1
  <2> QED BY <2>3 DEF Batched
<1> QED BY <1>3, <1>6, <1>8, <1>9, <1>10, <1>11 DEF IInv

\* A request on one folder begins.
LEMMA OneBegins ==
    ASSUME IInv, NEW c \in Callers, ~Busy(c), NEW f \in Dirs, NEW from \in Roles,
           NEW to \in Targets, NEW kind \in Kinds \ {"save"}, NEW at \in Places,
           NEW path \in Dirs \cup {<<>>}, Begin(c, kind, at, One(f, from, to), path),
           \/ kind = "remove" /\ at = "check" /\ to = "forget"
           \/ kind = "add" /\ at = "insert" /\ RootAt(f) = {}
           \/ kind = "files" /\ at = "register"
           \/ kind \in {"scan", "browse"} /\ at = "list"
           \/ kind = "rescan" /\ at = "list" /\ to # "none" /\ source[f] = to
           \/ kind \in {"relocate", "put"} /\ at = "move" /\ path \in Dirs
    PROVE  IInv'
<1>1. PICK ch \in Change : ch = [f |-> f, from |-> from, to |-> to]
  BY DEF Change
<1>2. PICK todo : todo = <<ch>>
  OBVIOUS
<1>3. /\ One(f, from, to) = todo /\ todo \in Seq(Change) /\ todo # <<>> /\ Head(todo) = ch
      /\ Range(todo) \in SUBSET Change /\ ch.f = f /\ ch.to = to
  BY <1>1, <1>2, OneChange DEF One
<1>4. PICK p : p = Started(c, kind, at, todo, path)
  OBVIOUS
<1>5. /\ p \in Job /\ p.kind = kind /\ p.at = at /\ p.todo = todo /\ p.path = path
      /\ p.root = "none"
      /\ p.alone => Others(c) = {}
  <2>1. PICK b \in BOOLEAN : b <=> Others(c) = {}
    OBVIOUS
  <2>2. PICK a \in SUBSET Change : a = Range(todo)
    BY <1>3
  <2>3. p = [kind |-> kind, at |-> at, todo |-> todo, asked |-> a, root |-> "none", path |-> path,
             doomed |-> {}, gone |-> {}, seen |-> {}, alone |-> b]
    BY <1>4, <2>1, <2>2 DEF Idle, Started
  <2> QED BY <1>3, <2>1, <2>3 DEF Job
<1>6. Fits(p)
  BY <1>3, <1>5 DEF Fits, StepFits
<1>7. Dan = Reg => ListsFit(p)
  BY <1>3, <1>5 DEF ListsFit, Leaving, Entering, Moving
<1>8. RowsFit(p)
  BY <1>3, <1>5 DEF RowsFit
<1>9. Begin(c, kind, at, todo, path)
  BY <1>3
<1> QED BY <1>4, <1>5, <1>6, <1>7, <1>8, <1>9, BeginKeeps

\* A batch begins.
LEMMA SaveKeeps == ASSUME IInv, NEW c \in Callers, ~Busy(c), Save(c) PROVE IInv'
<1>1. PICK todo \in Batches : Begin(c, "save", "next", todo, <<>>)
  BY DEF Save
<1>2. /\ todo \in Seq(Change) /\ BatchFits(todo)
      /\ \A i \in DOMAIN todo : /\ todo[i] \in Change /\ ChangeFits(todo[i])
                                /\ source[todo[i].f] = todo[i].from
  <2>1. PICK n \in 1..MaxBatch : todo \in [1..n -> Changes]
    BY <1>1 DEF Batches
  <2>2. \A x \in Changes : x \in Change /\ ChangeFits(x) /\ source[x.f] = x.from
    BY DEF Changes, ValidChange, Change, ChangeFits, Roles, Targets
  <2>3. n \in Nat
    BY <2>1, BoundAssumption
  <2>4. todo \in Seq(Change) /\ DOMAIN todo = 1..n
    BY <2>1, <2>2, <2>3, SeqDef
  <2>5. BatchFits(todo)
    BY <1>1 DEF Batches, BatchFits
  <2> QED BY <2>1, <2>2, <2>4, <2>5
<1>3. PICK p : p = Started(c, "save", "next", todo, <<>>)
  OBVIOUS
<1>4. Range(todo) \in SUBSET Change /\ \A x \in Range(todo) : ChangeFits(x)
  BY <1>2 DEF Range
<1>5. /\ p \in Job /\ p.kind = "save" /\ p.at = "next" /\ p.todo = todo /\ p.asked = Range(todo)
      /\ p.root = "none"
      /\ p.alone => Others(c) = {}
  <2>1. PICK b \in BOOLEAN : b <=> Others(c) = {}
    OBVIOUS
  <2>2. PICK a \in SUBSET Change : a = Range(todo)
    BY <1>4
  <2>3. p = [kind |-> "save", at |-> "next", todo |-> todo, asked |-> a, root |-> "none",
             path |-> <<>>, doomed |-> {}, gone |-> {}, seen |-> {}, alone |-> b]
    BY <1>3, <2>1, <2>2 DEF Idle, Started
  <2> QED BY <1>2, <2>1, <2>2, <2>3 DEF Job, Kinds, Places
<1>6. Fits(p)
  BY <1>2, <1>4, <1>5 DEF Fits, StepFits
<1>7. Dan = Reg => ListsFit(p)
  BY <1>2, <1>5 DEF ListsFit, Leaving, Entering, Moving
<1>8. RowsFit(p)
  BY <1>5 DEF RowsFit
<1>9. Saved(p)
  <2>1. ASSUME NEW x \in Range(todo), NEW y \in Range(todo), x.f = y.f PROVE x = y
    <3>1. PICK i \in DOMAIN todo, j \in DOMAIN todo : x = todo[i] /\ y = todo[j]
      BY DEF Range
    <3>2. i \in Nat /\ j \in Nat
      BY <1>2, LenProperties
    <3>3. i = j
      BY <1>2, <2>1, <3>1, <3>2 DEF BatchFits
    <3> QED BY <3>1, <3>3
  <2>2. \A x \in p.asked : ~Had(p, x)
    BY <1>5 DEF Had
  <2> QED BY <1>4, <1>5, <2>1, <2>2 DEF Saved
<1> QED BY <1>1, <1>3, <1>5, <1>6, <1>7, <1>8, <1>9, BeginKeeps

\* Every request that begins.
LEMMA AskKeeps == ASSUME IInv, NEW c \in Callers, Ask(c) PROVE IInv'
<1>1. ~Busy(c) /\ source \in [Dirs -> Roles] /\ there \subseteq Dirs
  BY StoresAre DEF Ask, Stores
<1>2. CASE Save(c)
  BY <1>1, <1>2, SaveKeeps
<1>3. CASE RemoveRoot(c)
  <2>1. PICK f \in Dirs : Begin(c, "remove", "check", One(f, "danbooru", "forget"), <<>>)
    BY <1>3 DEF RemoveRoot
  <2> QED BY <1>1, <2>1, OneBegins DEF Roles, Targets, Kinds, Places
<1>4. CASE Add(c)
  <2>1. PICK f \in there : RootAt(f) = {} /\ Begin(c, "add", "insert", One(f, "none", "danbooru"), <<>>)
    BY <1>4 DEF Add
  <2> QED BY <1>1, <2>1, OneBegins DEF Roles, Targets, Kinds, Places
<1>5. CASE AddFiles(c)
  <2>1. PICK f \in there : Begin(c, "files", "register", One(f, "none", "files"), <<>>)
    BY <1>5 DEF AddFiles
  <2> QED BY <1>1, <2>1, OneBegins DEF Roles, Targets, Kinds, Places
<1>6. CASE ScanFiles(c)
  <2>1. PICK f \in Listed : Begin(c, "scan", "list", One(f, source[f], source[f]), <<>>)
    BY <1>6 DEF ScanFiles
  <2>2. PICK s : s = source[f] /\ s \in Roles /\ s \in Targets /\ f \in Dirs
    BY <1>1, <2>1 DEF Listed, Roles, Targets
  <2>3. Begin(c, "scan", "list", One(f, s, s), <<>>)
    BY <2>1, <2>2
  <2> QED BY <1>1, <2>2, <2>3, OneBegins DEF Kinds, Places
<1>7. CASE Browse(c)
  <2>1. PICK f \in Listed : Begin(c, "browse", "list", One(f, source[f], source[f]), <<>>)
    BY <1>7 DEF Browse
  <2>2. PICK s : s = source[f] /\ s \in Roles /\ s \in Targets /\ f \in Dirs
    BY <1>1, <2>1 DEF Listed, Roles, Targets
  <2>3. Begin(c, "browse", "list", One(f, s, s), <<>>)
    BY <2>1, <2>2
  <2> QED BY <1>1, <2>2, <2>3, OneBegins DEF Kinds, Places
<1>8. CASE Rescan(c)
  <2>1. PICK f \in Listed : Begin(c, "rescan", "list", One(f, source[f], source[f]), <<>>)
    BY <1>8 DEF Rescan
  <2>2. PICK s : s = source[f] /\ s \in Roles /\ s \in Targets /\ f \in Dirs /\ s # "none"
    BY <1>1, <2>1 DEF Listed, Roles, Targets
  <2>3. Begin(c, "rescan", "list", One(f, s, s), <<>>)
    BY <2>1, <2>2
  <2> QED BY <1>1, <2>2, <2>3, OneBegins DEF Kinds, Places
<1>9. CASE Relocate(c)
  <2>1. PICK f \in Dirs, g \in Dirs, k \in {"relocate", "put"} :
            Begin(c, k, "move", One(f, "danbooru", "danbooru"), g)
    BY <1>9 DEF Relocate
  <2> QED BY <1>1, <2>1, OneBegins DEF Roles, Targets, Kinds, Places
<1> QED BY <1>2, <1>3, <1>4, <1>5, <1>6, <1>7, <1>8, <1>9 DEF Ask

-----------------------------------------------------------------------------
(* The rest of the program.                                                *)

\* The invariant, in the parts that the steps below keep one by one.
LEMMA Whole ==
    ASSUME Stores', JobsFit', ToolFits', PastFits', OneAtATime', Agreement', Batched',
           ~past'.raced => /\ RowsHeld' /\ ToolHeld' /\ CutKnown'
                           /\ \A u \in Callers : Busy(u)' => RowsFit(job[u])'
    PROVE  IInv'
<1>1. TypeOK'
  BY TypeKept
<1>2. Rooted'
  BY DEF Rooted, RowsHeld, ToolHeld, CutKnown
<1> QED BY <1>1, <1>2 DEF IInv

\* What is known of the rows.
LEMMA RowsKnown ==
    ASSUME IInv, ~past.raced
    PROVE  /\ RowsHeld /\ ToolHeld /\ CutKnown
           /\ \A u \in Callers : Busy(u) => RowsFit(job[u])
BY DEF IInv, Rooted, RowsHeld, ToolHeld, CutKnown

\* The requests, after something that came between all of them.
LEMMA Between ==
    ASSUME IInv, job' = NotAlone, past'.raced = past.raced,
           past'.drift = past.drift \/ (~past'.drift => \A u \in Callers : ~Busy(u))
    PROVE  /\ JobsFit' /\ Batched' /\ OneAtATime'
           /\ \A u \in Callers : /\ Busy(u)' <=> Busy(u)
                                 /\ ListsFit(job'[u]) <=> ListsFit(job[u])
                                 /\ RowsFit(job'[u]) <=> RowsFit(job[u])
<1>1. \A u \in Callers :
          /\ job'[u].kind = job[u].kind /\ job'[u].at = job[u].at /\ job'[u].todo = job[u].todo
          /\ job'[u].root = job[u].root /\ job'[u].path = job[u].path
          /\ job'[u].doomed = job[u].doomed
          /\ job'[u] = Idle \/ (Fits(job'[u]) /\ ~job'[u].alone)
          /\ job'[u].kind = "idle" <=> job'[u] = Idle
  BY NotAloneIs
<1>2. \A u \in Callers : Busy(u)' <=> Busy(u)
  BY <1>1 DEF Busy
<1>3. \A u \in Callers : /\ ListsFit(job'[u]) <=> ListsFit(job[u])
                         /\ RowsFit(job'[u]) <=> RowsFit(job[u])
  BY <1>1, SameLists
<1>4. JobsFit'
  <2>1. job' = [u \in Callers |-> job'[u]]
    BY DEF NotAlone
  <2> QED BY <1>1, <2>1 DEF JobsFit
<1>5. Batched'
  BY <1>1, IdleIs DEF Batched
<1>6. OneAtATime'
  <2>1. ASSUME ~past'.raced \/ ~past'.drift, NEW a \in Callers, NEW b \in Callers,
               Busy(a)', Busy(b)'
        PROVE  a = b
    <3>1. Busy(a) /\ Busy(b)
      BY <1>2, <2>1
    <3>2. ~past.raced \/ ~past.drift
      BY <2>1, <3>1
    <3> QED BY <3>1, <3>2 DEF IInv, OneAtATime
  <2>2. \A u \in Callers : Busy(u)' => ~job'[u].alone
    BY <1>1 DEF Busy
  <2> QED BY <2>1, <2>2 DEF OneAtATime
<1> QED BY <1>2, <1>3, <1>4, <1>5, <1>6

\* The module starts.
LEMMA StartKeeps == ASSUME IInv, Start PROVE IInv'
<1>1. /\ source' = Published /\ job' = NotAlone
      /\ past' = [past EXCEPT !.drift = \E c \in Callers : Busy(c)]
      /\ up' = TRUE /\ UNCHANGED <<disk, registered, row, entry, tool>>
  BY DEF Start
<1>2. /\ source' \in [Dirs -> Roles] /\ Dan' = Reg'
      /\ \A d \in Dirs : source'[d] = "danbooru" => RootAt(d) # {}
  <2>1. source' \in [Dirs -> Roles]
    BY <1>1, StoresAre DEF Published, Roles, Stores
  <2>2. \A d \in Dirs : source'[d] = "danbooru" <=> RootAt(d) # {}
    BY <1>1 DEF Published
  <2>3. registered \in [Roots -> Dirs \cup {<<>>}]
    BY StoresAre DEF Stores
  <2>4. Reg = {d \in Dirs : RootAt(d) # {}}
    BY <2>3 DEF Reg, RootAt, Live
  <2> QED BY <1>1, <2>1, <2>2, <2>4, RegsKept DEF Dan
<1>3. /\ past' \in [drift : BOOLEAN, raced : BOOLEAN, cut : SUBSET Dirs, moved : SUBSET Dirs]
      /\ past'.raced = past.raced /\ past'.cut = past.cut /\ past'.moved = past.moved
      /\ ~past'.drift => \A u \in Callers : ~Busy(u)
  <2>1. past \in [drift : BOOLEAN, raced : BOOLEAN, cut : SUBSET Dirs, moved : SUBSET Dirs]
    BY DEF IInv, PastFits
  <2>2. PICK b \in BOOLEAN : b <=> \E c \in Callers : Busy(c)
    OBVIOUS
  <2>3. past' = [past EXCEPT !.drift = b]
    BY <1>1, <2>2
  <2>4. /\ past' \in [drift : BOOLEAN, raced : BOOLEAN, cut : SUBSET Dirs, moved : SUBSET Dirs]
        /\ past'.raced = past.raced /\ past'.cut = past.cut /\ past'.moved = past.moved
        /\ past'.drift = b
    BY <2>1, <2>3
  <2> QED BY <2>2, <2>4
<1>4. /\ JobsFit' /\ Batched' /\ OneAtATime'
      /\ \A u \in Callers : (Busy(u)' <=> Busy(u)) /\ (RowsFit(job'[u]) <=> RowsFit(job[u]))
  BY <1>1, <1>3, Between
<1>5. Stores' /\ ToolFits' /\ PastFits'
  BY <1>1, <1>2, <1>3, StoresAre DEF Stores, disk, Live, IInv, ToolFits, PastFits
<1>6. Agreement'
  BY <1>2, <1>3, <1>4 DEF Agreement
<1>7. ASSUME ~past'.raced
      PROVE  /\ RowsHeld' /\ ToolHeld' /\ CutKnown'
             /\ \A u \in Callers : Busy(u)' => RowsFit(job[u])'
  <2>1. RowsHeld /\ ToolHeld /\ \A u \in Callers : Busy(u) => RowsFit(job[u])
    BY <1>3, <1>7, RowsKnown
  <2>2. RowsHeld' /\ ToolHeld' /\ CutKnown'
    BY <1>1, <1>2, <2>1, RegsKept DEF RowsHeld, ToolHeld, CutKnown, Running
  <2>3. ASSUME NEW u \in Callers, RowsFit(job'[u]) PROVE RowsFit(job[u])'
    BY <1>1, <2>3, RegsKept DEF RowsFit, Running, Doomed
  <2> QED BY <1>4, <2>1, <2>2, <2>3
<1> QED BY <1>3, <1>4, <1>5, <1>6, <1>7, Whole

\* The user moves a folder.
LEMMA MoveFolderKeeps == ASSUME IInv, \A m \in Media : home[m] \in there, MoveFolder PROVE IInv'
<1>1. job' = NotAlone /\ UNCHANGED <<lists, row, entry, tool, up, past>>
  BY DEF MoveFolder
<1>2. there' \subseteq Dirs /\ home' \in [Media -> Dirs]
  <2>1. there \subseteq Dirs /\ home \in [Media -> Dirs]
    BY StoresAre DEF Stores
  <2>2. PICK d \in there, g \in Dirs :
            /\ \A e \in {x \in there : Within(x, d)} :
                   (IF Within(e, d) THEN Carry(e, d, g) ELSE e) \in Dirs
            /\ there' = {IF Within(e, d) THEN Carry(e, d, g) ELSE e : e \in there}
            /\ home' = [m \in Media |-> IF Within(home[m], d) THEN Carry(home[m], d, g) ELSE home[m]]
    BY DEF MoveFolder
  <2>3. \A e \in there : (IF Within(e, d) THEN Carry(e, d, g) ELSE e) \in Dirs
    BY <2>1, <2>2
  <2> QED BY <2>2, <2>3
<1>3. source' = source /\ registered' = registered
  BY <1>1 DEF lists
<1>4. /\ JobsFit' /\ Batched' /\ OneAtATime'
      /\ \A u \in Callers : /\ Busy(u)' <=> Busy(u)
                            /\ ListsFit(job'[u]) <=> ListsFit(job[u])
                            /\ RowsFit(job'[u]) <=> RowsFit(job[u])
  BY <1>1, Between
<1>5. Stores' /\ ToolFits' /\ PastFits'
  BY <1>1, <1>2, <1>3, StoresAre DEF Stores, Live, IInv, ToolFits, PastFits
<1>6. Agreement'
  <2>1. ASSUME NEW u \in Callers, ListsFit(job'[u]) PROVE ListsFit(job[u])'
    BY <1>3, <2>1, RegsKept, SourceKept DEF ListsFit
  <2> QED BY <1>1, <1>3, <1>4, <2>1, RegsKept, SourceKept DEF IInv, Agreement, Quiet
<1>7. ASSUME ~past'.raced
      PROVE  /\ RowsHeld' /\ ToolHeld' /\ CutKnown'
             /\ \A u \in Callers : Busy(u)' => RowsFit(job[u])'
  <2>1. RowsHeld /\ ToolHeld /\ CutKnown /\ \A u \in Callers : Busy(u) => RowsFit(job[u])
    BY <1>1, <1>7, RowsKnown
  <2>2. RowsHeld' /\ ToolHeld' /\ CutKnown'
    BY <1>1, <1>3, <2>1, RegsKept DEF RowsHeld, ToolHeld, CutKnown, Running
  <2>3. ASSUME NEW u \in Callers, RowsFit(job'[u]) PROVE RowsFit(job[u])'
    BY <1>1, <1>3, <2>3, RegsKept DEF RowsFit, Running, Doomed
  <2> QED BY <1>4, <2>1, <2>2, <2>3
<1> QED BY <1>4, <1>5, <1>6, <1>7, Whole

\* Whether the module runs: no part of the invariant but its type is about it.
LEMMA UpKeeps ==
    ASSUME IInv, up' \in BOOLEAN,
           UNCHANGED <<disk, lists, row, entry, tool, job, past>>
    PROVE  IInv'
<1>1. /\ up' \in BOOLEAN /\ disk' = disk /\ source' = source /\ registered' = registered
      /\ row' = row /\ entry' = entry /\ tool' = tool /\ job' = job /\ past' = past
  BY DEF lists
<1>2. JobsFit' /\ Batched'
  <2>1. home' = home /\ there' = there /\ Listed' = Listed
    BY <1>1, SourceKept DEF disk
  <2>2. \A u \in Callers : Saved(job[u]) => Saved(job[u])'
    BY <1>1, <2>1 DEF Saved, Nearest, Had
  <2> QED BY <1>1, <2>2 DEF IInv, JobsFit, Batched
<1>3. OneAtATime' /\ PastFits' /\ \A u \in Callers : Busy(u)' <=> Busy(u)
  BY <1>1 DEF IInv, OneAtATime, Busy, Others, PastFits
<1>4. Stores' /\ ToolFits'
  BY <1>1, StoresAre DEF Stores, disk, Live, ToolFits, IInv
<1>5. Agreement'
  <2>1. ASSUME NEW u \in Callers, ListsFit(job[u]) PROVE ListsFit(job[u])'
    BY <1>1, <2>1, RegsKept, SourceKept DEF ListsFit
  <2> QED BY <1>1, <1>3, <2>1, RegsKept, SourceKept DEF IInv, Agreement, Quiet
<1>6. ASSUME ~past'.raced
      PROVE  /\ RowsHeld' /\ ToolHeld' /\ CutKnown'
             /\ \A u \in Callers : Busy(u)' => RowsFit(job[u])'
  <2>1. RowsHeld /\ ToolHeld /\ CutKnown /\ \A u \in Callers : Busy(u) => RowsFit(job[u])
    BY <1>1, <1>6, RowsKnown
  <2>2. RowsHeld' /\ ToolHeld' /\ CutKnown'
    BY <1>1, <2>1, RegsKept DEF RowsHeld, ToolHeld, CutKnown, Running
  <2>3. ASSUME NEW u \in Callers, RowsFit(job[u]) PROVE RowsFit(job[u])'
    BY <1>1, <2>3, RegsKept DEF RowsFit, Running, Doomed
  <2> QED BY <1>3, <2>1, <2>2, <2>3
<1> QED BY <1>2, <1>3, <1>4, <1>5, <1>6, Whole

\* An import of everything begins.
LEMMA TickKeeps == ASSUME IInv, Tick PROVE IInv'
<1>1. /\ ~Running /\ tool' = [scope |-> ScanPaths, roots |-> registered]
      /\ past' = [past EXCEPT !.raced = @ \/ Releasing]
      /\ disk' = disk /\ source' = source /\ registered' = registered /\ row' = row
      /\ entry' = entry /\ up' = up /\ job' = job
  BY DEF Tick, lists
<1>2. PICK b \in BOOLEAN : b <=> Releasing
  OBVIOUS
<1>3. /\ past' \in [drift : BOOLEAN, raced : BOOLEAN, cut : SUBSET Dirs, moved : SUBSET Dirs]
      /\ past'.raced = (past.raced \/ b) /\ past'.drift = past.drift
      /\ past'.cut = past.cut /\ past'.moved = past.moved
  <2>1. past \in [drift : BOOLEAN, raced : BOOLEAN, cut : SUBSET Dirs, moved : SUBSET Dirs]
    BY DEF IInv, PastFits
  <2>2. past' = [past EXCEPT !.raced = @ \/ b]
    BY <1>1, <1>2
  <2> QED BY <2>1, <2>2
<1>4. registered \in [Roots -> Dirs \cup {<<>>}]
  BY StoresAre DEF Stores
<1>5. JobsFit' /\ Batched'
  <2>1. home' = home /\ there' = there /\ Listed' = Listed
    BY <1>1, SourceKept DEF disk
  <2>2. \A u \in Callers : Saved(job[u]) => Saved(job[u])'
    BY <1>1, <2>1 DEF Saved, Nearest, Had
  <2> QED BY <1>1, <2>2 DEF IInv, JobsFit, Batched
<1>6. OneAtATime' /\ PastFits' /\ \A u \in Callers : Busy(u)' <=> Busy(u)
  BY <1>1, <1>3 DEF IInv, OneAtATime, Busy, Others, PastFits
<1>7. Stores' /\ ToolFits'
  <2>1. ScanPaths \subseteq Dirs
    BY <1>4 DEF ScanPaths, Live
  <2>2. ToolFits'
    BY <1>1, <1>4, <2>1 DEF ToolFits
  <2>3. Stores'
    BY <1>1, <1>3, StoresAre DEF Stores, disk, Live
  <2> QED BY <2>2, <2>3
<1>8. Agreement'
  <2>1. ASSUME NEW u \in Callers, ListsFit(job[u]) PROVE ListsFit(job[u])'
    BY <1>1, <2>1, RegsKept, SourceKept DEF ListsFit
  <2> QED BY <1>1, <1>3, <1>6, <2>1, RegsKept, SourceKept DEF IInv, Agreement, Quiet
<1>9. ASSUME ~past'.raced
      PROVE  /\ RowsHeld' /\ ToolHeld' /\ CutKnown'
             /\ \A u \in Callers : Busy(u)' => RowsFit(job[u])'
  <2>1. ~past.raced /\ ~Releasing
    BY <1>2, <1>3, <1>9
  <2>2. RowsHeld /\ CutKnown /\ \A u \in Callers : Busy(u) => RowsFit(job[u])
    BY <2>1, RowsKnown
  <2>3. RowsHeld' /\ CutKnown'
    BY <1>1, <1>3, <2>2, RegsKept DEF RowsHeld, CutKnown
  <2>4. ToolHeld'
    <3>1. \A f \in ScanPaths : \E r \in Roots : registered[r] = f
      BY DEF ScanPaths, Live
    <3>2. \A r \in Roots : registered[r] # <<>> => r \in Live
      BY DEF Live
    <3> QED BY <1>1, <3>1, <3>2, RegsKept DEF ToolHeld
  <2>5. ASSUME NEW u \in Callers, Busy(u) PROVE RowsFit(job[u])'
    <3>1. job[u].at \notin {"cut", "unregister"} /\ RowsFit(job[u])
      BY <2>1, <2>2, <2>5 DEF Releasing
    <3> QED BY <1>1, <3>1, RegsKept DEF RowsFit
  <2> QED BY <1>6, <2>3, <2>4, <2>5
<1> QED BY <1>5, <1>6, <1>7, <1>8, <1>9, Whole

\* An import keeps one row of a place, and gives what it finds a root that is
\* registered.
LEMMA ImportedIs ==
    ASSUME Stores, ToolFits
    PROVE  /\ Imported \subseteq [at : Dirs, m : Media, root : Roots \cup {"stray"}]
           /\ \A x, y \in Imported : x.at = y.at /\ x.m = y.m => x = y
           /\ RowsHeld /\ ToolHeld /\ Running => \A x \in Imported : x.root \in Live
<1> DEFINE scope == tool.scope \cap there
           In(d) == \E f \in scope : Within(d, f)
           found == {m \in Media : home[m] \in there /\ In(home[m])}
           old   == {x \in row : ~In(x.at) \/ (x.m \in found /\ home[x.m] = x.at)}
           lost  == {n \in found : \A x \in old : x.m # n \/ x.at # home[n]}
           New(m) == [at |-> home[m], m |-> m, root |-> RootOf(home[m], tool.roots)]
<1>1. Imported = old \cup {New(m) : m \in lost}
  BY DEF Imported
<1>2. /\ old \subseteq row /\ lost \subseteq Media /\ home \in [Media -> Dirs]
      /\ row \subseteq [at : Dirs, m : Media, root : Roots \cup {"stray"}]
      /\ \A x, y \in row : x.at = y.at /\ x.m = y.m => x = y
      /\ tool.roots \in [Roots -> Dirs \cup {<<>>}]
      /\ \A m \in lost : /\ \E f \in tool.scope : Within(home[m], f)
                         /\ \A x \in old : x.m # m \/ x.at # home[m]
  BY DEF Stores, ToolFits
<1>3. ASSUME NEW m \in lost PROVE RootOf(home[m], tool.roots) \in Roots \cup {"stray"}
  <2>1. CASE \E r \in Roots : tool.roots[r] # <<>> /\ Within(home[m], tool.roots[r])
    BY <1>2, <2>1, RootIs
  <2>2. CASE ~ \E r \in Roots : tool.roots[r] # <<>> /\ Within(home[m], tool.roots[r])
    <3>1. {r \in Roots : tool.roots[r] # <<>> /\ Within(home[m], tool.roots[r])} = {}
      BY <2>2
    <3> QED BY <3>1 DEF RootOf
  <2> QED BY <2>1, <2>2
<1> HIDE DEF old, lost
<1>4. \A m \in lost : /\ New(m).at = home[m] /\ New(m).m = m
                      /\ New(m).root = RootOf(home[m], tool.roots)
                      /\ New(m) \in [at : Dirs, m : Media, root : Roots \cup {"stray"}]
  BY <1>2, <1>3
<1> HIDE DEF New
<1>5. Imported \subseteq [at : Dirs, m : Media, root : Roots \cup {"stray"}]
  BY <1>1, <1>2, <1>4
<1>6. ASSUME NEW x \in Imported, NEW y \in Imported, x.at = y.at, x.m = y.m PROVE x = y
  <2>1. CASE x \in old /\ y \in old
    BY <1>2, <1>6, <2>1
  <2>2. ASSUME NEW m \in lost, x = New(m), y \in old PROVE x = y
    BY <1>2, <1>4, <1>6, <2>2
  <2>3. ASSUME NEW m \in lost, y = New(m), x \in old PROVE x = y
    BY <1>2, <1>4, <1>6, <2>3
  <2>4. ASSUME NEW m \in lost, NEW n \in lost, x = New(m), y = New(n) PROVE x = y
    BY <1>4, <1>6, <2>4
  <2> QED BY <1>1, <2>1, <2>2, <2>3, <2>4
<1>7. ASSUME RowsHeld, ToolHeld, Running, NEW x \in Imported PROVE x.root \in Live
  <2>1. CASE x \in old
    BY <1>2, <1>7, <2>1 DEF RowsHeld
  <2>2. ASSUME NEW m \in lost, x = New(m) PROVE x.root \in Live
    <3>1. PICK f \in tool.scope : Within(home[m], f)
      BY <1>2
    <3>2. PICK r \in Roots : tool.roots[r] = f
      BY <1>7 DEF ToolHeld
    <3>3. home[m] \in Dirs /\ f \in Dirs /\ f # <<>>
      BY <1>2, <3>1, Paths DEF ToolFits
    <3>4. RootOf(home[m], tool.roots) \in Roots /\ tool.roots[RootOf(home[m], tool.roots)] # <<>>
      BY <1>2, <3>1, <3>2, <3>3, RootIs
    <3> QED BY <1>4, <1>7, <2>2, <3>4 DEF ToolHeld
  <2> QED BY <1>1, <2>1, <2>2
<1> QED BY <1>5, <1>6, <1>7

\* An import ends.
LEMMA ToolEndsKeeps == ASSUME IInv, ToolEnds PROVE IInv'
<1>1. /\ Running /\ tool' = NoTool /\ row' \in {row, Imported}
      /\ disk' = disk /\ source' = source /\ registered' = registered
      /\ entry' = entry /\ up' = up /\ job' = job /\ past' = past
  BY DEF ToolEnds, lists
<1>2. /\ NoTool.scope = {} /\ NoTool.roots \in [Roots -> Dirs \cup {<<>>}]
      /\ ~Running'
  BY <1>1 DEF NoTool, Running
<1>3. JobsFit' /\ Batched'
  <2>1. home' = home /\ there' = there /\ Listed' = Listed
    BY <1>1, SourceKept DEF disk
  <2>2. \A u \in Callers : Saved(job[u]) => Saved(job[u])'
    BY <1>1, <2>1 DEF Saved, Nearest, Had
  <2> QED BY <1>1, <2>2 DEF IInv, JobsFit, Batched
<1>4. OneAtATime' /\ PastFits' /\ \A u \in Callers : Busy(u)' <=> Busy(u)
  BY <1>1 DEF IInv, OneAtATime, Busy, Others, PastFits
<1>5. /\ Stores /\ ToolFits
      /\ Imported \subseteq [at : Dirs, m : Media, root : Roots \cup {"stray"}]
      /\ \A x, y \in Imported : x.at = y.at /\ x.m = y.m => x = y
      /\ RowsHeld /\ ToolHeld => \A x \in Imported : x.root \in Live
  BY <1>1, StoresAre, ImportedIs DEF IInv
<1>6. /\ row' \subseteq [at : Dirs, m : Media, root : Roots \cup {"stray"}]
      /\ \A x, y \in row' : x.at = y.at /\ x.m = y.m => x = y
      /\ RowsHeld /\ ToolHeld => \A x \in row' : x.root \in Live
  <2>1. CASE row' = row
    BY <1>5, <2>1 DEF Stores, RowsHeld
  <2>2. CASE row' = Imported
    BY <1>5, <2>2
  <2> QED BY <1>1, <2>1, <2>2
<1>7. Stores' /\ ToolFits'
  BY <1>1, <1>2, <1>5, <1>6 DEF Stores, disk, Live, ToolFits
<1>8. Agreement'
  <2>1. ASSUME NEW u \in Callers, ListsFit(job[u]) PROVE ListsFit(job[u])'
    BY <1>1, <2>1, RegsKept, SourceKept DEF ListsFit
  <2> QED BY <1>1, <1>4, <2>1, RegsKept, SourceKept DEF IInv, Agreement, Quiet
<1>9. ASSUME ~past'.raced
      PROVE  /\ RowsHeld' /\ ToolHeld' /\ CutKnown'
             /\ \A u \in Callers : Busy(u)' => RowsFit(job[u])'
  <2>1. RowsHeld /\ ToolHeld /\ CutKnown /\ \A u \in Callers : Busy(u) => RowsFit(job[u])
    BY <1>1, <1>9, RowsKnown
  <2>2. RowsHeld' /\ ToolHeld' /\ CutKnown'
    BY <1>1, <1>2, <1>6, <2>1, RegsKept DEF RowsHeld, ToolHeld, CutKnown
  <2>3. ASSUME NEW u \in Callers, Busy(u) PROVE RowsFit(job[u])'
    <3>1. job[u].at \notin {"cut", "unregister"} /\ RowsFit(job[u])
      BY <1>1, <2>1, <2>3 DEF RowsFit
    <3> QED BY <1>1, <3>1, RegsKept DEF RowsFit
  <2> QED BY <1>4, <2>2, <2>3
<1> QED BY <1>3, <1>4, <1>7, <1>8, <1>9, Whole

\* The server stops.
LEMMA CrashKeeps == ASSUME IInv, Crash PROVE IInv'
<1>1. /\ up' = FALSE /\ tool' = NoTool /\ job' = [c \in Callers |-> Idle]
      /\ past' = [past EXCEPT !.drift = @ \/ \E c \in Callers : Busy(c)]
      /\ disk' = disk /\ registered' = registered
      /\ row' = row /\ entry' = entry
  BY DEF Crash
<1>a. PICK S \in SUBSET {d \in Dirs : RootAt(d) # {}} :
          source' = [d \in Dirs |-> IF d \in S THEN "danbooru" ELSE source[d]]
  BY DEF Crash
<1>b. /\ source' \in [Dirs -> Roles]
      /\ \A d \in Dirs : source'[d] = "danbooru" => source[d] = "danbooru" \/ RootAt(d) # {}
      /\ Dan = Reg => source' = source
  <2>1. source \in [Dirs -> Roles]
    BY StoresAre DEF Stores
  <2>2. \A d \in Dirs : RootAt(d) # {} => d \in Reg
    <3>1. registered \in [Roots -> Dirs \cup {<<>>}]
      BY StoresAre DEF Stores
    <3> QED BY <3>1 DEF Reg, RootAt, Live
  <2>3. ASSUME Dan = Reg PROVE source' = source
    <3>1. \A d \in S : source[d] = "danbooru"
      BY <2>2, <2>3 DEF Dan
    <3> QED BY <1>a, <2>1, <3>1
  <2> QED BY <1>a, <2>1, <2>3 DEF Roles
<1>2. /\ NoTool.scope = {} /\ NoTool.roots \in [Roots -> Dirs \cup {<<>>}]
      /\ ~Running'
  BY <1>1 DEF NoTool, Running
<1>3. PICK b \in BOOLEAN : b <=> \E c \in Callers : Busy(c)
  OBVIOUS
<1>4. /\ past' \in [drift : BOOLEAN, raced : BOOLEAN, cut : SUBSET Dirs, moved : SUBSET Dirs]
      /\ past'.drift = (past.drift \/ b) /\ past'.raced = past.raced
      /\ past'.cut = past.cut /\ past'.moved = past.moved
  <2>1. past \in [drift : BOOLEAN, raced : BOOLEAN, cut : SUBSET Dirs, moved : SUBSET Dirs]
    BY DEF IInv, PastFits
  <2>2. past' = [past EXCEPT !.drift = @ \/ b]
    BY <1>1, <1>3
  <2> QED BY <2>1, <2>2
<1>5. \A u \in Callers : job'[u] = Idle /\ ~Busy(u)'
  BY <1>1, IdleIs DEF Busy
<1>6. JobsFit' /\ Batched' /\ OneAtATime' /\ PastFits'
  BY <1>1, <1>4, <1>5, IdleIs DEF JobsFit, Batched, OneAtATime, PastFits
<1>7. Stores' /\ ToolFits'
  BY <1>1, <1>2, <1>4, <1>b, StoresAre DEF Stores, disk, Live, ToolFits
<1>8. Agreement'
  <2>1. ASSUME ~past'.drift PROVE Dan' = Reg'
    <3>1. ~past.drift /\ Quiet
      BY <1>3, <1>4, <2>1 DEF Quiet
    <3>2. Dan = Reg
      BY <3>1 DEF IInv, Agreement
    <3>3. source' = source
      BY <1>b, <3>2
    <3> QED BY <1>1, <3>2, <3>3, RegsKept, SourceKept
  <2> QED BY <1>5, <2>1 DEF Agreement
<1>9. ASSUME ~past'.raced
      PROVE  /\ RowsHeld' /\ ToolHeld' /\ CutKnown'
             /\ \A u \in Callers : Busy(u)' => RowsFit(job[u])'
  <2>1. RowsHeld /\ CutKnown
    BY <1>4, <1>9, RowsKnown
  <2>2. RowsHeld' /\ ToolHeld'
    BY <1>1, <1>2, <1>4, <1>5, <2>1, RegsKept DEF RowsHeld, ToolHeld
  <2>3. CutKnown'
    BY <1>1, <1>4, <1>b, <2>1, RegsKept DEF CutKnown
  <2> QED BY <1>5, <2>2, <2>3
<1> QED BY <1>6, <1>7, <1>8, <1>9, Whole

\* At first nothing is listed.
LEMMA InitKeeps == ASSUME Init PROVE IInv
<1>1. /\ there = {Homes[m] : m \in Media} /\ home = Homes
      /\ source = [d \in Dirs |-> "none"] /\ registered = [r \in Roots |-> <<>>]
      /\ row = {} /\ entry = {} /\ tool = NoTool /\ up = TRUE
      /\ job = [c \in Callers |-> Idle] /\ past = NoPast
  BY DEF Init
<1>2. /\ NoTool.scope = {} /\ NoTool.roots \in [Roots -> Dirs \cup {<<>>}] /\ ~Running
  BY <1>1 DEF NoTool, Running
<1>3. \A u \in Callers : job[u] = Idle /\ ~Busy(u)
  BY <1>1, IdleIs DEF Busy
<1>4. Live = {} /\ Dan = {} /\ Reg = {}
  BY <1>1 DEF Live, Dan, Reg
<1>5. PastFits /\ ~past.raced
  BY <1>1 DEF PastFits, NoPast
<1>6. TypeOK
  BY <1>1, <1>3, <1>4, HomeAssumption, IdleIs DEF TypeOK
<1>7. JobsFit /\ ToolFits /\ OneAtATime /\ Batched
  BY <1>1, <1>2, <1>3, IdleIs DEF JobsFit, ToolFits, OneAtATime, Batched
<1>8. Agreement /\ Rooted
  BY <1>1, <1>2, <1>3, <1>4 DEF Agreement, Rooted
<1> QED BY <1>5, <1>6, <1>7, <1>8 DEF IInv

-----------------------------------------------------------------------------
(* The theorems.                                                           *)

\* Every step of a request keeps the invariant.
LEMMA RequestKeeps == ASSUME IInv, NEW c \in Callers, Step(c) PROVE IInv'
BY Next1Keeps, RegisterKeeps, ScanSourceKeeps, ForgetKeeps, MangaReleaseKeeps,
   ReleaseCheckKeeps, DeleteRowsKeeps, UnregisterKeeps, RelabelKeeps, SettleKeeps,
   DropSourceKeeps, AdoptMangaKeeps, AdoptKeeps, InsertKeeps, UpsertKeeps, ImportFolderKeeps,
   ReadListKeeps, RescanAncestorsKeeps, ReadSourceKeeps, MoveKeeps, PublishMoveKeeps
   DEF Step

\* Files lie in folders that are there.
Homed == \A m \in Media : home[m] \in there

\* Requests and the program leave the disk alone.
LEMMA DiskKept == ASSUME NEW c \in Callers, Step(c) \/ Ask(c) PROVE disk' = disk
<1>1. CASE Step(c)
  BY <1>1 DEF Step, Next1, Register, ScanSource, Forget, MangaRelease, ReleaseCheck, DeleteRows,
     Unregister, Relabel, Settle, DropSource, AdoptManga, Adopt, Insert, Upsert, ImportFolder,
     ReadList, RescanAncestors, ReadSource, Move, PublishMove
<1>2. CASE Ask(c)
  BY <1>2 DEF Ask, Save, RemoveRoot, Add, AddFiles, ScanFiles, Browse, Rescan, Relocate, Begin
<1> QED BY <1>1, <1>2

\* What is on disk stays there when a folder is moved.
LEMMA FilesAreHomed == Spec => []Homed
<1>1. Init => Homed
  BY HomeAssumption DEF Init, Homed
<1>2. ASSUME Homed, [Next]_vars PROVE Homed'
  <2>1. CASE disk' = disk
    BY <1>2, <2>1 DEF disk, Homed
  <2>2. CASE MoveFolder
    <3>1. PICK d, g :
              /\ there' = {IF Within(e, d) THEN Carry(e, d, g) ELSE e : e \in there}
              /\ home' = [m \in Media |-> IF Within(home[m], d) THEN Carry(home[m], d, g) ELSE home[m]]
      BY <2>2 DEF MoveFolder
    <3> QED BY <1>2, <3>1 DEF Homed
  <2>3. \/ UNCHANGED vars \/ \E c \in Callers : Step(c) \/ Ask(c)
        \/ Start \/ Stop \/ Tick \/ ToolEnds \/ Crash \/ MoveFolder
    BY <1>2 DEF Next
  <2>4. UNCHANGED vars \/ Start \/ Stop \/ Tick \/ ToolEnds \/ Crash => disk' = disk
    BY DEF vars, Start, Stop, Tick, ToolEnds, Crash
  <2> QED BY <2>1, <2>2, <2>3, <2>4, DiskKept
<1> QED BY <1>1, <1>2, PTL DEF Spec

\* Every step of the whole keeps it.
LEMMA StepsKeep == ASSUME IInv, Homed, [Next]_vars PROVE IInv'
<1>1. CASE UNCHANGED vars
  <2>1. up' = up /\ up \in BOOLEAN /\ UNCHANGED <<disk, lists, row, entry, tool, job, past>>
    BY <1>1, StoresAre DEF vars, Stores
  <2> QED BY <2>1, UpKeeps
<1>2. ASSUME NEW c \in Callers, Step(c) PROVE IInv'
  BY <1>2, RequestKeeps
<1>3. ASSUME NEW c \in Callers, Ask(c) PROVE IInv'
  BY <1>3, AskKeeps
<1>4. CASE Stop
  <2>1. up' \in BOOLEAN /\ UNCHANGED <<disk, lists, row, entry, tool, job, past>>
    BY <1>4 DEF Stop
  <2> QED BY <2>1, UpKeeps
<1>5. CASE MoveFolder
  BY <1>5, MoveFolderKeeps DEF Homed
<1>6. CASE Start \/ Tick \/ ToolEnds \/ Crash
  BY <1>6, StartKeeps, TickKeeps, ToolEndsKeeps, CrashKeeps
<1> QED BY <1>1, <1>2, <1>3, <1>4, <1>5, <1>6 DEF Next

\* The inductive invariant.
THEOREM FoldersInductive == Spec => []IInv
<1>1. Init => IInv
  BY InitKeeps
<1>2. IInv /\ Homed /\ [Next]_vars => IInv'
  BY StepsKeep
<1> QED BY <1>1, <1>2, FilesAreHomed, PTL DEF Spec

\* Whatever requests, imports, crashes and moves of folders come together, and
\* for any batches, the stores keep their types and unique keys, and every row
\* of the index belongs to a registered root unless requests raced.
THEOREM FoldersAreSound == Spec => []Sound
<1>1. IInv => Sound
  BY DEF IInv, Rooted, Sound, RowsBelongToRoots
<1> QED BY <1>1, FoldersInductive, PTL

\* Between requests, Danbooru's registrations and the roles of the shared list
\* name the same folders, unless something came between that waits for a
\* publication.
THEOREM ListsAgree == Spec => []RegistriesAgree
<1>1. IInv => RegistriesAgree
  BY DEF IInv, Agreement, RegistriesAgree, Dan, Reg
<1> QED BY <1>1, FoldersInductive, PTL

\* A publication withdraws only what is no longer a root.
LEMMA PublishedIs ==
    ASSUME IInv, source' = Published, ~past.raced, NEW d \in Dirs,
           source[d] # "none", source'[d] = "none"
    PROVE  d \in past.cut \cup past.moved
<1>1. source[d] = "danbooru" /\ RootAt(d) = {}
  BY DEF Published
<1>2. CutKnown
  BY RowsKnown
<1> QED BY <1>1, <1>2 DEF CutKnown

\* What takes a folder off the list, of the steps of a request.
LEMMA LeavesAsAsked ==
    ASSUME IInv, NEW c \in Callers, Step(c), NEW d \in Dirs,
           source[d] # "none", source'[d] = "none"
    PROVE  Asked(d) \/ past.raced \/ (Publishing /\ d \in past.cut \cup past.moved)
<1>1. source \in [Dirs -> Roles]
  BY StoresAre DEF Stores
<1>2. ~ \/ Next1(c) \/ ScanSource(c) \/ ReleaseCheck(c) \/ DeleteRows(c) \/ Unregister(c)
        \/ DropSource(c) \/ Insert(c) \/ ImportFolder(c) \/ ReadList(c) \/ RescanAncestors(c)
        \/ ReadSource(c) \/ Move(c)
  <2>1. source' # source
    OBVIOUS
  <2> QED BY <2>1 DEF Next1, ScanSource, ReleaseCheck, DeleteRows, Unregister, DropSource, Insert,
        ImportFolder, ReadList, RescanAncestors, ReadSource, Move, lists
<1>3. CASE job[c].at = "idle"
  BY <1>2, <1>3 DEF Step, Register, Forget, MangaRelease, Relabel, Settle, AdoptManga, Adopt,
     Upsert, PublishMove
<1>4. CASE job[c].at # "idle"
  <2>1. job[c].at \notin {"next", "ancestors"}
    BY <1>2 DEF Step, Register, Forget, MangaRelease, Relabel, Settle, AdoptManga, Adopt, Upsert,
       PublishMove
  <2>2. job[c].todo # <<>>
    BY <1>4, <2>1, AtWork
  <2>3. /\ Fits(job[c]) /\ Head1(c) = Head(job[c].todo) /\ Folder(c) \in Dirs /\ Folder(c) # <<>>
        /\ job[c].kind = "save" => HeadFits(job[c].at, Head1(c))
    BY <1>4, <2>1, <2>2, AtChange
  <2>4. CASE Register(c) \/ Settle(c) \/ AdoptManga(c) \/ Adopt(c) \/ Upsert(c)
    BY <1>1, <2>3, <2>4 DEF Register, Settle, AdoptManga, Adopt, Upsert
  <2>5. CASE Forget(c)
    <3>1. job[c].at = "forget" /\ d = Folder(c)
      BY <1>1, <2>3, <2>5 DEF Forget
    <3>2. Head1(c).to = "forget"
      BY <2>3, <3>1 DEF Fits, StepFits, HeadFits
    <3> QED BY <3>1, <3>2 DEF Asked
  <2>6. CASE MangaRelease(c)
    <3>1. job[c].at = "letgo" /\ d = Folder(c) /\ Head1(c).to = "forget"
      BY <1>1, <2>3, <2>6 DEF MangaRelease
    <3> QED BY <3>1 DEF Asked
  <2>7. CASE Relabel(c)
    <3>1. PICK p : /\ p = IF job[c].root = "none" THEN Folder(c) ELSE job[c].path
                   /\ job[c].at = "relabel"
                   /\ source' = IF p = <<>> THEN source
                                ELSE [source EXCEPT ![p] = IF Keeps(c) /\ @ # "none" THEN "files"
                                                           ELSE "none"]
      BY <2>7 DEF Relabel
    <3>2. d = p /\ ~Keeps(c)
      BY <1>1, <3>1
    <3>3. CASE job[c].root # "none"
      BY <3>1, <3>2, <3>3 DEF Asked
    <3>4. CASE job[c].root = "none"
      <4>1. Head1(c).to = "forget"
        BY <2>3, <3>1, <3>2 DEF Keeps, Fits, StepFits
      <4> QED BY <3>1, <3>2, <3>4, <4>1 DEF Asked
    <3> QED BY <3>3, <3>4
  <2>8. CASE PublishMove(c)
    <3>1. source' = Published /\ job[c].at = "publish"
      BY <2>8 DEF PublishMove
    <3>2. job'[c].at # "publish"
      <4>1. \/ job' = [job EXCEPT ![c] = Idle]
            \/ job' = [job EXCEPT ![c] = [job[c] EXCEPT !.at = "drop",
                                                        !.seen = {e \in Dirs : source'[e] # "none"}]]
        BY <2>8 DEF PublishMove
      <4>2. job \in [Callers -> {job[u] : u \in Callers}] /\ job[c] \in Job
        BY <1>4, AtWork DEF IInv, JobsFit
      <4>3. CASE job' = [job EXCEPT ![c] = Idle]
        BY <4>2, <4>3, IdleIs
      <4>4. CASE job' = [job EXCEPT ![c] = [job[c] EXCEPT !.at = "drop",
                                                !.seen = {e \in Dirs : source'[e] # "none"}]]
        <5>1. job'[c] = [job[c] EXCEPT !.at = "drop", !.seen = {e \in Dirs : source'[e] # "none"}]
          BY <4>2, <4>4
        <5>2. job'[c].at = "drop"
          BY <4>2, <5>1 DEF Job
        <5> QED BY <5>2
      <4> QED BY <4>1, <4>3, <4>4
    <3>3. Publishing
      BY <3>1, <3>2 DEF Publishing
    <3> QED BY <3>1, <3>3, PublishedIs
  <2> QED BY <1>2, <2>4, <2>5, <2>6, <2>7, <2>8 DEF Step
<1> QED BY <1>3, <1>4

\* A folder leaves the shared list only when it is forgotten, removed or
\* relocated, or a publication comes between the commits of a release.
THEOREM FoldersStayListed == Spec => ReleaseKeepsFolder
<1>1. ASSUME IInv, [Next]_vars, NEW d \in Dirs, source[d] # "none", source'[d] = "none"
      PROVE  Asked(d) \/ past.raced \/ (Publishing /\ d \in past.cut \cup past.moved)
  <2>1. source' # source
    BY <1>1
  <2>2. ~(UNCHANGED vars \/ Stop \/ Tick \/ ToolEnds \/ Crash \/ MoveFolder)
    <3>1. ~Crash
      BY <1>1 DEF Crash
    <3> QED BY <2>1, <3>1 DEF vars, lists, Stop, Tick, ToolEnds, MoveFolder
  <2>3. ASSUME NEW c \in Callers PROVE ~Ask(c)
    BY <2>1 DEF lists, Ask, Save, RemoveRoot, Add, AddFiles, ScanFiles, Browse, Rescan, Relocate,
       Begin
  <2>4. CASE Start
    <3>1. Publishing /\ source' = Published
      BY <2>4 DEF Start, Publishing
    <3> QED BY <1>1, <3>1, PublishedIs
  <2>5. ASSUME NEW c \in Callers, Step(c)
        PROVE  Asked(d) \/ past.raced \/ (Publishing /\ d \in past.cut \cup past.moved)
    BY <1>1, <2>5, LeavesAsAsked
  <2> QED BY <1>1, <2>2, <2>3, <2>4, <2>5 DEF Next
<1>2. IInv /\ [Next]_vars =>
          [ \A d \in Dirs :
              source[d] # "none" /\ source'[d] = "none" =>
                  Asked(d) \/ past.raced \/ (Publishing /\ d \in past.cut \cup past.moved) ]_vars
  BY <1>1
<1> QED BY <1>2, FoldersInductive, PTL DEF Spec, ReleaseKeepsFolder

\* The sources that are scanned after a batch: the nearest over each folder that
\* it forgot.
Over(q) == {Deepest(Ancestors(f, q.seen)) : f \in {g \in q.gone : Ancestors(g, q.seen) # {}}}

\* What a file is listed under when a batch is answered.
LEMMA ShownAfter ==
    ASSUME IInv, NEW c \in Callers, RescanAncestors(c), job[c].alone,
           NEW ch \in job[c].asked, NEW m \in Media, NEW s,
           s = Deepest({d \in Listed : Within(home[m], d)}),
           home[m] \in there, Within(home[m], ch.f),
           {d \in Listed : Within(home[m], d)} # {},
           \/ ch.from = "none" /\ s = ch.f
           \/ ch.to = "forget" /\ Below(ch.f, s)
    PROVE  [at |-> home[m], m |-> m, src |-> s, on |-> TRUE] \in entry'
<1> DEFINE q == job[c]
           x == [at |-> home[m], m |-> m, src |-> s, on |-> TRUE]
           over == {d \in Listed : Within(home[m], d)}
<1>1. /\ q.at = "ancestors" /\ Fits(q) /\ q \in Job /\ q.kind = "save" /\ q.todo = <<>>
      /\ Saved(q) /\ q.seen = Listed /\ entry' = ScanAll(entry, Over(q), Listed)
      /\ ch \in Change /\ Had(q, ch)
  <2>1. q.at = "ancestors" /\ entry' = ScanAll(entry, Over(q), q.seen)
    BY DEF RescanAncestors, Over
  <2>2. Fits(q) /\ q \in Job
    BY <2>1, AtWork
  <2>3. q.kind = "save" /\ q.todo = <<>>
    BY <2>1, <2>2 DEF Fits, StepFits
  <2>4. Saved(q)
    BY <2>1, <2>3, Known
  <2>5. q.seen = Listed
    BY <2>1, <2>4 DEF Saved
  <2>6. ch \in Change
    BY <2>2 DEF Job
  <2>7. Had(q, ch)
    BY <2>3 DEF Had, Range
  <2> QED BY <2>1, <2>2, <2>3, <2>4, <2>5, <2>6, <2>7
<1>2. home \in [Media -> Dirs] /\ entry \subseteq Entry /\ Listed \subseteq Dirs /\ home[m] \in Dirs
  BY StoresAre DEF Stores, Listed
<1>3. /\ s \in Listed /\ Within(home[m], s) /\ s \in Dirs /\ Len(s) \in Nat
      /\ \A d \in Listed : Within(home[m], d) => Len(d) <= Len(s)
  <2>1. over \subseteq Dirs /\ \A d \in over : Within(home[m], d)
    BY <1>2
  <2>2. Deepest(over) \in over /\ \A e \in over : Len(e) <= Len(Deepest(over))
    BY <1>2, <2>1, DeepestIs
  <2> QED BY <1>2, <2>2, Paths
<1>4. ASSUME NEW d \in Listed, Within(home[m], d) PROVE Within(s, d) /\ ~Below(d, s)
  <2>1. d \in Dirs /\ Len(d) \in Nat /\ Len(d) <= Len(s)
    BY <1>2, <1>3, <1>4, Paths
  <2>2. Within(s, d)
    BY <1>2, <1>3, <1>4, <2>1, WithinOrder
  <2>3. ASSUME Below(d, s) PROVE FALSE
    <3>1. Within(d, s) /\ s # d
      BY <2>3, BelowIs
    <3>2. d = s
      BY <1>3, <2>1, <3>1, WithinOrder
    <3> QED BY <3>1, <3>2
  <2> QED BY <2>2, <2>3
<1>5. x \in Mine(s, Listed)
  BY <1>3, <1>4 DEF Mine, Descendants
<1>6. Over(q) \subseteq Dirs /\ Over(q) \subseteq Listed
  <2>1. q.gone \subseteq Dirs
    BY <1>1 DEF Job
  <2>2. ASSUME NEW g \in q.gone, Ancestors(g, Listed) # {} PROVE Deepest(Ancestors(g, Listed)) \in Listed
    <3>1. /\ g \in Dirs /\ Ancestors(g, Listed) \subseteq Dirs
          /\ \A d \in Ancestors(g, Listed) : Within(g, d) /\ d \in Listed
      BY <1>2, <2>1, BelowIs DEF Ancestors
    <3>2. Deepest(Ancestors(g, Listed)) \in Ancestors(g, Listed)
      BY <2>2, <3>1, DeepestIs
    <3> QED BY <3>1, <3>2
  <2> QED BY <1>1, <1>2, <2>2 DEF Over
<1>7. PICK O : O = Over(q) /\ O \subseteq Listed /\ O \subseteq Dirs
  BY <1>6
<1>8. /\ \A f \in O : Mine(f, Listed) \subseteq entry'
      /\ \A y \in entry :
            \/ \E f \in O : \E z \in Mine(f, Listed) : SamePlace(y, z)
            \/ y.src \in O \/ y \in entry'
  BY <1>1, <1>2, <1>7, ScanIs
<1>9. CASE s \in O
  BY <1>5, <1>8, <1>9
<1>10. CASE s \notin O
  <2>1. CASE ch.from = "none" /\ s = ch.f
    <3>1. Nearest(m, ch.f)
      BY <1>3, <1>4, <2>1 DEF Nearest
    <3>2. x \in entry
      BY <1>1, <2>1, <3>1 DEF Saved
    <3>3. ASSUME NEW f \in O, NEW z \in Mine(f, Listed), SamePlace(x, z) PROVE FALSE
      <4>1. f \in Listed /\ f \in Dirs
        BY <1>7
      <4>2. z.m = m /\ Within(home[m], f) /\ \A d \in Listed : Below(d, f) => ~Within(home[m], d)
        BY <1>2, <3>3, <4>1, MineIs DEF SamePlace
      <4>3. Within(s, f) /\ ~Below(s, f)
        BY <1>3, <1>4, <4>1, <4>2
      <4>4. f = s
        BY <4>3, BelowIs
      <4> QED BY <1>10, <4>4
    <3>4. x.src \notin O
      BY <1>10
    <3> QED BY <1>8, <3>2, <3>3, <3>4
  <2>2. CASE ch.to = "forget" /\ Below(ch.f, s)
    <3>1. ch.f \in q.gone /\ ch.f \in Dirs
      BY <1>1, <2>2 DEF Saved, Change
    <3>2. PICK A : A = Ancestors(ch.f, Listed)
      OBVIOUS
    <3>3. s \in A /\ A \subseteq Dirs /\ \A d \in A : d \in Listed /\ Within(ch.f, d)
      BY <1>2, <1>3, <2>2, <3>2, BelowIs DEF Ancestors
    <3>4. Deepest(A) \in A /\ \A e \in A : Len(e) <= Len(Deepest(A))
      BY <3>1, <3>3, DeepestIs
    <3>5. PICK t \in A : t = Deepest(A) /\ Len(s) <= Len(t)
      BY <3>3, <3>4
    <3>6. t \in Listed /\ t \in Dirs /\ Within(home[m], t)
      BY <1>2, <3>1, <3>3, <3>5, WithinOrder
    <3>7. Within(s, t) /\ Within(t, s)
      BY <1>2, <1>3, <1>4, <3>5, <3>6, WithinOrder
    <3>8. s = t
      BY <1>3, <3>5, <3>6, <3>7, WithinOrder
    <3>9. s \in Over(q)
      BY <1>1, <3>1, <3>2, <3>3, <3>5, <3>8 DEF Over
    <3> QED BY <1>7, <1>10, <3>9
  <2> QED BY <2>1, <2>2
<1> QED BY <1>9, <1>10


\* What is left of the bounds.
Bounded == left \in [requests : Nat, moves : Nat, crashes : Nat, ticks : Nat]

\* The bounds are never passed.
LEMMA BoundsHold == Spec => []Bounded
<1>1. Init => Bounded
  BY BoundAssumption DEF Init, Bounded
<1>2. ASSUME Bounded, [Next]_vars PROVE Bounded'
  <2>1. ASSUME NEW c \in Callers, Step(c) PROVE left' = left
    BY <2>1 DEF Step, Next1, Register, ScanSource, Forget, MangaRelease, ReleaseCheck, DeleteRows,
       Unregister, Relabel, Settle, DropSource, AdoptManga, Adopt, Insert, Upsert, ImportFolder,
       ReadList, RescanAncestors, ReadSource, Move, PublishMove
  <2>2. ASSUME NEW c \in Callers, Ask(c)
        PROVE  left.requests > 0 /\ left' = [left EXCEPT !.requests = @ - 1]
    BY <2>2 DEF Ask, Save, RemoveRoot, Add, AddFiles, ScanFiles, Browse, Rescan, Relocate, Begin
  <2>3. UNCHANGED vars \/ Start \/ Stop \/ ToolEnds => left' = left
    BY DEF vars, Start, Stop, ToolEnds
  <2>4. Tick => left.ticks > 0 /\ left' = [left EXCEPT !.ticks = @ - 1]
    BY DEF Tick
  <2>5. Crash => left.crashes > 0 /\ left' = [left EXCEPT !.crashes = @ - 1]
    BY DEF Crash
  <2>6. MoveFolder => left.moves > 0 /\ left' = [left EXCEPT !.moves = @ - 1]
    BY DEF MoveFolder
  <2>7. \/ left' = left
        \/ left.requests > 0 /\ left' = [left EXCEPT !.requests = @ - 1]
        \/ left.ticks > 0 /\ left' = [left EXCEPT !.ticks = @ - 1]
        \/ left.crashes > 0 /\ left' = [left EXCEPT !.crashes = @ - 1]
        \/ left.moves > 0 /\ left' = [left EXCEPT !.moves = @ - 1]
    BY <1>2, <2>1, <2>2, <2>3, <2>4, <2>5, <2>6 DEF Next
  <2> QED BY <1>2, <2>7 DEF Bounded
<1> QED BY <1>1, <1>2, PTL DEF Spec

\* A step of one request leaves the others.
LEMMA OthersWait ==
    ASSUME IInv, NEW u \in Callers, Step(u), NEW c \in Callers, c # u
    PROVE  job'[c] = job[c]
<1>1. job \in [Callers -> {job[a] : a \in Callers}]
  BY DEF IInv, JobsFit
<1>2. ASSUME NEW v, job' = [job EXCEPT ![u] = v] PROVE job'[c] = job[c]
  BY <1>1, <1>2
<1>3. \A a : To(u, a) => job'[c] = job[c]
  BY <1>1 DEF To
<1>4. Answer(u) => job'[c] = job[c]
  BY <1>1 DEF Answer
<1>5. Done(u) => job'[c] = job[c]
  BY <1>1, <1>3, <1>4 DEF Done
<1>6. Next1(u) \/ ScanSource(u) \/ Forget(u) \/ MangaRelease(u) \/ DeleteRows(u) \/ Settle(u)
         => job'[c] = job[c]
  BY <1>3, <1>4, <1>5 DEF Next1, ScanSource, Forget, MangaRelease, DeleteRows, Settle
<1>7. AdoptManga(u) \/ Adopt(u) \/ Insert(u) \/ Upsert(u) \/ ImportFolder(u) \/ RescanAncestors(u)
         => job'[c] = job[c]
  BY <1>3, <1>4, <1>5 DEF AdoptManga, Adopt, Insert, Upsert, ImportFolder, RescanAncestors
<1>8. Register(u) \/ ReleaseCheck(u) \/ Unregister(u) \/ ReadList(u) \/ ReadSource(u)
         => job'[c] = job[c]
  BY <1>1, <1>3, <1>4 DEF Register, ReleaseCheck, Unregister, ReadList, ReadSource
<1>9. Relabel(u) \/ DropSource(u) \/ Move(u) \/ PublishMove(u) => job'[c] = job[c]
  BY <1>1, <1>3, <1>4 DEF Relabel, DropSource, Move, PublishMove
<1> QED BY <1>6, <1>7, <1>8, <1>9 DEF Step

\* The only step that answers a request at its last scan is that scan.
LEMMA AnsweredBy ==
    ASSUME IInv, Bounded, [Next]_vars, NEW c \in Callers, job[c].at = "ancestors",
           job'[c] = Idle, left' = left
    PROVE  RescanAncestors(c)
<1>1. job[c] # Idle
  BY AtWork
<1>2. ~(UNCHANGED vars \/ Stop \/ Tick \/ ToolEnds)
  BY <1>1 DEF vars, Stop, Tick, ToolEnds
<1>3. ~(Start \/ MoveFolder)
  <2>1. NotAlone[c] # Idle
    BY <1>1, NotAloneIs
  <2> QED BY <2>1 DEF Start, MoveFolder
<1>4. ~Crash
  BY DEF Crash, Bounded
<1>5. ASSUME NEW u \in Callers PROVE ~Ask(u)
  <2>1. Ask(u) => left' = [left EXCEPT !.requests = @ - 1]
    BY DEF Ask, Save, RemoveRoot, Add, AddFiles, ScanFiles, Browse, Rescan, Relocate, Begin
  <2> QED BY <2>1 DEF Bounded
<1>6. PICK u \in Callers : Step(u)
  BY <1>2, <1>3, <1>4, <1>5 DEF Next
<1>7. u = c
  BY <1>1, <1>6, OthersWait
<1>8. ~ \/ Next1(c) \/ Register(c) \/ ScanSource(c) \/ Forget(c) \/ MangaRelease(c)
        \/ ReleaseCheck(c) \/ DeleteRows(c) \/ Unregister(c) \/ Relabel(c) \/ Settle(c)
        \/ DropSource(c) \/ AdoptManga(c) \/ Adopt(c) \/ Insert(c) \/ Upsert(c) \/ ImportFolder(c)
        \/ ReadList(c) \/ ReadSource(c) \/ Move(c) \/ PublishMove(c)
  BY DEF Next1, Register, ScanSource, Forget, MangaRelease, ReleaseCheck, DeleteRows,
     Unregister, Relabel, Settle, DropSource, AdoptManga, Adopt, Insert, Upsert, ImportFolder,
     ReadList, ReadSource, Move, PublishMove
<1> QED BY <1>6, <1>7, <1>8 DEF Step

\* When a batch that ran alone is answered, each folder it added shows its files,
\* and each source over one it forgot shows what that folder hid.
THEOREM AnswersAreBrowsable == Spec => AnswerIsBrowsable
<1> DEFINE Browsable ==
        \A c \in Callers :
            job[c].at = "ancestors" /\ job[c].alone /\ job'[c] = Idle /\ left' = left =>
                \A ch \in job[c].asked, m \in Media :
                    LET over == {d \in Listed : Within(home[m], d)}
                        s    == Deepest(over)
                    IN  /\ home[m] \in there /\ Within(home[m], ch.f) /\ over # {}
                        /\ \/ ch.from = "none" /\ s = ch.f
                           \/ ch.to = "forget" /\ Below(ch.f, s)
                        => [at |-> home[m], m |-> m] \in Shown(s)'
<1>1. ASSUME IInv, Bounded, [Next]_vars PROVE Browsable
  <2> SUFFICES ASSUME NEW c \in Callers, job[c].at = "ancestors", job[c].alone, job'[c] = Idle,
                      left' = left, NEW ch \in job[c].asked, NEW m \in Media,
                      home[m] \in there, Within(home[m], ch.f),
                      {d \in Listed : Within(home[m], d)} # {},
                      \/ ch.from = "none" /\ Deepest({d \in Listed : Within(home[m], d)}) = ch.f
                      \/ ch.to = "forget" /\ Below(ch.f, Deepest({d \in Listed : Within(home[m], d)}))
               PROVE  [at |-> home[m], m |-> m]
                          \in Shown(Deepest({d \in Listed : Within(home[m], d)}))'
    OBVIOUS
  <2>1. RescanAncestors(c)
    BY <1>1, AnsweredBy
  <2>2. home' = home /\ source' = source
    BY <2>1 DEF RescanAncestors, disk, lists
  <2>3. PICK s : s = Deepest({d \in Listed : Within(home[m], d)})
    OBVIOUS
  <2>4. PICK x \in entry' : x = [at |-> home[m], m |-> m, src |-> s, on |-> TRUE]
    BY <1>1, <2>1, <2>3, ShownAfter
  <2>5. x.at = home[m] /\ x.m = m /\ x.src = s /\ x.on
    BY <2>4
  <2>6. s = (Deepest({d \in Listed : Within(home[m], d)}))'
    BY <2>2, <2>3, SourceKept
  <2> QED BY <2>2, <2>5, <2>6 DEF Shown
<1>2. ASSUME IInv, Bounded, [Next]_vars PROVE [Browsable]_vars
  BY <1>1, <1>2
<1> QED BY <1>2, FoldersInductive, BoundsHold, PTL DEF Spec, AnswerIsBrowsable
=============================================================================
