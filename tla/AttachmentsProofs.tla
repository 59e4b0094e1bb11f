-------------------------- MODULE AttachmentsProofs --------------------------
(***************************************************************************)
(* Proofs about Attachments, for every set of threads, subjects, names and *)
(* stores and any number of notes and rows.                                *)
(***************************************************************************)
EXTENDS Attachments, WellFoundedInduction, TLAPS

-----------------------------------------------------------------------------
\* What a request of each kind holds.
Steps ==
    [upload  |-> {"find", "upsert", "insert"}, put |-> {"find", "upsert", "drop"},
     forget  |-> {"drop"}, delete |-> {"remove", "count", "prune", "drop", "unlink"},
     copy    |-> {"find", "upsert", "next", "insert"},
     migrate |-> {"list", "look", "copy", "repoint"}]
Blank == [id : {0}, note : 0..MaxNotes]

Uploads == [at : Steps.upload, kind : {"upload"}, subject : Subjects, text : {"keep"},
            note : 0..MaxNotes, row : Row, held : SUBSET Digests]
Puts == [at : Steps.put, kind : {"put"}, subject : Subjects, text : {"set", "clear"},
         note : 0..MaxNotes, row : {NoRow}, held : {{}}]
Forgets == [at : Steps.forget, kind : {"forget"}, note : 0..MaxNotes]
Deletes == [at : Steps.delete, kind : {"delete"}, row : Row, note : 0..MaxNotes,
            orphaned : BOOLEAN]
Copies == [at : Steps.copy, kind : {"copy"}, subject : Subjects, note : 0..MaxNotes,
           text : {"set", "keep"}, row : Row \cup Blank, todo : SUBSET Row, held : SUBSET Digests]
Migrations == [at : Steps.migrate, kind : {"migrate"}, root : Roots, todo : SUBSET Row,
               upto : 0..MaxRows, row : Row \cup {NoRow}]

\* A request is one of these; where it is about to use a row, it has one.
Fits(q) ==
    /\ q \in {Idle} \cup Uploads \cup Puts \cup Forgets \cup Deletes \cup Copies \cup Migrations
    /\ q.kind = "put" /\ q.at = "drop" => q.text = "clear"
    /\ q.kind = "delete" /\ q.at = "unlink" => q.orphaned
    /\ q.kind = "copy" /\ q.at = "insert" => q.row \in Row
    /\ q.kind = "migrate" /\ q.at \in {"copy", "repoint"} => q.row \in Row

RequestsFit == request \in [Threads -> {request[t] : t \in Threads}]
               /\ \A t \in Threads : Fits(request[t])

\* The note a request works on is one there was: its subject's when the note is
\* about to be written, and that of the row about to be added.
NoteFits(q) ==
    /\ q.at = "upsert" => /\ q.note <= lastNote
                          /\ \A s \in Subjects : note[s] = q.note => q.note = 0 \/ s = q.subject
    /\ q.at = "insert" => q.row.note = q.note
    /\ q.at = "drop" \/ q.kind = "delete" => q.note \in 1..lastNote

\* The rows a migration has yet to look at, or is moving, are as it read them
\* unless they are gone: no other request changes a row.
Ahead(q) == q.todo \cup (IF q.at \in {"copy", "repoint"} THEN {q.row} ELSE {})
AsRead(q) ==
    q.kind = "migrate" =>
        /\ q.upto <= lastRow
        /\ \A z \in Ahead(q) : z.id <= lastRow /\ \A r \in rows : r.id = z.id => r = z
        /\ \A y, z \in Ahead(q) : y.id = z.id => y = z
        /\ q.at \in {"copy", "repoint"} => q.row \notin q.todo

\* What a migration has passed is browsable.
Passed(q) ==
    q.kind = "migrate" /\ q.at # "list" =>
        \A r \in rows : r.id <= q.upto =>
            \/ Browsable(r) \/ Digest[r.name] \in racedBytes
            \/ \E z \in Ahead(q) : z.id = r.id

\* The bytes that a request relies on are there, unless its digest is marked.
Relies(q) == q.kind = "upload" \/ q.at \in {"insert", "repoint"}
Held(root, name, layouts) ==
    Digest[name] \in racedBytes \/ \E l \in layouts : <<root, l, name>> \in disk
HasBytes(q) ==
    Relies(q) => IF q.at = "repoint" THEN Held(q.root, q.row.name, {"folder"})
                 ELSE Held(q.row.root, q.row.name, Layouts)

\* A note that a request found empty and is about to delete is still empty.
StillEmpty(q) ==
    q.at = "drop" /\ q.kind # "forget" =>
        \/ q.note \in racedNotes
        \/ RowsOf(q.note) = {} /\ (q.kind = "delete" => q.note \notin words)

\* What every request knows is true.
Known == \A t \in Threads : /\ NoteFits(request[t]) /\ AsRead(request[t]) /\ Passed(request[t])
                            /\ HasBytes(request[t]) /\ StillEmpty(request[t])

OneMigration ==
    \A t, u \in Threads : request[t].kind = "migrate" /\ request[u].kind = "migrate" => t = u

\* Who overlaps is marked.
RacesAreMarked ==
    /\ Relying \cap Unlinking \subseteq racedBytes
    /\ Writing \cap Dropping \subseteq racedNotes

\* No row needs the bytes that a request is about to unlink.
NobodyNeeds ==
    \A d \in Unlinking : d \in racedBytes \/ \A r \in rows : Digest[r.name] # d

IInv ==
    /\ TypeOK
    /\ RequestsFit
    /\ Known
    /\ OneMigration
    /\ RacesAreMarked
    /\ RowsResolve
    /\ NobodyNeeds

-----------------------------------------------------------------------------
(* Requests and what they hold.                                            *)

\* A request is known by where it is.
LEMMA Kinds ==
    ASSUME NEW q, Fits(q)
    PROVE  /\ q.kind = "upload"  => q \in Uploads
           /\ q.kind = "put"     => q \in Puts
           /\ q.kind = "forget"  => q \in Forgets
           /\ q.kind = "delete"  => q \in Deletes
           /\ q.kind = "copy"    => q \in Copies
           /\ q.kind = "migrate" => q \in Migrations
           /\ q.kind = "none" <=> q = Idle
           /\ q.at = "upsert"  => q.kind \in {"upload", "put", "copy"}
           /\ q.at = "insert"  => q.kind \in {"upload", "copy"} /\ q.row \in Row
           /\ q.at = "drop"    => q.kind \in {"put", "forget", "delete"}
           /\ q.at = "repoint" => q.kind = "migrate"
BY DEF Fits, Uploads, Puts, Forgets, Deletes, Copies, Migrations, Idle, Steps

\* A step of one request.
Moves(t) == request' = [request EXCEPT ![t] = request'[t]] /\ Fits(request'[t])

\* The history of a step.
Marks ==
    /\ racedBytes' = {d \in racedBytes \cup (Relying \cap Unlinking)' : d \in InUse'}
    /\ racedNotes' = {n \in racedNotes \cup (Writing \cap Dropping)' : n \in Dropping'}

\* A step of one request leaves the others where they are.
LEMMA OthersStay ==
    ASSUME RequestsFit, NEW t \in Threads, Moves(t)
    PROVE  /\ RequestsFit'
           /\ \A u \in Threads : u # t => request'[u] = request[u]
BY DEF RequestsFit, Moves

\* Who relies on bytes has a name for them.
LEMMA RelyingOnNames ==
    ASSUME NEW q, Fits(q), Relies(q)
    PROVE  q.row.name \in Names /\ q.row.root \in Roots
BY Kinds DEF Relies, Uploads, Row, Migrations, Fits

\* Whoever relies on bytes keeps their digest in use.
LEMMA Relied ==
    ASSUME NEW u \in Threads, Relies(request[u])
    PROVE  Digest[request[u].row.name] \in Relying
BY DEF Relies, Relying

\* What is in use stays marked.
LEMMA MarksStay ==
    ASSUME Marks
    PROVE  /\ RacesAreMarked'
           /\ \A d \in racedBytes : d \in InUse' => d \in racedBytes'
           /\ \A n \in racedNotes : n \in Dropping' => n \in racedNotes'
           /\ (Relying \cup Unlinking)' \subseteq InUse'
BY DEF Marks, RacesAreMarked, InUse

-----------------------------------------------------------------------------
(* What a step leaves true, in terms of the marks before it.               *)

HeldNow(root, name, layouts) ==
    Digest[name] \in racedBytes \/ \E l \in layouts : <<root, l, name>> \in disk'

NoteFitsNow(q) ==
    /\ q.at = "upsert" => /\ q.note <= lastNote'
                          /\ \A s \in Subjects : note'[s] = q.note => q.note = 0 \/ s = q.subject
    /\ q.at = "insert" => q.row.note = q.note
    /\ q.at = "drop" \/ q.kind = "delete" => q.note \in 1..lastNote'

AsReadNow(q) ==
    q.kind = "migrate" =>
        /\ q.upto <= lastRow'
        /\ \A z \in Ahead(q) : z.id <= lastRow' /\ \A r \in rows' : r.id = z.id => r = z
        /\ \A y, z \in Ahead(q) : y.id = z.id => y = z
        /\ q.at \in {"copy", "repoint"} => q.row \notin q.todo

PassedNow(q) ==
    q.kind = "migrate" /\ q.at # "list" =>
        \A r \in rows' : r.id <= q.upto =>
            HeldNow(r.root, r.name, {"folder"}) \/ \E z \in Ahead(q) : z.id = r.id

HasBytesNow(q) ==
    Relies(q) => IF q.at = "repoint" THEN HeldNow(q.root, q.row.name, {"folder"})
                 ELSE HeldNow(q.row.root, q.row.name, Layouts)

StillEmptyNow(q) ==
    q.at = "drop" /\ q.kind # "forget" =>
        \/ q.note \in racedNotes
        \/ /\ \A r \in rows' : r.note # q.note
           /\ q.kind = "delete" => q.note \notin words'

KnowsNow(q) == NoteFitsNow(q) /\ AsReadNow(q) /\ PassedNow(q) /\ HasBytesNow(q) /\ StillEmptyNow(q)

\* A step unlinks only the bytes it is about to unlink.
BytesStay == \A b \in disk : b \in disk' \/ Digest[b[3]] \in Unlinking

\* Notes and rows get new ids; what is written to a note is announced.
NotesStay ==
    /\ lastNote' \in Nat /\ lastNote <= lastNote'
    /\ \A s \in Subjects : note'[s] \in {0, note[s]} \/ note'[s] > lastNote
    /\ \A n \in words' : n \in words \/ n \in Writing \/ n > lastNote
RowsStay ==
    /\ lastRow' \in Nat /\ lastRow <= lastRow'
    /\ \A r \in rows' : r.id \in Nat
    /\ \A r \in rows' : (\E q \in rows : q.name = r.name) \/ Digest[r.name] \in Relying
    /\ \A r \in rows' : (\E q \in rows : q.note = r.note) \/ r.note \in Writing

\* A step that changes no row that was there.
NoRowChanges == \A r \in rows' : r \in rows \/ r.id > lastRow

\* Bytes that a row or a request needs are there, or their digest is marked.
LEMMA BytesHeld ==
    ASSUME IInv, BytesStay, NEW root, NEW name, NEW layouts, Held(root, name, layouts),
           Digest[name] \in Relying \/ \E r \in rows : r.name = name
    PROVE  HeldNow(root, name, layouts)
<1>1. CASE Digest[name] \in racedBytes
  BY <1>1 DEF HeldNow
<1>2. CASE Digest[name] \notin racedBytes
  <2>1. PICK l \in layouts : <<root, l, name>> \in disk
    BY <1>2 DEF Held
  <2>2. Digest[name] \notin Unlinking
    BY <1>2 DEF IInv, RacesAreMarked, NobodyNeeds
  <2>3. <<root, l, name>> \in disk'
    BY <2>1, <2>2 DEF BytesStay
  <2> QED BY <2>3 DEF HeldNow
<1> QED BY <1>1, <1>2

\* What a request knows stays true.
LEMMA StillKnown ==
    ASSUME IInv, BytesStay, NotesStay, RowsStay, NEW u \in Threads,
           NoRowChanges \/ request[u].kind # "migrate"
    PROVE  KnowsNow(request[u])
<1> DEFINE q == request[u]
<1>k. /\ NoteFits(q) /\ AsRead(q) /\ Passed(q) /\ HasBytes(q) /\ StillEmpty(q)
  BY DEF IInv, Known
<1>f. Fits(q)
  BY DEF IInv, RequestsFit
<1>l. lastNote \in Nat /\ lastRow \in Nat /\ lastNote' \in Nat /\ lastRow' \in Nat
      /\ lastNote <= lastNote' /\ lastRow <= lastRow'
  BY BoundAssumption DEF IInv, TypeOK, NotesStay, RowsStay
<1>1. NoteFitsNow(q)
  <2>1. q.at = "upsert" \/ q.at = "drop" \/ q.kind = "delete" => q.note \in Nat
    BY <1>f, Kinds, BoundAssumption DEF Uploads, Puts, Copies, Forgets, Deletes
  <2>2. ASSUME q.at = "upsert"
        PROVE  /\ q.note <= lastNote'
               /\ \A s \in Subjects : note'[s] = q.note => q.note = 0 \/ s = q.subject
    <3>1. /\ q.note \in Nat /\ q.note <= lastNote
          /\ \A s \in Subjects : note[s] = q.note => q.note = 0 \/ s = q.subject
      BY <1>k, <2>1, <2>2 DEF NoteFits
    <3> QED BY <3>1, <1>l DEF NotesStay
  <2>3. q.at = "insert" => q.row.note = q.note
    BY <1>k DEF NoteFits
  <2>4. q.at = "drop" \/ q.kind = "delete" => q.note \in 1..lastNote'
    <3>1. q.at = "drop" \/ q.kind = "delete" => q.note \in 1..lastNote
      BY <1>k DEF NoteFits
    <3> QED BY <3>1, <1>l
  <2> QED BY <2>2, <2>3, <2>4 DEF NoteFitsNow
<1>m. q.kind = "migrate" =>
        /\ q.upto \in Nat /\ NoRowChanges
        /\ \A z \in Ahead(q) : z \in Row /\ z.id \in Nat
  <2> SUFFICES ASSUME q.kind = "migrate" PROVE /\ q.upto \in Nat /\ NoRowChanges
        /\ \A z \in Ahead(q) : z \in Row /\ z.id \in Nat
    OBVIOUS
  <2>1. q \in Migrations /\ (q.at \in {"copy", "repoint"} => q.row \in Row)
    BY <1>f, Kinds DEF Fits
  <2>2. \A z \in Ahead(q) : z \in Row
    BY <2>1 DEF Ahead, Migrations
  <2>3. \A z \in Row : z.id \in Nat
    BY BoundAssumption DEF Row
  <2> QED BY <2>1, <2>2, <2>3, BoundAssumption DEF Migrations
<1>2. AsReadNow(q)
  <2> SUFFICES ASSUME q.kind = "migrate" PROVE AsReadNow(q)
    BY DEF AsReadNow
  <2> HIDE DEF q
  <2>1. /\ q.upto <= lastRow
        /\ \A z \in Ahead(q) : z.id <= lastRow /\ \A r \in rows : r.id = z.id => r = z
        /\ \A y, z \in Ahead(q) : y.id = z.id => y = z
        /\ q.at \in {"copy", "repoint"} => q.row \notin q.todo
    BY <1>k DEF AsRead
  <2>2. q.upto <= lastRow'
    BY <2>1, <1>m, <1>l
  <2>3. ASSUME NEW z \in Ahead(q) PROVE z.id <= lastRow' /\ \A r \in rows' : r.id = z.id => r = z
    <3>1. z.id \in Nat /\ z.id <= lastRow /\ \A r \in rows : r.id = z.id => r = z
      BY <2>1, <1>m, <2>3
    <3> QED BY <3>1, <1>l, <1>m DEF NoRowChanges
  <2> QED BY <2>1, <2>2, <2>3 DEF AsReadNow
<1>3. PassedNow(q)
  <2> SUFFICES ASSUME q.kind = "migrate", q.at # "list", NEW r \in rows', r.id <= q.upto
               PROVE  HeldNow(r.root, r.name, {"folder"}) \/ \E z \in Ahead(q) : z.id = r.id
    BY DEF PassedNow
  <2> HIDE DEF q
  <2>1. r \in rows
    <3>1. q.upto \in Nat /\ q.upto <= lastRow
      BY <1>k, <1>m DEF AsRead
    <3>2. r \in rows \/ r.id > lastRow
      BY <1>m DEF NoRowChanges
    <3> QED BY <3>1, <3>2, <1>l DEF RowsStay
  <2>2. CASE \E z \in Ahead(q) : z.id = r.id
    BY <2>2
  <2>3. CASE Held(r.root, r.name, {"folder"})
    BY <2>1, <2>3, BytesHeld
  <2>4. Browsable(r) \/ Digest[r.name] \in racedBytes \/ \E z \in Ahead(q) : z.id = r.id
    BY <1>k, <2>1 DEF Passed
  <2> QED BY <2>2, <2>3, <2>4 DEF Held, Browsable
<1>4. HasBytesNow(q)
  <2> SUFFICES ASSUME Relies(q) PROVE HasBytesNow(q)
    BY DEF HasBytesNow
  <2>1. Digest[q.row.name] \in Relying
    BY Relied
  <2>2. CASE q.at = "repoint"
    <3>1. Held(q.root, q.row.name, {"folder"})
      BY <1>k, <2>2 DEF HasBytes
    <3>2. HeldNow(q.root, q.row.name, {"folder"})
      BY <2>1, <3>1, BytesHeld
    <3> QED BY <3>2, <2>2 DEF HasBytesNow
  <2>3. CASE q.at # "repoint"
    <3>1. Held(q.row.root, q.row.name, Layouts)
      BY <1>k, <2>3 DEF HasBytes
    <3>2. HeldNow(q.row.root, q.row.name, Layouts)
      BY <2>1, <3>1, BytesHeld
    <3> QED BY <3>2, <2>3 DEF HasBytesNow
  <2> QED BY <2>2, <2>3
<1>5. StillEmptyNow(q)
  <2> SUFFICES ASSUME q.at = "drop", q.kind # "forget", q.note \notin racedNotes
               PROVE  /\ \A r \in rows' : r.note # q.note
                      /\ q.kind = "delete" => q.note \notin words'
    BY DEF StillEmptyNow
  <2>1. q.note \in Dropping
    BY DEF Dropping
  <2>2. q.note \notin Writing
    BY <2>1 DEF IInv, RacesAreMarked
  <2>3. q.note \in 1..lastNote
    BY <1>k DEF NoteFits
  <2>4. RowsOf(q.note) = {} /\ (q.kind = "delete" => q.note \notin words)
    BY <1>k DEF StillEmpty
  <2>5. \A r \in rows : r.note # q.note
    BY <2>4 DEF RowsOf
  <2> HIDE DEF q
  <2>6. \A r \in rows' : r.note # q.note
    BY <2>2, <2>5 DEF RowsStay
  <2>7. q.kind = "delete" => q.note \notin words'
    BY <2>2, <2>3, <2>4, <1>l DEF NotesStay
  <2> QED BY <2>6, <2>7
<1> QED BY <1>1, <1>2, <1>3, <1>4, <1>5 DEF KnowsNow

\* The types of all but the history.
TablesOK ==
    /\ disk \subseteq Roots \X Layouts \X Names
    /\ note \in [Subjects -> 0..lastNote]
    /\ words \subseteq {note[s] : s \in Subjects} \ {0}
    /\ rows \subseteq Row
    /\ \A r \in rows : Live(r.note) /\ r.id \in 1..lastRow
    /\ \A r, q \in rows : r.id = q.id => r = q
    /\ \A s, z \in Subjects : note[s] = note[z] => s = z \/ note[s] = 0
    /\ lastNote \in 0..MaxNotes /\ lastRow \in 0..MaxRows

\* A request that found no row with its bytes, and will unlink them.
Unlinks(q) == q.at \in {"prune", "drop", "unlink"} /\ q.kind = "delete" /\ q.orphaned

\* What a step of one thread has to do for the invariant.
LEMMA StepKeeps ==
    ASSUME IInv, Marks, NEW t \in Threads, Moves(t), TablesOK', BytesStay, NotesStay, RowsStay,
           NoRowChanges \/ request[t].kind = "migrate",
           request'[t].kind = "migrate" => request[t].kind = "migrate" \/ Alone("migrate"),
           KnowsNow(request'[t]),
           \A r \in rows' : HeldNow(r.root, r.name, Layouts),
           Unlinks(request'[t]) => \/ Digest[request'[t].row.name] \in Unlinking
                                   \/ \A r \in rows' : Digest[r.name] # Digest[request'[t].row.name]
    PROVE  IInv'
<1>1. RequestsFit' /\ \A u \in Threads : u # t => request'[u] = request[u]
  BY OthersStay DEF IInv
<1>2. OneMigration'
  BY <1>1 DEF IInv, OneMigration, Alone
<1>3. \A u \in Threads : KnowsNow(request'[u])
  <2>1. ASSUME NEW u \in Threads, u # t PROVE KnowsNow(request[u])
    <3>1. NoRowChanges \/ request[u].kind # "migrate"
      BY <2>1 DEF IInv, OneMigration
    <3> QED BY <3>1, StillKnown
  <2> QED BY <2>1, <1>1
<1>m. /\ RacesAreMarked'
      /\ \A d \in racedBytes : d \in InUse' => d \in racedBytes'
      /\ \A n \in racedNotes : n \in Dropping' => n \in racedNotes'
      /\ (Relying \cup Unlinking)' \subseteq InUse'
  BY MarksStay
<1>d. \A d \in racedBytes : d \in Digests
  BY DEF IInv, TypeOK
<1>4. \A u \in Threads : NoteFits(request[u])' /\ AsRead(request[u])'
  BY <1>3 DEF KnowsNow, NoteFits, NoteFitsNow, AsRead, AsReadNow
<1>5. ASSUME NEW u \in Threads PROVE Passed(request[u])'
  <2> SUFFICES ASSUME request'[u].kind = "migrate", request'[u].at # "list",
                      NEW r \in rows', r.id <= request'[u].upto
               PROVE  Browsable(r)' \/ Digest[r.name] \in racedBytes'
                      \/ \E z \in Ahead(request'[u]) : z.id = r.id
    BY DEF Passed
  <2>1. HeldNow(r.root, r.name, {"folder"}) \/ \E z \in Ahead(request'[u]) : z.id = r.id
    BY <1>3 DEF KnowsNow, PassedNow
  <2>2. Digests \subseteq InUse'
    BY DEF InUse, Alone
  <2> QED BY <2>1, <2>2, <1>m, <1>d DEF HeldNow, Browsable
<1>6. ASSUME NEW u \in Threads PROVE HasBytes(request[u])'
  <2> SUFFICES ASSUME Relies(request'[u])
               PROVE  IF request'[u].at = "repoint"
                      THEN Held(request[u].root, request[u].row.name, {"folder"})'
                      ELSE Held(request[u].row.root, request[u].row.name, Layouts)'
    BY DEF HasBytes
  <2>1. Digest[request'[u].row.name] \in InUse'
    BY <1>m DEF Relies, Relying
  <2>2. HasBytesNow(request'[u])
    BY <1>3 DEF KnowsNow
  <2> QED BY <2>1, <2>2, <1>m DEF HasBytesNow, HeldNow, Held
<1>7. ASSUME NEW u \in Threads PROVE StillEmpty(request[u])'
  <2> SUFFICES ASSUME request'[u].at = "drop", request'[u].kind # "forget"
               PROVE  \/ request'[u].note \in racedNotes'
                      \/ /\ RowsOf(request[u].note)' = {}
                         /\ request'[u].kind = "delete" => request'[u].note \notin words'
    BY DEF StillEmpty
  <2>1. request'[u].note \in Dropping'
    BY DEF Dropping
  <2>2. StillEmptyNow(request'[u])
    BY <1>3 DEF KnowsNow
  <2> QED BY <2>1, <2>2, <1>m DEF StillEmptyNow, RowsOf
<1>8. Known'
  BY <1>4, <1>5, <1>6, <1>7 DEF Known
<1>9. RowsResolve'
  <2> SUFFICES ASSUME NEW r \in rows', ~Resolves(r)' PROVE Digest[r.name] \in racedBytes'
    BY DEF RowsResolve
  <2>1. Digest[r.name] \in InUse'
    BY DEF InUse
  <2> QED BY <2>1, <1>m DEF HeldNow, Resolves
<1>10. NobodyNeeds'
  <2> SUFFICES ASSUME NEW u \in Threads, Unlinks(request'[u]), NEW r \in rows',
                      Digest[r.name] = Digest[request'[u].row.name]
               PROVE  Digest[r.name] \in racedBytes'
    BY DEF NobodyNeeds, Unlinking, Unlinks
  <2>1. Digest[r.name] \in Unlinking'
    BY DEF Unlinking, Unlinks
  <2>2. Digest[r.name] \in Unlinking
    BY <1>1 DEF Unlinking, Unlinks
  <2>3. Digest[r.name] \in racedBytes
    BY <2>2 DEF RowsStay, IInv, NobodyNeeds, RacesAreMarked
  <2> QED BY <2>1, <2>3, <1>m
<1>11. TypeOK'
  <2>1. racedBytes' \subseteq Digests
    <3>1. \A u \in Threads : Relies(request'[u]) => Digest[request'[u].row.name] \in Digests
      BY <1>1, RelyingOnNames DEF RequestsFit, Digests
    <3>2. Relying' \subseteq Digests
      BY <3>1 DEF Relying, Relies
    <3> QED BY <3>2, <1>d DEF Marks
  <2>2. racedNotes' \subseteq 1..MaxNotes
    <3>1. \A u \in Threads : request'[u].at = "drop" => request'[u].note \in 1..MaxNotes
      <4>1. lastNote' \in Nat /\ lastNote' <= MaxNotes
        BY BoundAssumption DEF TablesOK
      <4> QED BY <1>3, <4>1, BoundAssumption DEF KnowsNow, NoteFitsNow
    <3> QED BY <3>1 DEF Marks, Dropping
  <2> QED BY <2>1, <2>2 DEF TablesOK, TypeOK
<1> QED BY <1>1, <1>2, <1>m, <1>8, <1>9, <1>10, <1>11 DEF IInv

-----------------------------------------------------------------------------
(* Steps that change neither tables nor stores.                            *)

Quiet == UNCHANGED <<disk, tables>>

\* A step that leaves the tables alone leaves true what the rows and the
\* requests need of them.
LEMMA TablesStay ==
    ASSUME IInv, UNCHANGED tables, disk' \subseteq Roots \X Layouts \X Names, BytesStay
    PROVE  /\ NotesStay /\ RowsStay /\ NoRowChanges /\ TablesOK'
           /\ \A r \in rows' : HeldNow(r.root, r.name, Layouts)
           /\ \A u \in Threads : KnowsNow(request[u])
<1>1. /\ note' = note /\ words' = words /\ rows' = rows
      /\ lastNote' = lastNote /\ lastRow' = lastRow
  BY DEF tables
<1>t. TypeOK
  BY DEF IInv
<1>2. NoRowChanges
  BY <1>1 DEF NoRowChanges
<1>3. lastNote \in Nat /\ lastRow \in Nat /\ \A r \in rows : r.id \in Nat
  BY <1>t, BoundAssumption DEF TypeOK, Row
<1>4. NotesStay /\ RowsStay
  BY <1>1, <1>3 DEF NotesStay, RowsStay
<1>5. TablesOK'
  BY <1>1, <1>t DEF TypeOK, TablesOK, Live
<1>6. \A r \in rows' : HeldNow(r.root, r.name, Layouts)
  <2>1. \A r \in rows : Held(r.root, r.name, Layouts)
    BY DEF IInv, RowsResolve, Resolves, Held
  <2> QED BY <1>1, <2>1, BytesHeld
<1>7. \A u \in Threads : KnowsNow(request[u])
  BY <1>2, <1>4, StillKnown
<1> QED BY <1>2, <1>4, <1>5, <1>6, <1>7

\* So does a step that leaves the stores alone as well.
LEMMA QuietStays ==
    ASSUME IInv, Quiet
    PROVE  /\ BytesStay /\ NotesStay /\ RowsStay /\ NoRowChanges /\ TablesOK'
           /\ \A r \in rows' : HeldNow(r.root, r.name, Layouts)
           /\ \A u \in Threads : KnowsNow(request[u])
<1>1. UNCHANGED tables /\ disk' = disk
  BY DEF Quiet
<1>2. disk' \subseteq Roots \X Layouts \X Names /\ BytesStay
  BY <1>1 DEF IInv, TypeOK, BytesStay
<1> QED BY <1>1, <1>2, TablesStay

\* A request that ends, or is at no step that needs to know anything.
LEMMA IdleKnows ==
    /\ KnowsNow(Idle) /\ Fits(Idle) /\ ~Unlinks(Idle) /\ Idle.kind # "migrate"
BY DEF KnowsNow, NoteFitsNow, AsReadNow, PassedNow, HasBytesNow, StillEmptyNow, Idle, Fits,
       Relies, Unlinks

\* Such a step keeps the invariant if its request knows what it goes on with.
LEMMA QuietKeeps ==
    ASSUME IInv, Marks, NEW t \in Threads, Moves(t), Quiet, KnowsNow(request'[t]),
           request'[t].kind = "migrate" => request[t].kind = "migrate" \/ Alone("migrate"),
           Unlinks(request'[t]) => \/ Digest[request'[t].row.name] \in Unlinking
                                   \/ \A r \in rows' : Digest[r.name] # Digest[request'[t].row.name]
    PROVE  IInv'
BY QuietStays, StepKeeps

\* A request that ends is idle.
LEMMA EndMoves ==
    ASSUME IInv, NEW t \in Threads, End(t)
    PROVE  Moves(t) /\ request'[t] = Idle
<1>1. request'[t] = Idle
  BY DEF End, IInv, RequestsFit
<1>2. Fits(request'[t])
  BY <1>1, IdleKnows
<1>3. request' = [request EXCEPT ![t] = request'[t]]
  BY <1>1 DEF End
<1> QED BY <1>1, <1>2, <1>3 DEF Moves

\* A request that ends without a write keeps the invariant.
LEMMA EndKeeps ==
    ASSUME IInv, Marks, NEW t \in Threads, Quiet, End(t)
    PROVE  IInv'
<1>1. Moves(t) /\ request'[t] = Idle
  BY EndMoves
<1>2. KnowsNow(request'[t]) /\ ~Unlinks(request'[t]) /\ request'[t].kind # "migrate"
  BY <1>1, IdleKnows
<1> QED BY <1>1, <1>2, QuietKeeps

\* The types a request's step starts from.
LEMMA Kept ==
    ASSUME IInv, NEW t \in Threads
    PROVE  /\ Fits(request[t]) /\ DOMAIN request = Threads
           /\ lastNote \in 0..MaxNotes /\ lastRow \in 0..MaxRows
           /\ lastNote \in Nat /\ lastRow \in Nat
           /\ \A s \in Subjects : note[s] \in 0..lastNote /\ note[s] \in 0..MaxNotes
           /\ \A r \in rows : /\ r \in Row /\ r.note \in 1..lastNote /\ r.note \in 0..MaxNotes
                              /\ r.id \in 1..lastRow /\ r.id \in Nat
           /\ rows \subseteq Row
<1>t. TypeOK
  BY DEF IInv
<1>1. lastNote \in 0..MaxNotes /\ lastRow \in 0..MaxRows /\ lastNote \in Nat /\ lastRow \in Nat
      /\ \A n \in 0..lastNote : n \in 0..MaxNotes
  BY <1>t, BoundAssumption DEF TypeOK
<1>2. \A s \in Subjects : note[s] \in 0..lastNote
  BY <1>t DEF TypeOK
<1>3. \A r \in rows : r \in Row /\ r.id \in 1..lastRow /\ r.note \in 1..lastNote
  BY <1>t, <1>2, <1>1 DEF TypeOK, Live
<1>4. Fits(request[t]) /\ DOMAIN request = Threads
  BY DEF IInv, RequestsFit
<1> QED BY <1>1, <1>2, <1>3, <1>4

\* put_annotation reads the subject's note and goes on with it.
LEMMA BeginPutKeeps ==
    ASSUME IInv, Marks, NEW t \in Threads, BeginPut(t)
    PROVE  IInv'
<1> USE DEF BeginPut, Begin
<1>1. PICK s \in Subjects, text \in {"set", "clear"} :
        LET empty == text = "clear" /\ RowsOf(note[s]) = {}
        IN  /\ ~(empty /\ note[s] = 0)
            /\ Begin(t, [at |-> IF empty THEN "drop" ELSE "find", kind |-> "put", subject |-> s,
                         text |-> text, note |-> note[s], row |-> NoRow, held |-> {}])
  OBVIOUS
<1>k. /\ DOMAIN request = Threads /\ lastNote \in Nat
      /\ note[s] \in 0..lastNote /\ note[s] \in 0..MaxNotes
  BY Kept
<1>2. Quiet
  BY DEF Quiet
<1> DEFINE w == request'[t]
<1>3. /\ w.at \in {"drop", "find"} /\ w.kind = "put" /\ w.note = note[s]
      /\ w \in Puts
      /\ w.at = "drop" => w.text = "clear" /\ RowsOf(note[s]) = {} /\ note[s] # 0
  BY <1>1, <1>k DEF Puts, Steps
<1>4. Moves(t)
  <2>1. Fits(w)
    BY <1>3 DEF Fits
  <2>2. request' = [request EXCEPT ![t] = w]
    BY <1>1, <1>k
  <2> QED BY <2>1, <2>2 DEF Moves
<1>5. KnowsNow(w)
  <2>1. rows' = rows /\ lastNote' = lastNote
    BY <1>2 DEF Quiet, tables
  <2>2. NoteFitsNow(w)
    BY <2>1, <1>3, <1>k DEF NoteFitsNow
  <2>3. StillEmptyNow(w)
    BY <2>1, <1>3 DEF StillEmptyNow, RowsOf
  <2>4. AsReadNow(w) /\ PassedNow(w) /\ HasBytesNow(w)
    BY <1>3 DEF AsReadNow, PassedNow, HasBytesNow, Relies
  <2> QED BY <2>2, <2>3, <2>4 DEF KnowsNow
<1>6. ~Unlinks(w) /\ w.kind # "migrate"
  BY <1>3 DEF Unlinks
<1> QED BY <1>2, <1>4, <1>5, <1>6, QuietKeeps

\* delete_annotation reads the note it is about to delete.
LEMMA BeginForgetKeeps ==
    ASSUME IInv, Marks, NEW t \in Threads, BeginForget(t)
    PROVE  IInv'
<1>1. PICK s \in Subjects :
        note[s] # 0 /\ Begin(t, [at |-> "drop", kind |-> "forget", note |-> note[s]])
  BY DEF BeginForget
<1>k. /\ DOMAIN request = Threads /\ lastNote \in Nat
      /\ note[s] \in 0..lastNote /\ note[s] \in 0..MaxNotes
  BY Kept
<1>2. Quiet
  BY DEF Quiet, BeginForget
<1> DEFINE w == request'[t]
<1>3. w.at = "drop" /\ w.kind = "forget" /\ w.note = note[s] /\ w \in Forgets
  BY <1>1, <1>k DEF Forgets, Steps, Begin
<1>4. Moves(t)
  <2>1. Fits(w)
    BY <1>3 DEF Fits
  <2>2. request' = [request EXCEPT ![t] = w]
    BY <1>1, <1>k DEF Begin
  <2> QED BY <2>1, <2>2 DEF Moves
<1>5. KnowsNow(w)
  <2>1. lastNote' = lastNote
    BY <1>2 DEF Quiet, tables
  <2>2. NoteFitsNow(w)
    BY <2>1, <1>1, <1>3, <1>k DEF NoteFitsNow
  <2>4. AsReadNow(w) /\ PassedNow(w) /\ HasBytesNow(w) /\ StillEmptyNow(w)
    BY <1>3 DEF AsReadNow, PassedNow, HasBytesNow, Relies, StillEmptyNow
  <2> QED BY <2>2, <2>4 DEF KnowsNow
<1>6. ~Unlinks(w) /\ w.kind # "migrate"
  BY <1>3 DEF Unlinks
<1> QED BY <1>2, <1>4, <1>5, <1>6, QuietKeeps

\* The removal of an attachment begins with the row it read.
LEMMA BeginDeleteKeeps ==
    ASSUME IInv, Marks, NEW t \in Threads, BeginDelete(t)
    PROVE  IInv'
<1>1. PICK r \in rows :
        Begin(t, [at |-> "remove", kind |-> "delete", row |-> r, note |-> r.note,
                  orphaned |-> FALSE])
  BY DEF BeginDelete
<1>k. /\ DOMAIN request = Threads /\ lastNote \in Nat
      /\ r \in Row /\ r.note \in 1..lastNote /\ r.note \in 0..MaxNotes
  BY Kept
<1>2. Quiet
  BY DEF Quiet, BeginDelete
<1> DEFINE w == request'[t]
<1>3. w.at = "remove" /\ w.kind = "delete" /\ w.note = r.note /\ w \in Deletes
  BY <1>1, <1>k DEF Deletes, Steps, Begin
<1>4. Moves(t)
  <2>1. Fits(w)
    BY <1>3 DEF Fits
  <2>2. request' = [request EXCEPT ![t] = w]
    BY <1>1, <1>k DEF Begin
  <2> QED BY <2>1, <2>2 DEF Moves
<1>5. KnowsNow(w)
  <2>1. lastNote' = lastNote
    BY <1>2 DEF Quiet, tables
  <2>2. NoteFitsNow(w)
    BY <2>1, <1>3, <1>k DEF NoteFitsNow
  <2>4. AsReadNow(w) /\ PassedNow(w) /\ HasBytesNow(w) /\ StillEmptyNow(w)
    BY <1>3 DEF AsReadNow, PassedNow, HasBytesNow, Relies, StillEmptyNow
  <2> QED BY <2>2, <2>4 DEF KnowsNow
<1>6. ~Unlinks(w) /\ w.kind # "migrate"
  BY <1>3 DEF Unlinks
<1> QED BY <1>2, <1>4, <1>5, <1>6, QuietKeeps

\* The note of a subject as a request finds it is that subject's or none.
LEMMA FindKeeps ==
    ASSUME IInv, Marks, NEW t \in Threads, Find(t)
    PROVE  IInv'
<1> DEFINE q == request[t]
           w == request'[t]
<1>q. Fits(q) /\ q.at = "find" /\ q.kind \in {"upload", "put", "copy"} /\ q.subject \in Subjects
      /\ q \in Uploads \cup Puts \cup Copies
  BY Kinds DEF Find, At, IInv, RequestsFit, Uploads, Puts, Copies
<1>r. DOMAIN request = Threads
  BY DEF IInv, RequestsFit
<1>n. note[q.subject] \in 0..lastNote /\ lastNote \in 0..MaxNotes
      /\ \A s \in Subjects : note[s] = note[q.subject] => note[q.subject] = 0 \/ s = q.subject
  BY <1>q DEF IInv, TypeOK
<1>1. w = [q EXCEPT !.at = "upsert", !.note = note[q.subject]]
  BY <1>r DEF Find, GotoWith
<1>2. Quiet
  BY DEF Find, Quiet
<1>s. /\ BytesStay /\ NotesStay /\ RowsStay /\ NoRowChanges /\ TablesOK'
      /\ \A r \in rows' : HeldNow(r.root, r.name, Layouts)
      /\ \A u \in Threads : KnowsNow(request[u])
  BY <1>2, QuietStays
<1>3. w.at = "upsert" /\ w.kind = q.kind /\ w.note = note[q.subject] /\ w.subject = q.subject
      /\ (q.kind = "upload" => w.row = q.row)
      /\ w \in Uploads \cup Puts \cup Copies
  <2>1. note[q.subject] \in 0..MaxNotes
    BY <1>n, BoundAssumption
  <2>2. CASE q \in Uploads
    BY <1>1, <1>q, <2>1, <2>2 DEF Uploads, Steps
  <2>3. CASE q \in Puts
    BY <1>1, <1>q, <2>1, <2>3 DEF Puts, Steps
  <2>4. CASE q \in Copies
    BY <1>1, <1>q, <2>1, <2>4 DEF Copies, Steps
  <2> QED BY <1>q, <2>2, <2>3, <2>4
<1>4. Moves(t)
  <2>1. Fits(w)
    BY <1>3, <1>q DEF Fits
  <2>2. request' = [request EXCEPT ![t] = w]
    BY <1>1, <1>r DEF Find, GotoWith
  <2> QED BY <2>1, <2>2 DEF Moves
<1>5. KnowsNow(w)
  <2>1. NoteFitsNow(w)
    BY <1>2, <1>3, <1>n, <1>q DEF NoteFitsNow, Quiet, tables
  <2>2. HasBytesNow(w)
    BY <1>s, <1>3, <1>q DEF KnowsNow, HasBytesNow, Relies
  <2>3. AsReadNow(w) /\ PassedNow(w) /\ StillEmptyNow(w)
    BY <1>3, <1>q DEF AsReadNow, PassedNow, StillEmptyNow
  <2> QED BY <2>1, <2>2, <2>3 DEF KnowsNow
<1>6. ~Unlinks(w) /\ w.kind # "migrate"
  BY <1>3, <1>q DEF Unlinks
<1> HIDE DEF w
<1> QED BY <1>s, <1>4, <1>5, <1>6, StepKeeps DEF w

\* The count of a removal: what it finds is what it does.
LEMMA CountKeeps ==
    ASSUME IInv, Marks, NEW t \in Threads, Count(t)
    PROVE  IInv'
<1> DEFINE q == request[t]
           w == request'[t]
           yes == SameBytes(q.row) = {}
<1>k. /\ DOMAIN request = Threads /\ Fits(q) /\ q.kind = "delete" /\ q.at = "count" /\ q \in Deletes
  BY Kept, Kinds DEF Count, At
<1>2. Quiet
  BY DEF Quiet, Count
<1>s. KnowsNow(q) /\ rows' = rows
  BY <1>2, QuietStays DEF Quiet, tables
<1>1. request' = [request EXCEPT ![t] = [@ EXCEPT !.at = "prune", !.orphaned = yes]]
  BY DEF Count, GotoWith
<1>y. yes \in BOOLEAN
  OBVIOUS
<1>z. yes => \A r \in rows : Digest[r.name] # Digest[q.row.name]
  BY DEF SameBytes
<1> HIDE DEF yes
<1>3. /\ w.at = "prune" /\ w.kind = "delete" /\ w.note = q.note /\ w.row = q.row
      /\ w.orphaned = yes /\ w \in Deletes
  BY <1>1, <1>k, <1>y DEF Deletes, Steps
<1>4. Moves(t)
  <2>1. Fits(w)
    BY <1>3 DEF Fits
  <2>2. request' = [request EXCEPT ![t] = w]
    BY <1>1, <1>k
  <2> QED BY <2>1, <2>2 DEF Moves
<1>5. KnowsNow(w)
  <2>2. NoteFitsNow(w)
    BY <1>s, <1>3, <1>k DEF NoteFitsNow, KnowsNow
  <2>4. AsReadNow(w) /\ PassedNow(w) /\ HasBytesNow(w) /\ StillEmptyNow(w)
    BY <1>3 DEF AsReadNow, PassedNow, HasBytesNow, Relies, StillEmptyNow
  <2> QED BY <2>2, <2>4 DEF KnowsNow
<1>6. /\ w.kind # "migrate"
      /\ Unlinks(w) => \A r \in rows' : Digest[r.name] # Digest[w.row.name]
  BY <1>3, <1>s, <1>z DEF Unlinks
<1> QED BY <1>2, <1>4, <1>5, <1>6, QuietKeeps

\* A removal that goes on with what it holds unlinks what it was to unlink.
LEMMA GoesOn ==
    ASSUME NEW t \in Threads, Unlinks(request[t])
    PROVE  Digest[request[t].row.name] \in Unlinking
BY DEF Unlinks, Unlinking

\* A note found empty, here by a removal, is marked once someone writes to it.
LEMMA PruneLookKeeps ==
    ASSUME IInv, Marks, NEW t \in Threads, PruneLook(t)
    PROVE  IInv'
<1> DEFINE q == request[t]
           w == request'[t]
<1>k. /\ DOMAIN request = Threads /\ Fits(q) /\ q.kind = "delete" /\ q.at = "prune" /\ q \in Deletes
  BY Kept, Kinds DEF PruneLook, At
<1>2. Quiet
  BY DEF Quiet, PruneLook
<1>s. KnowsNow(q) /\ rows' = rows /\ words' = words
  BY <1>2, QuietStays DEF Quiet, tables
<1>1. \/ End(t)
      \/ Goto(t, "drop") /\ q.note \notin words /\ RowsOf(q.note) = {}
      \/ Goto(t, "unlink") /\ q.orphaned
  BY DEF PruneLook
<1>3. CASE End(t)
  BY <1>2, <1>3, EndKeeps
<1>4. ASSUME NEW step \in {"drop", "unlink"}, Goto(t, step),
             step = "drop" => q.note \notin words /\ RowsOf(q.note) = {},
             step = "unlink" => q.orphaned
      PROVE  IInv'
  <2>1. /\ w.at = step /\ w.kind = "delete" /\ w.note = q.note /\ w.row = q.row
        /\ w.orphaned = q.orphaned /\ w \in Deletes
    BY <1>k, <1>4 DEF Deletes, Steps, Goto
  <2>2. Moves(t)
    <3>1. Fits(w)
      BY <2>1, <1>4 DEF Fits
    <3>2. request' = [request EXCEPT ![t] = w]
      BY <1>4, <1>k DEF Goto
    <3> QED BY <3>1, <3>2 DEF Moves
  <2>3. KnowsNow(w)
    <3>2. NoteFitsNow(w)
      BY <1>s, <2>1, <1>k DEF NoteFitsNow, KnowsNow
    <3>3. StillEmptyNow(w)
      BY <1>s, <2>1, <1>4 DEF StillEmptyNow, RowsOf
    <3>4. AsReadNow(w) /\ PassedNow(w) /\ HasBytesNow(w)
      BY <2>1 DEF AsReadNow, PassedNow, HasBytesNow, Relies
    <3> QED BY <3>2, <3>3, <3>4 DEF KnowsNow
  <2>4. Unlinks(w) => Digest[w.row.name] \in Unlinking
    BY <2>1, <1>k, GoesOn DEF Unlinks
  <2>5. w.kind # "migrate"
    BY <2>1
  <2> QED BY <1>2, <2>2, <2>3, <2>4, <2>5, QuietKeeps
<1> QED BY <1>1, <1>3, <1>4

\* A copy begins with the rows its source had.
LEMMA BeginCopyKeeps ==
    ASSUME IInv, Marks, NEW t \in Threads, BeginCopy(t)
    PROVE  IInv'
<1>1. PICK from \in Subjects, to \in Subjects :
        Begin(t, [at |-> "find", kind |-> "copy", subject |-> to, note |-> 0,
                  text |-> IF note[from] \in words THEN "set" ELSE "keep",
                  row |-> NoRow, todo |-> RowsOf(note[from]), held |-> {}])
  BY DEF BeginCopy
<1>k. DOMAIN request = Threads /\ rows \subseteq Row
  BY Kept
<1>2. Quiet
  BY DEF Quiet, BeginCopy
<1> DEFINE w == request'[t]
<1>3. w.at = "find" /\ w.kind = "copy" /\ w \in Copies
  <2>1. RowsOf(note[from]) \in SUBSET Row
    BY <1>k DEF RowsOf
  <2>2. NoRow \in Blank
    BY BoundAssumption DEF NoRow, Blank
  <2>3. 0 \in 0..MaxNotes
    BY BoundAssumption
  <2> DEFINE text == IF note[from] \in words THEN "set" ELSE "keep"
  <2>4. text \in {"set", "keep"}
    OBVIOUS
  <2>5. w = [at |-> "find", kind |-> "copy", subject |-> to, note |-> 0,
             text |-> text, row |-> NoRow, todo |-> RowsOf(note[from]), held |-> {}]
    BY <1>1, <1>k DEF Begin
  <2> HIDE DEF text, w
  <2> QED BY <2>1, <2>2, <2>3, <2>4, <2>5 DEF Copies, Steps
<1>4. Moves(t)
  <2>1. Fits(w)
    BY <1>3 DEF Fits
  <2>2. request' = [request EXCEPT ![t] = w]
    BY <1>1, <1>k DEF Begin
  <2> QED BY <2>1, <2>2 DEF Moves
<1>5. KnowsNow(w)
  BY <1>3 DEF KnowsNow, NoteFitsNow, AsReadNow, PassedNow, HasBytesNow, Relies, StillEmptyNow
<1>6. ~Unlinks(w) /\ w.kind # "migrate"
  BY <1>3 DEF Unlinks
<1> QED BY <1>2, <1>4, <1>5, <1>6, QuietKeeps

\* A migration begins only while no other runs.
LEMMA BeginMigrateKeeps ==
    ASSUME IInv, Marks, NEW t \in Threads, BeginMigrate(t)
    PROVE  IInv'
<1>k. DOMAIN request = Threads /\ lastRow \in Nat
  BY Kept
<1>2. Quiet
  BY DEF Quiet, BeginMigrate
<1> DEFINE w == request'[t]
<1>3. w.at = "list" /\ w.kind = "migrate" /\ w \in Migrations /\ w.todo = {} /\ w.upto = 0
  BY <1>k, BoundAssumption DEF BeginMigrate, Begin, Migrations, Steps, Roots
<1>4. Moves(t)
  <2>1. Fits(w)
    BY <1>3 DEF Fits
  <2>2. request' = [request EXCEPT ![t] = w]
    BY <1>k DEF BeginMigrate, Begin
  <2> QED BY <2>1, <2>2 DEF Moves
<1>5. KnowsNow(w)
  <2>1. lastRow' \in Nat
    BY <1>2, <1>k DEF Quiet, tables
  <2>2. AsReadNow(w)
    BY <1>3, <2>1 DEF AsReadNow, Ahead
  <2> QED
    BY <1>3, <2>2 DEF KnowsNow, NoteFitsNow, PassedNow, HasBytesNow, Relies, StillEmptyNow
<1>6. ~Unlinks(w) /\ Alone("migrate")
  BY <1>3 DEF Unlinks, BeginMigrate
<1> QED BY <1>2, <1>4, <1>5, <1>6, QuietKeeps

\* A migration lists every row there is; all later ones are above its mark.
LEMMA ListKeeps ==
    ASSUME IInv, Marks, NEW t \in Threads, List(t)
    PROVE  IInv'
<1> DEFINE q == request[t]
           w == request'[t]
<1>k. /\ DOMAIN request = Threads /\ lastRow \in 0..MaxRows /\ lastRow \in Nat /\ rows \subseteq Row
      /\ \A r \in rows : r.id \in 1..lastRow
      /\ \A r, z \in rows : r.id = z.id => r = z
  BY Kept DEF IInv, TypeOK
<1>q. Fits(q) /\ q.kind = "migrate" /\ q \in Migrations
  BY Kept, Kinds DEF List, At
<1>2. Quiet
  BY DEF Quiet, List
<1>1. PICK f \in Settings : request' = [request EXCEPT ![t] =
               [@ EXCEPT !.at = "look", !.root = StoreRoot(f), !.todo = rows, !.upto = lastRow]]
  BY DEF List
<1>r. StoreRoot(f) \in Roots
  BY DEF Settings, StoreRoot, Roots
<1>3. w.at = "look" /\ w.kind = "migrate" /\ w \in Migrations /\ w.todo = rows /\ w.upto = lastRow
  BY <1>k, <1>q, <1>1, <1>r DEF Migrations, Steps
<1>4. Moves(t)
  <2>1. Fits(w)
    BY <1>3 DEF Fits
  <2>2. request' = [request EXCEPT ![t] = w]
    BY <1>1, <1>k
  <2> QED BY <2>1, <2>2 DEF Moves
<1>5. KnowsNow(w)
  <2>1. lastRow' = lastRow /\ rows' = rows
    BY <1>2 DEF Quiet, tables
  <2>2. Ahead(w) = rows
    BY <1>3 DEF Ahead
  <2>3. AsReadNow(w)
    BY <1>3, <1>k, <2>1, <2>2 DEF AsReadNow
  <2>4. PassedNow(w)
    BY <2>1, <2>2 DEF PassedNow
  <2> QED
    BY <1>3, <2>3, <2>4 DEF KnowsNow, NoteFitsNow, HasBytesNow, Relies, StillEmptyNow
<1>6. ~Unlinks(w)
  BY <1>3 DEF Unlinks
<1> QED BY <1>q, <1>2, <1>4, <1>5, <1>6, QuietKeeps

Below == {p \in Nat \X Nat : p[1] < p[2]}

\* The first of some rows is one of them.
LEMMA FirstIsThere ==
    ASSUME NEW S, S \subseteq Row, S # {}
    PROVE  First(S) \in S
<1> DEFINE ids == {r.id : r \in S}
<1>1. ids \subseteq Nat /\ ids # {}
  BY BoundAssumption DEF Row
<1>2. IsWellFoundedOn(Below, Nat)
  BY NatLessThanWellFounded DEF OpToRel, Below
<1>3. PICK least \in ids : \A m \in ids : ~ (<<m, least>> \in Below)
  <2> HIDE DEF ids
  <2> QED BY <1>1, <1>2, WFMin
<1>4. \A m \in ids : least <= m
  <2> SUFFICES ASSUME NEW m \in ids PROVE least <= m
    OBVIOUS
  <2>1. ~ (m < least) /\ m \in Nat /\ least \in Nat
    BY <1>1, <1>3 DEF Below
  <2> QED BY <2>1
<1>5. PICK r \in S : r.id = least
  OBVIOUS
<1>6. r \in S /\ \A q \in S : r.id <= q.id
  BY <1>4, <1>5
<1> QED BY <1>6 DEF First

\* A copy takes a row's name and root, so that its bytes are there or marked.
LEMMA CopyNextKeeps ==
    ASSUME IInv, Marks, NEW t \in Threads, CopyNext(t)
    PROVE  IInv'
<1> DEFINE q == request[t]
           w == request'[t]
           r == First(q.todo)
           found == {z \in rows : z.id = r.id /\ Digest[z.name] \notin q.held}
           row == IF found = {} THEN q.row ELSE [First(found) EXCEPT !.note = q.note]
           held == q.held \cup {Digest[z.name] : z \in found}
           step == IF found = {} THEN "next" ELSE "insert"
<1>k. /\ DOMAIN request = Threads /\ Fits(q) /\ q.kind = "copy" /\ q.at = "next" /\ q \in Copies
      /\ rows \subseteq Row
  BY Kept, Kinds DEF CopyNext, At
<1>2. Quiet
  BY DEF Quiet, CopyNext
<1>s. rows' = rows /\ disk' = disk
  BY <1>2 DEF Quiet, tables
<1>1. \/ End(t)
      \/ request' = [request EXCEPT ![t] = [q EXCEPT !.todo = q.todo \ {r}, !.at = step,
                                                     !.held = held, !.row = row]]
  BY DEF CopyNext
<1>3. CASE End(t)
  BY <1>2, <1>3, EndKeeps
<1>4. ASSUME request' = [request EXCEPT ![t] = [q EXCEPT !.todo = q.todo \ {r}, !.at = step,
                                                         !.held = held, !.row = row]]
      PROVE  IInv'
  <2>f. found \subseteq rows
    OBVIOUS
  <2>h. held \in SUBSET Digests
    <3>1. \A z \in found : Digest[z.name] \in Digests
      BY <2>f, <1>k DEF Row, Digests
    <3>2. q.held \in SUBSET Digests
      BY <1>k DEF Copies
    <3> QED BY <3>1, <3>2
  <2>o. found # {} => /\ First(found) \in rows /\ row \in Row /\ row.note = q.note
                      /\ row.name = First(found).name /\ row.root = First(found).root
    <3> SUFFICES ASSUME found # {} PROVE /\ First(found) \in rows /\ row \in Row
                      /\ row.note = q.note
                      /\ row.name = First(found).name /\ row.root = First(found).root
      OBVIOUS
    <3>1. First(found) \in rows
      BY <2>f, <1>k, FirstIsThere
    <3>2. row = [First(found) EXCEPT !.note = q.note]
      OBVIOUS
    <3>3. q.note \in 0..MaxNotes /\ First(found) \in Row
      BY <3>1, <1>k DEF Copies
    <3> HIDE DEF row, found
    <3> QED BY <3>1, <3>2, <3>3 DEF Row
  <2>a. row \in Row \cup Blank /\ step \in Steps.copy /\ step \in {"next", "insert"} /\ (step = "insert" <=> found # {})
    BY <2>o, <1>k DEF Copies, Steps
  <2> HIDE DEF row, held, step, r
  <2>1. /\ w.at = step /\ w.kind = "copy" /\ w.note = q.note /\ w.row = row
        /\ w \in Copies
    BY <1>k, <1>4, <2>h, <2>a DEF Copies
  <2>2. Moves(t)
    <3>1. Fits(w)
      BY <2>1, <2>o, <2>a DEF Fits
    <3>2. request' = [request EXCEPT ![t] = w]
      BY <1>4, <1>k
    <3> QED BY <3>1, <3>2 DEF Moves
  <2>3. KnowsNow(w)
    <3>1. step \in {"next", "insert"}
      BY <2>a
    <3>2. NoteFitsNow(w)
      BY <2>1, <2>o, <2>a, <3>1 DEF NoteFitsNow
    <3>3. HasBytesNow(w)
      <4>1. found # {} => HeldNow(row.root, row.name, Layouts)
        BY <2>o, <1>s DEF HeldNow, IInv, RowsResolve, Resolves
      <4> QED BY <4>1, <2>1, <2>a, <3>1 DEF HasBytesNow, Relies
    <3>4. AsReadNow(w) /\ PassedNow(w) /\ StillEmptyNow(w)
      BY <2>1, <3>1 DEF AsReadNow, PassedNow, StillEmptyNow
    <3> QED BY <3>2, <3>3, <3>4 DEF KnowsNow
  <2>4. ~Unlinks(w) /\ w.kind # "migrate"
    BY <2>1 DEF Unlinks
  <2> QED BY <1>2, <2>2, <2>3, <2>4, QuietKeeps
<1> QED BY <1>1, <1>3, <1>4

\* A migration passes a row that is gone or browsable, or stays with it.
LEMMA LookKeeps ==
    ASSUME IInv, Marks, NEW t \in Threads, Look(t)
    PROVE  IInv'
<1> DEFINE q == request[t]
           w == request'[t]
           r == First(q.todo)
           there == <<q.root, "folder", r.name>> \in disk
           step == IF there THEN IF r.root # q.root THEN "repoint" ELSE "look"
                   ELSE IF Resolves(r) THEN "copy" ELSE "look"
           row == IF step = "look" THEN NoRow ELSE r
<1>k. /\ DOMAIN request = Threads /\ Fits(q) /\ q.kind = "migrate" /\ q.at = "look"
      /\ q \in Migrations /\ q.todo # {} /\ q.todo \subseteq Row
  BY Kept, Kinds DEF Look, At, Migrations
<1>2. Quiet
  BY DEF Quiet, Look
<1>s. KnowsNow(q) /\ rows' = rows /\ disk' = disk
  BY <1>2, QuietStays DEF Quiet, tables
<1>r. r \in q.todo /\ r \in Row
  BY <1>k, FirstIsThere
<1>1. request' = [request EXCEPT ![t] = [q EXCEPT !.at = step, !.todo = q.todo \ {r}, !.row = row]]
  BY DEF Look
<1>a. /\ step \in {"look", "copy", "repoint"}
      /\ step = "look" => row = NoRow
      /\ step # "look" => row = r
      /\ step = "repoint" => there
      /\ step = "look" => (there /\ r.root = q.root) \/ ~Resolves(r)
  OBVIOUS
<1> HIDE DEF step, row, r
<1>3. /\ w.at = step /\ w.kind = "migrate" /\ w.row = row /\ w.root = q.root
      /\ w.todo = q.todo \ {r} /\ w.upto = q.upto /\ w \in Migrations
  BY <1>1, <1>k, <1>a, <1>r DEF Migrations, Steps
<1>4. Moves(t)
  <2>1. Fits(w)
    BY <1>3, <1>a, <1>r DEF Fits
  <2>2. request' = [request EXCEPT ![t] = w]
    BY <1>1, <1>k
  <2> QED BY <2>1, <2>2 DEF Moves
<1>5. KnowsNow(w)
  <2>1. Ahead(q) = q.todo
    BY <1>k DEF Ahead
  <2>2. Ahead(w) = (q.todo \ {r}) \cup (IF step = "look" THEN {} ELSE {r})
    BY <1>3, <1>a DEF Ahead
  <2>3. Ahead(w) \subseteq q.todo
    BY <2>2, <1>r
  <2>4. /\ q.upto <= lastRow'
        /\ \A z \in q.todo : z.id <= lastRow' /\ \A x \in rows' : x.id = z.id => x = z
        /\ \A y, z \in q.todo : y.id = z.id => y = z
    BY <1>s, <1>k, <2>1 DEF KnowsNow, AsReadNow
  <2>5. AsReadNow(w)
    BY <2>3, <2>4, <1>3, <1>a DEF AsReadNow
  <2>6. PassedNow(w)
    <3> SUFFICES ASSUME NEW x \in rows', x.id <= q.upto
                 PROVE  HeldNow(x.root, x.name, {"folder"}) \/ \E z \in Ahead(w) : z.id = x.id
      BY <1>3 DEF PassedNow
    <3>1. HeldNow(x.root, x.name, {"folder"}) \/ \E z \in q.todo : z.id = x.id
      BY <1>s, <1>k, <2>1 DEF KnowsNow, PassedNow
    <3>2. ASSUME NEW z \in q.todo, z.id = x.id, z \notin Ahead(w)
          PROVE  HeldNow(x.root, x.name, {"folder"})
      <4>1. z = r /\ step = "look"
        BY <2>2, <3>2
      <4>2. x = r
        BY <2>4, <3>2, <4>1
      <4>3. CASE there /\ r.root = q.root
        BY <4>2, <4>3, <1>s DEF HeldNow
      <4>4. CASE ~Resolves(r)
        <5>1. Digest[r.name] \in racedBytes
          BY <4>2, <4>4, <1>s DEF IInv, RowsResolve
        <5> QED BY <5>1, <4>2 DEF HeldNow
      <4> QED BY <4>1, <4>3, <4>4, <1>a
    <3> QED BY <3>1, <3>2
  <2>7. HasBytesNow(w)
    <3>1. step = "repoint" => HeldNow(w.root, w.row.name, {"folder"})
      BY <1>3, <1>a, <1>s DEF HeldNow
    <3> QED BY <3>1, <1>3, <1>a DEF HasBytesNow, Relies
  <2>8. NoteFitsNow(w) /\ StillEmptyNow(w)
    BY <1>3, <1>a DEF NoteFitsNow, StillEmptyNow
  <2> QED BY <2>5, <2>6, <2>7, <2>8 DEF KnowsNow
<1>6. ~Unlinks(w)
  BY <1>3 DEF Unlinks
<1> QED BY <1>k, <1>2, <1>4, <1>5, <1>6, QuietKeeps

-----------------------------------------------------------------------------
(* Steps that change the stores.                                           *)

\* An upload stores its bytes before it relies on them.
LEMMA BeginUploadKeeps ==
    ASSUME IInv, Marks, NEW t \in Threads, BeginUpload(t)
    PROVE  IInv'
<1>1. PICK s \in Subjects, n \in Names, f \in Settings :
        /\ Begin(t, [at |-> "find", kind |-> "upload", subject |-> s, text |-> "keep", note |-> 0,
                     row |-> [id |-> 0, note |-> 0, name |-> n, root |-> StoreRoot(f)],
                     held |-> {}])
        /\ disk' = disk \cup {<<StoreRoot(f), Layout(f), n>>}
        /\ UNCHANGED tables
  BY DEF BeginUpload
<1>k. DOMAIN request = Threads
  BY Kept
<1> DEFINE w == request'[t]
           row == [id |-> 0, note |-> 0, name |-> n, root |-> StoreRoot(f)]
<1>r. StoreRoot(f) \in Roots /\ Layout(f) \in Layouts
  BY DEF Settings, StoreRoot, Roots, Layout, Layouts
<1>2. row \in Row
  BY <1>r, BoundAssumption DEF Row
<1>3. /\ w.at = "find" /\ w.kind = "upload" /\ w \in Uploads
      /\ w.row.name = n /\ w.row.root = StoreRoot(f)
  <2>1. w = [at |-> "find", kind |-> "upload", subject |-> s, text |-> "keep", note |-> 0,
             row |-> row, held |-> {}]
    BY <1>1, <1>k DEF Begin
  <2>2. row.name = n /\ row.root = StoreRoot(f)
    OBVIOUS
  <2> HIDE DEF w, row
  <2> QED BY <1>2, <2>1, <2>2, BoundAssumption DEF Uploads, Steps
<1>4. Moves(t)
  <2>1. Fits(w)
    BY <1>3 DEF Fits
  <2>2. request' = [request EXCEPT ![t] = w]
    BY <1>1, <1>k DEF Begin
  <2> QED BY <2>1, <2>2 DEF Moves
<1>s. BytesStay /\ disk' \subseteq Roots \X Layouts \X Names
  BY <1>1, <1>r DEF BytesStay, IInv, TypeOK
<1>5. KnowsNow(w)
  <2>1. HasBytesNow(w)
    BY <1>1, <1>3, <1>r DEF HasBytesNow, HeldNow
  <2> QED BY <1>3, <2>1 DEF KnowsNow, NoteFitsNow, AsReadNow, PassedNow, StillEmptyNow
<1>6. ~Unlinks(w) /\ w.kind # "migrate"
  BY <1>3 DEF Unlinks
<1> QED BY <1>1, <1>s, <1>4, <1>5, <1>6, TablesStay, StepKeeps

\* A migration has the bytes at their new place before it repoints the row.
LEMMA CopyBytesKeeps ==
    ASSUME IInv, Marks, NEW t \in Threads, CopyBytes(t)
    PROVE  IInv'
<1> DEFINE q == request[t]
           w == request'[t]
<1>k. /\ DOMAIN request = Threads /\ Fits(q) /\ q.kind = "migrate" /\ q.at = "copy"
      /\ q \in Migrations /\ q.row \in Row
  BY Kept, Kinds DEF CopyBytes, At, Fits
<1>1. CASE End(t) /\ UNCHANGED disk
  BY <1>1, EndKeeps DEF CopyBytes, Quiet
<1>2. CASE disk' = disk \cup {<<q.root, "folder", q.row.name>>} /\ Goto(t, "repoint")
  <2>s. /\ BytesStay /\ disk' \subseteq Roots \X Layouts \X Names /\ UNCHANGED tables
    <3>1. <<q.root, "folder", q.row.name>> \in Roots \X Layouts \X Names
      BY <1>k DEF Migrations, Row, Layouts
    <3> QED BY <3>1, <1>2 DEF BytesStay, IInv, TypeOK, CopyBytes
  <2>3. /\ w.at = "repoint" /\ w.kind = "migrate" /\ w \in Migrations /\ w.row = q.row
        /\ w.root = q.root /\ w.upto = q.upto /\ w.todo = q.todo
    BY <1>k, <1>2 DEF Goto, Migrations, Steps
  <2>4. Moves(t)
    <3>1. Fits(w)
      BY <2>3, <1>k DEF Fits
    <3>2. request' = [request EXCEPT ![t] = w]
      BY <1>2, <1>k DEF Goto
    <3> QED BY <3>1, <3>2 DEF Moves
  <2>5. KnowsNow(w)
    <3>1. KnowsNow(q)
      BY <2>s, TablesStay
    <3>2. Ahead(w) = Ahead(q)
      BY <2>3, <1>k DEF Ahead
    <3>3. AsReadNow(w) /\ PassedNow(w)
      BY <3>1, <3>2, <2>3, <1>k DEF KnowsNow, AsReadNow, PassedNow
    <3>4. HasBytesNow(w)
      BY <1>2, <2>3 DEF HasBytesNow, HeldNow
    <3> QED BY <3>3, <3>4, <2>3 DEF KnowsNow, NoteFitsNow, StillEmptyNow
  <2>6. ~Unlinks(w)
    BY <2>3 DEF Unlinks
  <2> QED BY <1>k, <2>s, <2>4, <2>5, <2>6, TablesStay, StepKeeps
<1> QED BY <1>1, <1>2 DEF CopyBytes

\* A removal unlinks bytes that no row needs, unless their digest is marked.
LEMMA UnlinkKeeps ==
    ASSUME IInv, Marks, NEW t \in Threads, Unlink(t)
    PROVE  IInv'
<1> DEFINE q == request[t]
<1>k. Fits(q) /\ q.kind = "delete" /\ q.at = "unlink" /\ q.orphaned
  BY Kept DEF Unlink, At, Fits
<1>1. Digest[q.row.name] \in Unlinking
  BY <1>k, GoesOn DEF Unlinks
<1>2. BytesStay
  BY <1>1 DEF BytesStay, Unlink
<1>3. disk' \subseteq Roots \X Layouts \X Names /\ UNCHANGED tables /\ End(t)
  BY DEF Unlink, IInv, TypeOK
<1>4. Moves(t) /\ request'[t] = Idle
  BY <1>3, EndMoves
<1>5. KnowsNow(request'[t]) /\ ~Unlinks(request'[t]) /\ request'[t].kind # "migrate"
  BY <1>4, IdleKnows
<1> QED BY <1>2, <1>3, <1>4, <1>5, TablesStay, StepKeeps

-----------------------------------------------------------------------------
(* Steps that take rows and notes away.                                    *)

\* Rows and words that go take nothing from what the others know.
LEMMA RowsLeave ==
    ASSUME IInv, disk' = disk, rows' \subseteq rows, words' \subseteq words,
           lastNote' = lastNote, lastRow' = lastRow,
           \A s \in Subjects : note'[s] \in {0, note[s]}
    PROVE  /\ BytesStay /\ NotesStay /\ RowsStay /\ NoRowChanges
           /\ \A r \in rows' : HeldNow(r.root, r.name, Layouts)
           /\ \A u \in Threads : KnowsNow(request[u])
<1>1. lastNote \in Nat /\ lastRow \in Nat /\ \A r \in rows : r.id \in Nat
  BY BoundAssumption DEF TypeOK, Row, IInv
<1>2. BytesStay
  BY DEF BytesStay
<1>3. NotesStay /\ RowsStay /\ NoRowChanges
  BY <1>1 DEF NotesStay, RowsStay, NoRowChanges
<1>4. \A r \in rows' : HeldNow(r.root, r.name, Layouts)
  BY DEF IInv, RowsResolve, Resolves, HeldNow
<1>5. \A u \in Threads : KnowsNow(request[u])
  BY <1>2, <1>3, StillKnown
<1> QED BY <1>2, <1>3, <1>4, <1>5

\* A note that is deleted leaves no row and no word of its own behind.
LEMMA NoteLeaves ==
    ASSUME IInv, NEW t \in Threads, DeleteNote(request[t].note), UNCHANGED disk
    PROVE  /\ BytesStay /\ NotesStay /\ RowsStay /\ NoRowChanges /\ TablesOK'
           /\ \A r \in rows' : HeldNow(r.root, r.name, Layouts)
           /\ \A u \in Threads : KnowsNow(request[u])
<1> DEFINE n == request[t].note
<1>t. TypeOK /\ lastNote \in Nat
  BY Kept DEF IInv
<1>1. /\ note' = [s \in Subjects |-> IF note[s] = n THEN 0 ELSE note[s]]
      /\ words' = words \ {n} /\ rows' = rows \ RowsOf(n)
      /\ lastNote' = lastNote /\ lastRow' = lastRow /\ disk' = disk
  BY DEF DeleteNote
<1> HIDE DEF n
<1>2. \A s \in Subjects : note'[s] = IF note[s] = n THEN 0 ELSE note[s]
  BY <1>1
<1>3. TablesOK'
  <2>1. note' \in [Subjects -> 0..lastNote']
    BY <1>1, <1>t DEF TypeOK
  <2>2. words' \subseteq {note'[s] : s \in Subjects} \ {0}
    BY <1>1, <1>2, <1>t DEF TypeOK
  <2>3. rows' \subseteq Row /\ \A r, q \in rows' : r.id = q.id => r = q
    BY <1>1, <1>t DEF TypeOK
  <2>4. ASSUME NEW r \in rows' PROVE Live(r.note)' /\ r.id \in 1..lastRow'
    <3>1. r \in rows /\ r.note # n
      BY <1>1 DEF RowsOf
    <3>2. Live(r.note) /\ r.id \in 1..lastRow
      BY <3>1, <1>t DEF TypeOK
    <3> QED BY <3>1, <3>2, <1>1, <1>2 DEF Live
  <2>5. \A s, z \in Subjects : note'[s] = note'[z] => s = z \/ note'[s] = 0
    BY <1>2, <1>t DEF TypeOK
  <2>6. disk' \subseteq Roots \X Layouts \X Names /\ lastNote' \in 0..MaxNotes /\ lastRow' \in 0..MaxRows
    BY <1>1, <1>t DEF TypeOK
  <2> QED BY <2>1, <2>2, <2>3, <2>4, <2>5, <2>6 DEF TablesOK
<1>4. rows' \subseteq rows /\ words' \subseteq words /\ \A s \in Subjects : note'[s] \in {0, note[s]}
  BY <1>1, <1>2
<1> QED BY <1>1, <1>3, <1>4, RowsLeave

\* The deletion of a note keeps the invariant.
LEMMA DropKeeps ==
    ASSUME IInv, Marks, NEW t \in Threads, Drop(t)
    PROVE  IInv'
<1>1. DeleteNote(request[t].note) /\ UNCHANGED disk /\ End(t)
  BY DEF Drop
<1>2. Moves(t) /\ request'[t] = Idle
  BY <1>1, EndMoves
<1>3. KnowsNow(request'[t]) /\ ~Unlinks(request'[t]) /\ request'[t].kind # "migrate"
  BY <1>2, IdleKnows
<1> QED BY <1>1, <1>2, <1>3, NoteLeaves, StepKeeps

\* A removal goes on to its next step.
LEMMA Goes ==
    ASSUME IInv, NEW t \in Threads, request[t].kind = "delete",
           NEW step \in {"count", "unlink"}, Goto(t, step), step = "unlink" => request[t].orphaned,
           KnowsNow(request[t])
    PROVE  /\ Moves(t) /\ KnowsNow(request'[t]) /\ request'[t].kind = "delete"
           /\ request'[t].row = request[t].row /\ request'[t].orphaned = request[t].orphaned
           /\ request'[t].at = step
<1> DEFINE q == request[t]
           w == request'[t]
<1>k. DOMAIN request = Threads /\ q \in Deletes
  BY Kept, Kinds
<1>1. /\ w.at = step /\ w.kind = "delete" /\ w.note = q.note /\ w.row = q.row
      /\ w.orphaned = q.orphaned /\ w \in Deletes
  BY <1>k DEF Goto, Deletes, Steps
<1>2. Moves(t)
  <2>1. Fits(w)
    BY <1>1 DEF Fits
  <2>2. request' = [request EXCEPT ![t] = w]
    BY <1>k DEF Goto
  <2> QED BY <2>1, <2>2 DEF Moves
<1>3. KnowsNow(w)
  <2>1. NoteFitsNow(w)
    BY <1>1 DEF NoteFitsNow, KnowsNow
  <2> QED BY <1>1, <2>1
      DEF KnowsNow, AsReadNow, PassedNow, HasBytesNow, Relies, StillEmptyNow
<1> QED BY <1>1, <1>2, <1>3

\* So does the pruning of an emptied note, before the bytes go.
LEMMA PruneDropKeeps ==
    ASSUME IInv, Marks, NEW t \in Threads, PruneDrop(t)
    PROVE  IInv'
<1> DEFINE q == request[t]
           w == request'[t]
<1>1. /\ DeleteNote(q.note) /\ UNCHANGED disk /\ q.kind = "delete" /\ q.at = "drop"
      /\ IF q.orphaned THEN Goto(t, "unlink") ELSE End(t)
  BY DEF PruneDrop, At
<1>s. /\ BytesStay /\ NotesStay /\ RowsStay /\ NoRowChanges /\ TablesOK'
      /\ \A r \in rows' : HeldNow(r.root, r.name, Layouts)
      /\ KnowsNow(q)
  BY <1>1, NoteLeaves
<1>2. /\ Moves(t) /\ KnowsNow(w) /\ w.kind # "migrate"
      /\ Unlinks(w) => Digest[w.row.name] \in Unlinking
  <2>1. CASE End(t)
    BY <2>1, EndMoves, IdleKnows
  <2>2. CASE q.orphaned /\ Goto(t, "unlink")
    <3>1. Moves(t) /\ KnowsNow(w) /\ w.kind = "delete" /\ w.row = q.row
      BY <2>2, <1>1, <1>s, Goes
    <3>2. Digest[q.row.name] \in Unlinking
      BY <1>1, <2>2, GoesOn DEF Unlinks
    <3> QED BY <3>1, <3>2
  <2> QED BY <1>1, <2>1, <2>2
<1> QED BY <1>s, <1>2, StepKeeps

\* The row of an attachment goes before its bytes are counted.
LEMMA RemoveKeeps ==
    ASSUME IInv, Marks, NEW t \in Threads, Remove(t)
    PROVE  IInv'
<1> DEFINE q == request[t]
           w == request'[t]
<1>1. /\ rows' = {r \in rows : r.id # q.row.id} /\ q.kind = "delete"
      /\ End(t) \/ Goto(t, "count")
      /\ disk' = disk /\ note' = note /\ words' = words /\ lastNote' = lastNote /\ lastRow' = lastRow
  BY DEF Remove, At
<1>2. TablesOK'
  BY <1>1 DEF IInv, TypeOK, TablesOK, Live
<1>s. /\ BytesStay /\ NotesStay /\ RowsStay /\ NoRowChanges
      /\ \A r \in rows' : HeldNow(r.root, r.name, Layouts)
      /\ KnowsNow(q)
  <2>1. rows' \subseteq rows /\ words' \subseteq words /\ \A s \in Subjects : note'[s] \in {0, note[s]}
    BY <1>1
  <2> QED BY <1>1, <2>1, RowsLeave
<1>3. Moves(t) /\ KnowsNow(w) /\ w.kind # "migrate" /\ ~Unlinks(w)
  <2>1. CASE End(t)
    BY <2>1, EndMoves, IdleKnows
  <2>2. CASE Goto(t, "count")
    BY <2>2, <1>1, <1>s, Goes DEF Unlinks
  <2> QED BY <1>1, <2>1, <2>2
<1> QED BY <1>2, <1>s, <1>3, StepKeeps

-----------------------------------------------------------------------------
(* Steps that add a row or change one.                                     *)

\* A row that is added has its bytes, and a number no other row has or had.
LEMMA RowComes ==
    ASSUME IInv, NEW t \in Threads, request[t].at = "insert", InsertRow(request[t].row),
           UNCHANGED disk
    PROVE  /\ BytesStay /\ NotesStay /\ RowsStay /\ NoRowChanges /\ TablesOK'
           /\ \A r \in rows' : HeldNow(r.root, r.name, Layouts)
           /\ \A u \in Threads : KnowsNow(request[u])
<1> DEFINE q == request[t]
           new == [q.row EXCEPT !.id = lastRow + 1]
<1>t. /\ TypeOK /\ lastNote \in Nat /\ lastRow \in Nat /\ Fits(q) /\ q.row \in Row
      /\ \A r \in rows : r.id \in Nat /\ r.id \in 1..lastRow
  BY Kept, Kinds DEF IInv
<1>1. /\ Live(q.row.note) /\ lastRow < MaxRows /\ lastRow' = lastRow + 1
      /\ rows' = rows \cup {new}
      /\ note' = note /\ words' = words /\ lastNote' = lastNote /\ disk' = disk
  BY DEF InsertRow
<1>2. /\ new \in Row /\ new.id = lastRow + 1 /\ new.note = q.row.note
      /\ new.name = q.row.name /\ new.root = q.row.root
  BY <1>t, <1>1, BoundAssumption DEF Row
<1>3. q.row.note \in Writing /\ Digest[q.row.name] \in Relying
  <2>1. q.row.note = q.note
    BY DEF IInv, Known, NoteFits
  <2> QED BY <2>1, Relied DEF Writing, Relies
<1> HIDE DEF new
<1>4. TablesOK'
  <2>1. rows' \subseteq Row
    BY <1>1, <1>2, <1>t DEF TypeOK
  <2>2. \A r \in rows' : Live(r.note)' /\ r.id \in 1..lastRow'
    BY <1>1, <1>2, <1>t DEF TypeOK, Live
  <2>3. \A r, z \in rows' : r.id = z.id => r = z
    <3>1. \A r \in rows : r.id # new.id
      BY <1>t, <1>2
    <3> QED BY <3>1, <1>1, <1>t DEF TypeOK
  <2>4. lastRow' \in 0..MaxRows
    BY <1>1, <1>t, BoundAssumption
  <2> QED BY <2>1, <2>2, <2>3, <2>4, <1>1, <1>t DEF TypeOK, TablesOK
<1>5. BytesStay
  BY <1>1 DEF BytesStay
<1>6. NotesStay
  BY <1>1, <1>t DEF NotesStay
<1>7. RowsStay /\ NoRowChanges
  BY <1>1, <1>2, <1>3, <1>t DEF RowsStay, NoRowChanges
<1>8. \A u \in Threads : KnowsNow(request[u])
  BY <1>5, <1>6, <1>7, StillKnown
<1>9. \A r \in rows' : HeldNow(r.root, r.name, Layouts)
  <2>1. HeldNow(new.root, new.name, Layouts)
    BY <1>8, <1>2 DEF KnowsNow, HasBytesNow, Relies
  <2>2. \A r \in rows : HeldNow(r.root, r.name, Layouts)
    BY <1>1 DEF IInv, RowsResolve, Resolves, HeldNow
  <2> QED BY <1>1, <2>1, <2>2
<1> QED BY <1>4, <1>5, <1>6, <1>7, <1>8, <1>9

\* An upload ends with its row.
LEMMA InsertKeeps ==
    ASSUME IInv, Marks, NEW t \in Threads, Insert(t)
    PROVE  IInv'
<1>1. request[t].at = "insert" /\ InsertRow(request[t].row) /\ UNCHANGED disk /\ End(t)
  BY DEF Insert, At
<1>2. Moves(t) /\ request'[t] = Idle
  BY <1>1, EndMoves
<1>3. KnowsNow(request'[t]) /\ ~Unlinks(request'[t]) /\ request'[t].kind # "migrate"
  BY <1>2, IdleKnows
<1> QED BY <1>1, <1>2, <1>3, RowComes, StepKeeps

\* A copy adds a row and goes on with the next.
LEMMA CopyInsertKeeps ==
    ASSUME IInv, Marks, NEW t \in Threads, CopyInsert(t)
    PROVE  IInv'
<1> DEFINE q == request[t]
           w == request'[t]
<1>k. /\ DOMAIN request = Threads /\ Fits(q) /\ q.kind = "copy" /\ q.at = "insert" /\ q \in Copies
  BY Kept, Kinds DEF CopyInsert, At
<1>1. /\ InsertRow(q.row) /\ UNCHANGED disk
      /\ request' = [request EXCEPT ![t] = [@ EXCEPT !.at = "next", !.row = NoRow]]
  BY DEF CopyInsert, GotoWith
<1>2. w.at = "next" /\ w.kind = "copy" /\ w \in Copies
  <2>1. NoRow \in Blank
    BY BoundAssumption DEF NoRow, Blank
  <2> QED BY <1>k, <1>1, <2>1 DEF Copies, Steps
<1>3. Moves(t)
  <2>1. Fits(w)
    BY <1>2 DEF Fits
  <2>2. request' = [request EXCEPT ![t] = w]
    BY <1>1, <1>k
  <2> QED BY <2>1, <2>2 DEF Moves
<1>4. KnowsNow(w)
  BY <1>2 DEF KnowsNow, NoteFitsNow, AsReadNow, PassedNow, HasBytesNow, Relies, StillEmptyNow
<1>5. ~Unlinks(w) /\ w.kind # "migrate"
  BY <1>2 DEF Unlinks
<1> QED BY <1>k, <1>1, <1>3, <1>4, <1>5, RowComes, StepKeeps

\* The row a migration repoints is as it read it, and its bytes are there.
LEMMA RepointKeeps ==
    ASSUME IInv, Marks, NEW t \in Threads, Repoint(t)
    PROVE  IInv'
<1> DEFINE q == request[t]
           w == request'[t]
           Moved(r) == IF r.id = q.row.id THEN [r EXCEPT !.root = q.root] ELSE r
<1>k. /\ DOMAIN request = Threads /\ Fits(q) /\ q.kind = "migrate" /\ q.at = "repoint"
      /\ q \in Migrations /\ q.row \in Row /\ q.root \in Roots
      /\ TypeOK /\ lastNote \in Nat /\ lastRow \in Nat
      /\ \A r \in rows : r \in Row /\ r.id \in Nat /\ r.id \in 1..lastRow
  BY Kept, Kinds DEF Repoint, At, Fits, Migrations, IInv
<1>1. /\ rows' = {Moved(r) : r \in rows}
      /\ request' = [request EXCEPT ![t] = [@ EXCEPT !.at = "look", !.row = NoRow]]
      /\ disk' = disk /\ note' = note /\ words' = words /\ lastNote' = lastNote /\ lastRow' = lastRow
  BY DEF Repoint, GotoWith
<1>2. \A r \in rows : /\ Moved(r) \in Row /\ Moved(r).id = r.id /\ Moved(r).note = r.note
                      /\ Moved(r).name = r.name
                      /\ r.id # q.row.id => Moved(r) = r
                      /\ r.id = q.row.id => Moved(r).root = q.root
  BY <1>k DEF Row
<1> HIDE DEF Moved
<1>3. BytesStay /\ NotesStay
  BY <1>1, <1>k DEF BytesStay, NotesStay
<1>4. RowsStay
  BY <1>1, <1>2, <1>k DEF RowsStay
<1>5. TablesOK'
  <2>1. rows' \subseteq Row
    BY <1>1, <1>2
  <2>2. \A r \in rows' : Live(r.note)' /\ r.id \in 1..lastRow'
    BY <1>1, <1>2, <1>k DEF TypeOK, Live
  <2>3. \A r, z \in rows' : r.id = z.id => r = z
    BY <1>1, <1>2, <1>k DEF TypeOK
  <2> QED BY <2>1, <2>2, <2>3, <1>1, <1>k DEF TypeOK, TablesOK
<1>6. /\ NoteFits(q) /\ AsRead(q) /\ Passed(q) /\ HasBytes(q)
  BY DEF IInv, Known
<1>7. /\ q.row \in Ahead(q) /\ q.row \notin q.todo /\ Ahead(q) = q.todo \cup {q.row}
      /\ \A r \in rows : r.id = q.row.id => r = q.row
      /\ q.upto <= lastRow
      /\ \A z \in Ahead(q) : z.id <= lastRow /\ \A r \in rows : r.id = z.id => r = z
      /\ \A y, z \in Ahead(q) : y.id = z.id => y = z
  BY <1>6, <1>k DEF AsRead, Ahead
<1>8. HeldNow(q.root, q.row.name, {"folder"})
  BY <1>6, <1>k, <1>1 DEF HasBytes, Relies, Held, HeldNow
<1>9. \A r \in rows : r.id = q.row.id => HeldNow(Moved(r).root, Moved(r).name, {"folder"})
  BY <1>7, <1>8, <1>2
<1>10. \A r \in rows' : HeldNow(r.root, r.name, Layouts)
  <2>1. ASSUME NEW r \in rows PROVE HeldNow(Moved(r).root, Moved(r).name, Layouts)
    <3>1. CASE r.id = q.row.id
      BY <3>1, <1>9 DEF HeldNow, Layouts
    <3>2. CASE r.id # q.row.id
      BY <3>2, <1>1, <1>2 DEF IInv, RowsResolve, Resolves, HeldNow
    <3> QED BY <3>1, <3>2
  <2> QED BY <1>1, <2>1
<1>11. /\ w.at = "look" /\ w.kind = "migrate" /\ w.todo = q.todo /\ w.upto = q.upto
       /\ w \in Migrations
  BY <1>1, <1>k DEF Migrations, Steps
<1>12. Moves(t)
  <2>1. Fits(w)
    BY <1>11 DEF Fits
  <2>2. request' = [request EXCEPT ![t] = w]
    BY <1>1, <1>k
  <2> QED BY <2>1, <2>2 DEF Moves
<1>13. KnowsNow(w)
  <2>1. Ahead(w) = q.todo
    BY <1>11 DEF Ahead
  <2>2. \A z \in q.todo : z.id # q.row.id
    BY <1>7
  <2>3. AsReadNow(w)
    <3>1. \A z \in q.todo : z.id <= lastRow' /\ \A r \in rows' : r.id = z.id => r = z
      BY <1>1, <1>2, <1>7, <2>2
    <3> QED BY <3>1, <2>1, <1>7, <1>11, <1>1 DEF AsReadNow
  <2>4. PassedNow(w)
    <3>1. ASSUME NEW r \in rows, r.id <= q.upto
          PROVE  HeldNow(Moved(r).root, Moved(r).name, {"folder"}) \/ \E z \in q.todo : z.id = r.id
      <4>1. CASE r.id = q.row.id
        BY <4>1, <1>9
      <4>2. CASE r.id # q.row.id
        <5>1. \/ Browsable(r) \/ Digest[r.name] \in racedBytes
              \/ \E z \in Ahead(q) : z.id = r.id
          BY <1>6, <1>k, <3>1 DEF Passed
        <5>2. Browsable(r) \/ Digest[r.name] \in racedBytes => HeldNow(r.root, r.name, {"folder"})
          BY <1>1 DEF Browsable, HeldNow
        <5> QED BY <5>1, <5>2, <4>2, <1>2, <1>7
      <4> QED BY <4>1, <4>2
    <3> QED BY <3>1, <2>1, <1>1, <1>2, <1>11 DEF PassedNow
  <2> QED
    BY <1>11, <2>3, <2>4 DEF KnowsNow, NoteFitsNow, HasBytesNow, Relies, StillEmptyNow
<1>14. ~Unlinks(w)
  BY <1>11 DEF Unlinks
<1> QED BY <1>k, <1>3, <1>4, <1>5, <1>10, <1>12, <1>13, <1>14, StepKeeps

\* The words of a note after it was written.
LEMMA WordsOf ==
    ASSUME NEW n
    PROVE  /\ Written(n, "set") = words \cup {n}
           /\ Written(n, "clear") = words \ {n}
           /\ Written(n, "keep") = words
BY DEF Written

\* Writing a note adds words to no other note.
LEMMA WrittenWords ==
    ASSUME NEW n, NEW text \in {"set", "clear", "keep"}
    PROVE  \A m \in Written(n, text) : m \in words \/ (m = n /\ text = "set")
<1>1. CASE text = "set"
  BY <1>1, WordsOf
<1>2. CASE text = "clear"
  BY <1>2, WordsOf
<1>3. CASE text = "keep"
  BY <1>3, WordsOf
<1> QED BY <1>1, <1>2, <1>3

\* A note is written: a new one for a subject without, or the subject's own.
LEMMA NoteComes ==
    ASSUME IInv, NEW t \in Threads,
           At(t, {"upload", "put", "copy"}, "upsert"), UNCHANGED <<disk, rows, lastRow>>,
           request[t].note = 0 => note[request[t].subject] = 0 /\ lastNote # MaxNotes,
           NEW n, n = IF request[t].note = 0 THEN lastNote + 1 ELSE request[t].note,
           request[t].note # 0 => Live(n),
           note' = [note EXCEPT ![request[t].subject] = n],
           lastNote' = IF n > lastNote THEN n ELSE lastNote,
           words' = Written(n, request[t].text)
    PROVE  /\ BytesStay /\ NotesStay /\ RowsStay /\ NoRowChanges /\ TablesOK'
           /\ \A r \in rows' : HeldNow(r.root, r.name, Layouts)
           /\ \A u \in Threads : KnowsNow(request[u])
<1> DEFINE q == request[t]
           s == q.subject
<1>q. /\ Fits(q) /\ q.at = "upsert" /\ s \in Subjects /\ q.note \in 0..MaxNotes
      /\ q.text \in {"set", "clear", "keep"}
  BY Kept, Kinds DEF At, Uploads, Puts, Copies
<1>t. /\ TypeOK /\ lastNote \in Nat /\ lastRow \in Nat
      /\ \A r \in rows : r.id \in Nat
  BY Kept DEF IInv
<1>f. q.note <= lastNote /\ \A z \in Subjects : note[z] = q.note => q.note = 0 \/ z = s
  BY <1>q DEF IInv, Known, NoteFits
<1>1. \/ q.note = 0 /\ n = lastNote + 1 /\ note[s] = 0 /\ lastNote' = lastNote + 1
      \/ q.note # 0 /\ n = q.note /\ note[s] = n /\ lastNote' = lastNote
  <2>1. CASE q.note = 0
    BY <2>1, <1>t
  <2>2. CASE q.note # 0
    <3>1. n = q.note /\ Live(n)
      BY <2>2
    <3>2. note[s] = n
      BY <3>1, <2>2, <1>f DEF Live
    <3>3. ~(n > lastNote)
      BY <3>1, <1>f, <1>q, <1>t, BoundAssumption
    <3> QED BY <3>1, <3>2, <3>3, <2>2
  <2> QED BY <2>1, <2>2
<1>2. /\ \A z \in Subjects : note[z] \in 0..lastNote
      /\ n \in Nat /\ n # 0 /\ lastNote' \in Nat /\ lastNote <= lastNote' /\ n <= lastNote'
      /\ lastNote' \in 0..MaxNotes
      /\ n > lastNote \/ (note[s] = n /\ q.note = n)
  <2>1. \A z \in Subjects : note[z] \in 0..lastNote
    BY <1>t DEF TypeOK
  <2>2. lastNote \in 0..MaxNotes /\ MaxNotes \in Nat
    BY <1>t, BoundAssumption DEF TypeOK
  <2>3. CASE q.note = 0
    <3>1. n = lastNote + 1 /\ lastNote' = lastNote + 1 /\ lastNote # MaxNotes
      BY <1>1, <2>3
    <3>2. lastNote + 1 \in Nat /\ lastNote + 1 <= MaxNotes
      BY <2>2, <3>1
    <3>3. n \in Nat /\ n # 0 /\ lastNote' \in Nat /\ lastNote <= lastNote' /\ n <= lastNote'
      BY <3>1, <3>2, <1>t
    <3>4. lastNote' \in 0..MaxNotes
      BY <3>1, <3>2
    <3>5. n > lastNote
      <4>1. lastNote + 1 > lastNote
        BY <1>t
      <4> QED BY <4>1, <3>1
    <3> QED BY <3>3, <3>4, <3>5, <2>1
  <2>4. CASE q.note # 0
    <3>1. n = q.note /\ note[s] = n /\ lastNote' = lastNote
      BY <1>1, <2>4
    <3> QED BY <3>1, <2>1, <2>2, <2>4, <1>q, <1>f, <1>t
  <2> QED BY <2>3, <2>4
<1>3. \A z \in Subjects : note'[z] = IF z = s THEN n ELSE note[z]
  BY <1>t DEF TypeOK
<1>4. words' \subseteq words \cup {n}
  BY <1>q DEF Written
<1>5. TablesOK'
  <2>1. note' \in [Subjects -> 0..lastNote']
    <3>1. DOMAIN note' = Subjects /\ note' = [z \in Subjects |-> note'[z]]
      BY <1>t DEF TypeOK
    <3>2. \A z \in Subjects : note'[z] \in 0..lastNote'
      BY <1>2, <1>3, <1>t
    <3> QED BY <3>1, <3>2
  <2>k. \A m : Live(m) => Live(m)'
    <3> SUFFICES ASSUME NEW m, Live(m) PROVE m # 0 /\ \E z \in Subjects : note'[z] = m
      BY DEF Live
    <3>1. PICK z \in Subjects : note[z] = m /\ m # 0
      BY DEF Live
    <3> QED BY <3>1, <1>1, <1>3
  <2>2. words' \subseteq {note'[z] : z \in Subjects} \ {0}
    <3> SUFFICES ASSUME NEW m \in words' PROVE m # 0 /\ \E z \in Subjects : note'[z] = m
      OBVIOUS
    <3>1. CASE m = n
      BY <3>1, <1>2, <1>3, <1>q
    <3>2. CASE m \in words
      <4>1. Live(m)
        BY <3>2, <1>t DEF TypeOK, Live
      <4> QED BY <4>1, <2>k DEF Live
    <3> QED BY <3>1, <3>2, <1>4
  <2>3. \A r \in rows' : Live(r.note)' /\ r.id \in 1..lastRow'
    BY <2>k, <1>t DEF TypeOK
  <2>4. \A y, z \in Subjects : note'[y] = note'[z] => y = z \/ note'[y] = 0
    <3>1. ASSUME NEW y \in Subjects, y # s PROVE note[y] # n
      BY <3>1, <1>1, <1>2, <1>q, <1>t DEF TypeOK
    <3> QED BY <3>1, <1>3, <1>t DEF TypeOK
  <2> QED BY <2>1, <2>2, <2>3, <2>4, <1>2, <1>t DEF TypeOK, TablesOK
<1>6. BytesStay
  BY DEF BytesStay
<1>7. NotesStay
  <2>1. \A z \in Subjects : note'[z] \in {0, note[z]} \/ note'[z] > lastNote
    BY <1>2, <1>3
  <2>2. ASSUME NEW m \in words' PROVE m \in words \/ m \in Writing \/ m > lastNote
    <3>1. CASE m = n /\ q.note = n /\ q.text = "set"
      BY <3>1, <1>q DEF Writing
    <3>2. CASE m = n /\ n > lastNote
      BY <3>2
    <3>3. m \in words \/ (m = n /\ q.text = "set")
      BY <1>q, WrittenWords
    <3> QED BY <3>1, <3>2, <3>3, <1>2
  <2> QED BY <2>1, <2>2, <1>2 DEF NotesStay
<1>8. RowsStay /\ NoRowChanges
  BY <1>t DEF RowsStay, NoRowChanges
<1>9. \A u \in Threads : KnowsNow(request[u])
  BY <1>6, <1>7, <1>8, StillKnown
<1>10. \A r \in rows' : HeldNow(r.root, r.name, Layouts)
  BY DEF IInv, RowsResolve, Resolves, HeldNow
<1> QED BY <1>5, <1>6, <1>7, <1>8, <1>9, <1>10

\* An upload or a copy goes on with the note it wrote, or found written.
LEMMA UpsertMoves ==
    ASSUME IInv, NEW t \in Threads, Upsert(t), KnowsNow(request[t]), TablesOK'
    PROVE  Moves(t) /\ KnowsNow(request'[t]) /\ ~Unlinks(request'[t]) /\ request'[t].kind # "migrate"
<1> DEFINE q == request[t]
           w == request'[t]
           next == [upload |-> "insert", put |-> "done", copy |-> "next"][q.kind]
<1>k. /\ DOMAIN request = Threads /\ Fits(q) /\ q.kind \in {"upload", "put", "copy"}
      /\ q.at = "upsert" /\ rows \subseteq Row
  BY Kept DEF Upsert, At
<1>s. q.subject \in Subjects
  BY <1>k, Kinds DEF Uploads, Puts, Copies
<1>n. next = IF q.kind = "upload" THEN "insert" ELSE IF q.kind = "put" THEN "done" ELSE "next"
  BY <1>k
<1> HIDE DEF next
<1> DEFINE m == note'[q.subject]
           held == {Digest[r.name] : r \in RowsOf(m)}
<1>2. m \in 0..MaxNotes
  <2>1. m \in 0..lastNote' /\ lastNote' \in 0..MaxNotes
    BY <1>s DEF TablesOK
  <2> QED BY <2>1, BoundAssumption
<1>4. held \in SUBSET Digests
  <2>1. \A r \in RowsOf(m) : Digest[r.name] \in Digests
    BY <1>k DEF RowsOf, Row, Digests
  <2> QED BY <2>1
<1>5. \/ End(t)
      \/ /\ next # "done"
         /\ request' = [request EXCEPT ![t] =
                [q EXCEPT !.at = next, !.text = "keep", !.note = m,
                          !.row = [q.row EXCEPT !.note = m], !.held = held]]
  <2> DEFINE refused == q.note = 0 /\ (note[q.subject] # 0 \/ lastNote = MaxNotes)
  <2>1. IF refused \/ m = 0 \/ next = "done"
        THEN End(t)
        ELSE request' = [request EXCEPT ![t] =
                [q EXCEPT !.at = next, !.text = "keep", !.note = m,
                          !.row = [q.row EXCEPT !.note = m], !.held = held]]
    BY DEF Upsert, next
  <2> HIDE DEF refused, m, held
  <2> QED BY <2>1
<1> HIDE DEF m, held
<1>6. CASE End(t)
  BY <1>6, EndMoves, IdleKnows
<1>7. ASSUME next # "done",
             request' = [request EXCEPT ![t] =
                [q EXCEPT !.at = next, !.text = "keep", !.note = m,
                          !.row = [q.row EXCEPT !.note = m], !.held = held]]
      PROVE  Moves(t) /\ KnowsNow(w) /\ ~Unlinks(w) /\ w.kind # "migrate"
  <2>1. w = [q EXCEPT !.at = next, !.text = "keep", !.note = m,
                      !.row = [q.row EXCEPT !.note = m], !.held = held]
    BY <1>7, <1>k
  <2> HIDE DEF w
  <2>2. CASE q.kind = "upload"
    <3>1. q \in Uploads /\ next = "insert"
      BY <2>2, <1>k, <1>n, Kinds
    <3>2. PICK row : row = [q.row EXCEPT !.note = m]
      OBVIOUS
    <3>3. /\ row \in Row /\ row.note = m /\ row.name = q.row.name /\ row.root = q.row.root
      BY <3>1, <3>2, <1>2 DEF Uploads, Row
    <3>4. /\ w.at = "insert" /\ w.kind = "upload" /\ w.note = m /\ w.row = row /\ w \in Uploads
      BY <2>1, <3>1, <3>2, <3>3, <1>2, <1>4 DEF Uploads, Steps
    <3>5. HasBytesNow(w)
      BY <3>3, <3>4, <2>2, <1>k DEF KnowsNow, HasBytesNow, Relies
    <3>6. KnowsNow(w)
      BY <3>3, <3>4, <3>5 DEF KnowsNow, NoteFitsNow, AsReadNow, PassedNow, StillEmptyNow
    <3>7. Fits(w) /\ ~Unlinks(w)
      BY <3>4 DEF Fits, Unlinks
    <3>8. request' = [request EXCEPT ![t] = w]
      BY <1>7, <2>1
    <3> QED BY <3>4, <3>6, <3>7, <3>8 DEF Moves, w
  <2>3. CASE q.kind = "copy"
    <3>1. q \in Copies /\ next = "next"
      BY <2>3, <1>k, <1>n, Kinds
    <3>2. PICK row : row = [q.row EXCEPT !.note = m]
      OBVIOUS
    <3>3. row \in Row \cup Blank
      BY <3>1, <3>2, <1>2 DEF Copies, Row, Blank
    <3>4. /\ w.at = "next" /\ w.kind = "copy" /\ w \in Copies
      BY <2>1, <3>1, <3>2, <3>3, <1>2, <1>4 DEF Copies, Steps
    <3>6. KnowsNow(w)
      BY <3>4 DEF KnowsNow, NoteFitsNow, AsReadNow, PassedNow, HasBytesNow, Relies, StillEmptyNow
    <3>7. Fits(w) /\ ~Unlinks(w)
      BY <3>4 DEF Fits, Unlinks
    <3>8. request' = [request EXCEPT ![t] = w]
      BY <1>7, <2>1
    <3> QED BY <3>4, <3>6, <3>7, <3>8 DEF Moves, w
  <2> QED BY <2>2, <2>3, <1>k, <1>n, <1>7
<1> QED BY <1>5, <1>6, <1>7

\* The upsert of a note keeps the invariant, whether it is refused or not.
LEMMA UpsertKeeps ==
    ASSUME IInv, Marks, NEW t \in Threads, Upsert(t)
    PROVE  IInv'
<1> DEFINE q == request[t]
           n == IF q.note = 0 THEN lastNote + 1 ELSE q.note
           refused == q.note = 0 /\ (note[q.subject] # 0 \/ lastNote = MaxNotes)
           missed == refused \/ (q.note # 0 /\ ~Live(n))
<1>s. /\ BytesStay /\ NotesStay /\ RowsStay /\ NoRowChanges /\ TablesOK'
      /\ \A r \in rows' : HeldNow(r.root, r.name, Layouts)
      /\ \A u \in Threads : KnowsNow(request[u])
  <2>1. CASE missed
    BY <2>1, QuietStays DEF Upsert, Quiet
  <2>2. CASE ~missed
    <3>1. /\ At(t, {"upload", "put", "copy"}, "upsert") /\ UNCHANGED <<disk, rows, lastRow>>
          /\ note' = [note EXCEPT ![q.subject] = n]
          /\ lastNote' = IF n > lastNote THEN n ELSE lastNote
          /\ words' = Written(n, q.text)
      BY <2>2 DEF Upsert
    <3>2. /\ q.note = 0 => note[q.subject] = 0 /\ lastNote # MaxNotes
          /\ q.note # 0 => Live(n)
      BY <2>2
    <3> QED BY <3>1, <3>2, NoteComes
  <2> QED BY <2>1, <2>2
<1>1. Moves(t) /\ KnowsNow(request'[t]) /\ ~Unlinks(request'[t]) /\ request'[t].kind # "migrate"
  BY <1>s, UpsertMoves
<1> QED BY <1>s, <1>1, StepKeeps

-----------------------------------------------------------------------------
(* The theorems.                                                           *)

\* The invariant holds at the start.
LEMMA InitHolds ==
    ASSUME Init
    PROVE  IInv
<1>1. \A t \in Threads : request[t] = Idle
  BY DEF Init
<1>2. TypeOK
  BY BoundAssumption DEF Init, TypeOK
<1>3. RequestsFit
  BY <1>1, IdleKnows DEF Init, RequestsFit
<1>4. Known
  <2> SUFFICES ASSUME NEW t \in Threads
               PROVE  /\ NoteFits(request[t]) /\ AsRead(request[t]) /\ Passed(request[t])
                      /\ HasBytes(request[t]) /\ StillEmpty(request[t])
    BY DEF Known
  <2>1. request[t].at = "idle" /\ request[t].kind = "none"
    BY <1>1 DEF Idle
  <2> QED BY <2>1 DEF NoteFits, AsRead, Passed, HasBytes, Relies, StillEmpty
<1>5. OneMigration /\ RacesAreMarked /\ NobodyNeeds
  BY <1>1 DEF OneMigration, RacesAreMarked, NobodyNeeds, Relying, Unlinking, Writing, Idle
<1>6. RowsResolve
  BY DEF Init, RowsResolve
<1> QED BY <1>2, <1>3, <1>4, <1>5, <1>6 DEF IInv

\* Every step keeps the invariant.
LEMMA NextKeeps ==
    ASSUME IInv, [Next]_vars
    PROVE  IInv'
<1>1. CASE UNCHANGED vars
  <2>1. /\ disk' = disk /\ note' = note /\ words' = words /\ rows' = rows
        /\ lastNote' = lastNote /\ lastRow' = lastRow /\ request' = request
        /\ racedBytes' = racedBytes /\ racedNotes' = racedNotes
    BY <1>1 DEF vars, tables
  <2>2. TypeOK' /\ RequestsFit' /\ OneMigration'
    BY <2>1 DEF IInv, TypeOK, Live, RequestsFit, OneMigration
  <2>3. ASSUME NEW t \in Threads
        PROVE  /\ NoteFits(request[t])' /\ AsRead(request[t])' /\ Passed(request[t])'
               /\ HasBytes(request[t])' /\ StillEmpty(request[t])'
    <3>1. /\ NoteFits(request[t]) /\ AsRead(request[t]) /\ Passed(request[t])
          /\ HasBytes(request[t]) /\ StillEmpty(request[t])
      BY DEF IInv, Known
    <3>2. NoteFits(request[t])' /\ AsRead(request[t])'
      BY <2>1, <3>1 DEF NoteFits, AsRead
    <3>3. Passed(request[t])'
      BY <2>1, <3>1 DEF Passed, Browsable
    <3>4. HasBytes(request[t])'
      BY <2>1, <3>1 DEF HasBytes, Held
    <3>5. StillEmpty(request[t])'
      BY <2>1, <3>1 DEF StillEmpty, RowsOf
    <3> QED BY <3>2, <3>3, <3>4, <3>5
  <2>4. RacesAreMarked'
    BY <2>1 DEF IInv, RacesAreMarked, Relying, Unlinking, Writing, Dropping
  <2>5. RowsResolve' /\ NobodyNeeds'
    BY <2>1 DEF IInv, RowsResolve, Resolves, NobodyNeeds, Unlinking
  <2> QED BY <2>2, <2>3, <2>4, <2>5 DEF IInv, Known
<1>2. ASSUME NEW t \in Threads, Handler(t), Marks
      PROVE  IInv'
  <2>1. CASE BeginUpload(t) \/ Find(t) \/ Upsert(t) \/ Insert(t)
    BY <1>2, <2>1, BeginUploadKeeps, FindKeeps, UpsertKeeps, InsertKeeps
  <2>2. CASE InsertRefused(t) \/ EndMigrate(t)
    <3>1. Quiet /\ End(t)
      BY <2>2 DEF InsertRefused, EndMigrate, Quiet
    <3> QED BY <1>2, <3>1, EndKeeps
  <2>3. CASE BeginPut(t) \/ BeginForget(t) \/ Drop(t)
    BY <1>2, <2>3, BeginPutKeeps, BeginForgetKeeps, DropKeeps
  <2>4. CASE BeginDelete(t) \/ Remove(t) \/ Count(t) \/ PruneLook(t) \/ PruneDrop(t) \/ Unlink(t)
    BY <1>2, <2>4, BeginDeleteKeeps, RemoveKeeps, CountKeeps, PruneLookKeeps, PruneDropKeeps,
       UnlinkKeeps
  <2>5. CASE BeginCopy(t) \/ CopyNext(t) \/ CopyInsert(t)
    BY <1>2, <2>5, BeginCopyKeeps, CopyNextKeeps, CopyInsertKeeps
  <2>6. CASE BeginMigrate(t) \/ List(t) \/ Look(t) \/ CopyBytes(t) \/ Repoint(t)
    BY <1>2, <2>6, BeginMigrateKeeps, ListKeeps, LookKeeps, CopyBytesKeeps, RepointKeeps
  <2> QED BY <1>2, <2>1, <2>2, <2>3, <2>4, <2>5, <2>6 DEF Handler
<1> QED BY <1>1, <1>2 DEF Next, Marks

\* Rows and stores are sound in every reachable state: rows belong to notes that
\* are there, and their bytes can be found unless a removal of that content
\* overlapped an upload or a copy of it.
THEOREM AttachmentsAreSound == Spec => []Sound
<1>1. Init => IInv
  BY InitHolds
<1>2. IInv /\ [Next]_vars => IInv'
  BY NextKeeps
<1>3. IInv => Sound
  BY DEF IInv, Sound
<1> QED BY <1>1, <1>2, <1>3, PTL DEF Spec

\* What a step may take away.
MayTake ==
    /\ \A r \in rows :
         \/ \E q \in rows' : q.id = r.id
         \/ \E t \in Threads : At(t, {"delete"}, "remove") /\ request[t].row.id = r.id
         \/ \E t \in Threads : At(t, {"forget"}, "drop") /\ request[t].note = r.note
         \/ r.note \in racedNotes
    /\ \A n \in words \ words' :
         \/ \E t \in Threads : At(t, {"forget"}, "drop") /\ request[t].note = n
         \/ \E t \in Threads : request[t] # Idle /\ request[t].kind = "put"
                               /\ request[t].text = "clear" /\ request[t].note = n
         \/ n \in racedNotes

\* A request that deletes a note takes only what may be taken.
LEMMA DropTakes ==
    ASSUME IInv, NEW t \in Threads, request[t].at = "drop", DeleteNote(request[t].note)
    PROVE  MayTake
<1> DEFINE q == request[t]
<1>1. words' = words \ {q.note} /\ rows' = rows \ RowsOf(q.note)
  BY DEF DeleteNote
<1>f. Fits(q) /\ StillEmpty(q)
  BY DEF IInv, Known, RequestsFit
<1>2. q.kind \in {"put", "forget", "delete"} /\ q # Idle
      /\ (q.kind = "put" => q.text = "clear")
  BY <1>f, Kinds DEF Fits, Idle
<1>3. CASE q.kind = "forget"
  BY <1>1, <1>3 DEF MayTake, At, RowsOf
<1>4. CASE q.kind # "forget" /\ q.note \in racedNotes
  BY <1>1, <1>4 DEF MayTake, RowsOf
<1>5. CASE q.kind # "forget" /\ q.note \notin racedNotes
  <2>1. RowsOf(q.note) = {} /\ (q.kind = "delete" => q.note \notin words)
    BY <1>5, <1>f DEF StillEmpty
  <2>2. rows' = rows
    BY <2>1, <1>1
  <2>3. \A n \in words \ words' : n = q.note /\ q.kind = "put"
    BY <2>1, <1>1, <1>2, <1>5
  <2> QED BY <2>2, <2>3, <1>2 DEF MayTake
<1> QED BY <1>3, <1>4, <1>5

\* A step after which every row and word is there takes nothing.
LEMMA NothingTaken ==
    ASSUME rows \subseteq rows', words \subseteq words'
    PROVE  MayTake
BY DEF MayTake

\* The upsert of a note takes only the words its user cleared.
LEMMA UpsertTakes ==
    ASSUME IInv, NEW t \in Threads, Upsert(t)
    PROVE  MayTake
<1> DEFINE q == request[t]
           n == IF q.note = 0 THEN lastNote + 1 ELSE q.note
<1>1. rows' = rows /\ (words' = words \/ words' = Written(n, q.text))
  BY DEF Upsert, tables
<1>2. Fits(q) /\ q.kind \in {"upload", "put", "copy"} /\ q.text \in {"set", "clear", "keep"}
      /\ (q.text = "clear" => q.kind = "put") /\ q # Idle
  BY Kept, Kinds DEF Upsert, At, Uploads, Puts, Copies, Idle
<1>3. CASE words' = words \/ q.text \in {"set", "keep"}
  BY <1>1, <1>3, WordsOf, NothingTaken
<1>4. CASE words' = Written(n, q.text) /\ q.text = "clear"
  <2>1. words' = words \ {n}
    BY <1>4, WordsOf
  <2>2. CASE q.note # 0
    <3>1. \A m \in words \ words' : m = q.note
      BY <2>1, <2>2
    <3> QED BY <3>1, <1>1, <1>2, <1>4 DEF MayTake
  <2>3. CASE q.note = 0
    <3>1. n \notin words
      <4>1. lastNote \in Nat /\ \A s \in Subjects : note[s] \in 0..lastNote
        BY Kept
      <4>2. \A s \in Subjects : note[s] # lastNote + 1
        BY <4>1
      <4> QED BY <4>2, <2>3 DEF IInv, TypeOK
    <3> QED BY <3>1, <2>1, <1>1, NothingTaken
  <2> QED BY <2>2, <2>3
<1> QED BY <1>1, <1>2, <1>3, <1>4

\* No request takes a row or a note's words away unasked, unless the note was
\* written to by one request while another had found it empty.
THEOREM NothingIsTakenUnasked == Spec => RemovesOnlyAsked
<1>1. Init => IInv
  BY InitHolds
<1>2. IInv /\ [Next]_vars => IInv'
  BY NextKeeps
<1>3. ASSUME IInv, Next
      PROVE  MayTake
  <2>1. PICK t \in Threads : Handler(t)
    BY <1>3 DEF Next
  <2>2. CASE Upsert(t)
    BY <1>3, <2>2, UpsertTakes
  <2>3. CASE Drop(t) \/ PruneDrop(t)
    BY <1>3, <2>3, DropTakes DEF Drop, PruneDrop, At
  <2>4. CASE Remove(t)
    BY <2>4 DEF Remove, MayTake, At
  <2>5. CASE Repoint(t)
    <3>1. \A r \in rows : \E q \in rows' : q.id = r.id
      <4> SUFFICES ASSUME NEW r \in rows PROVE \E q \in rows' : q.id = r.id
        OBVIOUS
      <4>1. r \in Row
        BY <1>3 DEF IInv, TypeOK
      <4> DEFINE z == IF r.id = request[t].row.id THEN [r EXCEPT !.root = request[t].root] ELSE r
      <4>2. z \in rows'
        BY <2>5 DEF Repoint
      <4>3. z.id = r.id
        BY <4>1 DEF Row
      <4> QED BY <4>2, <4>3
    <3> QED BY <3>1, <2>5 DEF Repoint, MayTake
  <2>6. CASE \/ BeginUpload(t) \/ Find(t) \/ Insert(t) \/ InsertRefused(t)
             \/ BeginPut(t) \/ BeginForget(t) \/ BeginDelete(t) \/ Count(t) \/ PruneLook(t)
             \/ Unlink(t) \/ BeginCopy(t) \/ CopyNext(t) \/ CopyInsert(t) \/ BeginMigrate(t)
             \/ List(t) \/ Look(t) \/ CopyBytes(t) \/ EndMigrate(t)
    <3>1. rows \subseteq rows' /\ words \subseteq words'
      BY <2>6 DEF BeginUpload, Find, Insert, InsertRow, InsertRefused, BeginPut, BeginForget,
         BeginDelete, Count, PruneLook, Unlink, BeginCopy, CopyNext, CopyInsert, BeginMigrate,
         List, Look, CopyBytes, EndMigrate, tables
    <3> QED BY <3>1, NothingTaken
  <2> QED BY <2>1, <2>2, <2>3, <2>4, <2>5, <2>6 DEF Handler
<1>4. IInv /\ [Next]_vars => [MayTake]_vars
  BY <1>3
<1> QED BY <1>1, <1>2, <1>4, PTL DEF Spec, RemovesOnlyAsked, MayTake

\* A migration that ends leaves every attachment it listed browsable.
EndsComplete ==
    \A t \in Threads :
        At(t, {"migrate"}, "look") /\ request'[t] = Idle =>
            \A r \in rows : r.id <= request[t].upto =>
                Browsable(r) \/ Digest[r.name] \in racedBytes

\* A migration ends only with nothing left to look at, and what it has passed
\* is browsable.
THEOREM MigrationsAreComplete == Spec => MigrationIsComplete
<1>1. Init => IInv
  BY InitHolds
<1>2. IInv /\ [Next]_vars => IInv'
  BY NextKeeps
<1>3. ASSUME IInv, Next
      PROVE  EndsComplete
  <2> SUFFICES ASSUME NEW t \in Threads, At(t, {"migrate"}, "look"), request'[t] = Idle,
                      NEW r \in rows, r.id <= request[t].upto
               PROVE  Browsable(r) \/ Digest[r.name] \in racedBytes
    BY DEF EndsComplete
  <2>1. Passed(request[t]) /\ request[t].at = "look" /\ request[t].kind = "migrate"
        /\ request[t] # Idle /\ request[t] \in Migrations /\ DOMAIN request = Threads
    BY <1>3, Kept, Kinds DEF IInv, Known, At, Idle
  <2>2. PICK u \in Threads : Handler(u)
    BY <1>3 DEF Next
  <2>3. u = t
    <3>1. \A v \in Threads : v # u => request'[v] = request[v]
      BY <2>2, <2>1 DEF Handler, BeginUpload, Find, Upsert, Insert, InsertRefused, BeginPut,
         BeginForget, Drop, BeginDelete, Remove, Count, PruneLook, PruneDrop, Unlink, BeginCopy,
         CopyNext, CopyInsert, BeginMigrate, List, Look, CopyBytes, Repoint, EndMigrate,
         Begin, Goto, GotoWith, End
    <3> QED BY <3>1, <2>1
  <2>4. request[t].todo = {}
    <3>1. Look(t) \/ EndMigrate(t)
      BY <2>1, <2>2, <2>3 DEF Handler, BeginUpload, Find, Upsert, Insert, InsertRefused, BeginPut,
         BeginForget, Drop, BeginDelete, Remove, Count, PruneLook, PruneDrop, Unlink, BeginCopy,
         CopyNext, CopyInsert, BeginMigrate, List, CopyBytes, Repoint, Begin, At
    <3>2. ~Look(t)
      <4>1. Look(t) => request'[t].kind = "migrate"
        BY <2>1 DEF Look, Migrations
      <4> QED BY <4>1 DEF Idle
    <3> QED BY <3>1, <3>2 DEF EndMigrate
  <2>5. Ahead(request[t]) = {}
    BY <2>1, <2>4 DEF Ahead
  <2> QED BY <2>1, <2>5 DEF Passed
<1>4. IInv /\ [Next]_vars => [EndsComplete]_vars
  BY <1>3
<1> QED BY <1>1, <1>2, <1>4, PTL DEF Spec, MigrationIsComplete, EndsComplete

=============================================================================
