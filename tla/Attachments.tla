------------------------------ MODULE Attachments ------------------------------
(***************************************************************************)
(* Origin notes and their attachments: rows in user.sqlite                 *)
(* (backend/files_base/annotations.py), content-addressed bytes in the     *)
(* store's folder (backend/files_base/attachment_store.py) and the request *)
(* handlers that keep the two together (backend/routers/files.py).         *)
(*                                                                         *)
(* No lock spans a request.  A lookup, a group of writes up to its         *)
(* commit(), and a change of the store is a step.  Taken as one step are   *)
(* the SELECTs of one lookup (get_annotation, prune_if_empty), the two     *)
(* reads of the setting and the write of the bytes, and a note's text with *)
(* the links and the lookup that follow its commit.  Uploads run on the    *)
(* event loop, the other handlers on a pool of threads.                    *)
(***************************************************************************)
EXTENDS Naturals

CONSTANTS
    Threads,
    Subjects,      \* what a note is about: a file's content hash, or a folder
    Names,         \* names of stored bytes: <content hash>.<extension>
    Digest,        \* the content hash in a name
    Home,          \* config.BASE_HOME, the managed store
    Folders,       \* folders a user may choose as the store
    NoFolder,
    MaxNotes, MaxRows   \* bounds on the AUTOINCREMENT ids

ASSUME DigestAssumption == DOMAIN Digest = Names
ASSUME FolderAssumption == NoFolder \notin Folders
ASSUME BoundAssumption  == MaxNotes \in Nat /\ MaxRows \in Nat

VARIABLES
    disk,       \* the stored bytes: <<root, layout, name>>
    note,       \* files_annotations: the note of each subject, 0 for none
    words,      \* the notes with a description, author, extra info or link
    rows,       \* files_annotation_attachments
    lastNote, lastRow,
    request,    \* the handler each thread runs
    racedBytes, racedNotes  \* history: handled by two requests at once

tables == <<note, words, rows, lastNote, lastRow>>
vars   == <<disk, tables, request, racedBytes, racedNotes>>

Roots   == Folders \cup {Home}
Layouts == {"folder", "managed"}
Digests == {Digest[n] : n \in Names}
Row == [id : 0..MaxRows, note : 0..MaxNotes, name : Names, root : Roots]

\* attachment_store_root() and attachment_store_mode() under a setting.  A user
\* may save another one between any two reads: a read takes any of Settings.
Settings     == Folders \cup {NoFolder}
StoreRoot(f) == IF f = NoFolder THEN Home ELSE f
Layout(f)    == IF f = NoFolder THEN "managed" ELSE "folder"

\* resolve_attachment(): either layout of the row's own root.
Resolves(r) == \E l \in Layouts : <<r.root, l, r.name>> \in disk
Browsable(r) == <<r.root, "folder", r.name>> \in disk

RowsOf(n) == {r \in rows : r.note = n}
Live(n)   == n # 0 /\ \E s \in Subjects : note[s] = n

NoRow == [id |-> 0, note |-> 0]
Idle == [at |-> "idle", kind |-> "none"]

\* Every variable has its type; a row belongs to a note that is there (foreign
\* keys), and notes and rows have ids and subjects of their own.
TypeOK ==
    /\ disk \subseteq Roots \X Layouts \X Names
    /\ note \in [Subjects -> 0..lastNote]
    /\ words \subseteq {note[s] : s \in Subjects} \ {0}
    /\ rows \subseteq Row
    /\ \A r \in rows : Live(r.note) /\ r.id \in 1..lastRow
    /\ \A r, q \in rows : r.id = q.id => r = q
    /\ \A s, z \in Subjects : note[s] = note[z] => s = z \/ note[s] = 0
    /\ lastNote \in 0..MaxNotes /\ lastRow \in 0..MaxRows
    /\ racedBytes \subseteq Digests /\ racedNotes \subseteq 1..MaxNotes

Init ==
    /\ disk = {}
    /\ note = [s \in Subjects |-> 0]
    /\ words = {} /\ rows = {}
    /\ lastNote = 0 /\ lastRow = 0
    /\ request = [t \in Threads |-> Idle]
    /\ racedBytes = {} /\ racedNotes = {}

-----------------------------------------------------------------------------
(* Where a handler goes on, and how it ends (an answer or an exception).   *)

Begin(t, r) ==
    /\ request[t] = Idle
    /\ request' = [request EXCEPT ![t] = r]

\* For uploads this is the event loop: there is no await between the bytes and
\* the row.  For copies and migrations it is a bound, one of each at a time.
Alone(kind) == \A u \in Threads : request[u].kind # kind

At(t, kinds, step) == request[t].at = step /\ request[t].kind \in kinds
Goto(t, step) == request' = [request EXCEPT ![t].at = step]
GotoWith(t, step, field, value) ==
    request' = [request EXCEPT ![t] = [@ EXCEPT !.at = step, ![field] = value]]
End(t) == request' = [request EXCEPT ![t] = Idle]

\* delete_annotation(): the note, its links and its rows, never their bytes.
DeleteNote(n) ==
    /\ note' = [s \in Subjects |-> IF note[s] = n THEN 0 ELSE note[s]]
    /\ words' = words \ {n}
    /\ rows' = rows \ RowsOf(n)
    /\ UNCHANGED <<lastNote, lastRow>>

\* add_attachment(): foreign keys are on, so the note must still be there.
InsertRow(r) ==
    /\ Live(r.note) /\ lastRow < MaxRows
    /\ lastRow' = lastRow + 1
    /\ rows' = rows \cup {[r EXCEPT !.id = lastRow + 1]}
    /\ UNCHANGED <<note, words, lastNote>>

-----------------------------------------------------------------------------
(* upload_attachment, and upsert_annotation, which put_info and copy_info  *)
(* call as well.  "text" is what the call does to the note's words.        *)

\* write_attachment() is a no-op when the bytes are there.
BeginUpload(t) ==
    \E s \in Subjects, n \in Names, f \in Settings :
        LET row == [id |-> 0, note |-> 0, name |-> n, root |-> StoreRoot(f)]
        IN  /\ Alone("upload")
            /\ Begin(t, [at |-> "find", kind |-> "upload", subject |-> s, text |-> "keep",
                         note |-> 0, row |-> row, held |-> {}])
            /\ disk' = disk \cup {<<row.root, Layout(f), n>>}
            /\ UNCHANGED tables

Find(t) ==
    /\ At(t, {"upload", "put", "copy"}, "find")
    /\ GotoWith(t, "upsert", "note", note[request[t].subject])
    /\ UNCHANGED <<disk, tables>>

Written(n, text) ==
    CASE text = "set"   -> words \cup {n}
      [] text = "clear" -> words \ {n}
      [] text = "keep"  -> words

\* INSERT, refused by the unique index when another request was first, or an
\* UPDATE by id, which finds nothing when the note is gone.  The note is then
\* read again: "assert resolved is not None" raises when there is none.
Upsert(t) ==
    LET s == request[t].subject
        n == IF request[t].note = 0 THEN lastNote + 1 ELSE request[t].note
        refused == request[t].note = 0 /\ (note[s] # 0 \/ lastNote = MaxNotes)
        next == [upload |-> "insert", put |-> "done", copy |-> "next"][request[t].kind]
    IN  /\ At(t, {"upload", "put", "copy"}, "upsert")
        /\ IF refused \/ (request[t].note # 0 /\ ~Live(n))
           THEN UNCHANGED tables
           ELSE /\ note' = [note EXCEPT ![s] = n]
                /\ lastNote' = IF n > lastNote THEN n ELSE lastNote
                /\ words' = Written(n, request[t].text)
                /\ UNCHANGED <<rows, lastRow>>
        /\ IF refused \/ note'[s] = 0 \/ next = "done"
           THEN End(t)
           ELSE request' = [request EXCEPT ![t] =
                    [request[t] EXCEPT !.at = next, !.text = "keep", !.note = note'[s],
                                       !.row = [@ EXCEPT !.note = note'[s]],
                                       !.held = {Digest[r.name] : r \in RowsOf(note'[s])}]]
        /\ UNCHANGED disk

Insert(t) ==
    /\ At(t, {"upload"}, "insert")
    /\ InsertRow(request[t].row)
    /\ End(t)
    /\ UNCHANGED disk

-----------------------------------------------------------------------------
(* put_info and delete_info.                                               *)

\* An empty note without attachments is deleted, any other one upserted.
BeginPut(t) ==
    \E s \in Subjects, text \in {"set", "clear"} :
        LET empty == text = "clear" /\ RowsOf(note[s]) = {}
        IN  /\ ~(empty /\ note[s] = 0)
            /\ Begin(t, [at |-> IF empty THEN "drop" ELSE "find", kind |-> "put", subject |-> s,
                         text |-> text, note |-> note[s],
                         row |-> NoRow, held |-> {}])
            /\ UNCHANGED <<disk, tables>>

BeginForget(t) ==
    \E s \in Subjects :
        /\ note[s] # 0
        /\ Begin(t, [at |-> "drop", kind |-> "forget", note |-> note[s]])
        /\ UNCHANGED <<disk, tables>>

Drop(t) ==
    /\ At(t, {"put", "forget"}, "drop")
    /\ DeleteNote(request[t].note)
    /\ End(t)
    /\ UNCHANGED disk

-----------------------------------------------------------------------------
(* delete_attachment: the row, the count of rows with its content hash,    *)
(* prune_if_empty() of its note, and last the bytes.                       *)

BeginDelete(t) ==
    \E r \in rows :
        /\ Begin(t, [at |-> "remove", kind |-> "delete", row |-> r, note |-> r.note,
                     orphaned |-> FALSE])
        /\ UNCHANGED <<disk, tables>>

\* Another request may have removed the row since it was read.
Remove(t) ==
    /\ At(t, {"delete"}, "remove")
    /\ rows' = {r \in rows : r.id # request[t].row.id}
    /\ IF rows' = rows THEN End(t) ELSE Goto(t, "count")
    /\ UNCHANGED <<disk, note, words, lastNote, lastRow>>

SameBytes(r) == {q \in rows : Digest[q.name] = Digest[r.name]}

\* Mutant: only the rows of the note the attachment was removed from count.
CountInNote(t) ==
    /\ At(t, {"delete"}, "count")
    /\ GotoWith(t, "prune", "orphaned",
                SameBytes(request[t].row) \cap RowsOf(request[t].note) = {})
    /\ UNCHANGED <<disk, tables>>

Count(t) ==
    /\ At(t, {"delete"}, "count")
    /\ GotoWith(t, "prune", "orphaned", SameBytes(request[t].row) = {})
    /\ UNCHANGED <<disk, tables>>

\* Mutant: a note without text and links is deleted, attachments or not.
PruneLookAtWords(t) ==
    LET n == request[t].note
    IN  /\ At(t, {"delete"}, "prune")
        /\ IF Live(n) /\ n \notin words THEN Goto(t, "drop")
           ELSE IF request[t].orphaned THEN Goto(t, "unlink")
           ELSE End(t)
        /\ UNCHANGED <<disk, tables>>

\* prune_if_empty(), up to its delete_annotation().
PruneLook(t) ==
    LET n == request[t].note
    IN  /\ At(t, {"delete"}, "prune")
        /\ IF Live(n) /\ n \notin words /\ RowsOf(n) = {} THEN Goto(t, "drop")
           ELSE IF request[t].orphaned THEN Goto(t, "unlink")
           ELSE End(t)
        /\ UNCHANGED <<disk, tables>>

PruneDrop(t) ==
    /\ At(t, {"delete"}, "drop")
    /\ DeleteNote(request[t].note)
    /\ IF request[t].orphaned THEN Goto(t, "unlink") ELSE End(t)
    /\ UNCHANGED disk

\* delete_attachment_file() clears both layouts of the row's root.
Unlink(t) ==
    /\ At(t, {"delete"}, "unlink")
    /\ disk' = {b \in disk : b[1] # request[t].row.root \/ b[3] # request[t].row.name}
    /\ End(t)
    /\ UNCHANGED tables

-----------------------------------------------------------------------------
(* copy_info: rows that share the bytes of the source's attachments.  Any  *)
(* user may agree to overwrite the target's description.                   *)

BeginCopy(t) ==
    \E from \in Subjects, to \in Subjects :
        /\ from # to /\ note[from] # 0
        /\ Alone("copy")
        /\ Begin(t, [at |-> "find", kind |-> "copy", subject |-> to, note |-> 0,
                     text |-> IF note[from] \in words THEN "set" ELSE "keep",
                     row |-> NoRow, todo |-> RowsOf(note[from]), held |-> {}])
        /\ UNCHANGED <<disk, tables>>

First(S) == CHOOSE r \in S : \A q \in S : r.id <= q.id

\* The next attachment: skipped when the target holds its content or when its
\* row is gone, read again for its root otherwise.
CopyNext(t) ==
    LET q == request[t]
        r == First(q.todo)
        found == {z \in rows : z.id = r.id /\ Digest[z.name] \notin q.held}
    IN  /\ At(t, {"copy"}, "next")
        /\ IF q.todo = {} THEN End(t)
           ELSE request' = [request EXCEPT ![t] =
                    [q EXCEPT !.todo = @ \ {r},
                              !.at = IF found = {} THEN "next" ELSE "insert",
                              !.held = @ \cup {Digest[z.name] : z \in found},
                              !.row = IF found = {} THEN @
                                      ELSE [First(found) EXCEPT !.note = q.note]]]
        /\ UNCHANGED <<disk, tables>>

CopyInsert(t) ==
    /\ At(t, {"copy"}, "insert")
    /\ InsertRow(request[t].row)
    /\ GotoWith(t, "next", "row", NoRow)
    /\ UNCHANGED disk

\* The IntegrityError of a row whose note another request deleted.  A table at
\* its bound refuses as well.
InsertRefused(t) ==
    /\ At(t, {"upload", "copy"}, "insert")
    /\ ~Live(request[t].row.note) \/ lastRow = MaxRows
    /\ End(t)
    /\ UNCHANGED <<disk, tables>>

-----------------------------------------------------------------------------
(* migrate_attachments_to_folder.  The mode and the folder are two reads.  *)

BeginMigrate(t) ==
    /\ \E f \in Settings : Layout(f) = "folder"
    /\ Alone("migrate")
    /\ Begin(t, [at |-> "list", kind |-> "migrate", root |-> Home, todo |-> {}, upto |-> 0,
                 row |-> NoRow])
    /\ UNCHANGED <<disk, tables>>

List(t) ==
    /\ At(t, {"migrate"}, "list")
    /\ \E f \in Settings :
           request' = [request EXCEPT ![t] =
               [@ EXCEPT !.at = "look", !.root = StoreRoot(f), !.todo = rows, !.upto = lastRow]]
    /\ UNCHANGED <<disk, tables>>

\* Mutant: bytes that are already in the target need nothing done.
LookForBytes(t) ==
    LET q == request[t]
        r == First(q.todo)
        step == IF <<q.root, "folder", r.name>> \in disk \/ ~Resolves(r) THEN "look" ELSE "copy"
    IN  /\ At(t, {"migrate"}, "look")
        /\ q.todo # {}
        /\ request' = [request EXCEPT ![t] =
               [q EXCEPT !.at = step, !.todo = @ \ {r}, !.row = IF step = "look" THEN NoRow ELSE r]]
        /\ UNCHANGED <<disk, tables>>

\* Already visible in the target, to be copied there, or without bytes.
Look(t) ==
    LET q == request[t]
        r == First(q.todo)
        there == <<q.root, "folder", r.name>> \in disk
        step == IF there THEN IF r.root # q.root THEN "repoint" ELSE "look"
                ELSE IF Resolves(r) THEN "copy" ELSE "look"
    IN  /\ At(t, {"migrate"}, "look")
        /\ q.todo # {}
        /\ request' = [request EXCEPT ![t] =
               [q EXCEPT !.at = step, !.todo = @ \ {r}, !.row = IF step = "look" THEN NoRow ELSE r]]
        /\ UNCHANGED <<disk, tables>>

\* read_bytes() raises when the bytes went meanwhile.
CopyBytes(t) ==
    LET q == request[t]
    IN  /\ At(t, {"migrate"}, "copy")
        /\ IF Resolves(q.row)
           THEN disk' = disk \cup {<<q.root, "folder", q.row.name>>} /\ Goto(t, "repoint")
           ELSE End(t) /\ UNCHANGED disk
        /\ UNCHANGED tables

Repoint(t) ==
    LET q == request[t]
    IN  /\ At(t, {"migrate"}, "repoint")
        /\ rows' = {IF r.id = q.row.id THEN [r EXCEPT !.root = q.root] ELSE r : r \in rows}
        /\ GotoWith(t, "look", "row", NoRow)
        /\ UNCHANGED <<disk, note, words, lastNote, lastRow>>

EndMigrate(t) ==
    /\ At(t, {"migrate"}, "look")
    /\ request[t].todo = {}
    /\ End(t)
    /\ UNCHANGED <<disk, tables>>

-----------------------------------------------------------------------------
(* History: who overlapped whom.  A digest is raced when a request that    *)
(* relies on its bytes and one that is about to unlink them are both under *)
(* way; a note, when one that writes to it and one that found it empty and *)
(* is about to delete it are.                                              *)

Relying == {Digest[request[t].row.name] : t \in {u \in Threads :
                request[u].kind = "upload" \/ request[u].at \in {"insert", "repoint"}}}

Unlinking == {Digest[request[t].row.name] : t \in {u \in Threads :
                request[u].at \in {"prune", "drop", "unlink"}
                /\ request[u].kind = "delete" /\ request[u].orphaned}}

Writing == {request[t].note : t \in {u \in Threads :
                \/ request[u].at = "insert"
                \/ request[u].at = "upsert" /\ request[u].text = "set"}}

Dropping == {request[t].note : t \in {u \in Threads :
                request[u].at = "drop" /\ request[u].kind # "forget"}}

\* A digest's race is forgotten once no request and no loss bears its mark.
InUse == Relying \cup Unlinking \cup {Digest[r.name] : r \in {q \in rows : ~Resolves(q)}}
         \cup (IF Alone("migrate") THEN {} ELSE Digests)

Handler(t) ==
    \/ BeginUpload(t) \/ Find(t) \/ Upsert(t)
    \/ Insert(t) \/ InsertRefused(t)
    \/ BeginPut(t) \/ BeginForget(t) \/ Drop(t)
    \/ BeginDelete(t) \/ Remove(t) \/ Count(t) \/ PruneLook(t) \/ PruneDrop(t) \/ Unlink(t)
    \/ BeginCopy(t) \/ CopyNext(t) \/ CopyInsert(t)
    \/ BeginMigrate(t) \/ List(t) \/ Look(t) \/ CopyBytes(t) \/ Repoint(t) \/ EndMigrate(t)

Next ==
    /\ \E t \in Threads : Handler(t)
    /\ racedBytes' = {d \in racedBytes \cup (Relying \cap Unlinking)' : d \in InUse'}
    /\ racedNotes' = {n \in racedNotes \cup (Writing \cap Dropping)' : n \in Dropping'}

Spec == Init /\ [][Next]_vars

-----------------------------------------------------------------------------
(* Properties. *)

\* The bytes of every attachment a note lists can be found, whatever stores
\* were chosen, migrated to or shared by copies since they were uploaded,
\* unless an upload or a copy of that content overlapped the removal of its
\* last row: the count in delete_attachment and the unlink after it are not
\* one step, and write_attachment trusts the bytes it finds.
RowsResolve == \A r \in rows : Resolves(r) \/ Digest[r.name] \in racedBytes

\* What every state of the rows and the stores has to satisfy.
Sound == TypeOK /\ RowsResolve

\* No request but the removal of an attachment and the deletion of a note takes
\* a row away, and none but those and an empty put takes a note's words away:
\* prune_if_empty and the empty put delete by id, with everything the note
\* then has, unless a request wrote to the note after they had looked.
RemovesOnlyAsked ==
    [][/\ \A r \in rows :
            \/ \E q \in rows' : q.id = r.id
            \/ \E t \in Threads : At(t, {"delete"}, "remove") /\ request[t].row.id = r.id
            \/ \E t \in Threads : At(t, {"forget"}, "drop") /\ request[t].note = r.note
            \/ r.note \in racedNotes
       /\ \A n \in words \ words' :
            \/ \E t \in Threads : At(t, {"forget"}, "drop") /\ request[t].note = n
            \/ \E t \in Threads : request[t] # Idle /\ request[t].kind = "put"
                                  /\ request[t].text = "clear" /\ request[t].note = n
            \/ n \in racedNotes]_vars

\* A migration that ends has made every attachment it listed browsable in the
\* folder its row names ("previously hidden attachments become browsable"),
\* stores being switched and rows removed and added under it.
MigrationIsComplete ==
    [][\A t \in Threads :
        At(t, {"migrate"}, "look") /\ request'[t] = Idle =>
            \A r \in rows : r.id <= request[t].upto =>
                Browsable(r) \/ Digest[r.name] \in racedBytes]_vars

=============================================================================
