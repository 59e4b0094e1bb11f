---------------------------- MODULE PipelineProofs ----------------------------
(***************************************************************************)
(* Proofs about Pipeline, for every set of files, contents, revisions and  *)
(* tools, every limit on failures and any number of jobs and edits.        *)
(***************************************************************************)
EXTENDS Pipeline, TLAPS

-----------------------------------------------------------------------------
\* The places of a process that writes sidecars, and the processes of a job.
Filling   == {"match", "extra", "save", "json", "settle"}
Processes == {"discover", "enrich", "backfill", "finalize", "sync", "sqlite", "clean"}
Places    == Processes \cup Filling
                 \cup {"idle", "discovered", "enriching", "scan", "index", "mark", "import", "unlink"}
Kinds     == {"json", "tags"}

\* A job is a record of these fields.
Shape(j) ==
    j \in [tool : {"none"} \cup DOMAIN Steps, steps : Seq(Processes), at : Places, todo : {j.todo},
           file : Files \cup {"none"}, media : {j.media}, cards : {j.cards}, md5s : {j.md5s},
           post : Cards, wrong : BOOLEAN, kind : {"none"} \cup Failures, failures : Nat,
           incomplete : BOOLEAN]

\* An import runs its four processes in order.
InOrder(j) ==
    \/ j.at \in {"discover", "discovered"} /\ j.steps = <<"discover", "enrich", "backfill", "finalize">>
    \/ j.at \in {"enrich", "enriching"} /\ j.steps = <<"enrich", "backfill", "finalize">>
    \/ j.at \in {"backfill"} \cup Filling /\ j.steps = <<"backfill", "finalize">>
    \/ j.at \in {"finalize", "scan", "index", "mark"} /\ j.steps = <<"finalize">>

\* What a process holds, and where: the files of its turn, what it read of them.
Fits(j) ==
    /\ Shape(j)
    /\ j.at = "idle" => j = Idle
    /\ j.at # "idle" => j.steps # <<>>
    /\ j.tool = "import" => InOrder(j)
    /\ j.at \in Filling \cup {"discovered", "enriching", "index"} => j.todo \subseteq Files
    /\ j.at \in {"discovered", "index"} => j.media \in [Files -> Versions \cup {0}]
                                           /\ \A f \in j.todo : j.media[f] # 0
    /\ j.at \in Filling =>
          /\ j.cards \in [Files -> Cards] /\ j.md5s \in [Files -> Versions \cup {0}]
          /\ \A f \in Files : j.cards[f].pending => j.cards[f].rev # 0
    /\ j.at \in Filling \ {"match"} => j.file \in j.todo /\ j.post.rev # 0
    /\ j.at \in {"save", "json", "settle"} => j.post.pending \/ j.kind = "none"
    /\ j.at = "index" =>
          j.cards \in [Files -> [at : Layouts \cup {"none"}, stamp : 0..MaxStamp]]
    /\ j.at = "import" => j.todo \subseteq Layouts \X Files
    /\ j.at = "unlink" => j.todo \subseteq Kinds \X (Layouts \X Files)

JobFits == Fits(job)

\* Rows, the ledger, the migration and the user's contents.
RowsTyped ==
    /\ row \in [Files -> [md5 : Versions \cup {0}, rev : Revs \cup {0}, seen : BOOLEAN]]
    /\ \A f \in Files : row[f].seen \/ row[f] = NoRow
    /\ manifest \in [Files -> [at : Layouts \cup {"none", "media"}, card : 0..MaxStamp,
                               media : Versions \cup {0}]]

Entries == [status : {"none", "done", "error", "no_match", "partial"}, enriched : BOOLEAN,
            metadata : BOOLEAN]

LedgerTyped ==
    /\ ledger \in [Files -> Entries]
    /\ \A f \in Files : ledger[f].status = "none" => ledger[f] = NoState

Removals == [Files -> SUBSET UNION {TagsOf[r] : r \in Revs}]

RestTyped ==
    /\ migration.at \in {"off", "look", "copy", "done", "failed"}
    /\ migration = [at |-> migration.at, todo |-> migration.todo, key |-> migration.key]
    /\ migration.todo \subseteq Kinds \X Files
    /\ migration.at = "copy" => migration.key \in Kinds \X Files
    /\ raced \subseteq Files
    /\ \A f \in Files : /\ media[f] <= newest[f]
                        /\ f \in reverted \/ media[f] \in {0, newest[f]}

\* Sidecars of the older layout are from before every tool, and what is copied
\* from them keeps their stamp.
OldCards ==
    /\ 1 <= stamp
    /\ \A k \in Layouts \X Files : /\ json[k].stamp <= stamp /\ tags[k] <= stamp
                                   /\ Exists(k) => json[k].rev # 0
    /\ \A f \in Files : /\ json[<<"legacy", f>>].stamp <= 1 \/ ~json[<<"legacy", f>>].ok
                        /\ ~json[<<"legacy", f>>].pending
                        /\ json[<<"root", f>>].stamp = 1 /\ Exists(<<"legacy", f>>) =>
                               json[<<"root", f>>].rev = json[<<"legacy", f>>].rev

\* A sidecar that is complete has its tags, also while one is written or removed.
Marks(k) == Readable(k) /\ json[k].stamp > 1

Pairs ==
    /\ JsonMarksCompletion
    /\ job.at = "json" =>
          /\ 1 < job.post.stamp /\ job.post.stamp <= stamp
          /\ job.file \notin raced => tags[<<"root", job.file>>] >= job.post.stamp
    /\ job.at = "unlink" =>
          \A k \in Layouts \X Files :
              <<"tags", k>> \in job.todo /\ <<"json", k>> \notin job.todo => ~Marks(k)

\* The row and the manifest row of a file come together; the stamp in the
\* manifest is no newer than the content the row was made of, and a sidecar that
\* has it is the one the row was made of, or the one that one was copied from.
RowFits(f) ==
    /\ row[f].seen <=> manifest[f].at # "none"
    /\ manifest[f].at = "none" => manifest[f] = NoEntry
    /\ manifest[f].card <= stamp
    /\ \A l \in Layouts : manifest[f].at = l /\ Readable(<<l, f>>) /\ json[<<l, f>>].stamp = manifest[f].card =>
           row[f].rev = json[<<l, f>>].rev
    /\ manifest[f].at = "root" /\ manifest[f].card = 1 /\ Exists(<<"legacy", f>>) =>
           row[f].rev = json[<<"legacy", f>>].rev
    /\ manifest[f].at = "media" =>
           /\ row[f].rev = 0 /\ manifest[f].media # 0 /\ manifest[f].media <= newest[f]
           /\ row[f].md5 <= newest[f]
           /\ row[f].md5 # 0 => f \in reverted \/ manifest[f].media <= row[f].md5

Rows == \A f \in Files : RowFits(f)

\* What a process has read is no newer than what there is.
Readings ==
    /\ job.at = "json" => \A f \in Files : manifest[f].card < job.post.stamp
    /\ job.at \in {"discovered", "index"} => \A f \in job.todo : job.media[f] <= newest[f]
    /\ job.at = "enriching" => \A f \in job.todo : row[f].seen
    /\ job.at = "index" =>
          \A f \in Files : /\ job.cards[f].stamp <= stamp
                           /\ job.cards[f].at = "root" => ~Exists(<<"legacy", f>>)

\* The files a process has yet to write, and what their sidecars are unless the
\* user touched them: none, or one that this process saw waiting for details.
Waiting == IF job.at = "settle" THEN job.todo \ {job.file} ELSE job.todo

Listed(f) ==
    /\ ~Exists(<<"root", f>>) => ~Exists(<<"legacy", f>>)
    /\ Exists(<<"root", f>>) => Previous(f)
    /\ Exists(<<"root", f>>) /\ f \notin raced =>
           json[<<"root", f>>].ok /\ json[<<"root", f>>].pending

Lists ==
    /\ job.at \in Filling /\ job.tool # "refresh" => \A f \in Waiting \ touched : Listed(f)
    /\ job.at = "json" /\ job.file \notin touched \cup raced =>
          \A l \in Layouts : Exists(<<l, job.file>>) =>
              \E a \in archive : a.file = job.file /\ a.card = json[<<l, job.file>>]
    /\ job.at = "unlink" => \A u \in job.todo : u[2][2] \notin touched => ~Present(u[2][2])

\* A sync knows the folder, and has indexed what it has seen to.
HasRow(f) == Readable(Indexed(f)) => row[f].rev = CardAt(Indexed(f)).rev

Synced ==
    /\ job.at = "index" => \A f \in Files \ touched :
          /\ job.media[f] = Scanned[f]
          /\ job.cards[f].at = Indexed(f)[1] /\ job.cards[f].stamp = CardAt(Indexed(f)).stamp
          /\ Present(f) /\ f \notin job.todo /\ ~job.wrong => row[f].seen /\ HasRow(f)
    /\ job.at = "mark" => \A f \in Files \ touched :
          (row[f].seen <=> Present(f)) /\ (Present(f) => HasRow(f))

\* An import knows every file once it has discovered it, and has seen to its
\* sidecar once its backfill has gone well.
Served(f) ==
    /\ Existing(f)[1] # "none" \/ ledger[f].status = "no_match"
    /\ Readable(Existing(f)) => ~CardAt(Existing(f)).pending

Imported ==
    job.tool = "import" => \A f \in Files \ touched : Present(f) =>
        /\ job.at = "discovered" /\ f \notin job.todo => ledger[f] # NoState
        /\ job.at = "discovered" => job.media[f] = media[f]
        /\ job.at \notin {"discover", "discovered"} => ledger[f] # NoState
        /\ job.at \in Filling /\ ~job.wrong /\ f \notin job.todo => Served(f)
        /\ job.at = "settle" /\ f = job.file =>
               /\ Exists(<<"root", f>>)
               /\ job.post.pending \/ ~json[<<"root", f>>].pending
        /\ job.at \in {"finalize", "scan", "index", "mark"} /\ ~job.incomplete => Served(f)

IInv ==
    /\ TypeOK
    /\ LedgerTyped
    /\ RestTyped
    /\ JobFits
    /\ OldCards
    /\ Pairs
    /\ Rows
    /\ Readings
    /\ Lists
    /\ Synced
    /\ Imported

-----------------------------------------------------------------------------
(* The processes of a tool.                                                *)

\* A tool starts with the first of its processes.
LEMMA ToolsHaveSteps ==
    /\ "sync" \in DOMAIN Steps /\ Tools \subseteq DOMAIN Steps
    /\ "none" \notin DOMAIN Steps
    /\ \A t \in DOMAIN Steps : Steps[t] \in Seq(Processes) /\ Steps[t] # <<>>
    /\ Steps["import"] = <<"discover", "enrich", "backfill", "finalize">>
<1>1. DOMAIN Steps = {"import", "update", "retry", "backfill", "sync", "rebuild", "clean", "refresh"}
  BY DEF Steps, ImportSteps, BackfillSteps, ToolSteps
<1>2. /\ Steps["import"] = <<"discover", "enrich", "backfill", "finalize">>
      /\ Steps["update"] = <<"discover", "enrich", "finalize">>
      /\ Steps["retry"] = <<"discover", "enrich", "backfill", "finalize">>
      /\ Steps["backfill"] = <<"backfill">>
      /\ Steps["sync"] = <<"sync">>
      /\ Steps["rebuild"] = <<"sqlite", "sync">>
      /\ Steps["clean"] = <<"clean">>
      /\ Steps["refresh"] = <<"backfill", "sync">>
  BY DEF Steps, ImportSteps, BackfillSteps, ToolSteps
<1>3. {<<"discover", "enrich", "backfill", "finalize">>, <<"discover", "enrich", "finalize">>,
       <<"backfill">>, <<"sync">>, <<"sqlite", "sync">>, <<"clean">>, <<"backfill", "sync">>}
          \subseteq Seq(Processes) \ {<<>>}
  BY DEF Processes
<1>4. \A t \in DOMAIN Steps : Steps[t] \in Seq(Processes) /\ Steps[t] # <<>>
  BY <1>1, <1>2, <1>3
<1> QED
  BY <1>1, <1>2, <1>4, ToolAssumption

\* What is left of an import's processes when one of them ends.
LEMMA ImportGoesOn ==
    LET d == <<"discover", "enrich", "backfill", "finalize">>
        e == <<"enrich", "backfill", "finalize">>
        b == <<"backfill", "finalize">>
        f == <<"finalize">>
    IN  /\ Head(d) = "discover" /\ Tail(d) = e /\ d # <<>>
        /\ Head(e) = "enrich" /\ Tail(e) = b /\ e # <<>>
        /\ Head(b) = "backfill" /\ Tail(b) = f /\ b # <<>>
        /\ Head(f) = "finalize" /\ Tail(f) = <<>> /\ f # <<>>
OBVIOUS

\* A job that does nothing yet.
LEMMA IdleFits == Idle.at = "idle" /\ Fits(Idle)
<1>1. NoCard \in Cards /\ {} \subseteq Files
  BY BoundAssumption DEF NoCard, Cards
<1>2. Shape(Idle)
  BY <1>1 DEF Shape, Idle, Places
<1> QED
  BY <1>2 DEF Fits, Idle, Filling

\* A process ends: the job is over, or at the start of its next process.
LEMMA ExitFits ==
    ASSUME JobFits, job # Idle, NEW c \in {0, 1, 3}, Exit(c)
    PROVE  /\ JobFits'
           /\ \/ job' = Idle
              \/ /\ job'.at = Head(Tail(job.steps)) /\ job'.at \in Processes
                 /\ job'.tool = job.tool /\ job'.steps = Tail(job.steps) /\ Tail(job.steps) # <<>>
                 /\ ~job'.incomplete => ~job.incomplete /\ c # 3
           /\ status = "running" /\ status' = "done" => Tail(job.steps) = <<>> /\ c = 0 /\ ~job.incomplete
<1> DEFINE left == Tail(job.steps)
           part == job.incomplete \/ c = 3
           next == [Idle EXCEPT !.tool = job.tool, !.steps = left, !.at = Head(left), !.incomplete = part]
<1>1. /\ Shape(job) /\ job.steps \in Seq(Processes) /\ job.steps # <<>>
      /\ job.tool \in {"none"} \cup DOMAIN Steps /\ job.incomplete \in BOOLEAN
  BY DEF JobFits, Fits, Shape
<1>6. part \in BOOLEAN
  OBVIOUS
<1>2. left \in Seq(Processes)
  BY <1>1
<1>3. status = "running" /\ status' = "done" => left = <<>> /\ c = 0 /\ ~job.incomplete
  BY <1>1 DEF Exit
<1>4. CASE c = 1 \/ left = <<>>
  BY <1>3, <1>4, IdleFits DEF Exit, JobFits
<1>5. CASE c # 1 /\ left # <<>>
  <2>1. Head(left) \in Processes
    BY <1>2, <1>5
  <2>2. job' = next
    BY <1>5 DEF Exit
  <2> HIDE DEF part
  <2>3. /\ next.at = Head(left) /\ next.tool = job.tool /\ next.steps = left /\ next.incomplete = part
    BY DEF Idle
  <2>4. Shape(next)
    <3>1. Shape(Idle) /\ Head(left) \in Places
      BY <2>1, IdleFits DEF Fits, Places
    <3> HIDE DEF left
    <3> QED
      BY <1>1, <1>2, <1>6, <3>1 DEF Shape, Idle
  <2>5. job.tool = "import" => InOrder(next)
    BY <1>5, <2>3, ImportGoesOn DEF JobFits, Fits, InOrder
  <2>6. Fits(next)
    BY <1>5, <2>1, <2>3, <2>4, <2>5 DEF Fits, Processes, Filling
  <2>7. ~part => ~job.incomplete /\ c # 3
    BY DEF part
  <2> HIDE DEF next
  <2> QED
    BY <1>5, <2>1, <2>2, <2>3, <2>6, <2>7, <1>3 DEF JobFits
<1> QED
  BY <1>4, <1>5

\* A process goes on with other files to do.
LEMMA GotoMoves ==
    ASSUME JobFits, NEW a \in Places, NEW t, Goto(a, t)
    PROVE  /\ job'.at = a /\ job'.todo = t /\ Shape(job') /\ UNCHANGED <<removals, status>>
           /\ job'.tool = job.tool /\ job'.steps = job.steps /\ job'.incomplete = job.incomplete
           /\ job'.media = job.media /\ job'.cards = job.cards /\ job'.md5s = job.md5s
           /\ job'.file = job.file /\ job'.post = job.post /\ job'.wrong = job.wrong /\ job'.kind = job.kind
<1>1. job' = [job EXCEPT !.at = a, !.todo = t] /\ UNCHANGED <<removals, status>>
  BY DEF Goto, Stay
<1>2. Shape(job)
  BY DEF JobFits, Fits
<1> QED
  BY <1>1, <1>2 DEF Shape

\* The turn of a file ends, and with a failure perhaps the process.
LEMMA EndTurnMoves ==
    ASSUME JobFits, NEW f, NEW kind \in {"none"} \cup Failures, NEW wrong \in BOOLEAN,
           EndTurn(f, kind, wrong)
    PROVE  /\ job'.at = "match" /\ Shape(job') /\ UNCHANGED <<removals, status>>
           /\ job'.todo \in {{}, job.todo \ {f}} /\ (kind = "none" => job'.todo = job.todo \ {f})
           /\ job'.tool = job.tool /\ job'.steps = job.steps /\ job'.incomplete = job.incomplete
           /\ job'.cards = job.cards /\ job'.md5s = job.md5s
           /\ ~job'.wrong => ~job.wrong /\ ~wrong
<1> DEFINE n    == IF kind = "soft" THEN job.failures + 1 ELSE 0
           stop == kind = "hard" \/ n >= FailureLimit
           left == IF stop THEN {} ELSE job.todo \ {f}
           bad  == job.wrong \/ wrong
<1>1. job' = [job EXCEPT !.at = "match", !.failures = n, !.post = NoCard, !.file = "none",
                         !.kind = "none", !.wrong = bad, !.todo = left]
  BY DEF EndTurn
<1>2. Shape(job) /\ NoCard \in Cards
  BY IdleFits DEF JobFits, Fits, Shape, Idle
<1>3. n \in Nat /\ bad \in BOOLEAN /\ (kind = "none" => left = job.todo \ {f})
  BY <1>2, BoundAssumption DEF Shape
<1>4. left = job.todo \ {f} \/ left = {}
  OBVIOUS
<1>5. ~bad => ~job.wrong /\ ~wrong
  OBVIOUS
<1> HIDE DEF n, bad, left
<1>6. /\ job'.at = "match" /\ job'.todo = left /\ job'.wrong = bad
      /\ job'.tool = job.tool /\ job'.steps = job.steps /\ job'.incomplete = job.incomplete
      /\ job'.cards = job.cards /\ job'.md5s = job.md5s
  BY <1>1, <1>2 DEF Shape
<1>7. "match" \in Places /\ "none" \in Files \cup {"none"} /\ "none" \in {"none"} \cup Failures
  BY DEF Places, Filling
<1>8. Shape(job')
  BY <1>1, <1>2, <1>3, <1>7 DEF Shape
<1>9. UNCHANGED <<removals, status>>
  BY DEF EndTurn, Stay
<1> QED
  BY <1>3, <1>4, <1>5, <1>6, <1>8, <1>9

-----------------------------------------------------------------------------
(* What a step leaves alone keeps what is said of it.                      *)

\* A step of a process that writes no sidecar keeps the types.
LEMMA TypesStay ==
    ASSUME IInv, Outside, CardsKept, JobFits', RowsTyped', LedgerTyped', removals' \in Removals
    PROVE  TypeOK' /\ LedgerTyped' /\ RestTyped' /\ OldCards'
<1>1. job'.at = "idle" <=> job' = Idle
  BY IdleFits DEF JobFits, Fits
<1>2. TypeOK'
  BY <1>1 DEF IInv, TypeOK, RowsTyped, LedgerTyped, Entries, Outside, CardsKept, Removals
<1>3. RestTyped'
  BY DEF IInv, RestTyped, Outside
<1>4. OldCards'
  BY DEF IInv, OldCards, CardsKept, Exists
<1> QED
  BY <1>2, <1>3, <1>4

\* The types that a step starts from.
LEMMA TypesHold ==
    ASSUME IInv
    PROVE  RowsTyped /\ LedgerTyped /\ removals \in Removals /\ JobFits
BY DEF IInv, TypeOK, RowsTyped, Removals

\* A process that is between its files, and knows nothing of them.
AtRest == Processes \cup {"idle", "scan", "import"}

\* In such a place there is no pair of files half written or half removed.
LEMMA RestStays ==
    ASSUME IInv, Outside, CardsKept, job'.at \notin Filling \cup {"unlink"}
    PROVE  Pairs' /\ Lists'
<1>1. Pairs'
  BY DEF IInv, Pairs, JsonMarksCompletion, Readable, CardAt, Outside, CardsKept, Filling
<1>2. Lists'
  BY DEF Lists, Filling
<1> QED
  BY <1>1, <1>2

\* What is counted.
LEMMA Numbers ==
    ASSUME IInv
    PROVE  /\ stamp \in Nat
           /\ \A f \in Files : /\ newest[f] \in Nat /\ media[f] \in Nat
                               /\ row[f].md5 \in Nat
                               /\ manifest[f].media \in Nat /\ manifest[f].card \in Nat
<1>1. Versions \cup {0} \subseteq Nat /\ 0..MaxStamp \subseteq Nat
  BY VersionAssumption, BoundAssumption
<1>2. \A f \in Files : newest[f] \in Versions \cup {0} /\ media[f] \in Versions \cup {0}
  BY DEF IInv, TypeOK
<1>3. \A f \in Files : /\ row[f].md5 \in Versions \cup {0} /\ manifest[f].media \in Versions \cup {0}
                      /\ manifest[f].card \in 0..MaxStamp
  BY TypesHold DEF RowsTyped
<1>4. stamp \in 0..MaxStamp
  BY DEF IInv, TypeOK
<1> QED
  BY <1>1, <1>2, <1>3, <1>4

\* The row of a file fits as long as nothing of it changes, nor its sidecars.
LEMMA RowStays ==
    ASSUME NEW f \in Files, IInv, RowFits(f), newest'[f] \in Nat, newest[f] <= newest'[f],
           f \in reverted => f \in reverted',
           stamp' \in Nat, stamp <= stamp', manifest'[f] = manifest[f],
           row'[f].rev = row[f].rev, row'[f].md5 = row[f].md5, row'[f].seen = row[f].seen,
           \A l \in Layouts : json'[<<l, f>>] = json[<<l, f>>]
    PROVE  RowFits(f)'
<1>1. /\ manifest[f].card \in Nat /\ stamp \in Nat /\ newest[f] \in Nat /\ manifest[f].media \in Nat
      /\ row[f].md5 \in Nat
  BY Numbers
<1>2. \A l \in Layouts : <<l, f>>[1] = l /\ l # "none"
  BY DEF Layouts
<1> QED
  BY <1>1, <1>2 DEF RowFits, Readable, CardAt, Exists, Layouts

\* In a process that writes no sidecar, rows that stay fit.
LEMMA RowKept ==
    ASSUME NEW f \in Files, IInv, Outside, CardsKept, manifest'[f] = manifest[f],
           row'[f].rev = row[f].rev, row'[f].md5 = row[f].md5, row'[f].seen = row[f].seen
    PROVE  RowFits(f)'
<1>1. newest' = newest /\ reverted' = reverted /\ json' = json /\ stamp' = stamp
  BY DEF Outside, CardsKept
<1>2. stamp \in Nat /\ newest[f] \in Nat /\ RowFits(f)
  BY Numbers DEF IInv, Rows
<1>3. stamp <= stamp' /\ newest[f] <= newest'[f]
  BY <1>1, <1>2
<1> QED
  BY <1>1, <1>2, <1>3, RowStays

\* In a process that writes neither sidecars nor rows, all of them fit.
LEMMA RowsStay ==
    ASSUME IInv, Outside, CardsKept, UNCHANGED <<row, manifest>>
    PROVE  Rows'
BY RowKept DEF Rows

\* Rows that fit are honest.
LEMMA RowsAreHonest == IInv => StampsAreHonest
<1> SUFFICES ASSUME IInv, NEW f \in Files, manifest[f] # NoEntry
             PROVE  LET k == <<manifest[f].at, f>>
                    IN  /\ row[f].seen
                        /\ manifest[f].at # "media" /\ Readable(k) /\ json[k].stamp = manifest[f].card =>
                               row[f].rev = json[k].rev
                        /\ manifest[f].at = "media" /\ media[f] = manifest[f].media =>
                               row[f].rev = 0 /\ (f \in reverted \/ row[f].md5 \in {0, media[f]})
  BY DEF StampsAreHonest
<1>1. RowFits(f) /\ manifest[f].at \in Layouts \cup {"none", "media"}
  BY TypesHold DEF IInv, Rows, RowsTyped
<1>2. /\ f \in reverted \/ media[f] \in {0, newest[f]}
      /\ newest[f] \in Nat /\ row[f].md5 \in Nat
  BY Numbers DEF IInv, RestTyped
<1> QED
  BY <1>1, <1>2 DEF RowFits

\* A process ends without a word to the index.
LEMMA EndStays ==
    ASSUME IInv, job # Idle, NEW c \in {0, 1, 3}, Exit(c), Outside, CardsKept, RowsTyped', LedgerTyped',
           Rows', Imported'
    PROVE  IInv'
<1>1. JobFits' /\ job'.at \in AtRest
  BY ExitFits, IdleFits DEF IInv, AtRest
<1>2. removals' \in Removals
  BY TypesHold DEF Exit, Removals
<1>3. TypeOK' /\ LedgerTyped' /\ RestTyped' /\ OldCards'
  BY <1>1, <1>2, TypesStay
<1>4. job'.at \notin Filling \cup {"unlink", "index", "mark"}
  BY <1>1 DEF AtRest, Processes, Filling
<1>5. Pairs' /\ Lists' /\ Synced'
  BY <1>4, RestStays DEF Synced
<1>6. Readings'
  BY <1>1 DEF Readings, AtRest, Processes
<1> QED
  BY <1>1, <1>3, <1>5, <1>6 DEF IInv

-----------------------------------------------------------------------------
(* import-discover and import-enrich.                                      *)

\* A listing of the folder is read, no newer than its files.
LEMMA DiscoverScanStep == ASSUME IInv, DiscoverScan PROVE IInv'
<1>1. /\ job.at = "discover" /\ JobFits /\ Shape(job) /\ Outside /\ CardsKept
      /\ UNCHANGED <<row, manifest, ledger, removals, status>>
  BY DEF IInv, DiscoverScan, JobFits, Fits, db
<1>2. /\ job'.at = "discovered" /\ job'.media = Scanned /\ job'.todo = {f \in Files : Present(f)}
      /\ job'.tool = job.tool /\ job'.steps = job.steps /\ Shape(job')
  BY <1>1 DEF DiscoverScan, Shape, Places
<1>3. /\ Scanned \in [Files -> Versions \cup {0}]
      /\ \A f \in Files : Present(f) => Scanned[f] = media[f] /\ media[f] # 0 /\ media[f] <= newest[f]
      /\ \A f \in Files : newest[f] \in Nat
  BY VersionAssumption DEF IInv, TypeOK, RestTyped, Scanned, Present
<1>4. JobFits'
  BY <1>1, <1>2, <1>3 DEF JobFits, Fits, InOrder, Filling
<1>5. TypeOK' /\ LedgerTyped' /\ RestTyped' /\ OldCards'
  BY <1>1, <1>4, TypesHold, TypesStay DEF RowsTyped, LedgerTyped
<1>6. Pairs' /\ Lists' /\ Rows'
  BY <1>1, <1>2, RestStays, RowsStay DEF Filling
<1>7. Readings' /\ Synced' /\ Imported'
  BY <1>1, <1>2, <1>3 DEF Readings, Synced, Imported, Outside, Present, Filling
<1> QED
  BY <1>4, <1>5, <1>6, <1>7 DEF IInv

\* A file is known: the row of a new one speaks of the content that was listed.
LEMMA DiscoverFileStep == ASSUME IInv, DiscoverFile PROVE IInv'
<1>1. PICK f \in job.todo :
          /\ job.at = "discovered" /\ Goto("discovered", job.todo \ {f})
          /\ row' = [row EXCEPT ![f].seen = TRUE]
          /\ ledger' = [ledger EXCEPT ![f] = IF @ = NoState THEN [@ EXCEPT !.status = "done"] ELSE @]
          /\ manifest' = [manifest EXCEPT ![f] =
                             IF @ = NoEntry THEN [at |-> "media", card |-> 0, media |-> job.media[f]] ELSE @]
          /\ Outside /\ CardsKept
  BY DEF DiscoverFile
<1>2. /\ JobFits /\ RowsTyped /\ LedgerTyped /\ f \in Files /\ job.media \in [Files -> Versions \cup {0}]
      /\ job.media[f] # 0 /\ "discovered" \in Places /\ job.todo \subseteq Files
      /\ job.media[f] <= newest[f]
  BY <1>1, TypesHold DEF IInv, JobFits, Fits, Readings, Places
<1>3. /\ job'.at = "discovered" /\ job'.todo = job.todo \ {f} /\ Shape(job')
      /\ job'.tool = job.tool /\ job'.steps = job.steps /\ job'.media = job.media
      /\ UNCHANGED <<removals, status>>
  BY <1>1, <1>2, GotoMoves
<1>4. JobFits'
  BY <1>1, <1>2, <1>3 DEF JobFits, Fits, InOrder, Filling
<1>5. RowsTyped' /\ LedgerTyped'
  <2>1. row' \in [Files -> [md5 : Versions \cup {0}, rev : Revs \cup {0}, seen : BOOLEAN]]
    BY <1>1, <1>2 DEF RowsTyped
  <2>2. \A g \in Files : row'[g].seen \/ row'[g] = NoRow
    BY <1>1, <1>2 DEF RowsTyped
  <2>3. manifest' \in [Files -> [at : Layouts \cup {"none", "media"}, card : 0..MaxStamp,
                                media : Versions \cup {0}]]
    BY <1>1, <1>2, BoundAssumption DEF RowsTyped
  <2>4. LedgerTyped'
    BY <1>1, <1>2 DEF LedgerTyped, Entries, NoState
  <2> QED
    BY <2>1, <2>2, <2>3, <2>4 DEF RowsTyped
<1>6. TypeOK' /\ LedgerTyped' /\ RestTyped' /\ OldCards'
  BY <1>1, <1>3, <1>4, <1>5, TypesHold, TypesStay
<1>7. Pairs' /\ Lists'
  BY <1>1, <1>3, RestStays DEF Filling
<1>8. Rows'
  <2>1. newest'[f] = newest[f] /\ newest[f] \in Nat /\ stamp' = stamp /\ stamp \in Nat
    BY <1>1, <1>2, Numbers DEF Outside, CardsKept
  <2>2. ASSUME NEW g \in Files, g # f \/ manifest[g] # NoEntry PROVE RowFits(g)'
    <3>1. /\ manifest'[g] = manifest[g] /\ row'[g].rev = row[g].rev /\ row'[g].md5 = row[g].md5
          /\ row'[g].seen = row[g].seen
      BY <1>1, <1>2, <2>2 DEF IInv, Rows, RowFits, RowsTyped, NoEntry
    <3> QED
      BY <1>1, <3>1, RowKept
  <2>3. ASSUME manifest[f] = NoEntry PROVE RowFits(f)'
    <3>1. row[f] = NoRow
      <4>1. manifest[f].at = "none"
        BY <2>3 DEF NoEntry
      <4>2. ~row[f].seen
        BY <1>2, <4>1 DEF IInv, Rows, RowFits
      <4> QED
        BY <1>2, <4>2 DEF RowsTyped
    <3>2. /\ manifest'[f] = [at |-> "media", card |-> 0, media |-> job.media[f]]
          /\ row'[f] = [row[f] EXCEPT !.seen = TRUE]
      BY <1>1, <1>2, <2>3 DEF RowsTyped
    <3>3. /\ manifest'[f].at = "media" /\ manifest'[f].card = 0 /\ manifest'[f].media = job.media[f]
          /\ row'[f].seen /\ row'[f].rev = 0 /\ row'[f].md5 = 0
      BY <3>1, <3>2 DEF NoRow
    <3> QED
      BY <1>2, <2>1, <3>3 DEF RowFits, Layouts
  <2> QED
    BY <2>2, <2>3 DEF Rows
<1>9. Readings' /\ Synced' /\ Imported'
  <2>1. \A g \in Files : ledger'[g] = NoState => ledger[g] = NoState /\ g # f
    BY <1>1, <1>2 DEF LedgerTyped, Entries, NoState
  <2> QED
    BY <1>1, <1>2, <1>3, <2>1 DEF IInv, Readings, Synced, Imported, Outside, Present, Filling
<1> QED
  BY <1>4, <1>6, <1>7, <1>8, <1>9 DEF IInv

\* The entry of a file in the ledger is replaced by another one.
LEMMA LedgerMoves ==
    ASSUME LedgerTyped, NEW f \in Files, NEW e \in Entries, e.status # "none",
           ledger' = [ledger EXCEPT ![f] = e]
    PROVE  /\ LedgerTyped' /\ ledger'[f] = e
           /\ \A g \in Files : g # f => ledger'[g] = ledger[g]
           /\ \A g \in Files : ledger'[g] = NoState => ledger[g] = NoState
<1>1. /\ ledger' \in [Files -> Entries] /\ ledger'[f] = e
      /\ \A g \in Files : g # f => ledger'[g] = ledger[g]
  BY DEF LedgerTyped
<1>2. NoState.status = "none"
  BY DEF NoState
<1> QED
  BY <1>1, <1>2 DEF LedgerTyped

\* The files to inspect all have rows.
LEMMA EnrichListStep == ASSUME IInv, EnrichList PROVE IInv'
<1> DEFINE todo == {f \in Files : row[f].seen /\ ~ledger[f].enriched /\ Present(f)}
<1>1. /\ job.at = "enrich" /\ Goto("enriching", todo) /\ Outside /\ CardsKept
      /\ UNCHANGED <<row, manifest, ledger>>
  BY DEF EnrichList, db
<1>2. /\ job'.at = "enriching" /\ job'.todo = todo /\ Shape(job')
      /\ job'.tool = job.tool /\ job'.steps = job.steps /\ UNCHANGED <<removals, status>>
  BY <1>1, GotoMoves, TypesHold DEF Places
<1>3. JobFits'
  BY <1>1, <1>2 DEF IInv, JobFits, Fits, InOrder, Filling
<1>4. TypeOK' /\ LedgerTyped' /\ RestTyped' /\ OldCards'
  BY <1>1, <1>2, <1>3, TypesHold, TypesStay DEF RowsTyped, LedgerTyped
<1>5. Pairs' /\ Lists' /\ Rows'
  BY <1>1, <1>2, RestStays, RowsStay DEF Filling
<1>6. Readings' /\ Synced' /\ Imported'
  BY <1>1, <1>2 DEF IInv, Readings, Synced, Imported, Outside, Present, Filling
<1> QED
  BY <1>3, <1>4, <1>5, <1>6 DEF IInv

\* A row gets the hash of the content its file has now, the newest so far.
LEMMA EnrichFileStep == ASSUME IInv, EnrichFile PROVE IInv'
<1>1. PICK f \in job.todo :
          /\ job.at = "enriching" /\ Goto("enriching", job.todo \ {f})
          /\ IF ~Inspects(f)
             THEN /\ ledger' = [ledger EXCEPT ![f].status = IF @ = "none" THEN @ ELSE "error"]
                  /\ row' = row
             ELSE /\ row' = [row EXCEPT ![f].md5 = media[f]]
                  /\ ledger' = [ledger EXCEPT ![f] =
                                   IF @ = NoState THEN @ ELSE [@ EXCEPT !.status = "done", !.enriched = TRUE]]
          /\ UNCHANGED manifest /\ Outside /\ CardsKept
  BY DEF EnrichFile
<1>2. JobFits /\ RowsTyped /\ LedgerTyped /\ f \in Files /\ job.todo \subseteq Files /\ row[f].seen
  BY <1>1, TypesHold DEF IInv, JobFits, Fits, Readings
<1>3. /\ job'.at = "enriching" /\ job'.todo = job.todo \ {f} /\ Shape(job')
      /\ job'.tool = job.tool /\ job'.steps = job.steps /\ UNCHANGED <<removals, status>>
  BY <1>1, <1>2, GotoMoves DEF Places
<1>4. JobFits'
  BY <1>1, <1>2, <1>3 DEF JobFits, Fits, InOrder, Filling
<1>5. RowsTyped'
  <2>1. row' \in [Files -> [md5 : Versions \cup {0}, rev : Revs \cup {0}, seen : BOOLEAN]]
    <3>1. media[f] \in Versions \cup {0}
      BY <1>2 DEF IInv, TypeOK
    <3>2. row' = row \/ row' = [row EXCEPT ![f].md5 = media[f]]
      BY <1>1
    <3> QED
      BY <1>2, <3>1, <3>2 DEF RowsTyped
  <2>2. \A g \in Files : row'[g].seen \/ row'[g] = NoRow
    BY <1>1, <1>2 DEF RowsTyped
  <2> QED
    BY <1>1, <1>2, <2>1, <2>2 DEF RowsTyped
<1>6. LedgerTyped' /\ \A g \in Files : ledger'[g] = NoState => ledger[g] = NoState
  <2>1. CASE ~Inspects(f)
    BY <1>1, <1>2, <2>1 DEF LedgerTyped, Entries, NoState
  <2>2. CASE Inspects(f) /\ ledger[f] = NoState
    BY <1>1, <1>2, <2>2 DEF LedgerTyped
  <2>3. CASE Inspects(f) /\ ledger[f] # NoState
    <3> DEFINE yes == TRUE
               e   == [ledger[f] EXCEPT !.status = "done", !.enriched = yes]
    <3>1. ledger' = [ledger EXCEPT ![f] = e] /\ yes \in BOOLEAN
      BY <1>1, <2>3
    <3> HIDE DEF yes
    <3>2. ledger[f] \in Entries
      BY <1>2 DEF LedgerTyped
    <3>3. e \in Entries /\ e.status = "done"
      BY <3>1, <3>2 DEF Entries
    <3> HIDE DEF e
    <3> QED
      BY <1>2, <3>1, <3>3, LedgerMoves
  <2> QED
    BY <2>1, <2>2, <2>3
<1>7. TypeOK' /\ LedgerTyped' /\ RestTyped' /\ OldCards'
  BY <1>1, <1>3, <1>4, <1>5, <1>6, TypesHold, TypesStay
<1>8. Pairs' /\ Lists'
  BY <1>1, <1>3, RestStays DEF Filling
<1>9. Rows'
  <2>1. CASE ~Inspects(f)
    BY <1>1, <2>1, RowsStay
  <2>2. CASE Inspects(f)
    <3>1. ASSUME NEW g \in Files, g # f PROVE RowFits(g)'
      BY <1>1, <1>2, <2>2, <3>1, RowKept DEF RowsTyped
    <3>2. /\ row'[f].rev = row[f].rev /\ row'[f].seen = row[f].seen /\ row'[f].md5 = media[f]
          /\ manifest' = manifest /\ json' = json /\ stamp' = stamp
          /\ newest' = newest /\ reverted' = reverted
      BY <1>1, <1>2, <2>2 DEF RowsTyped, Outside, CardsKept
    <3>3. /\ f \in reverted \/ media[f] = newest[f]
          /\ media[f] <= newest[f] /\ newest[f] \in Nat /\ media[f] \in Nat /\ RowFits(f)
      BY <1>2, <2>2, Numbers DEF IInv, RestTyped, Rows, Inspects, Present
    <3>4. RowFits(f)'
      BY <3>2, <3>3 DEF RowFits, Readable, CardAt, Exists
    <3> QED
      BY <3>1, <3>4 DEF Rows
  <2> QED
    BY <2>1, <2>2
<1>10. Readings' /\ Synced' /\ Imported'
  <2>1. \A g \in Files : row'[g].seen = row[g].seen
    BY <1>1, <1>2 DEF RowsTyped
  <2> QED
    BY <1>1, <1>2, <1>3, <1>6, <2>1 DEF IInv, Readings, Synced, Imported, Outside, Present, Filling
<1> QED
  BY <1>4, <1>7, <1>8, <1>9, <1>10 DEF IInv

-----------------------------------------------------------------------------
(* The ends of processes that leave the index alone.                       *)

\* Which process of an import comes next.
LEMMA ImportMoves ==
    ASSUME JobFits, JobFits', job.tool = "import", job.at # "idle", Tail(job.steps) # <<>>,
           job'.at = Head(Tail(job.steps)), job'.tool = job.tool, job'.steps = Tail(job.steps)
    PROVE  /\ job.at \in {"discover", "discovered"} => job'.at = "enrich"
           /\ job.at \in {"enrich", "enriching"} => job'.at = "backfill"
           /\ job.at \in {"backfill"} \cup Filling => job'.at = "finalize"
           /\ job.at \notin {"finalize", "scan", "index", "mark", "import", "unlink"}
BY ImportGoesOn DEF JobFits, Fits, InOrder, Filling

\* A process ends that has only read, or has seen to every file: in an import,
\* one that ends well has left a sidecar or a "no match" for each.
LEMMA ProcessEnds == ASSUME IInv, DiscoverEnd \/ EnrichEnd \/ BackfillEnd \/ SqliteEnd \/ CleanEnd PROVE IInv'
<1>1. PICK c \in {0, 1, 3} :
          /\ Exit(c) /\ UNCHANGED <<row, manifest, ledger>> /\ Outside /\ CardsKept /\ job.todo = {}
          /\ job.at \in {"discovered", "enriching", "match", "import", "unlink"}
          /\ job.at = "match" /\ job.wrong => c = Incomplete
  BY DEF DiscoverEnd, EnrichEnd, BackfillEnd, SqliteEnd, CleanEnd, db, Incomplete
<1>2. JobFits /\ RowsTyped' /\ LedgerTyped' /\ Rows' /\ job # Idle
  BY <1>1, TypesHold, RowsStay, IdleFits DEF RowsTyped, LedgerTyped
<1>3. Imported'
  <2>1. CASE job' = Idle
    BY <2>1 DEF Imported, Idle
  <2>2. CASE job' # Idle /\ job'.tool = "import"
    <3>1. /\ JobFits' /\ job'.at = Head(Tail(job.steps)) /\ job'.at \in Processes
          /\ job'.tool = job.tool /\ job'.steps = Tail(job.steps) /\ Tail(job.steps) # <<>>
          /\ ~job'.incomplete => ~job.incomplete /\ c # 3
      BY <1>1, <1>2, <2>2, ExitFits
    <3>2. \/ job.at = "discovered" /\ job'.at = "enrich"
          \/ job.at = "enriching" /\ job'.at = "backfill"
          \/ job.at = "match" /\ job'.at = "finalize"
      BY <1>1, <1>2, <2>2, <3>1, ImportMoves DEF Filling
    <3>3. job.at = "match" /\ ~job'.incomplete => ~job.wrong
      BY <1>1, <2>2, <3>1 DEF Incomplete, Importing
    <3>4. ASSUME NEW f \in Files \ touched, Present(f)
          PROVE ledger[f] # NoState /\ (job.at = "match" /\ ~job'.incomplete => Served(f))
      BY <1>1, <2>2, <3>1, <3>3, <3>4 DEF IInv, Imported, Filling
    <3>5. /\ \A f \in Files : Present(f)' = Present(f) /\ Served(f)' = Served(f)
          /\ touched' = touched /\ ledger' = ledger
      BY <1>1 DEF Outside, CardsKept, Present, Served, Existing, Readable, CardAt, Exists
    <3> QED
      BY <3>1, <3>2, <3>4, <3>5 DEF Imported, Filling, Processes
  <2> QED
    BY <2>1, <2>2 DEF Imported
<1> QED
  BY <1>1, <1>2, <1>3, EndStays

-----------------------------------------------------------------------------
(* sync, and import-finalize.                                              *)

\* Where a sync looks for the sidecar of a file.
LEMMA WhereIndexed ==
    ASSUME NEW f
    PROVE  /\ Indexed(f)[1] \in Layouts \cup {"none"} /\ Indexed(f) = <<Indexed(f)[1], f>>
           /\ Indexed(f)[1] = "none" => ~Readable(Indexed(f)) /\ CardAt(Indexed(f)).stamp = 0
                                        /\ ~Exists(<<"root", f>>) /\ ~Exists(<<"legacy", f>>)
           /\ Indexed(f)[1] # "none" => CardAt(Indexed(f)) = json[Indexed(f)]
           /\ Indexed(f)[1] = "root" => ~Exists(<<"legacy", f>>)
BY DEF Indexed, Layouts, Readable, CardAt, NoCard

\* A sync finds its folder, or ends.
LEMMA SyncFoldersStep == ASSUME IInv, SyncFolders PROVE IInv'
<1>1. /\ job.at \in {"sync", "finalize"} /\ UNCHANGED <<row, manifest, ledger>> /\ Outside /\ CardsKept
      /\ JobFits /\ RowsTyped' /\ LedgerTyped' /\ Rows' /\ job # Idle
  BY TypesHold, RowsStay, IdleFits DEF SyncFolders, RowsTyped, LedgerTyped, db
<1>2. CASE drive = "here"
  <2>1. /\ job'.at = "scan" /\ job'.todo = {} /\ Shape(job') /\ UNCHANGED <<removals, status>>
        /\ job'.tool = job.tool /\ job'.steps = job.steps /\ job'.incomplete = job.incomplete
    BY <1>1, <1>2, GotoMoves DEF SyncFolders, Places
  <2>2. JobFits'
    BY <1>1, <2>1 DEF JobFits, Fits, InOrder, Filling
  <2>3. TypeOK' /\ LedgerTyped' /\ RestTyped' /\ OldCards'
    BY <1>1, <2>1, <2>2, TypesHold, TypesStay
  <2>4. Pairs' /\ Lists' /\ Readings' /\ Synced'
    BY <1>1, <2>1, RestStays DEF Filling, Readings, Synced
  <2>5. Imported'
    <3>1. /\ \A f \in Files : Present(f)' = Present(f) /\ Served(f)' = Served(f)
          /\ touched' = touched /\ ledger' = ledger
      BY <1>1 DEF Outside, CardsKept, Present, Served, Existing, Readable, CardAt, Exists
    <3>2. job.tool = "import" => job.at = "finalize"
      BY <1>1 DEF JobFits, Fits, InOrder, Filling
    <3> QED
      BY <1>1, <2>1, <3>1, <3>2 DEF IInv, Imported, Filling
  <2> QED
    BY <1>1, <2>2, <2>3, <2>4, <2>5 DEF IInv
<1>3. CASE drive # "here"
  <2>1. Exit(0)
    BY <1>3 DEF SyncFolders
  <2>2. Imported'
    BY <1>1, <1>3 DEF Imported, Present, Outside
  <2> QED
    BY <1>1, <2>1, <2>2, EndStays
<1> QED
  BY <1>2, <1>3

\* The scan takes a file for unchanged only where its row is that of its sidecar.
LEMMA SyncScanStep == ASSUME IInv, SyncScan PROVE IInv'
<1> DEFINE cards == [f \in Files |-> [at |-> Indexed(f)[1], stamp |-> CardAt(Indexed(f)).stamp]]
           todo  == {f \in Files : Scanned[f] # 0 /\ ~Unchanged(f, Entry(f, Scanned, cards))}
<1>1. /\ job.at = "scan" /\ JobFits /\ Shape(job) /\ Outside /\ CardsKept
      /\ UNCHANGED <<row, manifest, ledger, removals, status>>
      /\ job' = [job EXCEPT !.at = "index", !.media = Scanned, !.cards = cards, !.todo = todo]
  BY DEF IInv, SyncScan, JobFits, Fits, db
<1> HIDE DEF todo
<1>2. \A f \in Files : cards[f].at = Indexed(f)[1] /\ cards[f].stamp = CardAt(Indexed(f)).stamp
  OBVIOUS
<1>3. cards \in [Files -> [at : Layouts \cup {"none"}, stamp : 0..MaxStamp]]
  <2>1. ASSUME NEW f \in Files PROVE Indexed(f)[1] \in Layouts \cup {"none"} /\ CardAt(Indexed(f)).stamp \in 0..MaxStamp
    <3>1. \A l \in Layouts : json[<<l, f>>] \in Cards
      BY DEF IInv, TypeOK
    <3>2. 0 \in 0..MaxStamp /\ \A c \in Cards : c.stamp \in 0..MaxStamp
      BY BoundAssumption DEF Cards
    <3> QED
      BY <3>1, <3>2, WhereIndexed
  <2> QED
    BY <2>1
<1> HIDE DEF cards
<1>4. /\ job'.at = "index" /\ job'.media = Scanned /\ job'.todo = todo /\ job'.cards = cards
      /\ job'.tool = job.tool /\ job'.steps = job.steps /\ job'.incomplete = job.incomplete /\ Shape(job')
  BY <1>1 DEF Shape, Places
<1>5. /\ Scanned \in [Files -> Versions \cup {0}] /\ todo \subseteq Files /\ \A f \in todo : Scanned[f] # 0
      /\ \A f \in Files : Present(f) <=> Scanned[f] # 0
      /\ \A f \in todo : Scanned[f] <= newest[f]
  <2>1. Scanned \in [Files -> Versions \cup {0}] /\ \A f \in Files : Scanned[f] \in {0, media[f]}
    BY DEF IInv, TypeOK, Scanned
  <2>2. \A f \in Files : Present(f) <=> Scanned[f] # 0
    BY DEF Present, Scanned
  <2>3. todo \subseteq Files /\ \A f \in todo : Scanned[f] # 0
    BY DEF todo
  <2> QED
    BY <2>1, <2>2, <2>3, Numbers DEF IInv, RestTyped
<1>6. JobFits'
  BY <1>1, <1>3, <1>4, <1>5 DEF JobFits, Fits, InOrder, Filling
<1>7. TypeOK' /\ LedgerTyped' /\ RestTyped' /\ OldCards'
  BY <1>1, <1>6, TypesHold, TypesStay DEF RowsTyped, LedgerTyped
<1>8. Pairs' /\ Lists' /\ Rows'
  BY <1>1, <1>4, RestStays, RowsStay DEF Filling
<1>9. Readings'
  <2>1. ASSUME NEW f \in Files PROVE cards[f].stamp <= stamp /\ (cards[f].at = "root" => ~Exists(<<"legacy", f>>))
    <3>1. \A l \in Layouts : json[<<l, f>>].stamp <= stamp
      BY DEF IInv, OldCards
    <3>2. 0 <= stamp
      BY Numbers
    <3> QED
      BY <1>2, <3>1, <3>2, WhereIndexed
  <2> QED
    BY <1>1, <1>4, <1>5, <2>1 DEF Readings, Outside, CardsKept, Exists
<1>10. Synced'
  <2>1. ASSUME NEW f \in Files \ touched, Present(f), f \notin todo PROVE row[f].seen /\ HasRow(f)
    <3>1. Unchanged(f, Entry(f, Scanned, cards))
      BY <1>5, <2>1 DEF todo
    <3>2. RowFits(f)
      BY DEF IInv, Rows
    <3>3. CASE Indexed(f)[1] = "none"
      BY <3>1, <3>3, WhereIndexed DEF Unchanged, HasRow
    <3>4. CASE Indexed(f)[1] \in Layouts
      <4> DEFINE l == Indexed(f)[1]
      <4>1. Indexed(f) = <<l, f>> /\ CardAt(Indexed(f)) = json[<<l, f>>] /\ l # "none" /\ l # "media"
        BY <3>4, WhereIndexed DEF Layouts
      <4>2. cards[f].at = l /\ cards[f].stamp = json[<<l, f>>].stamp
        BY <1>2, <4>1
      <4>3. row[f].seen /\ manifest[f].at = l /\ manifest[f].card = json[<<l, f>>].stamp
        BY <3>1, <4>1, <4>2 DEF Unchanged, Entry
      <4> QED
        BY <3>2, <3>4, <4>1, <4>3 DEF HasRow, RowFits
    <3> QED
      BY <3>3, <3>4, WhereIndexed
  <2>2. \A f \in Files : /\ Present(f)' = Present(f) /\ HasRow(f)' = HasRow(f) /\ Scanned'[f] = Scanned[f]
                         /\ Indexed(f)' = Indexed(f) /\ CardAt(Indexed(f))' = CardAt(Indexed(f))
    BY <1>1 DEF Present, HasRow, Scanned, Indexed, Readable, CardAt, Exists, Outside, CardsKept
  <2> QED
    BY <1>1, <1>2, <1>4, <2>1, <2>2 DEF Synced, Outside
<1>11. Imported'
  <2>1. /\ \A f \in Files : Present(f)' = Present(f) /\ Served(f)' = Served(f)
        /\ touched' = touched /\ ledger' = ledger
    BY <1>1 DEF Outside, CardsKept, Present, Served, Existing, Readable, CardAt, Exists
  <2> QED
    BY <1>1, <1>4, <2>1 DEF IInv, Imported, Filling
<1> QED
  BY <1>6, <1>7, <1>8, <1>9, <1>10, <1>11 DEF IInv

\* What a sync reads of a file fits the stamp that its scan saw.
LEMMA EntryFits ==
    ASSUME IInv, job.at = "index", Outside, CardsKept, NEW f \in job.todo,
           LET entry == Entry(f, job.media, job.cards)
               minimal == entry.at = "media"
           IN  /\ (minimal /\ Present(f)) \/ (~minimal /\ Readable(<<entry.at, f>>))
               /\ row' = [row EXCEPT ![f] = IF minimal THEN MinimalRow(f) ELSE CardRow(<<entry.at, f>>)]
               /\ manifest' = [manifest EXCEPT ![f] = entry]
    PROVE  /\ RowsTyped' /\ RowFits(f)' /\ row'[f].seen
           /\ \A g \in Files : g # f => row'[g] = row[g] /\ manifest'[g] = manifest[g]
           /\ \A l \in Layouts : job.cards[f].at = l => row'[f].rev = json[<<l, f>>].rev
<1> DEFINE l     == job.cards[f].at
           entry == Entry(f, job.media, job.cards)
           line  == IF l = "none" THEN MinimalRow(f) ELSE CardRow(<<l, f>>)
<1>1. /\ f \in Files /\ RowsTyped /\ job.media[f] \in Versions \cup {0} /\ job.media[f] # 0
      /\ job.media[f] <= newest[f] /\ l \in Layouts \cup {"none"} /\ job.cards[f].stamp \in 0..MaxStamp
      /\ job.cards[f].stamp <= stamp /\ (l = "root" => ~Exists(<<"legacy", f>>))
  BY TypesHold DEF IInv, JobFits, Fits, Readings
<1>2. /\ l = "none" => entry = [at |-> "media", card |-> 0, media |-> job.media[f]]
      /\ l # "none" => entry = [at |-> l, card |-> job.cards[f].stamp, media |-> job.media[f]]
  BY DEF Entry
<1>3. /\ entry.at = "media" <=> l = "none"
      /\ l # "none" => entry.at = l
  BY <1>1, <1>2 DEF Layouts
<1>4. /\ row' = [row EXCEPT ![f] = line] /\ manifest' = [manifest EXCEPT ![f] = entry]
      /\ (l = "none" => Present(f)) /\ (l # "none" => Readable(<<l, f>>))
  BY <1>3
<1>5. /\ json' = json /\ stamp' = stamp /\ newest' = newest /\ reverted' = reverted
      /\ stamp \in Nat /\ newest[f] \in Nat /\ media[f] \in Versions \cup {0} /\ media[f] <= newest[f]
      /\ f \in reverted \/ media[f] \in {0, newest[f]}
      /\ \A m \in Layouts : json[<<m, f>>] \in Cards
  BY <1>1, Numbers DEF IInv, TypeOK, RestTyped, Outside, CardsKept
<1>6. entry \in [at : Layouts \cup {"none", "media"}, card : 0..MaxStamp, media : Versions \cup {0}]
  BY <1>1, <1>2, BoundAssumption
<1>7. /\ line \in [md5 : Versions \cup {0}, rev : Revs \cup {0}, seen : BOOLEAN] /\ line.seen
      /\ l = "none" => line.rev = 0 /\ line.md5 = media[f]
      /\ l # "none" => line.rev = json[<<l, f>>].rev
  BY <1>1, <1>5 DEF MinimalRow, CardRow, Cards
<1> HIDE DEF line, entry
<1>8. /\ row'[f] = line /\ manifest'[f] = entry
      /\ \A g \in Files : g # f => row'[g] = row[g] /\ manifest'[g] = manifest[g]
  BY <1>1, <1>4 DEF RowsTyped
<1>9. RowsTyped'
  <2>1. row' \in [Files -> [md5 : Versions \cup {0}, rev : Revs \cup {0}, seen : BOOLEAN]]
    BY <1>1, <1>4, <1>7 DEF RowsTyped
  <2>2. manifest' \in [Files -> [at : Layouts \cup {"none", "media"}, card : 0..MaxStamp,
                                media : Versions \cup {0}]]
    BY <1>1, <1>4, <1>6 DEF RowsTyped
  <2>3. \A g \in Files : row'[g].seen \/ row'[g] = NoRow
    BY <1>1, <1>7, <1>8 DEF RowsTyped
  <2> QED
    BY <2>1, <2>2, <2>3 DEF RowsTyped
<1>10. RowFits(f)'
  <2>1. CASE l = "none"
    <3>1. /\ manifest'[f].at = "media" /\ manifest'[f].card = 0 /\ manifest'[f].media = job.media[f]
          /\ row'[f].seen /\ row'[f].rev = 0 /\ row'[f].md5 = media[f]
      BY <1>2, <1>7, <1>8, <2>1
    <3>2. f \in reverted \/ media[f] = newest[f]
      BY <1>4, <1>5, <2>1 DEF Present
    <3> QED
      BY <1>1, <1>5, <3>1, <3>2 DEF RowFits, Layouts
  <2>2. CASE l \in Layouts
    <3>1. /\ manifest'[f].at = l /\ manifest'[f].card = job.cards[f].stamp /\ l # "none" /\ l # "media"
          /\ row'[f].seen /\ row'[f].rev = json[<<l, f>>].rev
      BY <1>2, <1>7, <1>8, <2>2 DEF Layouts
    <3> HIDE DEF l
    <3> QED
      BY <1>1, <1>5, <2>2, <3>1 DEF RowFits, Readable, CardAt, Exists
  <2> QED
    BY <1>1, <2>1, <2>2
<1> QED
  BY <1>7, <1>8, <1>9, <1>10 DEF Layouts

\* A file is indexed as the scan saw it, or the sync has failed.
LEMMA SyncFileStep == ASSUME IInv, SyncFile PROVE IInv'
<1>1. PICK f \in job.todo :
        LET entry == Entry(f, job.media, job.cards)
            minimal == entry.at = "media"
        IN  /\ job.at = "index"
            /\ IF (minimal /\ Present(f)) \/ (~minimal /\ Readable(<<entry.at, f>>))
               THEN /\ row' = [row EXCEPT ![f] =
                                  IF minimal THEN MinimalRow(f) ELSE CardRow(<<entry.at, f>>)]
                    /\ manifest' = [manifest EXCEPT ![f] = entry]
                    /\ Goto("index", job.todo \ {f})
               ELSE /\ job' = [job EXCEPT !.todo = @ \ {f}, !.wrong = TRUE]
                    /\ UNCHANGED <<row, manifest, removals, status>>
            /\ UNCHANGED ledger /\ Outside /\ CardsKept
  BY DEF SyncFile
<1> DEFINE entry == Entry(f, job.media, job.cards)
           minimal == entry.at = "media"
           read == (minimal /\ Present(f)) \/ (~minimal /\ Readable(<<entry.at, f>>))
<1>2. /\ JobFits /\ RowsTyped /\ LedgerTyped /\ f \in Files /\ job.todo \subseteq Files /\ Shape(job)
      /\ job.at = "index" /\ Outside /\ CardsKept /\ ledger' = ledger
  BY <1>1, TypesHold DEF JobFits, Fits
<1>3. /\ job'.at = "index" /\ job'.todo = job.todo \ {f} /\ Shape(job')
      /\ job'.tool = job.tool /\ job'.steps = job.steps /\ job'.incomplete = job.incomplete
      /\ job'.media = job.media /\ job'.cards = job.cards /\ UNCHANGED <<removals, status>>
      /\ ~job'.wrong => read /\ ~job.wrong
  <2>1. CASE read
    BY <1>1, <1>2, <2>1, GotoMoves DEF Places
  <2>2. CASE ~read
    <3> DEFINE yes == TRUE
    <3>1. job' = [job EXCEPT !.todo = @ \ {f}, !.wrong = yes] /\ UNCHANGED <<removals, status>>
      BY <1>1, <2>2
    <3>2. yes \in BOOLEAN /\ yes
      OBVIOUS
    <3> HIDE DEF yes, read
    <3> QED
      BY <1>2, <3>1, <3>2 DEF Shape
  <2> QED
    BY <2>1, <2>2
<1>4. JobFits'
  BY <1>2, <1>3 DEF JobFits, Fits, InOrder, Filling
<1>5. /\ RowsTyped' /\ RowFits(f)'
      /\ \A g \in Files : g # f => row'[g] = row[g] /\ manifest'[g] = manifest[g]
      /\ read => row'[f].seen /\ \A l \in Layouts : job.cards[f].at = l => row'[f].rev = json[<<l, f>>].rev
  <2>1. CASE read
    BY <1>1, <1>2, <2>1, EntryFits
  <2>2. CASE ~read
    <3>1. UNCHANGED <<row, manifest>>
      BY <1>1, <2>2
    <3> QED
      BY <1>2, <2>2, <3>1, RowsStay DEF RowsTyped, Rows
  <2> QED
    BY <2>1, <2>2
<1>6. TypeOK' /\ LedgerTyped' /\ RestTyped' /\ OldCards'
  BY <1>2, <1>3, <1>4, <1>5, TypesHold, TypesStay DEF LedgerTyped
<1>7. Pairs' /\ Lists'
  BY <1>2, <1>3, RestStays DEF Filling
<1>8. Rows'
  BY <1>2, <1>5, RowKept DEF Rows
<1> HIDE DEF read
<1>9. Readings'
  BY <1>2, <1>3 DEF IInv, Readings, Outside, CardsKept, Exists
<1>10. Synced'
  <2>1. \A g \in Files : /\ Present(g)' = Present(g) /\ Scanned'[g] = Scanned[g]
                         /\ Indexed(g)' = Indexed(g) /\ CardAt(Indexed(g))' = CardAt(Indexed(g))
                         /\ Readable(Indexed(g))' = Readable(Indexed(g))
    BY <1>2 DEF Present, Scanned, Indexed, Readable, CardAt, Exists, Outside, CardsKept
  <2>2. ASSUME NEW g \in Files \ touched, Present(g), g \notin job.todo \ {f}, ~job'.wrong
        PROVE row'[g].seen /\ (Readable(Indexed(g)) => row'[g].rev = CardAt(Indexed(g)).rev)
    <3>1. CASE g # f
      BY <1>2, <1>3, <1>5, <2>2, <3>1 DEF IInv, Synced, HasRow
    <3>2. CASE g = f
      <4>1. job.cards[f].at = Indexed(f)[1] /\ read
        BY <1>2, <1>3, <2>2, <3>2 DEF IInv, Synced
      <4>2. CASE Indexed(f)[1] = "none"
        BY <1>5, <3>2, <4>1, <4>2, WhereIndexed
      <4>3. CASE Indexed(f)[1] \in Layouts
        <5> DEFINE l == Indexed(f)[1]
        <5>1. Indexed(f) = <<l, f>> /\ CardAt(Indexed(f)) = json[<<l, f>>]
          BY <4>3, WhereIndexed DEF Layouts
        <5>2. row'[f].seen /\ row'[f].rev = json[<<l, f>>].rev
          BY <1>5, <4>1, <4>3
        <5> QED
          BY <3>2, <5>1, <5>2
      <4> QED
        BY <4>2, <4>3, WhereIndexed
    <3> QED
      BY <3>1, <3>2
  <2>3. \A g \in Files \ touched' :
           /\ job'.media[g] = Scanned'[g]
           /\ job'.cards[g].at = Indexed(g)'[1] /\ job'.cards[g].stamp = CardAt(Indexed(g))'.stamp
    BY <1>2, <1>3, <2>1 DEF IInv, Synced, Outside
  <2> QED
    BY <1>2, <1>3, <2>1, <2>2, <2>3 DEF Synced, HasRow, Outside
<1>11. Imported'
  <2>1. /\ \A g \in Files : Present(g)' = Present(g) /\ Served(g)' = Served(g)
        /\ touched' = touched /\ ledger' = ledger
    BY <1>2 DEF Outside, CardsKept, Present, Served, Existing, Readable, CardAt, Exists
  <2> QED
    BY <1>2, <1>3, <2>1 DEF IInv, Imported, Filling
<1> QED
  BY <1>4, <1>5, <1>6, <1>7, <1>8, <1>9, <1>10, <1>11 DEF IInv

\* The rows that remain are those of the files that are there.
LEMMA SyncStaleStep == ASSUME IInv, SyncStale PROVE IInv'
<1> DEFINE stale == {f \in Files : job.media[f] = 0}
<1>1. /\ job.at = "index" /\ job.todo = {} /\ JobFits /\ RowsTyped /\ LedgerTyped' /\ ledger' = ledger
      /\ row' = [f \in Files |-> IF f \in stale THEN NoRow ELSE row[f]]
      /\ manifest' = [f \in Files |-> IF f \in stale THEN NoEntry ELSE manifest[f]]
      /\ Outside /\ CardsKept /\ job # Idle
  BY TypesHold, IdleFits DEF SyncStale, LedgerTyped
<1>2. RowsTyped'
  <2>1. NoRow \in [md5 : Versions \cup {0}, rev : Revs \cup {0}, seen : BOOLEAN]
    BY DEF NoRow
  <2>2. NoEntry \in [at : Layouts \cup {"none", "media"}, card : 0..MaxStamp, media : Versions \cup {0}]
    BY BoundAssumption DEF NoEntry
  <2> HIDE DEF stale
  <2>3. row' \in [Files -> [md5 : Versions \cup {0}, rev : Revs \cup {0}, seen : BOOLEAN]]
    BY <1>1, <2>1 DEF RowsTyped
  <2>4. manifest' \in [Files -> [at : Layouts \cup {"none", "media"}, card : 0..MaxStamp,
                                media : Versions \cup {0}]]
    BY <1>1, <2>2 DEF RowsTyped
  <2> QED
    BY <1>1, <2>3, <2>4 DEF RowsTyped
<1>3. Rows'
  <2> SUFFICES ASSUME NEW f \in Files PROVE RowFits(f)'
    BY DEF Rows
  <2>1. CASE f \in stale
    <3>1. row'[f] = NoRow /\ manifest'[f] = NoEntry /\ stamp' \in Nat
      BY <1>1, <2>1, Numbers DEF CardsKept
    <3>2. ~row'[f].seen /\ manifest'[f].at = "none" /\ manifest'[f].card = 0
      BY <3>1 DEF NoRow, NoEntry
    <3> QED
      BY <3>1, <3>2 DEF RowFits, Layouts
  <2>2. CASE f \notin stale
    BY <1>1, <2>2, RowKept
  <2> QED
    BY <2>1, <2>2
<1>4. /\ \A f \in Files : Present(f)' = Present(f) /\ Served(f)' = Served(f)
      /\ touched' = touched
  BY <1>1 DEF Outside, CardsKept, Present, Served, Existing, Readable, CardAt, Exists
<1>5. job.tool = "import" => job.steps = <<"finalize">>
  BY <1>1 DEF JobFits, Fits, InOrder, Filling
<1>6. CASE Head(job.steps) = "finalize" /\ ~job.wrong
  <2>1. /\ job'.at = "mark" /\ job'.todo = {} /\ Shape(job') /\ UNCHANGED <<removals, status>>
        /\ job'.tool = job.tool /\ job'.steps = job.steps /\ job'.incomplete = job.incomplete
    BY <1>1, <1>6, GotoMoves DEF SyncStale, Places
  <2>2. JobFits'
    BY <1>1, <2>1 DEF JobFits, Fits, InOrder, Filling
  <2>3. TypeOK' /\ LedgerTyped' /\ RestTyped' /\ OldCards'
    BY <1>1, <1>2, <2>1, <2>2, TypesHold, TypesStay
  <2>4. Pairs' /\ Lists' /\ Readings'
    BY <1>1, <2>1, RestStays DEF Filling, Readings
  <2>5. Synced'
    <3>1. \A f \in Files \ touched : f \notin stale <=> Present(f)
      BY <1>1 DEF IInv, Synced, Scanned, Present
    <3>2. \A f \in Files \ touched : (row'[f].seen <=> Present(f)) /\ (Present(f) => row'[f] = row[f] /\ HasRow(f))
      BY <1>1, <1>6, <3>1 DEF IInv, Synced, NoRow
    <3>3. \A f \in Files : Present(f)' = Present(f) /\ (row'[f] = row[f] => HasRow(f)' = HasRow(f))
      BY <1>1 DEF Present, HasRow, Indexed, Readable, CardAt, Exists, Outside, CardsKept
    <3> QED
      BY <1>4, <2>1, <3>2, <3>3 DEF Synced
  <2>6. Imported'
    BY <1>1, <1>4, <2>1 DEF IInv, Imported, Filling
  <2> QED
    BY <1>2, <1>3, <2>2, <2>3, <2>4, <2>5, <2>6 DEF IInv
<1>7. CASE ~(Head(job.steps) = "finalize" /\ ~job.wrong)
  <2>1. PICK c \in {0, 1, 3} : Exit(c)
    BY <1>7 DEF SyncStale
  <2>2. Imported'
    BY <1>1, <1>5, <2>1, ExitFits, ImportGoesOn DEF Imported, Idle
  <2> QED
    BY <1>1, <1>2, <1>3, <2>1, <2>2, EndStays
<1> QED
  BY <1>6, <1>7

\* The end of an import marks the ledger and leaves its statuses.
LEMMA FinalizeMarkStep == ASSUME IInv, FinalizeMark PROVE IInv'
<1> DEFINE scope == IF drive = "here" THEN {f \in Files : ledger[f] # NoState} ELSE {}
<1>1. /\ job.at = "mark" /\ JobFits /\ LedgerTyped /\ RowsTyped' /\ Rows' /\ job # Idle
      /\ UNCHANGED <<row, manifest>> /\ Outside /\ CardsKept
      /\ ledger' = [f \in Files |->
               IF f \in scope /\ Existing(f)[1] # "none" THEN [ledger[f] EXCEPT !.metadata = TRUE]
               ELSE ledger[f]]
  BY TypesHold, RowsStay, IdleFits DEF FinalizeMark, RowsTyped
<1>2. LedgerTyped'
  <2> DEFINE yes == TRUE
             marked == {f \in scope : Existing(f)[1] # "none"}
  <2>1. ledger' = [f \in Files |-> IF f \in marked THEN [ledger[f] EXCEPT !.metadata = yes] ELSE ledger[f]]
    BY <1>1
  <2>2. yes \in BOOLEAN /\ \A f \in marked : ledger[f] # NoState
    OBVIOUS
  <2> HIDE DEF yes, marked
  <2>3. \A f \in Files : /\ [ledger[f] EXCEPT !.metadata = yes] \in Entries
                         /\ [ledger[f] EXCEPT !.metadata = yes].status = ledger[f].status
    BY <1>1, <2>2 DEF LedgerTyped, Entries
  <2>4. ledger' \in [Files -> Entries]
    BY <1>1, <2>1, <2>3 DEF LedgerTyped
  <2>5. ASSUME NEW f \in Files, ledger'[f].status = "none" PROVE ledger'[f] = NoState
    BY <1>1, <2>1, <2>2, <2>3, <2>5 DEF LedgerTyped
  <2> QED
    BY <2>4, <2>5 DEF LedgerTyped
<1>3. PICK c \in {0, 1, 3} : Exit(c)
  BY DEF FinalizeMark
<1>4. job.tool = "import" => job.steps = <<"finalize">>
  BY <1>1 DEF JobFits, Fits, InOrder, Filling
<1>5. Imported'
  BY <1>1, <1>3, <1>4, ExitFits, ImportGoesOn DEF Imported, Idle
<1> QED
  BY <1>1, <1>2, <1>3, <1>5, EndStays

-----------------------------------------------------------------------------
(* sqlite --replace, and clean-sidecars.                                   *)

\* A new index starts without rows, ledger and migration.
LEMMA SqliteReplaceStep == ASSUME IInv, SqliteReplace PROVE IInv'
<1>1. /\ job.at = "sqlite" /\ JobFits /\ Goto("import", CardFiles) /\ CardsKept
      /\ UNCHANGED <<drive, media, newest, reverted, jobs, edits, touched, raced>>
      /\ migration' = IF migration.at = "done" THEN [migration EXCEPT !.at = "off"] ELSE migration
  BY TypesHold DEF SqliteReplace
<1>2. /\ job'.at = "import" /\ job'.todo = CardFiles /\ Shape(job') /\ UNCHANGED <<removals, status>>
      /\ job'.tool = job.tool /\ job'.steps = job.steps
  BY <1>1, GotoMoves DEF Places
<1>3. job.tool # "import" /\ CardFiles \subseteq Layouts \X Files /\ job.steps # <<>>
  BY <1>1 DEF JobFits, Fits, InOrder, Filling, CardFiles
<1>4. JobFits'
  BY <1>2, <1>3 DEF JobFits, Fits, InOrder, Filling
<1>5. /\ row' = [f \in Files |-> NoRow] /\ manifest' = [f \in Files |-> NoEntry]
      /\ ledger' = [f \in Files |-> NoState]
  BY DEF SqliteReplace
<1>6. RowsTyped' /\ LedgerTyped'
  <2>1. /\ NoRow \in [md5 : Versions \cup {0}, rev : Revs \cup {0}, seen : BOOLEAN]
        /\ NoState \in Entries
    BY DEF NoRow, NoState, Entries
  <2>2. NoEntry \in [at : Layouts \cup {"none", "media"}, card : 0..MaxStamp, media : Versions \cup {0}]
    BY BoundAssumption DEF NoEntry
  <2> QED
    BY <1>5, <2>1, <2>2 DEF RowsTyped, LedgerTyped
<1>7. job'.at = "idle" <=> job' = Idle
  BY <1>4, IdleFits DEF JobFits, Fits
<1>8. TypeOK'
  BY <1>1, <1>2, <1>6, <1>7 DEF IInv, TypeOK, RowsTyped, LedgerTyped, Entries, CardsKept
<1>9. RestTyped' /\ OldCards'
  <2>1. OldCards'
    BY <1>1 DEF IInv, OldCards, CardsKept, Exists
  <2>2. RestTyped'
    BY <1>1 DEF IInv, RestTyped
  <2> QED
    BY <2>1, <2>2
<1>10. Pairs' /\ Lists'
  BY <1>1, <1>2 DEF IInv, Pairs, JsonMarksCompletion, Readable, CardAt, CardsKept, Lists, Filling
<1>11. Rows'
  <2> SUFFICES ASSUME NEW f \in Files PROVE RowFits(f)'
    BY DEF Rows
  <2>1. row'[f] = NoRow /\ manifest'[f] = NoEntry /\ stamp' \in Nat
    BY <1>1, <1>5, Numbers DEF CardsKept
  <2>2. ~row'[f].seen /\ manifest'[f].at = "none" /\ manifest'[f].card = 0
    BY <2>1 DEF NoRow, NoEntry
  <2> QED
    BY <2>1, <2>2 DEF RowFits, Layouts
<1>12. Readings' /\ Synced' /\ Imported'
  BY <1>2, <1>3 DEF Readings, Synced, Imported
<1> QED
  BY <1>4, <1>6, <1>8, <1>9, <1>10, <1>11, <1>12 DEF IInv

\* A row comes from a sidecar and has its stamp.
LEMMA SqliteFileStep == ASSUME IInv, SqliteFile PROVE IInv'
<1>1. PICK k \in job.todo :
        /\ job.at = "import"
        /\ Goto("import", job.todo \ {k})
        /\ IF Readable(k)
           THEN /\ row' = [row EXCEPT ![k[2]] = CardRow(k)]
                /\ manifest' = [manifest EXCEPT ![k[2]] = EntryOf(k)]
           ELSE UNCHANGED <<row, manifest>>
        /\ UNCHANGED ledger /\ Outside /\ CardsKept
  BY DEF SqliteFile
<1>2. /\ JobFits /\ RowsTyped /\ LedgerTyped /\ k \in Layouts \X Files /\ job.todo \subseteq Layouts \X Files
      /\ job.tool # "import" /\ job.steps # <<>>
  BY <1>1, TypesHold DEF JobFits, Fits, InOrder, Filling
<1>3. /\ job'.at = "import" /\ job'.todo = job.todo \ {k} /\ Shape(job') /\ UNCHANGED <<removals, status>>
      /\ job'.tool = job.tool /\ job'.steps = job.steps
  BY <1>1, <1>2, GotoMoves DEF Places
<1>4. JobFits'
  BY <1>2, <1>3 DEF JobFits, Fits, InOrder, Filling
<1> DEFINE f == k[2]
           line == CardRow(k)
           entry == EntryOf(k)
<1>5. f \in Files /\ k[1] \in Layouts /\ k = <<k[1], f>> /\ json[k] \in Cards
  BY <1>2 DEF IInv, TypeOK
<1>6. line \in [md5 : Versions \cup {0}, rev : Revs \cup {0}, seen : BOOLEAN] /\ line.seen /\ line.rev = json[k].rev
  BY <1>5 DEF CardRow, Cards
<1>7. /\ entry \in [at : Layouts \cup {"none", "media"}, card : 0..MaxStamp, media : Versions \cup {0}]
      /\ entry.at = k[1] /\ entry.card = json[k].stamp
  <2>1. Scanned[f] \in Versions \cup {0}
    BY <1>5 DEF IInv, TypeOK, Scanned
  <2> QED
    BY <1>5, <2>1 DEF EntryOf, Cards
<1> HIDE DEF line, entry, f
<1>8. ASSUME Readable(k) PROVE RowsTyped' /\ Rows'
  <2>1. row' = [row EXCEPT ![f] = line] /\ manifest' = [manifest EXCEPT ![f] = entry]
    BY <1>1, <1>8 DEF line, entry, f
  <2>2. /\ row'[f] = line /\ manifest'[f] = entry
        /\ \A g \in Files : g # f => row'[g] = row[g] /\ manifest'[g] = manifest[g]
    BY <1>2, <1>5, <2>1 DEF RowsTyped
  <2>3. RowsTyped'
    <3>1. row' \in [Files -> [md5 : Versions \cup {0}, rev : Revs \cup {0}, seen : BOOLEAN]]
      BY <1>2, <1>6, <2>1 DEF RowsTyped
    <3>2. manifest' \in [Files -> [at : Layouts \cup {"none", "media"}, card : 0..MaxStamp,
                                  media : Versions \cup {0}]]
      BY <1>2, <1>7, <2>1 DEF RowsTyped
    <3>3. \A g \in Files : row'[g].seen \/ row'[g] = NoRow
      BY <1>2, <1>6, <2>2 DEF RowsTyped
    <3> QED
      BY <3>1, <3>2, <3>3 DEF RowsTyped
  <2>4. RowFits(f)'
    <3>1. /\ manifest'[f].at = k[1] /\ manifest'[f].card = json[k].stamp /\ row'[f].seen
          /\ row'[f].rev = json[k].rev /\ json' = json /\ stamp' = stamp /\ k[1] # "none" /\ k[1] # "media"
      BY <1>1, <1>5, <1>6, <1>7, <2>2 DEF Layouts, CardsKept
    <3>2. /\ json[k].stamp <= stamp
          /\ json[<<"root", f>>].stamp = 1 /\ Exists(<<"legacy", f>>) =>
                 json[<<"root", f>>].rev = json[<<"legacy", f>>].rev
      BY <1>2, <1>5 DEF IInv, OldCards
    <3> QED
      BY <1>5, <3>1, <3>2 DEF RowFits, Readable, CardAt, Exists
  <2>5. Rows'
    BY <1>1, <2>2, <2>4, RowKept DEF Rows
  <2> QED
    BY <2>3, <2>5
<1>9. ASSUME ~Readable(k) PROVE RowsTyped' /\ Rows'
  BY <1>1, <1>2, <1>9, RowsStay DEF RowsTyped
<1>10. TypeOK' /\ LedgerTyped' /\ RestTyped' /\ OldCards'
  BY <1>1, <1>2, <1>3, <1>4, <1>8, <1>9, TypesHold, TypesStay DEF LedgerTyped
<1>11. Pairs' /\ Lists'
  BY <1>1, <1>3, RestStays DEF Filling
<1>12. Readings' /\ Synced' /\ Imported'
  BY <1>2, <1>3 DEF Readings, Synced, Imported
<1> QED
  BY <1>4, <1>8, <1>9, <1>10, <1>11, <1>12 DEF IInv

\* The sidecars to delete have no file, and a tags file comes with its JSON.
LEMMA CleanScanStep == ASSUME IInv, CleanScan PROVE IInv'
<1>1. /\ job.at = "clean" /\ JobFits /\ Goto("unlink", Orphans) /\ Outside /\ CardsKept
      /\ UNCHANGED <<row, manifest, ledger>> /\ RowsTyped' /\ LedgerTyped' /\ Rows'
  BY TypesHold, RowsStay DEF CleanScan, db, RowsTyped, LedgerTyped
<1>2. /\ job'.at = "unlink" /\ job'.todo = Orphans /\ Shape(job') /\ UNCHANGED <<removals, status>>
      /\ job'.tool = job.tool /\ job'.steps = job.steps
  BY <1>1, GotoMoves DEF Places
<1>3. job.tool # "import" /\ Orphans \subseteq Kinds \X (Layouts \X Files) /\ job.steps # <<>>
  BY <1>1 DEF JobFits, Fits, InOrder, Filling, Orphans, Kinds
<1>4. JobFits'
  BY <1>2, <1>3 DEF JobFits, Fits, InOrder, Filling
<1>5. TypeOK' /\ LedgerTyped' /\ RestTyped' /\ OldCards'
  BY <1>1, <1>2, <1>4, TypesHold, TypesStay
<1>6. Pairs'
  <2>1. ASSUME NEW k \in Layouts \X Files, <<"tags", k>> \in Orphans, <<"json", k>> \notin Orphans
        PROVE ~Marks(k)
    <3>1. ~Exists(k)
      BY <2>1 DEF Orphans, Has
    <3> QED
      BY <2>1, <3>1 DEF Marks, Readable, CardAt, Exists, NoCard
  <2>2. \A k \in Layouts \X Files : Marks(k)' = Marks(k)
    BY <1>1 DEF Marks, Readable, CardAt, CardsKept
  <2>3. JsonMarksCompletion'
    BY <1>1 DEF IInv, Pairs, JsonMarksCompletion, Readable, CardAt, CardsKept, Outside
  <2> QED
    BY <1>2, <2>1, <2>2, <2>3 DEF Pairs
<1>7. Lists'
  <2>1. \A u \in Orphans : ~Present(u[2][2])
    BY DEF Orphans
  <2>2. \A f : Present(f)' = Present(f)
    BY <1>1 DEF Present, Outside
  <2> QED
    BY <1>2, <2>1, <2>2 DEF Lists, Filling
<1>8. Readings' /\ Synced' /\ Imported'
  BY <1>2, <1>3 DEF Readings, Synced, Imported
<1> QED
  BY <1>1, <1>4, <1>5, <1>6, <1>7, <1>8 DEF IInv

\* The JSON of a file is deleted before its tags.
LEMMA CleanFileStep == ASSUME IInv, CleanFile PROVE IInv'
<1>1. PICK u \in job.todo :
        /\ job.at = "unlink"
        /\ u[1] = "tags" => <<"json", u[2]>> \notin job.todo
        /\ Goto("unlink", job.todo \ {u})
        /\ IF u[1] = "json" THEN json' = [json EXCEPT ![u[2]] = NoCard] /\ UNCHANGED tags
           ELSE tags' = [tags EXCEPT ![u[2]] = 0] /\ UNCHANGED json
        /\ UNCHANGED <<archive, stamp, db>> /\ Outside
  BY DEF CleanFile
<1> DEFINE n == u[2]
<1>2. /\ JobFits /\ RowsTyped' /\ LedgerTyped' /\ job.todo \subseteq Kinds \X (Layouts \X Files)
      /\ job.tool # "import" /\ job.steps # <<>> /\ UNCHANGED <<archive, stamp, row, manifest, ledger>>
      /\ u \in Kinds \X (Layouts \X Files)
  BY <1>1, TypesHold DEF JobFits, Fits, InOrder, Filling, RowsTyped, LedgerTyped, db
<1>3. /\ job'.at = "unlink" /\ job'.todo = job.todo \ {u} /\ Shape(job') /\ UNCHANGED <<removals, status>>
      /\ job'.tool = job.tool /\ job'.steps = job.steps
  BY <1>1, <1>2, GotoMoves DEF Places
<1>4. JobFits'
  BY <1>2, <1>3 DEF JobFits, Fits, InOrder, Filling
<1>5. n \in Layouts \X Files /\ u = <<u[1], n>> /\ u[1] \in Kinds /\ NoCard \in Cards
      /\ NoCard.stamp = 0 /\ ~NoCard.pending
  BY <1>2, BoundAssumption DEF NoCard, Cards
<1>6. json \in [Layouts \X Files -> Cards] /\ tags \in [Layouts \X Files -> 0..MaxStamp]
  BY DEF IInv, TypeOK
<1>7. /\ json' \in [Layouts \X Files -> Cards] /\ tags' \in [Layouts \X Files -> 0..MaxStamp]
      /\ u[1] = "json" => json'[n] = NoCard /\ tags' = tags
      /\ \A k \in Layouts \X Files : u[1] # "json" \/ k # n => json'[k] = json[k]
      /\ u[1] # "json" => tags'[n] = 0
      /\ \A k \in Layouts \X Files : k # n => tags'[k] = tags[k]
  <2>1. CASE u[1] = "json"
    BY <1>1, <1>5, <1>6, <2>1
  <2>2. CASE u[1] # "json"
    BY <1>1, <1>5, <1>6, <2>2, BoundAssumption
  <2> QED
    BY <2>1, <2>2
<1>8. TypeOK'
  <2>1. job'.at = "idle" <=> job' = Idle
    BY <1>4, IdleFits DEF JobFits, Fits
  <2> QED
    BY <1>1, <1>2, <1>3, <1>7, <2>1 DEF IInv, TypeOK, RowsTyped, LedgerTyped, Entries, Outside
<1>9. RestTyped'
  BY <1>1 DEF IInv, RestTyped, Outside
<1> HIDE DEF n
<1>10. \A k \in Layouts \X Files : json'[k] = json[k] \/ json'[k] = NoCard
  BY <1>7
<1>11. stamp' = stamp /\ stamp \in Nat
  BY <1>2, Numbers
<1>12. OldCards'
  <2>1. \A k \in Layouts \X Files : tags'[k] \in {tags[k], 0}
    BY <1>7
  <2>2. 1 <= stamp'
    BY <1>11 DEF IInv, OldCards
  <2>3. ASSUME NEW k \in Layouts \X Files
        PROVE  json'[k].stamp <= stamp' /\ tags'[k] <= stamp' /\ (Exists(k)' => json'[k].rev # 0)
    BY <1>5, <1>10, <1>11, <2>1 DEF IInv, OldCards, Exists
  <2>4. ASSUME NEW f \in Files
        PROVE  /\ json'[<<"legacy", f>>].stamp <= 1 \/ ~json'[<<"legacy", f>>].ok
               /\ ~json'[<<"legacy", f>>].pending
               /\ json'[<<"root", f>>].stamp = 1 /\ Exists(<<"legacy", f>>)' =>
                      json'[<<"root", f>>].rev = json'[<<"legacy", f>>].rev
    <3>1. \A l \in Layouts : <<l, f>> \in Layouts \X Files
      OBVIOUS
    <3> QED
      BY <1>5, <1>10, <3>1 DEF IInv, OldCards, Exists, Layouts
  <2> QED
    BY <2>2, <2>3, <2>4 DEF OldCards
<1>13. Pairs'
  <2>1. \A k \in Layouts \X Files : Marks(k)' => Marks(k) /\ json'[k] = json[k]
    BY <1>5, <1>10 DEF Marks, Readable, CardAt, Layouts
  <2>2. ASSUME NEW k \in Layouts \X Files, Marks(k)' PROVE tags'[k] = tags[k]
    <3>1. CASE u[1] = "json"
      BY <1>7, <3>1
    <3>2. CASE u[1] = "tags"
      <4>1. ~Marks(n)
        BY <1>1, <1>5, <3>2 DEF IInv, Pairs, n
      <4> QED
        BY <1>7, <2>1, <2>2, <4>1
    <3> QED
      BY <1>5, <3>1, <3>2 DEF Kinds
  <2>3. JsonMarksCompletion'
    <3> SUFFICES ASSUME NEW f \in Files \ raced', Readable(<<"root", f>>)', json'[<<"root", f>>].stamp > 1
                 PROVE  tags'[<<"root", f>>] >= json'[<<"root", f>>].stamp
      BY DEF JsonMarksCompletion
    <3>1. <<"root", f>> \in Layouts \X Files /\ raced' = raced
      BY <1>1 DEF Layouts, Outside
    <3>2. Marks(<<"root", f>>)'
      BY DEF Marks
    <3>3. /\ json'[<<"root", f>>] = json[<<"root", f>>] /\ tags'[<<"root", f>>] = tags[<<"root", f>>]
          /\ Readable(<<"root", f>>) /\ json[<<"root", f>>].stamp > 1
      BY <2>1, <2>2, <3>1, <3>2 DEF Marks
    <3>4. f \in Files \ raced /\ JsonMarksCompletion
      BY <3>1 DEF IInv, Pairs
    <3> QED
      BY <3>3, <3>4 DEF JsonMarksCompletion
  <2>4. ASSUME NEW k \in Layouts \X Files, <<"tags", k>> \in job'.todo, <<"json", k>> \notin job'.todo
        PROVE  ~Marks(k)'
    <3>1. CASE <<"json", k>> \notin job.todo
      BY <1>1, <1>3, <2>1, <2>4, <3>1 DEF IInv, Pairs
    <3>2. CASE <<"json", k>> \in job.todo
      <4>1. u = <<"json", k>>
        BY <1>3, <2>4, <3>2
      <4>2. json'[k] = NoCard
        BY <1>7, <4>1 DEF n
      <4> QED
        BY <1>5, <4>2 DEF Marks, Readable, CardAt
    <3> QED
      BY <3>1, <3>2
  <2> QED
    BY <1>3, <2>3, <2>4 DEF Pairs
<1>14. Rows'
  <2> SUFFICES ASSUME NEW f \in Files PROVE RowFits(f)'
    BY DEF Rows
  <2>1. RowFits(f) /\ newest' = newest /\ reverted' = reverted
    BY <1>1 DEF IInv, Rows, Outside
  <2>2. \A l \in Layouts : /\ <<l, f>> \in Layouts \X Files
                           /\ json'[<<l, f>>] = json[<<l, f>>] \/ json'[<<l, f>>] = NoCard
    BY <1>10
  <2> QED
    BY <1>2, <1>5, <2>1, <2>2 DEF RowFits, Readable, CardAt, Exists, Layouts
<1>15. Lists'
  BY <1>1, <1>3 DEF IInv, Lists, Present, Outside, Filling
<1>16. Readings' /\ Synced' /\ Imported'
  BY <1>2, <1>3 DEF Readings, Synced, Imported
<1> QED
  BY <1>2, <1>4, <1>8, <1>9, <1>12, <1>13, <1>14, <1>15, <1>16 DEF IInv

-----------------------------------------------------------------------------
(* The user, and the start and the end of a tool.                          *)

\* The newest content stays at least what any process has read.
LEMMA ChangeMediaStep == ASSUME IInv, ChangeMedia PROVE IInv'
<1>1. PICK f \in Files, v \in Versions \cup {0} :
        /\ Edit({f})
        /\ media' = [media EXCEPT ![f] = v]
        /\ newest' = IF v > newest[f] THEN [newest EXCEPT ![f] = v] ELSE newest
        /\ reverted' = IF v # 0 /\ v < newest[f] THEN reverted \cup {f} ELSE reverted
        /\ UNCHANGED <<drive, json, tags, archive, db, removals, status, job, migration, stamp, jobs, raced>>
  BY DEF ChangeMedia
<1>2. /\ UNCHANGED <<drive, json, tags, archive, row, manifest, ledger, removals, job, migration, stamp, jobs, raced>>
      /\ touched' = touched \cup {f}
      /\ reverted \subseteq reverted' /\ reverted' \subseteq reverted \cup {f}
      /\ v # 0 /\ v < newest[f] => f \in reverted'
  BY <1>1 DEF db, Edit
<1>3. /\ media \in [Files -> Versions \cup {0}] /\ newest \in [Files -> Versions \cup {0}]
      /\ Versions \cup {0} \subseteq Nat
  BY VersionAssumption DEF IInv, TypeOK
<1>4. /\ media' \in [Files -> Versions \cup {0}] /\ newest' \in [Files -> Versions \cup {0}]
      /\ media'[f] = v /\ \A g \in Files : g # f => media'[g] = media[g] /\ newest'[g] = newest[g]
      /\ newest'[f] = IF v > newest[f] THEN v ELSE newest[f]
  BY <1>1, <1>3
<1>5. \A g \in Files : newest'[g] \in Nat /\ newest[g] <= newest'[g]
  BY <1>1, <1>3, <1>4
<1>6. TypeOK'
  <2>1. edits' \in 0..MaxEdits
    BY <1>1, BoundAssumption DEF IInv, TypeOK, Edit
  <2>2. touched' \subseteq Files /\ reverted' \subseteq Files
    BY <1>2 DEF IInv, TypeOK
  <2> QED
    BY <1>2, <1>4, <2>1, <2>2 DEF IInv, TypeOK
<1>7. RestTyped' /\ LedgerTyped' /\ JobFits'
  <2>1. ASSUME NEW g \in Files
        PROVE  media'[g] <= newest'[g] /\ (g \in reverted' \/ media'[g] \in {0, newest'[g]})
    <3>1. /\ newest[g] \in Nat /\ media[g] \in Nat /\ v \in Nat /\ media[g] <= newest[g]
          /\ g \in reverted \/ media[g] \in {0, newest[g]}
      BY <1>3 DEF IInv, RestTyped
    <3>2. CASE g = f
      BY <1>2, <1>4, <3>1, <3>2
    <3>3. CASE g # f
      BY <1>2, <1>4, <3>1, <3>3
    <3> QED
      BY <3>2, <3>3
  <2> QED
    BY <1>2, <2>1 DEF IInv, RestTyped, LedgerTyped, JobFits
<1>8. OldCards' /\ Pairs'
  BY <1>2 DEF IInv, OldCards, Pairs, JsonMarksCompletion, Marks, Readable, CardAt, Exists
<1>9. Rows'
  <2> SUFFICES ASSUME NEW g \in Files PROVE RowFits(g)'
    BY DEF Rows
  <2>1. stamp \in Nat /\ RowFits(g)
    BY Numbers DEF IInv, Rows
  <2> QED
    BY <1>2, <1>5, <2>1, RowStays
<1>10. Readings'
  <2>1. job.at \in {"discovered", "index"} => \A g \in job.todo :
            job.media[g] \in Nat /\ job.media[g] <= newest[g] /\ g \in Files
    BY <1>3 DEF IInv, Readings, JobFits, Fits
  <2>2. \A a, b, c \in Nat : a <= b /\ b <= c => a <= c
    OBVIOUS
  <2>3. \A g \in Files : newest[g] \in Nat
    BY <1>3
  <2>4. job.at \in {"discovered", "index"} => \A g \in job.todo : job.media[g] <= newest'[g]
    BY <1>5, <2>1, <2>2, <2>3
  <2> QED
    BY <1>2, <2>4 DEF IInv, Readings, Exists
<1>11. \A g \in Files \ touched' : media'[g] = media[g] /\ Present(g)' = Present(g) /\ Scanned'[g] = Scanned[g]
                                  /\ g \in Files \ touched
  BY <1>2, <1>4 DEF Present, Scanned
<1>12. Lists'
  <2>1. \A g \in Files : Listed(g)' = Listed(g)
    BY <1>2 DEF Listed, Exists, Previous
  <2>2. Waiting' = Waiting /\ touched \subseteq touched'
    BY <1>2 DEF Waiting
  <2>3. job.at \in Filling => Waiting \subseteq Files
    BY DEF IInv, JobFits, Fits, Waiting
  <2>4. job.at = "unlink" => \A u \in job.todo : u[2][2] \in Files
    BY DEF IInv, JobFits, Fits
  <2> QED
    BY <1>2, <1>11, <2>1, <2>2, <2>3, <2>4 DEF IInv, Lists, Exists
<1>13. Synced'
  <2>1. \A g \in Files : HasRow(g)' = HasRow(g) /\ Indexed(g)' = Indexed(g) /\ CardAt(Indexed(g))' = CardAt(Indexed(g))
    BY <1>2 DEF HasRow, Indexed, Readable, CardAt, Exists
  <2> QED
    BY <1>2, <1>11, <2>1 DEF IInv, Synced
<1>14. Imported'
  <2>1. \A g \in Files : Served(g)' = Served(g)
    BY <1>2 DEF Served, Existing, Readable, CardAt, Exists
  <2> QED
    BY <1>2, <1>11, <2>1 DEF IInv, Imported, Exists
<1> QED
  BY <1>6, <1>7, <1>8, <1>9, <1>10, <1>12, <1>13, <1>14 DEF IInv

\* A folder that moves touches all of its files.
LEMMA MoveFolderStep == ASSUME IInv, MoveFolder PROVE IInv'
<1>1. PICK d \in {"here", "gone", "unplugged"} :
        /\ Edit(Files) /\ drive' = d
        /\ UNCHANGED <<media, newest, reverted, json, tags, archive, db, removals, status, job, migration, stamp, jobs, raced>>
  BY DEF MoveFolder
<1>2. /\ UNCHANGED <<media, newest, reverted, json, tags, archive, row, manifest, ledger, removals, job, migration, stamp, jobs, raced>>
      /\ touched' = Files
  BY <1>1 DEF db, Edit, IInv, TypeOK
<1>3. TypeOK'
  <2>1. edits' \in 0..MaxEdits
    BY <1>1, BoundAssumption DEF IInv, TypeOK, Edit
  <2> QED
    BY <1>1, <1>2, <2>1 DEF IInv, TypeOK
<1>4. RestTyped' /\ LedgerTyped' /\ JobFits'
  BY <1>2 DEF IInv, RestTyped, LedgerTyped, JobFits
<1>5. OldCards' /\ Pairs' /\ Readings'
  BY <1>2 DEF IInv, OldCards, Pairs, Readings, JsonMarksCompletion, Marks, Readable, CardAt, Exists
<1>6. Rows'
  <2> SUFFICES ASSUME NEW g \in Files PROVE RowFits(g)'
    BY DEF Rows
  <2>1. stamp \in Nat /\ newest[g] \in Nat /\ RowFits(g)
    BY Numbers DEF IInv, Rows
  <2> QED
    BY <1>2, <2>1, RowStays
<1>7. Lists'
  <2>1. job.at \in Filling => Waiting \subseteq Files /\ (job.at = "json" => job.file \in Files)
    BY DEF IInv, JobFits, Fits, Waiting, Filling
  <2>2. job.at = "unlink" => \A u \in job.todo : u[2][2] \in Files
    BY DEF IInv, JobFits, Fits
  <2>3. Waiting' = Waiting
    BY <1>2 DEF Waiting
  <2>4. job.at = "json" => job.at \in Filling
    BY DEF Filling
  <2> QED
    BY <1>2, <2>1, <2>2, <2>3, <2>4 DEF Lists
<1>8. Synced' /\ Imported'
  BY <1>2 DEF Synced, Imported
<1> QED
  BY <1>3, <1>4, <1>5, <1>6, <1>7, <1>8 DEF IInv

\* A damaged sidecar has a stamp that the manifest does not have.
LEMMA DamageCardStep == ASSUME IInv, DamageCard PROVE IInv'
<1>1. PICK k \in Layouts \X Files :
        /\ Exists(k) /\ json[k].ok /\ stamp < MaxStamp
        /\ Edit({k[2]})
        /\ stamp' = stamp + 1
        /\ json' = [json EXCEPT ![k].ok = FALSE, ![k].stamp = stamp + 1]
        /\ UNCHANGED <<drive, media, newest, reverted, tags, archive, db, removals, status, job, migration, jobs, raced>>
  BY DEF DamageCard
<1> DEFINE no == FALSE
<1>2. /\ UNCHANGED <<drive, media, newest, reverted, tags, archive, row, manifest, ledger, removals, job, migration, jobs, raced>>
      /\ touched' = touched \cup {k[2]} /\ k[2] \in Files /\ k = <<k[1], k[2]>> /\ k[1] \in Layouts
      /\ json' = [json EXCEPT ![k].ok = no, ![k].stamp = stamp + 1]
      /\ no \in BOOLEAN /\ ~no
  BY <1>1 DEF db, Edit
<1> HIDE DEF no
<1>3. json \in [Layouts \X Files -> Cards] /\ stamp \in Nat /\ stamp' \in 1..MaxStamp /\ stamp < stamp'
      /\ 1 <= stamp
  BY <1>1, Numbers, BoundAssumption DEF IInv, TypeOK, OldCards
<1>4. /\ json' \in [Layouts \X Files -> Cards]
      /\ \A c \in Layouts \X Files : c # k => json'[c] = json[c]
      /\ json'[k].stamp = stamp' /\ ~json'[k].ok /\ json'[k].rev = json[k].rev
      /\ json'[k].pending = json[k].pending
  <2> DEFINE card == [json[k] EXCEPT !.ok = no, !.stamp = stamp + 1]
  <2>1. json[k] \in Cards /\ stamp + 1 \in 0..MaxStamp /\ stamp' = stamp + 1
    BY <1>1, <1>3
  <2>2. /\ card \in Cards /\ card.stamp = stamp' /\ card.ok = no /\ card.rev = json[k].rev
        /\ card.pending = json[k].pending
    BY <1>2, <2>1 DEF Cards
  <2>3. json' = [json EXCEPT ![k] = card]
    BY <1>2, <1>3
  <2> HIDE DEF card
  <2> QED
    BY <1>2, <1>3, <2>2, <2>3
<1>5. \A c \in Layouts \X Files : /\ json'[c].rev = json[c].rev /\ json'[c].pending = json[c].pending
                                  /\ Exists(c)' = Exists(c)
  BY <1>1, <1>3, <1>4 DEF Exists
<1>6. TypeOK'
  <2>1. edits' \in 0..MaxEdits /\ touched' \subseteq Files
    BY <1>1, <1>2, BoundAssumption DEF IInv, TypeOK, Edit
  <2>2. stamp' \in 0..MaxStamp
    BY <1>3
  <2> QED
    BY <1>2, <1>4, <2>1, <2>2 DEF IInv, TypeOK
<1>7. RestTyped' /\ LedgerTyped' /\ JobFits'
  BY <1>2 DEF IInv, RestTyped, LedgerTyped, JobFits
<1>8. OldCards'
  <2>1. ASSUME NEW c \in Layouts \X Files
        PROVE  json'[c].stamp <= stamp' /\ tags'[c] <= stamp' /\ (Exists(c)' => json'[c].rev # 0)
    <3>1. json[c].stamp <= stamp /\ tags[c] <= stamp /\ json[c].stamp \in Nat /\ tags[c] \in Nat
          /\ (Exists(c) => json[c].rev # 0)
      BY <1>3, BoundAssumption DEF IInv, OldCards, TypeOK, Cards
    <3> QED
      BY <1>2, <1>3, <1>4, <1>5, <3>1
  <2>2. ASSUME NEW f \in Files
        PROVE  /\ json'[<<"legacy", f>>].stamp <= 1 \/ ~json'[<<"legacy", f>>].ok
               /\ ~json'[<<"legacy", f>>].pending
               /\ json'[<<"root", f>>].stamp = 1 /\ Exists(<<"legacy", f>>)' =>
                      json'[<<"root", f>>].rev = json'[<<"legacy", f>>].rev
    <3>1. \A l \in Layouts : <<l, f>> \in Layouts \X Files
      OBVIOUS
    <3> QED
      BY <1>3, <1>4, <1>5, <3>1 DEF IInv, OldCards, Layouts
  <2> QED
    BY <1>3, <2>1, <2>2 DEF OldCards
<1>9. \A c \in Layouts \X Files : Readable(c)' => c # k /\ Readable(c) /\ json'[c] = json[c]
  BY <1>2, <1>4 DEF Readable, CardAt, Layouts
<1>10. Pairs'
  <2>1. JsonMarksCompletion'
    <3>1. \A f \in Files : <<"root", f>> \in Layouts \X Files
      BY DEF Layouts
    <3> QED
      BY <1>2, <1>9, <3>1 DEF IInv, Pairs, JsonMarksCompletion
  <2>2. \A c \in Layouts \X Files : Marks(c)' => Marks(c)
    BY <1>9 DEF Marks
  <2>3. job.at = "json" => job.post.stamp \in Nat
    BY BoundAssumption DEF IInv, JobFits, Fits, Shape, Cards
  <2> QED
    BY <1>2, <1>3, <2>1, <2>2, <2>3 DEF IInv, Pairs
<1>11. Rows'
  <2> SUFFICES ASSUME NEW f \in Files PROVE RowFits(f)'
    BY DEF Rows
  <2>1. RowFits(f) /\ manifest[f].card \in Nat
    BY Numbers DEF IInv, Rows
  <2>2. \A l \in Layouts : <<l, f>> \in Layouts \X Files
    OBVIOUS
  <2> QED
    BY <1>2, <1>3, <1>5, <1>9, <2>1, <2>2 DEF RowFits, Layouts
<1>12. Readings'
  <2>1. job.at = "index" => \A f \in Files : job.cards[f].stamp \in Nat /\ <<"legacy", f>> \in Layouts \X Files
    BY BoundAssumption DEF IInv, JobFits, Fits, Layouts
  <2> QED
    BY <1>2, <1>3, <1>5, <2>1 DEF IInv, Readings
<1>13. ASSUME NEW f \in Files \ touched'
       PROVE  /\ f \in Files \ touched /\ \A l \in Layouts : json'[<<l, f>>] = json[<<l, f>>]
              /\ json'[<<"root", f>>] = json[<<"root", f>>] /\ json'[<<"legacy", f>>] = json[<<"legacy", f>>]
  BY <1>2, <1>4 DEF Layouts
<1>14. \A f \in Files : Present(f)' = Present(f) /\ Scanned'[f] = Scanned[f]
  BY <1>2 DEF Present, Scanned
<1>15. Lists'
  <2>1. \A f \in Files \ touched' : Listed(f)' = Listed(f) /\ f \notin touched
    BY <1>2, <1>13 DEF Listed, Exists, Previous, Layouts
  <2>2. Waiting' = Waiting
    BY <1>2 DEF Waiting
  <2>3. job.at \in Filling => Waiting \subseteq Files /\ (job.at = "json" => job.file \in Files)
    BY DEF IInv, JobFits, Fits, Waiting, Filling
  <2>4. job.at = "unlink" => \A u \in job.todo : u[2][2] \in Files
    BY DEF IInv, JobFits, Fits
  <2>5. job.at = "json" => job.at \in Filling
    BY DEF Filling
  <2>6. job.at \in Filling /\ job.tool # "refresh" => \A f \in Waiting \ touched' : Listed(f)'
    BY <2>1, <2>3 DEF IInv, Lists
  <2>7. ASSUME job.at = "json", job.file \notin touched' \cup raced, NEW l \in Layouts, Exists(<<l, job.file>>)'
        PROVE  \E a \in archive : a.file = job.file /\ a.card = json'[<<l, job.file>>]
    <3>1. job.file \in Files \ touched' /\ job.file \notin raced
      BY <2>3, <2>5, <2>7
    <3>2. json'[<<l, job.file>>] = json[<<l, job.file>>] /\ job.file \notin touched
      BY <1>13, <3>1
    <3>3. job.file \notin touched \cup raced =>
              \A m \in Layouts : Exists(<<m, job.file>>) =>
                  \E a \in archive : a.file = job.file /\ a.card = json[<<m, job.file>>]
      BY <2>7 DEF IInv, Lists
    <3>4. Exists(<<l, job.file>>)
      BY <1>2, <2>7, <3>2 DEF Exists
    <3> QED
      BY <3>1, <3>2, <3>3, <3>4
  <2>8. job.at = "unlink" => \A u \in job.todo : u[2][2] \notin touched' => ~Present(u[2][2])'
    BY <1>13, <1>14, <2>4 DEF IInv, Lists
  <2> QED
    BY <1>2, <2>2, <2>6, <2>7, <2>8 DEF Lists
<1>16. Synced'
  <2>1. \A f \in Files \ touched' : HasRow(f)' = HasRow(f) /\ Indexed(f)' = Indexed(f) /\ CardAt(Indexed(f))' = CardAt(Indexed(f))
    <3> SUFFICES ASSUME NEW f \in Files \ touched'
                 PROVE  HasRow(f)' = HasRow(f) /\ Indexed(f)' = Indexed(f) /\ CardAt(Indexed(f))' = CardAt(Indexed(f))
      OBVIOUS
    <3>1. Exists(<<"root", f>>)' = Exists(<<"root", f>>) /\ Exists(<<"legacy", f>>)' = Exists(<<"legacy", f>>)
      BY <1>13 DEF Exists
    <3>2. Indexed(f)' = Indexed(f) /\ \E l \in Layouts \cup {"none"} : Indexed(f) = <<l, f>>
      BY <3>1 DEF Indexed, Layouts
    <3>3. ASSUME NEW l \in Layouts \cup {"none"}, Indexed(f) = <<l, f>>
          PROVE  CardAt(Indexed(f))' = CardAt(Indexed(f))
      <4>1. Indexed(f)' = <<l, f>> /\ (l = "none" \/ json'[<<l, f>>] = json[<<l, f>>])
        BY <1>13, <3>2, <3>3
      <4>2. (IF l = "none" THEN NoCard ELSE json'[<<l, f>>]) = IF l = "none" THEN NoCard ELSE json[<<l, f>>]
        BY <4>1
      <4>3. CardAt(Indexed(f)) = IF l = "none" THEN NoCard ELSE json[<<l, f>>]
        BY <3>3 DEF CardAt
      <4>4. CardAt(Indexed(f))' = IF l = "none" THEN NoCard ELSE json'[<<l, f>>]
        BY <4>1 DEF CardAt
      <4> QED
        BY <4>2, <4>3, <4>4
    <3>4. CardAt(Indexed(f))' = CardAt(Indexed(f))
      BY <3>2, <3>3
    <3> QED
      BY <1>2, <3>2, <3>4 DEF HasRow, Readable
  <2> QED
    BY <1>2, <1>13, <1>14, <2>1 DEF IInv, Synced
<1>17. Imported'
  <2>1. \A f \in Files \ touched' : Served(f)' = Served(f) /\ Exists(<<"root", f>>)' = Exists(<<"root", f>>)
                                   /\ json'[<<"root", f>>] = json[<<"root", f>>]
    <3> SUFFICES ASSUME NEW f \in Files \ touched'
                 PROVE  Served(f)' = Served(f) /\ Exists(<<"root", f>>)' = Exists(<<"root", f>>)
      BY <1>13
    <3>1. Exists(<<"root", f>>)' = Exists(<<"root", f>>) /\ Exists(<<"legacy", f>>)' = Exists(<<"legacy", f>>)
      BY <1>13 DEF Exists
    <3>2. Existing(f)' = Existing(f) /\ \E l \in Layouts \cup {"none"} : Existing(f) = <<l, f>>
      BY <3>1 DEF Existing, Layouts
    <3>3. ASSUME NEW l \in Layouts \cup {"none"}, Existing(f) = <<l, f>>
          PROVE  CardAt(Existing(f))' = CardAt(Existing(f))
      <4>1. Existing(f)' = <<l, f>> /\ (l = "none" \/ json'[<<l, f>>] = json[<<l, f>>])
        BY <1>13, <3>2, <3>3
      <4>2. (IF l = "none" THEN NoCard ELSE json'[<<l, f>>]) = IF l = "none" THEN NoCard ELSE json[<<l, f>>]
        BY <4>1
      <4>3. CardAt(Existing(f)) = IF l = "none" THEN NoCard ELSE json[<<l, f>>]
        BY <3>3 DEF CardAt
      <4>4. CardAt(Existing(f))' = IF l = "none" THEN NoCard ELSE json'[<<l, f>>]
        BY <4>1 DEF CardAt
      <4> QED
        BY <4>2, <4>3, <4>4
    <3>4. CardAt(Existing(f))' = CardAt(Existing(f))
      BY <3>2, <3>3
    <3> QED
      BY <1>2, <3>1, <3>2, <3>4 DEF Served, Readable
  <2>2. media' = media
    BY <1>2
  <2> QED
    BY <1>2, <1>13, <1>14, <2>1, <2>2 DEF IInv, Imported
<1> QED
  BY <1>6, <1>7, <1>8, <1>10, <1>11, <1>12, <1>15, <1>16, <1>17 DEF IInv

\* A killed process leaves what it has written.
LEMMA KillStep == ASSUME IInv, Kill PROVE IInv'
<1>1. /\ job' = Idle
      /\ UNCHANGED <<drive, media, newest, reverted, json, tags, archive, row, manifest, ledger, removals, migration,
                     stamp, jobs, edits, touched, raced>>
  BY DEF Kill, disk, db
<1>2. /\ job'.at = "idle" /\ job'.tool = "none" /\ JobFits'
  BY <1>1, IdleFits DEF Idle, JobFits
<1>3. TypeOK' /\ RestTyped' /\ LedgerTyped'
  BY <1>1, <1>2 DEF IInv, TypeOK, RestTyped, LedgerTyped
<1>4. OldCards' /\ Pairs'
  BY <1>1, <1>2 DEF IInv, OldCards, Pairs, JsonMarksCompletion, Marks, Readable, CardAt, Exists
<1>5. Rows'
  BY <1>1, Numbers, RowStays DEF IInv, Rows
<1>6. Readings' /\ Lists' /\ Synced' /\ Imported'
  BY <1>2 DEF Readings, Lists, Synced, Imported, Filling
<1> QED
  BY <1>2, <1>3, <1>4, <1>5, <1>6 DEF IInv

\* A tool starts at the first of its processes, and knows nothing.
LEMMA StartStep == ASSUME IInv, AutomaticCheck \/ Launch PROVE IInv'
<1>1. PICK t \in DOMAIN Steps : Start(t)
  BY ToolsHaveSteps DEF AutomaticCheck, Launch
<1>2. /\ jobs < MaxJobs /\ jobs' = jobs + 1 /\ touched' = {}
      /\ job' = [Idle EXCEPT !.tool = t, !.steps = Steps[t], !.at = Head(Steps[t])]
      /\ UNCHANGED <<drive, media, newest, reverted, json, tags, archive, row, manifest, ledger, removals, migration,
                     stamp, edits, raced>>
  BY <1>1 DEF Start, disk, db
<1>3. Steps[t] \in Seq(Processes) /\ Steps[t] # <<>> /\ t # "none" /\ Head(Steps[t]) \in Processes
      /\ Steps["import"] = <<"discover", "enrich", "backfill", "finalize">>
  BY ToolsHaveSteps
<1>4. /\ job'.tool = t /\ job'.steps = Steps[t] /\ job'.at = Head(Steps[t])
  BY <1>2 DEF Idle
<1>5. Shape(job')
  <2>1. Shape(Idle) /\ Head(Steps[t]) \in Places
    BY <1>3, IdleFits DEF Fits, Places
  <2> QED
    BY <1>2, <1>3, <2>1 DEF Shape, Idle
<1>6. t = "import" => InOrder(job')
  BY <1>3, <1>4, ImportGoesOn DEF InOrder
<1>7. JobFits'
  BY <1>3, <1>4, <1>5, <1>6 DEF JobFits, Fits, Processes, Filling
<1>8. TypeOK'
  <2>1. jobs' \in 0..MaxJobs
    BY <1>2, BoundAssumption DEF IInv, TypeOK
  <2>2. \A a \in archive : a.file \in Files /\ a.card \in Cards /\ a.run \in 0..MaxJobs
    BY DEF IInv, TypeOK
  <2>3. job'.at # "idle" /\ job' # Idle
    BY <1>3, <1>4, IdleFits DEF Processes
  <2> QED
    BY <1>2, <2>1, <2>2, <2>3 DEF IInv, TypeOK
<1>9. RestTyped' /\ LedgerTyped'
  BY <1>2 DEF IInv, RestTyped, LedgerTyped
<1>10. OldCards' /\ Pairs'
  BY <1>2, <1>3, <1>4 DEF IInv, OldCards, Pairs, JsonMarksCompletion, Marks, Readable, CardAt, Exists, Processes
<1>11. Rows'
  BY <1>2, Numbers, RowStays DEF IInv, Rows
<1>12. Readings' /\ Lists' /\ Synced'
  BY <1>3, <1>4 DEF Readings, Lists, Synced, Filling, Processes
<1>13. Imported'
  <2>1. t = "import" => job'.at = "discover"
    BY <1>3, <1>4, ImportGoesOn
  <2> QED
    BY <1>4, <2>1 DEF Imported, Filling
<1> QED
  BY <1>7, <1>8, <1>9, <1>10, <1>11, <1>12, <1>13 DEF IInv

-----------------------------------------------------------------------------
(* The migration, beside the running tool.                                 *)

\* What is said of the rest holds as long as the migration copies nothing.
LEMMA MigrationMoves ==
    ASSUME IInv, MigrationKept, UNCHANGED <<json, tags, raced>>, RestTyped'
    PROVE  IInv'
<1>1. /\ UNCHANGED <<drive, media, newest, reverted, archive, row, manifest, ledger, removals, status, job, stamp, jobs,
                     edits, touched, json, tags, raced>>
  BY DEF MigrationKept, db
<1>2. TypeOK' /\ LedgerTyped' /\ JobFits'
  BY <1>1 DEF IInv, TypeOK, LedgerTyped, JobFits
<1>3. OldCards' /\ Pairs'
  BY <1>1 DEF IInv, OldCards, Pairs, JsonMarksCompletion, Marks, Readable, CardAt, Exists
<1>4. Rows' /\ Readings'
  BY <1>1 DEF IInv, Rows, RowFits, Readings, Readable, CardAt, Exists
<1>5. Lists'
  <2>1. \A f : Listed(f)' = Listed(f) /\ Present(f)' = Present(f)
    BY <1>1 DEF Listed, Exists, Previous, Present
  <2>2. Waiting' = Waiting
    BY <1>1 DEF Waiting
  <2> QED
    BY <1>1, <2>1, <2>2 DEF IInv, Lists, Exists
<1>6. Synced' /\ Imported'
  <2>1. \A f : /\ HasRow(f)' = HasRow(f) /\ Indexed(f)' = Indexed(f) /\ CardAt(Indexed(f))' = CardAt(Indexed(f))
               /\ Served(f)' = Served(f) /\ Present(f)' = Present(f)
    BY <1>1 DEF HasRow, Indexed, Served, Existing, Readable, CardAt, Exists, Present
  <2>2. Scanned' = Scanned
    BY <1>1 DEF Scanned
  <2>3. Synced'
    BY <1>1, <2>1, <2>2 DEF IInv, Synced
  <2>4. Imported'
    BY <1>1, <2>1 DEF IInv, Imported, Exists
  <2> QED
    BY <2>3, <2>4
<1> QED
  BY <1>2, <1>3, <1>4, <1>5, <1>6 DEF IInv

\* The migration starts with the sidecars of every row.
LEMMA MigrationStartStep == ASSUME IInv, MigrationStart PROVE IInv'
<1>1. /\ migration' = [at |-> "look", key |-> <<>>, todo |-> {"json", "tags"} \X {f \in Files : row[f].seen}]
      /\ UNCHANGED <<json, tags, raced>> /\ MigrationKept
  BY DEF MigrationStart
<1>2. RestTyped'
  <2>1. /\ migration'.at = "look" /\ migration'.key = <<>>
        /\ migration'.todo = {"json", "tags"} \X {f \in Files : row[f].seen}
    BY <1>1
  <2>2. migration' = [at |-> migration'.at, todo |-> migration'.todo, key |-> migration'.key]
    BY <1>1
  <2>3. migration'.todo \subseteq Kinds \X Files
    BY <2>1 DEF Kinds
  <2> QED
    BY <1>1, <2>1, <2>2, <2>3 DEF IInv, RestTyped, MigrationKept
<1> QED
  BY <1>1, <1>2, MigrationMoves

\* It looks at the next one.
LEMMA MigrateLookStep == ASSUME IInv, MigrateLook PROVE IInv'
<1>1. PICK u \in migration.todo :
        /\ migration.at = "look"
        /\ migration' = [at |-> IF Has(u[1], <<"legacy", u[2]>>) /\ ~Has(u[1], <<"root", u[2]>>)
                                THEN "copy" ELSE "look",
                         key |-> u, todo |-> migration.todo \ {u}]
        /\ UNCHANGED <<json, tags, raced>> /\ MigrationKept
  BY DEF MigrateLook
<1>2. RestTyped'
  <2>1. /\ migration'.at \in {"copy", "look"} /\ migration'.key = u
        /\ migration'.todo = migration.todo \ {u}
    BY <1>1
  <2>2. migration' = [at |-> migration'.at, todo |-> migration'.todo, key |-> migration'.key]
    BY <1>1
  <2>3. migration'.todo \subseteq Kinds \X Files /\ u \in Kinds \X Files
    BY <1>1, <2>1 DEF IInv, RestTyped
  <2> QED
    BY <1>1, <2>1, <2>2, <2>3 DEF IInv, RestTyped, MigrationKept
<1> QED
  BY <1>1, <1>2, MigrationMoves

\* It is done when none is left.
LEMMA MigrationEndStep == ASSUME IInv, MigrationEnd PROVE IInv'
<1>1. /\ migration' = [migration EXCEPT !.at = "done", !.key = <<>>]
      /\ UNCHANGED <<json, tags, raced>> /\ MigrationKept
  BY DEF MigrationEnd
<1>2. RestTyped'
  BY <1>1 DEF IInv, RestTyped, MigrationKept
<1> QED
  BY <1>1, <1>2, MigrationMoves

\* A sidecar of the older layout is copied beside whatever the process does.
LEMMA CopyFits ==
    ASSUME IInv, MigrateCopy, NEW f \in Files, NEW kind \in Kinds, migration.key = <<kind, f>>,
           Has(kind, <<"legacy", f>>)
    PROVE  IInv'
<1> DEFINE old == <<"legacy", f>>
           new == <<"root", f>>
<1>1. /\ migration.at = "copy" /\ MigrationKept
      /\ migration' = [migration EXCEPT !.at = "look"]
      /\ raced' = IF Has(kind, new) THEN raced \cup {f} ELSE raced
      /\ kind = "json" => json' = [json EXCEPT ![new] = json[old]] /\ tags' = tags
      /\ kind # "json" => tags' = [tags EXCEPT ![new] = tags[old]] /\ json' = json
  BY DEF MigrateCopy
<1>2. old \in Layouts \X Files /\ new \in Layouts \X Files /\ Has(kind, old)
  BY DEF Layouts
<1>3. /\ json \in [Layouts \X Files -> Cards] /\ tags \in [Layouts \X Files -> 0..MaxStamp]
      /\ UNCHANGED <<drive, media, newest, reverted, archive, row, manifest, ledger, removals, status, job, stamp, jobs,
                     edits, touched>>
  BY <1>1 DEF IInv, TypeOK, MigrationKept, db
<1>5. /\ json' \in [Layouts \X Files -> Cards] /\ tags' \in [Layouts \X Files -> 0..MaxStamp]
      /\ \A k \in Layouts \X Files : k # new => json'[k] = json[k] /\ tags'[k] = tags[k]
      /\ kind = "json" => json'[new] = json[old] /\ tags' = tags /\ Exists(old)
      /\ kind # "json" => tags'[new] = tags[old] /\ json' = json
  <2>1. CASE kind = "json"
    BY <1>2, <1>3, <1>1, <2>1 DEF Has
  <2>2. CASE kind # "json"
    BY <1>2, <1>3, <1>1, <2>2
  <2> QED
    BY <2>1, <2>2
<1>6. /\ raced \subseteq raced' /\ raced' \subseteq Files
      /\ f \notin raced' => ~Has(kind, new)
  BY <1>2, <1>1 DEF IInv, RestTyped
<1>7. TypeOK'
  BY <1>3, <1>5 DEF IInv, TypeOK
<1>8. LedgerTyped' /\ JobFits'
  BY <1>3 DEF IInv, LedgerTyped, JobFits
<1>9. RestTyped'
  BY <1>3, <1>1, <1>6 DEF IInv, RestTyped
<1>10. \A g \in Files : json'[<<"legacy", g>>] = json[<<"legacy", g>>] /\ (g # f => json'[<<"root", g>>] = json[<<"root", g>>])
  BY <1>5 DEF Layouts
<1>11. \/ json' = json
       \/ /\ kind = "json" /\ json'[new] = json[old] /\ tags' = tags
          /\ Exists(old) /\ (json[old].stamp <= 1 \/ ~json[old].ok) /\ ~json[old].pending
  BY <1>2, <1>5 DEF IInv, OldCards
<1>12. json' # json => ~Marks(new)'
  <2>1. json[old].stamp \in Nat
    BY <1>2, <1>3, BoundAssumption DEF Cards
  <2> QED
    BY <1>11, <2>1 DEF Marks, Readable, CardAt
<1>13. OldCards'
  <2>1. ASSUME NEW k \in Layouts \X Files
        PROVE  json'[k].stamp <= stamp' /\ tags'[k] <= stamp' /\ (Exists(k)' => json'[k].rev # 0)
    <3>1. json[k].stamp <= stamp /\ tags[k] <= stamp /\ (Exists(k) => json[k].rev # 0)
      BY DEF IInv, OldCards
    <3>2. json[old].stamp <= stamp /\ tags[old] <= stamp /\ (Exists(old) => json[old].rev # 0)
      BY <1>2 DEF IInv, OldCards
    <3> QED
      BY <1>3, <1>5, <3>1, <3>2 DEF Exists
  <2>2. ASSUME NEW g \in Files
        PROVE  /\ json'[<<"legacy", g>>].stamp <= 1 \/ ~json'[<<"legacy", g>>].ok
               /\ ~json'[<<"legacy", g>>].pending
               /\ json'[<<"root", g>>].stamp = 1 /\ Exists(<<"legacy", g>>)' =>
                      json'[<<"root", g>>].rev = json'[<<"legacy", g>>].rev
    BY <1>2, <1>5, <1>10 DEF IInv, OldCards, Exists
  <2>3. 1 <= stamp'
    BY <1>3 DEF IInv, OldCards
  <2> QED
    BY <2>1, <2>2, <2>3 DEF OldCards
<1>14. Pairs'
  <2>1. JsonMarksCompletion'
    <3> SUFFICES ASSUME NEW g \in Files \ raced', Readable(<<"root", g>>)', json'[<<"root", g>>].stamp > 1
                 PROVE  tags'[<<"root", g>>] >= json'[<<"root", g>>].stamp
      BY DEF JsonMarksCompletion
    <3>1. <<"root", g>> \in Layouts \X Files /\ g \notin raced
      BY <1>6 DEF Layouts
    <3>2. CASE g # f
      <4>1. json'[<<"root", g>>] = json[<<"root", g>>] /\ tags'[<<"root", g>>] = tags[<<"root", g>>]
        BY <1>5, <3>1, <3>2
      <4>2. Readable(<<"root", g>>) /\ json[<<"root", g>>].stamp > 1
        BY <4>1 DEF Readable, CardAt
      <4> QED
        BY <3>1, <4>1, <4>2 DEF IInv, Pairs, JsonMarksCompletion
    <3>3. CASE g = f
      <4>1. Marks(new)' /\ json' = json
        BY <1>12, <3>3 DEF Marks
      <4>2. Marks(new)
        BY <4>1 DEF Marks, Readable, CardAt
      <4>3. tags[new] >= json[new].stamp /\ json[new].stamp > 1
        BY <3>1, <3>3, <4>2 DEF IInv, Pairs, JsonMarksCompletion, Marks
      <4>4. kind # "json"
        <5> SUFFICES ASSUME kind = "json" PROVE FALSE
          OBVIOUS
        <5>1. json[new].stamp # 0
          BY <1>2, <4>3, BoundAssumption
        <5> QED
          BY <1>6, <3>3, <5>1 DEF Has, Exists
      <4>5. tags[new] # 0
        <5>1. tags[new] \in Nat /\ json[new].stamp \in Nat
          BY <1>2, <1>3, BoundAssumption DEF Cards
        <5> QED
          BY <4>3, <5>1
      <4> QED
        BY <1>6, <3>3, <4>4, <4>5 DEF Has
    <3> QED
      BY <3>2, <3>3
  <2>2. ASSUME job.at = "json", job.file \notin raced' PROVE tags'[<<"root", job.file>>] >= job.post.stamp
    <3>1. job.file \in Files /\ job.file \notin raced /\ 1 < job.post.stamp /\ job.post.stamp \in Nat
      BY <1>6, <2>2, BoundAssumption DEF IInv, JobFits, Fits, Shape, Cards, Pairs, Filling
    <3>2. tags[<<"root", job.file>>] >= job.post.stamp /\ tags[<<"root", job.file>>] \in Nat
      BY <1>3, <2>2, <3>1, BoundAssumption DEF IInv, Pairs, Layouts
    <3>3. CASE job.file # f
      BY <1>5, <3>1, <3>2, <3>3 DEF Layouts
    <3>4. CASE job.file = f
      <4>1. tags[new] # 0
        BY <3>1, <3>2, <3>4
      <4>2. kind = "json"
        BY <1>6, <2>2, <3>4, <4>1 DEF Has
      <4> QED
        BY <1>5, <3>2, <4>2
    <3> QED
      BY <3>3, <3>4
  <2>3. \A k \in Layouts \X Files : Marks(k)' => Marks(k)
    <3>1. \A k \in Layouts \X Files : json'[k] = json[k] => Marks(k)' = Marks(k)
      BY DEF Marks, Readable, CardAt
    <3> QED
      BY <1>5, <1>12, <3>1
  <2> QED
    BY <1>3, <2>1, <2>2, <2>3 DEF IInv, Pairs
<1>15. Rows'
  <2> SUFFICES ASSUME NEW g \in Files PROVE RowFits(g)'
    BY DEF Rows
  <2>1. RowFits(g) /\ newest[g] \in Nat /\ stamp \in Nat
    BY Numbers DEF IInv, Rows
  <2>2. CASE g # f \/ json' = json
    <3>1. \A l \in Layouts : json'[<<l, g>>] = json[<<l, g>>]
      BY <1>10, <2>2 DEF Layouts
    <3> QED
      BY <1>3, <2>1, <3>1, RowStays
  <2>3. CASE g = f /\ json' # json
    <3>1. /\ json'[new] = json[old] /\ json'[old] = json[old] /\ Exists(old)
          /\ json[old].stamp <= 1 \/ ~json[old].ok
      BY <1>2, <1>10, <1>11, <2>3
    <3>2. json[old].stamp \in Nat
      BY <1>2, <1>3, BoundAssumption DEF Cards
    <3>3. Readable(new)' => json'[new].stamp = 1
      BY <3>1, <3>2 DEF Readable, CardAt, Exists
    <3>4. Exists(old)' = Exists(old) /\ Readable(old)' = Readable(old)
      BY <3>1 DEF Exists, Readable, CardAt
    <3>5. UNCHANGED <<row, manifest, stamp, newest, reverted>>
      BY <1>3
    <3> QED
      BY <2>1, <2>3, <3>1, <3>3, <3>4, <3>5 DEF RowFits, Layouts
  <2> QED
    BY <2>2, <2>3
<1>16. Readings'
  <2>1. \A g \in Files : Exists(<<"legacy", g>>)' = Exists(<<"legacy", g>>)
    BY <1>10 DEF Exists
  <2> QED
    BY <1>3, <2>1 DEF IInv, Readings
<1>17. \A g \in Files : Present(g)' = Present(g) /\ Scanned'[g] = Scanned[g]
  BY <1>3 DEF Present, Scanned
<1>18. Lists'
  <2>1. ASSUME NEW g \in Files, Listed(g) PROVE Listed(g)'
    <3>1. CASE json'[<<"root", g>>] = json[<<"root", g>>]
      BY <1>3, <1>6, <1>10, <2>1, <3>1 DEF Listed, Exists, Previous
    <3>2. CASE json'[<<"root", g>>] # json[<<"root", g>>]
      <4>1. g = f /\ kind = "json" /\ json'[new] = json[old] /\ Exists(old)
        BY <1>10, <1>11, <3>2
      <4>2. Exists(new) /\ Previous(f)
        BY <2>1, <4>1 DEF Listed
      <4>3. f \in raced' /\ Exists(new)'
        BY <1>6, <4>1, <4>2 DEF Has, Exists
      <4>4. Previous(f)' = Previous(f)
        BY <1>3 DEF Previous
      <4> QED
        BY <4>1, <4>2, <4>3, <4>4 DEF Listed
    <3> QED
      BY <3>1, <3>2
  <2>2. /\ job.at \in Filling => Waiting \subseteq Files /\ (job.at = "json" => job.file \in Files)
        /\ job.at = "unlink" => \A u \in job.todo : u[2][2] \in Files
        /\ job.at = "json" => job.at \in Filling
        /\ Waiting' = Waiting
    BY <1>3 DEF IInv, JobFits, Fits, Waiting, Filling
  <2>3. ASSUME job.at = "json", job.file \notin touched \cup raced', NEW l \in Layouts, Exists(<<l, job.file>>)'
        PROVE  \E a \in archive : a.file = job.file /\ a.card = json'[<<l, job.file>>]
    <3>1. \A m \in Layouts : Exists(<<m, job.file>>) =>
              \E a \in archive : a.file = job.file /\ a.card = json[<<m, job.file>>]
      BY <1>6, <2>3 DEF IInv, Lists
    <3>2. CASE json'[<<l, job.file>>] = json[<<l, job.file>>]
      BY <1>3, <2>3, <3>1, <3>2 DEF Exists
    <3>3. CASE json'[<<l, job.file>>] # json[<<l, job.file>>]
      <4>1. l = "root" /\ job.file = f /\ json'[new] = json[old] /\ Exists(old)
        BY <1>10, <1>11, <2>2, <2>3, <3>3 DEF Layouts
      <4> QED
        BY <3>1, <4>1 DEF Layouts
    <3> QED
      BY <3>2, <3>3
  <2>4. job.at \in Filling /\ job.tool # "refresh" => \A g \in Waiting \ touched : Listed(g)'
    BY <2>1, <2>2 DEF IInv, Lists
  <2>5. job.at = "unlink" => \A u \in job.todo : u[2][2] \notin touched => ~Present(u[2][2])'
    BY <1>17, <2>2 DEF IInv, Lists
  <2> QED
    BY <1>3, <2>2, <2>3, <2>4, <2>5 DEF Lists
<1>19. Synced'
  <2>1. ASSUME NEW g \in Files
        PROVE  Indexed(g)' = Indexed(g) /\ CardAt(Indexed(g))' = CardAt(Indexed(g))
    <3>1. CASE g # f \/ json' = json
      <4>1. \A l \in Layouts : json'[<<l, g>>] = json[<<l, g>>]
        BY <1>10, <3>1 DEF Layouts
      <4>2. Indexed(g)' = Indexed(g)
        BY <4>1 DEF Indexed, Exists, Layouts
      <4>3. Indexed(g)[1] # "none" => json'[Indexed(g)] = json[Indexed(g)]
        BY <4>1, WhereIndexed
      <4>4. CardAt(Indexed(g)) = IF Indexed(g)[1] = "none" THEN NoCard ELSE json[Indexed(g)]
        BY DEF CardAt
      <4>5. CardAt(Indexed(g))' = IF Indexed(g)[1] = "none" THEN NoCard ELSE json'[Indexed(g)]
        BY <4>2 DEF CardAt
      <4> QED
        BY <4>2, <4>3, <4>4, <4>5
    <3>2. CASE g = f /\ json' # json
      <4>1. Exists(old) /\ Exists(old)' /\ json'[old] = json[old]
        BY <1>2, <1>10, <1>11, <3>2 DEF Exists
      <4>2. Indexed(f) = old /\ Indexed(f)' = old
        BY <4>1 DEF Indexed
      <4> QED
        BY <3>2, <4>1, <4>2 DEF CardAt
    <3> QED
      BY <3>1, <3>2
  <2>2. \A g \in Files : HasRow(g)' = HasRow(g)
    BY <1>3, <2>1 DEF HasRow, Readable
  <2> QED
    BY <1>3, <1>17, <2>1, <2>2 DEF IInv, Synced
<1>20. Imported'
  <2>1. ASSUME NEW g \in Files
        PROVE  /\ Served(g) => Served(g)'
               /\ Exists(<<"root", g>>) => Exists(<<"root", g>>)'
               /\ ~json[<<"root", g>>].pending => ~json'[<<"root", g>>].pending
    <3>1. CASE g # f \/ json' = json
      <4>1. json'[<<"legacy", g>>] = json[<<"legacy", g>>] /\ json'[<<"root", g>>] = json[<<"root", g>>]
        BY <1>10, <3>1
      <4>2. Exists(<<"root", g>>)' = Exists(<<"root", g>>) /\ Exists(<<"legacy", g>>)' = Exists(<<"legacy", g>>)
        BY <4>1 DEF Exists
      <4>3. Existing(g)' = Existing(g) /\ \E l \in Layouts \cup {"none"} : Existing(g) = <<l, g>>
        BY <4>2 DEF Existing, Layouts
      <4>4. PICK l \in Layouts \cup {"none"} : Existing(g) = <<l, g>>
        BY <4>3
      <4>5. CardAt(Existing(g)) = IF l = "none" THEN NoCard ELSE json[<<l, g>>]
        BY <4>4 DEF CardAt
      <4>6. CardAt(Existing(g))' = IF l = "none" THEN NoCard ELSE json'[<<l, g>>]
        BY <4>3, <4>4 DEF CardAt
      <4>7. CardAt(Existing(g))' = CardAt(Existing(g))
        BY <4>1, <4>5, <4>6 DEF Layouts
      <4>8. Served(g)' = Served(g)
        BY <1>3, <4>3, <4>7 DEF Served, Readable
      <4> QED
        BY <4>1, <4>2, <4>8
    <3>2. CASE g = f /\ json' # json
      <4>1. json'[new] = json[old] /\ Exists(old) /\ ~json[old].pending
        BY <1>11, <3>2
      <4>2. Exists(new)' /\ ~json'[new].pending
        BY <4>1 DEF Exists
      <4>3. Existing(f)' = new /\ Existing(f)'[1] = "root"
        BY <4>2 DEF Existing
      <4>4. CardAt(Existing(f))' = json'[new]
        BY <4>3 DEF CardAt
      <4>5. Served(f)'
        BY <4>2, <4>3, <4>4 DEF Served
      <4> QED
        BY <3>2, <4>2, <4>5
    <3> QED
      BY <3>1, <3>2
  <2>2. \A g \in Files : Exists(<<"root", g>>)' = (json'[<<"root", g>>].stamp # 0)
    BY DEF Exists
  <2> QED
    BY <1>3, <1>17, <2>1, <2>2 DEF IInv, Imported
<1> QED
  BY <1>7, <1>8, <1>9, <1>13, <1>14, <1>15, <1>16, <1>18, <1>19, <1>20 DEF IInv

\* It copies what it has looked at, or fails.
LEMMA MigrateCopyStep == ASSUME IInv, MigrateCopy PROVE IInv'
<1>1. PICK f \in Files, kind \in Kinds : migration.key = <<kind, f>>
  BY DEF IInv, RestTyped, MigrateCopy
<1>2. CASE ~Has(kind, <<"legacy", f>>)
  <2>1. migration' = [at |-> "failed", todo |-> {}, key |-> <<>>] /\ UNCHANGED <<json, tags, raced>>
        /\ MigrationKept
    BY <1>1, <1>2 DEF MigrateCopy
  <2>2. migration'.at = "failed" /\ migration'.todo = {} /\ migration'.key = <<>>
    BY <2>1
  <2>3. RestTyped'
    BY <2>1, <2>2 DEF IInv, RestTyped, MigrationKept
  <2> QED
    BY <2>1, <2>3, MigrationMoves
<1>3. CASE Has(kind, <<"legacy", f>>)
  BY <1>1, <1>3, CopyFits
<1> QED
  BY <1>2, <1>3

-----------------------------------------------------------------------------
(* backfill.                                                               *)

\* Where the program looks for the sidecar of a file.
LEMMA WhereExisting ==
    ASSUME NEW f
    PROVE  /\ Exists(<<"root", f>>) =>
                  /\ Existing(f)[1] = "root" /\ CardAt(Existing(f)) = json[<<"root", f>>]
                  /\ Readable(Existing(f)) <=> json[<<"root", f>>].ok
           /\ ~Exists(<<"root", f>>) /\ Exists(<<"legacy", f>>) =>
                  Existing(f)[1] = "legacy" /\ CardAt(Existing(f)) = json[<<"legacy", f>>]
           /\ ~Exists(<<"root", f>>) /\ ~Exists(<<"legacy", f>>) =>
                  /\ Existing(f)[1] = "none" /\ CardAt(Existing(f)) = NoCard
                  /\ ~Readable(Existing(f))
           /\ Existing(f)[1] # "none" => CardAt(Existing(f)).stamp # 0
<1>1. CASE Exists(<<"root", f>>)
  <2>1. Existing(f) = <<"root", f>>
    BY <1>1 DEF Existing
  <2>2. CardAt(Existing(f)) = json[<<"root", f>>]
    BY <2>1 DEF CardAt
  <2> QED
    BY <1>1, <2>1, <2>2 DEF Readable, Exists
<1>2. CASE ~Exists(<<"root", f>>) /\ Exists(<<"legacy", f>>)
  <2>1. Existing(f) = <<"legacy", f>>
    BY <1>2 DEF Existing
  <2>2. CardAt(Existing(f)) = json[<<"legacy", f>>]
    BY <2>1 DEF CardAt
  <2> QED
    BY <1>2, <2>1, <2>2 DEF Exists
<1>3. CASE ~Exists(<<"root", f>>) /\ ~Exists(<<"legacy", f>>)
  <2>1. Existing(f) = <<"none", f>>
    BY <1>3 DEF Existing
  <2>2. CardAt(Existing(f)) = NoCard
    BY <2>1 DEF CardAt
  <2> QED
    BY <1>3, <2>1, <2>2 DEF Readable, NoCard
<1> QED
  BY <1>1, <1>2, <1>3

\* What a step that writes no sidecar leaves of the files.
LEMMA FilesStay ==
    ASSUME Outside, CardsKept, job'.cards = job.cards
    PROVE  /\ \A f : /\ Exists(f)' = Exists(f) /\ Present(f)' = Present(f) /\ Previous(f)' = Previous(f)
                     /\ Existing(f)' = Existing(f) /\ Readable(Existing(f))' = Readable(Existing(f))
                     /\ CardAt(Existing(f))' = CardAt(Existing(f))
           /\ touched' = touched /\ raced' = raced /\ media' = media /\ json' = json /\ archive' = archive
BY DEF Outside, CardsKept, Exists, Present, Previous, Existing, Readable, CardAt

\* The turn of a file goes on, with no sidecar written yet.
LEMMA TurnGoesOn ==
    ASSUME IInv, Outside, CardsKept, UNCHANGED <<row, manifest, ledger, removals>>, JobFits',
           job.at \in {"match", "extra"}, job'.at \in {"extra", "save"}, job'.todo = job.todo,
           job'.tool = job.tool, job'.incomplete = job.incomplete, job'.cards = job.cards,
           job'.wrong = job.wrong
    PROVE  IInv'
<1>1. TypeOK' /\ LedgerTyped' /\ RestTyped' /\ OldCards' /\ Rows'
  BY TypesHold, TypesStay, RowsStay DEF RowsTyped, LedgerTyped
<1>2. Pairs'
  BY DEF IInv, Pairs, JsonMarksCompletion, Readable, CardAt, Outside, CardsKept
<1>3. Readings' /\ Synced'
  BY DEF Readings, Synced
<1>4. Lists'
  <2>1. \A f : Listed(f)' = Listed(f)
    BY FilesStay DEF Listed
  <2>2. Waiting' = job.todo /\ Waiting = job.todo
    BY DEF Waiting
  <2> QED
    BY <2>1, <2>2, FilesStay DEF IInv, Lists, Filling
<1>5. Imported'
  <2>1. \A f : Served(f)' = Served(f)
    BY FilesStay DEF Served
  <2> QED
    BY <2>1, FilesStay DEF IInv, Imported, Filling
<1> QED
  BY <1>1, <1>2, <1>3, <1>4, <1>5 DEF IInv

\* What a turn puts into the ledger.
LEMMA SettleMoves ==
    ASSUME LedgerTyped, NEW f \in Files, NEW found \in {"done", "error", "no_match", "partial"},
           Settle(f, found)
    PROVE  /\ LedgerTyped' /\ UNCHANGED <<row, manifest>>
           /\ \A g \in Files : ledger'[g] = NoState => ledger[g] = NoState
           /\ \A g \in Files : g # f => ledger'[g] = ledger[g]
           /\ Importing /\ ledger[f] # NoState => ledger'[f].status = found
<1>1. UNCHANGED <<row, manifest>>
  BY DEF Settle
<1>2. CASE ~Importing \/ ledger[f] = NoState
  BY <1>2 DEF Settle, LedgerTyped
<1>3. CASE Importing /\ ledger[f] # NoState
  <2>1. ledger' \in [Files -> Entries]
    BY <1>3 DEF Settle, LedgerTyped, Entries
  <2>2. ledger'[f].status = found /\ found # "none"
    BY <1>3 DEF Settle, LedgerTyped, Entries
  <2>3. \A g \in Files : g # f => ledger'[g] = ledger[g]
    BY DEF Settle, LedgerTyped
  <2>4. NoState.status = "none"
    BY DEF NoState
  <2> QED
    BY <1>1, <2>1, <2>2, <2>3, <2>4 DEF LedgerTyped
<1> QED
  BY <1>2, <1>3

\* The turn of a file ends, with an error or with the file seen to.
LEMMA TurnEnds ==
    ASSUME IInv, job.at \in Filling, NEW f \in job.todo, job.at = "settle" => f = job.file,
           NEW found \in {"done", "error", "no_match", "partial"}, NEW kind \in {"none"} \cup Failures,
           NEW wrong \in BOOLEAN, Settle(f, found), EndTurn(f, kind, wrong), Outside, CardsKept,
           ~wrong => kind = "none",
           job.tool = "import" /\ f \notin touched /\ Present(f) /\ ~wrong =>
               /\ Existing(f)[1] # "none" \/ found = "no_match"
               /\ Readable(Existing(f)) => ~CardAt(Existing(f)).pending
    PROVE  IInv'
<1>1. JobFits /\ RowsTyped /\ LedgerTyped /\ job.todo \subseteq Files /\ f \in Files /\ job.at # "idle"
  BY TypesHold DEF IInv, JobFits, Fits, Filling
<1>2. /\ job'.at = "match" /\ Shape(job') /\ UNCHANGED <<removals, status>>
      /\ job'.todo \in {{}, job.todo \ {f}} /\ (kind = "none" => job'.todo = job.todo \ {f})
      /\ job'.tool = job.tool /\ job'.steps = job.steps /\ job'.incomplete = job.incomplete
      /\ job'.cards = job.cards /\ job'.md5s = job.md5s
      /\ ~job'.wrong => ~job.wrong /\ ~wrong
  BY <1>1, EndTurnMoves
<1>3. /\ LedgerTyped' /\ UNCHANGED <<row, manifest>>
      /\ \A g \in Files : ledger'[g] = NoState => ledger[g] = NoState
      /\ \A g \in Files : g # f => ledger'[g] = ledger[g]
      /\ Importing /\ ledger[f] # NoState => ledger'[f].status = found
  BY <1>1, SettleMoves
<1>4. JobFits'
  <2>1. job'.todo \subseteq Files
    BY <1>1, <1>2
  <2>2. job.tool = "import" => InOrder(job')
    BY <1>1, <1>2 DEF JobFits, Fits, InOrder, Filling
  <2>3. /\ job.cards \in [Files -> Cards] /\ job.md5s \in [Files -> Versions \cup {0}]
        /\ \A g \in Files : job.cards[g].pending => job.cards[g].rev # 0
        /\ job.steps # <<>>
    BY <1>1 DEF JobFits, Fits
  <2> QED
    BY <1>2, <2>1, <2>2, <2>3 DEF JobFits, Fits, Filling
<1>5. TypeOK' /\ RestTyped' /\ OldCards' /\ Rows'
  BY <1>1, <1>2, <1>3, <1>4, TypesHold, TypesStay, RowsStay DEF RowsTyped
<1>6. Pairs'
  BY <1>2 DEF IInv, Pairs, JsonMarksCompletion, Readable, CardAt, Outside, CardsKept
<1>7. Readings' /\ Synced'
  BY <1>2 DEF Readings, Synced
<1>8. Lists'
  <2>1. \A g : Listed(g)' = Listed(g)
    BY <1>2, FilesStay DEF Listed
  <2>2. Waiting' \subseteq Waiting
    BY <1>2 DEF Waiting
  <2> QED
    BY <1>2, <2>1, <2>2, FilesStay DEF IInv, Lists
<1>9. Imported'
  <2> SUFFICES ASSUME job'.tool = "import", NEW g \in Files \ touched', Present(g)'
               PROVE  /\ ledger'[g] # NoState
                      /\ ~job'.wrong /\ g \notin job'.todo => Served(g)'
    BY <1>2 DEF Imported
  <2>1. g \in Files \ touched /\ Present(g) /\ job.tool = "import" /\ Importing
    BY <1>2, FilesStay DEF Importing
  <2>2. ledger[g] # NoState /\ (~job.wrong /\ g \notin job.todo => Served(g))
    BY <2>1 DEF IInv, Imported, Filling
  <2>3. ASSUME ~job'.wrong, g \notin job'.todo PROVE Served(g)'
    <3>1. ~job.wrong /\ ~wrong /\ job'.todo = job.todo \ {f}
      BY <1>2, <2>3
    <3>2. CASE g # f
      <4>1. Served(g) /\ ledger'[g] = ledger[g]
        BY <1>3, <2>2, <2>3, <3>1, <3>2
      <4> QED
        BY <1>2, <4>1, FilesStay DEF Served
    <3>3. CASE g = f
      <4>1. /\ Existing(f)[1] # "none" \/ ledger'[f].status = "no_match"
            /\ Readable(Existing(f)) => ~CardAt(Existing(f)).pending
        BY <1>3, <2>1, <2>2, <3>1, <3>3
      <4> QED
        BY <1>2, <3>3, <4>1, FilesStay DEF Served
    <3> QED
      BY <3>2, <3>3
  <2> QED
    BY <1>3, <2>2, <2>3
<1> QED
  BY <1>3, <1>4, <1>5, <1>6, <1>7, <1>8, <1>9 DEF IInv

\* A backfill takes the files without a sidecar, and those that wait for details.
LEMMA BackfillListStep == ASSUME IInv, BackfillList PROVE IInv'
<1> DEFINE todo  == {f \in Files : Present(f) /\ NeedsPost(f)}
           cards == [f \in Files |-> IF job.tool = "refresh" \/ Existing(f)[1] = "none"
                                     THEN NoCard ELSE CardAt(Existing(f))]
           md5s  == [f \in Files |-> IF Importing THEN row[f].md5 ELSE 0]
<1>1. /\ job.at = "backfill" /\ JobFits /\ RowsTyped /\ Shape(job) /\ Outside /\ CardsKept
      /\ UNCHANGED <<row, manifest, ledger, removals, status>>
      /\ job' = [job EXCEPT !.at = "match", !.todo = todo, !.cards = cards, !.md5s = md5s]
  BY TypesHold DEF BackfillList, db, JobFits, Fits
<1>2. todo \subseteq Files /\ \A f \in Files : f \in todo <=> Present(f) /\ NeedsPost(f)
  OBVIOUS
<1>3. ASSUME NEW f \in Files
      PROVE  /\ cards[f] \in Cards /\ (cards[f].pending => cards[f].rev # 0)
             /\ job.tool # "refresh" /\ Exists(<<"root", f>>) => cards[f] = json[<<"root", f>>]
  <2>1. /\ NoCard \in Cards /\ ~NoCard.pending
        /\ \A l \in Layouts : <<l, f>> \in Layouts \X Files
    BY BoundAssumption DEF NoCard, Cards
  <2>2. \A l \in Layouts : /\ json[<<l, f>>] \in Cards
                           /\ Exists(<<l, f>>) => json[<<l, f>>].rev # 0
    BY <2>1 DEF IInv, TypeOK, OldCards
  <2>3. cards[f] = IF job.tool = "refresh" \/ Existing(f)[1] = "none" THEN NoCard ELSE CardAt(Existing(f))
    OBVIOUS
  <2> HIDE DEF cards
  <2> QED
    BY <2>1, <2>2, <2>3, WhereExisting DEF Layouts
<1>4. cards \in [Files -> Cards] /\ md5s \in [Files -> Versions \cup {0}]
  BY <1>1, <1>3 DEF RowsTyped
<1> HIDE DEF todo, cards, md5s
<1>5. /\ job'.at = "match" /\ job'.todo = todo /\ job'.cards = cards /\ job'.md5s = md5s
      /\ job'.tool = job.tool /\ job'.steps = job.steps /\ job'.incomplete = job.incomplete /\ Shape(job')
  BY <1>1 DEF Shape, Places, Filling
<1>6. JobFits'
  BY <1>1, <1>2, <1>3, <1>4, <1>5 DEF JobFits, Fits, InOrder, Filling
<1>7. TypeOK' /\ LedgerTyped' /\ RestTyped' /\ OldCards' /\ Rows'
  BY <1>1, <1>6, TypesHold, TypesStay, RowsStay DEF RowsTyped, LedgerTyped
<1>8. Pairs'
  BY <1>1, <1>5 DEF IInv, Pairs, JsonMarksCompletion, Readable, CardAt, Outside, CardsKept
<1>9. Readings' /\ Synced'
  BY <1>5 DEF Readings, Synced
<1>10. \A f : /\ Exists(f)' = Exists(f) /\ Present(f)' = Present(f)
              /\ Existing(f)' = Existing(f) /\ Readable(Existing(f))' = Readable(Existing(f))
              /\ CardAt(Existing(f))' = CardAt(Existing(f))
  BY <1>1 DEF Outside, CardsKept, Exists, Present, Existing, Readable, CardAt
<1>11. Lists'
  <2> SUFFICES ASSUME job.tool # "refresh", NEW f \in todo PROVE Listed(f)'
    BY <1>5 DEF Lists, Waiting
  <2>1. f \in Files /\ NeedsPost(f) /\ ~json[<<"legacy", f>>].pending
    BY <1>2 DEF IInv, OldCards
  <2>2. Exists(<<"legacy", f>>) => Exists(<<"root", f>>)
    BY <2>1, WhereExisting DEF NeedsPost
  <2>3. Exists(<<"root", f>>) => json[<<"root", f>>].ok /\ json[<<"root", f>>].pending
    BY <2>1, WhereExisting DEF NeedsPost
  <2>4. Exists(<<"root", f>>) => Previous(f)'
    BY <1>3, <1>5, <2>1, <2>3 DEF Previous
  <2> QED
    BY <1>1, <1>10, <2>2, <2>3, <2>4 DEF Listed, CardsKept
<1>12. Imported'
  <2> SUFFICES ASSUME job.tool = "import", NEW f \in Files \ touched, Present(f)
               PROVE  ledger[f] # NoState /\ (f \notin todo => Served(f)')
    BY <1>1, <1>5, <1>10 DEF Imported, Outside
  <2>1. ledger[f] # NoState
    BY <1>1 DEF IInv, Imported
  <2>2. ASSUME f \notin todo PROVE Served(f)
    BY <1>2, <2>2, WhereExisting DEF NeedsPost, Served, Readable
  <2> QED
    BY <1>1, <1>10, <2>1, <2>2 DEF Served
<1> QED
  BY <1>6, <1>7, <1>8, <1>9, <1>11, <1>12 DEF IInv

\* A file without a post has no sidecar either, or has failed.
LEMMA MatchPostStep == ASSUME IInv, MatchPost PROVE IInv'
<1>1. PICK f \in job.todo : \E a \in Answers(f) :
           IF a[1] # 0
           THEN /\ job' = [job EXCEPT !.at = "extra", !.file = f, !.post = [NoCard EXCEPT !.rev = a[1]]]
                /\ UNCHANGED <<db, removals, status>>
           ELSE /\ Settle(f, IF a[2] = "none" THEN "no_match" ELSE "error")
                /\ EndTurn(f, a[2], a[2] # "none")
  BY DEF MatchPost
<1>2. PICK a \in Answers(f) :
           IF a[1] # 0
           THEN /\ job' = [job EXCEPT !.at = "extra", !.file = f, !.post = [NoCard EXCEPT !.rev = a[1]]]
                /\ UNCHANGED <<db, removals, status>>
           ELSE /\ Settle(f, IF a[2] = "none" THEN "no_match" ELSE "error")
                /\ EndTurn(f, a[2], a[2] # "none")
  BY <1>1
<1>3. /\ job.at = "match" /\ JobFits /\ Shape(job) /\ Outside /\ CardsKept /\ f \in Files
      /\ job.cards[f] \in Cards /\ (job.cards[f].pending => job.cards[f].rev # 0) /\ job.at \in Filling
  BY DEF IInv, MatchPost, JobFits, Fits, Filling
<1>4. /\ a[1] \in Revs \cup {0} /\ a[2] \in {"none"} \cup Failures
      /\ a[1] = 0 => ~Previous(f)
  <2>1. CASE Previous(f)
    <3>1. a = <<job.cards[f].rev, "none">> /\ job.cards[f].rev # 0
      BY <1>3, <2>1 DEF Answers, Previous
    <3> QED
      BY <1>3, <3>1 DEF Cards
  <2>2. CASE ~Previous(f)
    BY <2>2 DEF Answers
  <2> QED
    BY <2>1, <2>2
<1>5. CASE a[1] # 0
  <2> DEFINE post == [NoCard EXCEPT !.rev = a[1]]
  <2>6. NoCard \in Cards
    BY BoundAssumption DEF NoCard, Cards
  <2>1. post \in Cards /\ post.rev = a[1]
    BY <1>4, <2>6 DEF Cards
  <2>2. job' = [job EXCEPT !.at = "extra", !.file = f, !.post = post]
        /\ UNCHANGED <<row, manifest, ledger, removals, status>>
    BY <1>2, <1>5 DEF db
  <2> HIDE DEF post
  <2>3. /\ job'.at = "extra" /\ job'.file = f /\ job'.post = post /\ job'.todo = job.todo
        /\ job'.tool = job.tool /\ job'.incomplete = job.incomplete /\ job'.cards = job.cards
        /\ job'.wrong = job.wrong /\ job'.steps = job.steps /\ job'.md5s = job.md5s
    BY <1>3, <2>2 DEF Shape
  <2>4. Shape(job')
    BY <1>3, <2>1, <2>2 DEF Shape, Places, Filling
  <2>5. JobFits'
    BY <1>3, <1>5, <2>1, <2>3, <2>4 DEF JobFits, Fits, InOrder, Filling
  <2> QED
    BY <1>3, <2>2, <2>3, <2>5, TurnGoesOn
<1>6. CASE a[1] = 0
  <2> DEFINE found == IF a[2] = "none" THEN "no_match" ELSE "error"
             wrong == a[2] # "none"
  <2>1. Settle(f, found) /\ EndTurn(f, a[2], wrong)
    BY <1>2, <1>6
  <2>2. found \in {"done", "error", "no_match", "partial"} /\ wrong \in BOOLEAN /\ (~wrong => a[2] = "none" /\ found = "no_match")
    OBVIOUS
  <2> HIDE DEF found, wrong
  <2>3. job.tool = "import" /\ f \notin touched => ~Readable(Existing(f))
    <3>1. job.tool = "import" /\ f \notin touched => Listed(f)
      BY <1>3 DEF IInv, Lists, Waiting
    <3>2. Listed(f) => ~Exists(<<"root", f>>) /\ ~Exists(<<"legacy", f>>)
      BY <1>4, <1>6 DEF Listed
    <3> QED
      BY <3>1, <3>2, WhereExisting
  <2> QED
    BY <1>3, <1>4, <2>1, <2>2, <2>3, TurnEnds
<1> QED
  BY <1>5, <1>6

\* A sidecar without its details is pending.
LEMMA BuildCardStep == ASSUME IInv, BuildCard PROVE IInv'
<1> DEFINE f == job.file
           old == Existing(f)
           Unreadable(kind) == kind # "none" /\ ~Previous(f) /\ old[1] # "none" /\ ~CardAt(old).ok
<1>1. PICK kind \in {"none"} \cup Failures :
           /\ job.at = "extra"
           /\ IF Unreadable(kind) \/ ~Present(f)
              THEN Settle(f, "error") /\ EndTurn(f, IF Unreadable(kind) THEN "none" ELSE kind, TRUE)
              ELSE /\ job' = [job EXCEPT !.at = "save", !.kind = kind,
                                         !.post = NewCard(f, kind # "none")]
                   /\ UNCHANGED <<db, removals, status>>
           /\ Outside /\ CardsKept
  BY DEF BuildCard
<1>2. /\ JobFits /\ Shape(job) /\ f \in job.todo /\ job.at \in Filling /\ job.post.rev # 0 /\ job.post \in Cards
      /\ f \in Files /\ job.md5s \in [Files -> Versions \cup {0}] /\ media[f] \in Versions \cup {0}
  BY <1>1 DEF IInv, TypeOK, JobFits, Fits, Shape, Filling
<1> HIDE DEF f
<1>3. CASE Unreadable(kind) \/ ~Present(f)
  <2> DEFINE how == IF Unreadable(kind) THEN "none" ELSE kind
             yes == TRUE
  <2>1. Settle(f, "error") /\ EndTurn(f, how, yes) /\ yes \in BOOLEAN /\ yes
    BY <1>1, <1>3
  <2>2. how \in {"none"} \cup Failures
    OBVIOUS
  <2> HIDE DEF how, yes
  <2> QED
    BY <1>1, <1>2, <2>1, <2>2, TurnEnds
<1>4. CASE ~(Unreadable(kind) \/ ~Present(f))
  <2> DEFINE late == kind # "none"
             post == [job.post EXCEPT !.md5 = HashOf(f), !.pending = late]
  <2>1. late \in BOOLEAN /\ (late \/ kind = "none")
    OBVIOUS
  <2>2. job' = [job EXCEPT !.at = "save", !.kind = kind, !.post = post]
        /\ UNCHANGED <<row, manifest, ledger, removals, status>>
    BY <1>1, <1>4 DEF db, NewCard
  <2> HIDE DEF late
  <2>3. HashOf(f) \in Versions \cup {0}
    BY <1>2 DEF HashOf
  <2>4. post \in Cards /\ post.rev = job.post.rev /\ post.pending = late
    BY <1>2, <2>1, <2>3 DEF Cards
  <2> HIDE DEF post
  <2>5. /\ job'.at = "save" /\ job'.file = job.file /\ job'.post = post /\ job'.todo = job.todo
        /\ job'.tool = job.tool /\ job'.incomplete = job.incomplete /\ job'.cards = job.cards
        /\ job'.wrong = job.wrong /\ job'.steps = job.steps /\ job'.md5s = job.md5s /\ job'.kind = kind
    BY <1>2, <2>2 DEF Shape
  <2>6. Shape(job')
    BY <1>2, <2>2, <2>4 DEF Shape, Places, Filling
  <2>7. JobFits'
    BY <1>1, <1>2, <2>1, <2>4, <2>5, <2>6 DEF JobFits, Fits, InOrder, Filling, f
  <2> QED
    BY <1>1, <2>2, <2>5, <2>7, TurnGoesOn
<1> QED
  BY <1>3, <1>4

\* A file whose sidecar is written has been seen to, or waits.
LEMMA SettleFileStep == ASSUME IInv, SettleFile PROVE IInv'
<1> DEFINE found == IF job.post.pending THEN "partial" ELSE "done"
<1>1. /\ job.at = "settle" /\ Settle(job.file, found) /\ EndTurn(job.file, job.kind, job.post.pending)
      /\ Outside /\ CardsKept
  BY DEF SettleFile
<1>2. /\ job.file \in job.todo /\ job.at \in Filling /\ job.post.pending \in BOOLEAN
      /\ job.kind \in {"none"} \cup Failures /\ (job.post.pending \/ job.kind = "none") /\ job.file \in Files
  BY <1>1 DEF IInv, JobFits, Fits, Shape, Cards, Filling
<1>3. found \in {"done", "error", "no_match", "partial"}
  OBVIOUS
<1>4. job.tool = "import" /\ job.file \notin touched /\ Present(job.file) /\ ~job.post.pending =>
          Existing(job.file)[1] # "none" /\ ~CardAt(Existing(job.file)).pending
  <2>1. job.tool = "import" /\ job.file \notin touched /\ Present(job.file) =>
            /\ Exists(<<"root", job.file>>)
            /\ job.post.pending \/ ~json[<<"root", job.file>>].pending
    BY <1>1, <1>2 DEF IInv, Imported
  <2>2. Exists(<<"root", job.file>>) =>
            Existing(job.file)[1] = "root" /\ CardAt(Existing(job.file)) = json[<<"root", job.file>>]
    BY WhereExisting
  <2> QED
    BY <2>1, <2>2
<1> HIDE DEF found
<1> QED
  BY <1>1, <1>2, <1>3, <1>4, TurnEnds

\* A write that fails is a failure of the backfill.
LEMMA WriteFailsStep == ASSUME IInv, WriteFails PROVE IInv'
<1> DEFINE yes == TRUE
<1>1. /\ job.at \in {"save", "json"} /\ Settle(job.file, "error") /\ EndTurn(job.file, "none", yes)
      /\ Outside /\ CardsKept /\ yes \in BOOLEAN /\ yes
  BY DEF WriteFails
<1>2. job.file \in job.todo /\ job.at \in Filling /\ job.at # "settle" /\ job.file \in Files
  BY <1>1 DEF IInv, JobFits, Fits, Filling
<1> HIDE DEF yes
<1> QED
  BY <1>1, <1>2, TurnEnds

\* What is archived before a sidecar is replaced.
LEMMA ArchivedIsTyped ==
    ASSUME IInv, NEW f \in Files
    PROVE  \A a \in Archived(f) : a.file = f /\ a.card \in Cards /\ a.run \in 0..MaxJobs
<1> SUFFICES ASSUME NEW a \in Archived(f) PROVE a.file = f /\ a.card \in Cards /\ a.run \in 0..MaxJobs
  OBVIOUS
<1>1. PICK l \in Layouts : a = [file |-> f, card |-> json[<<l, f>>], run |-> IF job.tool = "refresh" THEN jobs ELSE 0]
  BY DEF Archived
<1>2. json[<<l, f>>] \in Cards /\ jobs \in 0..MaxJobs /\ 0 \in 0..MaxJobs
  BY BoundAssumption DEF IInv, TypeOK
<1> QED
  BY <1>1, <1>2

\* What is there is in the archive, and the tags have the stamp of what follows.
LEMMA WriteTagsStep == ASSUME IInv, WriteTags PROVE IInv'
<1>1. PICK f \in Files : f = job.file
  BY DEF IInv, JobFits, Fits, Filling, WriteTags
<1> DEFINE new == <<"root", f>>
<1>2. /\ job.at = "save" /\ stamp < MaxStamp /\ stamp' = stamp + 1
      /\ archive' = archive \cup Archived(f)
      /\ tags' = [tags EXCEPT ![new] = stamp + 1]
      /\ job' = [job EXCEPT !.at = "json", !.post.stamp = stamp + 1]
      /\ UNCHANGED <<json, row, manifest, ledger, removals, status>> /\ Outside
  BY <1>1 DEF WriteTags, db
<1>3. /\ JobFits /\ Shape(job) /\ f \in job.todo /\ job.post.rev # 0 /\ job.post \in Cards /\ job.at \in Filling
      /\ (job.post.pending \/ job.kind = "none") /\ job.todo \subseteq Files
  BY <1>1, <1>2 DEF IInv, JobFits, Fits, Shape, Filling
<1>4. /\ stamp \in Nat /\ 1 <= stamp /\ stamp' \in 0..MaxStamp /\ stamp <= stamp' /\ stamp' \in Nat /\ stamp + 1 \in 0..MaxStamp
  BY <1>2, Numbers, BoundAssumption DEF IInv, OldCards
<1> DEFINE post == [job.post EXCEPT !.stamp = stamp + 1]
<1>5. post \in Cards /\ post.rev = job.post.rev /\ post.pending = job.post.pending /\ post.stamp = stamp'
  BY <1>2, <1>3, <1>4 DEF Cards
<1>6. job' = [job EXCEPT !.at = "json", !.post = post]
  BY <1>2, <1>3 DEF Shape
<1> HIDE DEF post
<1>7. /\ job'.at = "json" /\ job'.file = f /\ job'.post = post /\ job'.todo = job.todo
      /\ job'.tool = job.tool /\ job'.incomplete = job.incomplete /\ job'.cards = job.cards
      /\ job'.wrong = job.wrong /\ job'.steps = job.steps /\ job'.md5s = job.md5s /\ job'.kind = job.kind
  BY <1>1, <1>3, <1>6 DEF Shape
<1>8. Shape(job')
  BY <1>3, <1>5, <1>6 DEF Shape, Places, Filling
<1>9. JobFits'
  BY <1>2, <1>3, <1>5, <1>7, <1>8 DEF JobFits, Fits, InOrder, Filling
<1>10. /\ tags \in [Layouts \X Files -> 0..MaxStamp] /\ new \in Layouts \X Files
       /\ tags' \in [Layouts \X Files -> 0..MaxStamp] /\ tags'[new] = stamp'
       /\ \A k \in Layouts \X Files : k # new => tags'[k] = tags[k]
  BY <1>2, <1>4 DEF IInv, TypeOK, Layouts
<1> HIDE DEF new
<1>11. \A k \in Layouts \X Files : tags[k] <= tags'[k] /\ tags'[k] <= stamp'
  <2> SUFFICES ASSUME NEW k \in Layouts \X Files PROVE tags[k] <= tags'[k] /\ tags'[k] <= stamp'
    OBVIOUS
  <2>1. tags[k] \in Nat /\ tags[k] <= stamp
    BY <1>10, BoundAssumption DEF IInv, OldCards
  <2> QED
    BY <1>4, <1>10, <2>1
<1>12. TypeOK'
  <2>1. job'.at = "idle" <=> job' = Idle
    BY <1>9, IdleFits DEF JobFits, Fits
  <2>2. \A a \in archive' : a.file \in Files /\ a.card \in Cards /\ a.run \in 0..MaxJobs
    BY <1>2, ArchivedIsTyped DEF IInv, TypeOK
  <2> QED
    BY <1>2, <1>4, <1>10, <2>1, <2>2 DEF IInv, TypeOK, Outside
<1>13. LedgerTyped' /\ RestTyped'
  BY <1>2 DEF IInv, LedgerTyped, RestTyped, Outside
<1>14. \A k : Exists(k)' = Exists(k) /\ Readable(k)' = Readable(k) /\ CardAt(k)' = CardAt(k)
  BY <1>2 DEF Exists, Readable, CardAt
<1>15. OldCards'
  <2>1. \A k \in Layouts \X Files : json[k].stamp <= stamp /\ json[k].stamp \in Nat /\ (Exists(k) => json[k].rev # 0)
    BY BoundAssumption DEF IInv, OldCards, TypeOK, Cards
  <2>2. \A k \in Layouts \X Files : json'[k].stamp <= stamp' /\ tags'[k] <= stamp' /\ (Exists(k)' => json'[k].rev # 0)
    BY <1>2, <1>4, <1>11, <1>14, <2>1
  <2>3. 1 <= stamp'
    BY <1>4
  <2> QED
    BY <1>2, <1>14, <2>2, <2>3 DEF IInv, OldCards
<1>16. Pairs'
  <2>1. JsonMarksCompletion'
    <3> SUFFICES ASSUME NEW g \in Files \ raced, Readable(<<"root", g>>), json[<<"root", g>>].stamp > 1
                 PROVE  tags'[<<"root", g>>] >= json[<<"root", g>>].stamp
      BY <1>2, <1>14 DEF JsonMarksCompletion, Outside
    <3>1. tags[<<"root", g>>] >= json[<<"root", g>>].stamp
      BY DEF IInv, Pairs, JsonMarksCompletion
    <3>2. <<"root", g>> \in Layouts \X Files
      BY DEF Layouts
    <3>3. /\ tags[<<"root", g>>] \in Nat /\ tags'[<<"root", g>>] \in Nat /\ json[<<"root", g>>].stamp \in Nat
      BY <1>10, <3>2, BoundAssumption DEF IInv, TypeOK, Cards
    <3> QED
      BY <1>11, <3>1, <3>2, <3>3
  <2>2. 1 < post.stamp /\ post.stamp <= stamp' /\ tags'[<<"root", job'.file>>] >= post.stamp
    BY <1>2, <1>4, <1>5, <1>7, <1>10 DEF new
  <2> QED
    BY <1>7, <2>1, <2>2 DEF Pairs
<1>17. Rows'
  <2> SUFFICES ASSUME NEW g \in Files PROVE RowFits(g)'
    BY DEF Rows
  <2>1. newest[g] \in Nat /\ RowFits(g) /\ newest' = newest /\ reverted' = reverted
    BY <1>2, Numbers DEF IInv, Rows, Outside
  <2> QED
    BY <1>2, <1>4, <2>1, RowStays
<1>18. Readings'
  <2>1. \A g \in Files : manifest[g].card <= stamp /\ manifest[g].card \in Nat
    BY Numbers DEF IInv, Rows, RowFits
  <2> QED
    BY <1>2, <1>4, <1>5, <1>7, <2>1 DEF Readings
<1>19. Lists'
  <2>1. \A g : Listed(g)' = Listed(g)
    BY <1>2, <1>7, <1>14 DEF Listed, Previous, Outside
  <2>2. Waiting' = job.todo /\ Waiting = job.todo
    BY <1>2, <1>7 DEF Waiting
  <2>3. job.tool # "refresh" => \A g \in job.todo \ touched : Listed(g)
    BY <1>2, <1>3, <2>2 DEF IInv, Lists
  <2>4. ASSUME f \notin touched, NEW l \in Layouts, Exists(<<l, f>>)
        PROVE  \E a \in archive' : a.file = f /\ a.card = json[<<l, f>>]
    <3>1. job.tool = "refresh" \/ Exists(<<"root", f>>)
      BY <1>3, <2>3, <2>4 DEF Listed, Layouts
    <3>2. Archived(f) = {[file |-> f, card |-> json[<<m, f>>],
                          run |-> IF job.tool = "refresh" THEN jobs ELSE 0] : m \in {m \in Layouts : Exists(<<m, f>>)}}
      BY <3>1 DEF Archived
    <3>3. [file |-> f, card |-> json[<<l, f>>], run |-> IF job.tool = "refresh" THEN jobs ELSE 0] \in Archived(f)
      BY <2>4, <3>2
    <3> QED
      BY <1>2, <3>3
  <2> QED
    BY <1>2, <1>7, <1>14, <2>1, <2>2, <2>3, <2>4 DEF Lists, Outside
<1>20. Synced' /\ Imported'
  <2>1. Synced'
    BY <1>7 DEF Synced
  <2>2. \A g : Existing(g)' = Existing(g)
    BY <1>14 DEF Existing
  <2>3. \A g : Served(g)' = Served(g) /\ Present(g)' = Present(g)
    BY <1>2, <2>2 DEF Served, Present, Readable, CardAt, Outside
  <2>4. Imported'
    BY <1>2, <1>7, <2>3 DEF IInv, Imported, Outside, Filling
  <2> QED
    BY <2>1, <2>4
<1> QED
  BY <1>9, <1>12, <1>13, <1>15, <1>16, <1>17, <1>18, <1>19, <1>20 DEF IInv

\* The sidecar marks the pair as complete, with a stamp newer than the manifest's.
LEMMA WriteJsonStep == ASSUME IInv, WriteJson PROVE IInv'
<1>1. PICK f \in Files : f = job.file
  BY DEF IInv, JobFits, Fits, Filling, WriteJson
<1> DEFINE new == <<"root", f>>
<1>2. /\ job.at = "json" /\ json' = [json EXCEPT ![new] = job.post]
      /\ job' = [job EXCEPT !.at = "settle"]
      /\ UNCHANGED <<tags, archive, stamp, row, manifest, ledger, removals, status>> /\ Outside
  BY <1>1 DEF WriteJson, db
<1>3. /\ JobFits /\ Shape(job) /\ f \in job.todo /\ job.post.rev # 0 /\ job.post \in Cards /\ job.at \in Filling
      /\ (job.post.pending \/ job.kind = "none") /\ job.todo \subseteq Files
  BY <1>1, <1>2 DEF IInv, JobFits, Fits, Shape, Filling
<1>4. /\ job'.at = "settle" /\ job'.file = f /\ job'.post = job.post /\ job'.todo = job.todo
      /\ job'.tool = job.tool /\ job'.incomplete = job.incomplete /\ job'.cards = job.cards
      /\ job'.wrong = job.wrong /\ job'.steps = job.steps /\ job'.md5s = job.md5s /\ job'.kind = job.kind
  BY <1>1, <1>2, <1>3 DEF Shape
<1>5. Shape(job')
  BY <1>2, <1>3 DEF Shape, Places, Filling
<1>6. JobFits'
  BY <1>2, <1>3, <1>4, <1>5 DEF JobFits, Fits, InOrder, Filling
<1>7. /\ job.post.stamp \in Nat /\ 1 < job.post.stamp /\ job.post.stamp <= stamp /\ stamp \in Nat
      /\ f \notin raced => tags[new] >= job.post.stamp
      /\ \A g \in Files : manifest[g].card < job.post.stamp /\ manifest[g].card \in Nat
  BY <1>1, <1>2, <1>3, Numbers, BoundAssumption DEF IInv, Pairs, Readings, Cards
<1>8. /\ new \in Layouts \X Files /\ json \in [Layouts \X Files -> Cards]
      /\ json' \in [Layouts \X Files -> Cards] /\ json'[new] = job.post
      /\ \A k \in Layouts \X Files : k # new => json'[k] = json[k]
  BY <1>2, <1>3 DEF IInv, TypeOK, Layouts
<1>9. \A g \in Files : json'[<<"legacy", g>>] = json[<<"legacy", g>>] /\ (g # f => json'[<<"root", g>>] = json[<<"root", g>>])
  BY <1>8 DEF Layouts
<1>10. TypeOK'
  <2>1. job'.at = "idle" <=> job' = Idle
    BY <1>6, IdleFits DEF JobFits, Fits
  <2> QED
    BY <1>2, <1>8, <2>1 DEF IInv, TypeOK, Outside
<1>11. LedgerTyped' /\ RestTyped'
  BY <1>2 DEF IInv, LedgerTyped, RestTyped, Outside
<1>12. OldCards'
  <2>1. ASSUME NEW k \in Layouts \X Files
        PROVE  json'[k].stamp <= stamp' /\ tags'[k] <= stamp' /\ (Exists(k)' => json'[k].rev # 0)
    <3>1. json[k].stamp <= stamp /\ tags[k] <= stamp /\ (Exists(k) => json[k].rev # 0)
      BY DEF IInv, OldCards
    <3> QED
      BY <1>2, <1>3, <1>7, <1>8, <3>1 DEF Exists
  <2>2. ASSUME NEW g \in Files
        PROVE  /\ json'[<<"legacy", g>>].stamp <= 1 \/ ~json'[<<"legacy", g>>].ok
               /\ ~json'[<<"legacy", g>>].pending
               /\ json'[<<"root", g>>].stamp = 1 /\ Exists(<<"legacy", g>>)' =>
                      json'[<<"root", g>>].rev = json'[<<"legacy", g>>].rev
    BY <1>7, <1>8, <1>9 DEF IInv, OldCards, Exists
  <2>3. 1 <= stamp'
    BY <1>2 DEF IInv, OldCards
  <2> QED
    BY <2>1, <2>2, <2>3 DEF OldCards
<1>13. Pairs'
  <2>1. JsonMarksCompletion'
    <3> SUFFICES ASSUME NEW g \in Files \ raced, Readable(<<"root", g>>)', json'[<<"root", g>>].stamp > 1
                 PROVE  tags[<<"root", g>>] >= json'[<<"root", g>>].stamp
      BY <1>2 DEF JsonMarksCompletion, Outside
    <3>1. CASE g = f
      BY <1>7, <1>8, <3>1
    <3>2. CASE g # f
      BY <1>9, <3>2 DEF IInv, Pairs, JsonMarksCompletion, Readable, CardAt
    <3> QED
      BY <3>1, <3>2
  <2> QED
    BY <1>4, <2>1 DEF Pairs
<1>14. Rows'
  <2> SUFFICES ASSUME NEW g \in Files PROVE RowFits(g)'
    BY DEF Rows
  <2>1. /\ newest[g] \in Nat /\ RowFits(g) /\ newest' = newest /\ stamp <= stamp' /\ reverted' = reverted
    BY <1>2, Numbers DEF IInv, Rows, Outside
  <2>2. CASE g # f
    <3>1. \A l \in Layouts : json'[<<l, g>>] = json[<<l, g>>]
      BY <1>9, <2>2 DEF Layouts
    <3> QED
      BY <1>2, <1>7, <2>1, <3>1, RowStays
  <2>3. CASE g = f
    <3>1. manifest'[f].card # json'[new].stamp
      BY <1>2, <1>7, <1>8
    <3>2. /\ Exists(<<"legacy", f>>)' = Exists(<<"legacy", f>>)
          /\ Readable(<<"legacy", f>>)' = Readable(<<"legacy", f>>)
      BY <1>9 DEF Exists, Readable, CardAt
    <3> QED
      BY <1>2, <1>9, <2>1, <2>3, <3>1, <3>2 DEF RowFits, Layouts
  <2> QED
    BY <2>2, <2>3
<1>15. Readings' /\ Synced'
  BY <1>4 DEF Readings, Synced
<1>16. Lists'
  <2>1. \A g \in Files : g # f => Listed(g)' = Listed(g)
    BY <1>2, <1>4, <1>9 DEF Listed, Exists, Previous, Outside
  <2>2. Waiting' = job.todo \ {f} /\ Waiting = job.todo
    BY <1>2, <1>4 DEF Waiting
  <2>3. job.tool # "refresh" => \A g \in job.todo \ touched : Listed(g)
    BY <1>2, <1>3, <2>2 DEF IInv, Lists
  <2>4. touched' = touched
    BY <1>2 DEF Outside
  <2>5. job.tool # "refresh" => \A g \in (job.todo \ {f}) \ touched : Listed(g)'
    BY <1>3, <2>1, <2>3
  <2> QED
    BY <1>4, <2>2, <2>4, <2>5 DEF Lists
<1>17. Imported'
  <2> SUFFICES ASSUME job.tool = "import", NEW g \in Files \ touched, Present(g)
               PROVE  /\ ledger[g] # NoState
                      /\ ~job.wrong /\ g \notin job.todo => Served(g)'
                      /\ g = f => /\ Exists(<<"root", g>>)'
                                  /\ job.post.pending \/ ~json'[<<"root", g>>].pending
    BY <1>2, <1>4 DEF Imported, Present, Outside, Filling
  <2>1. ledger[g] # NoState /\ (~job.wrong /\ g \notin job.todo => Served(g))
    BY <1>2, <1>3 DEF IInv, Imported, Filling
  <2>2. ASSUME g # f, Served(g) PROVE Served(g)'
    <3>1. Exists(<<"root", g>>)' = Exists(<<"root", g>>) /\ Exists(<<"legacy", g>>)' = Exists(<<"legacy", g>>)
      BY <1>9, <2>2 DEF Exists
    <3>2. Existing(g)' = Existing(g) /\ \E l \in Layouts \cup {"none"} : Existing(g) = <<l, g>>
      BY <3>1 DEF Existing, Layouts
    <3>3. PICK l \in Layouts \cup {"none"} : Existing(g) = <<l, g>>
      BY <3>2
    <3>4. CardAt(Existing(g)) = IF l = "none" THEN NoCard ELSE json[<<l, g>>]
      BY <3>3 DEF CardAt
    <3>5. CardAt(Existing(g))' = IF l = "none" THEN NoCard ELSE json'[<<l, g>>]
      BY <3>2, <3>3 DEF CardAt
    <3>6. CardAt(Existing(g))' = CardAt(Existing(g))
      <4>1. l # "none" => json'[<<l, g>>] = json[<<l, g>>]
        BY <1>9, <2>2 DEF Layouts
      <4>2. (IF l = "none" THEN NoCard ELSE json'[<<l, g>>]) = IF l = "none" THEN NoCard ELSE json[<<l, g>>]
        BY <4>1
      <4> QED
        BY <3>4, <3>5, <4>2
    <3> QED
      BY <1>2, <2>2, <3>2, <3>6 DEF Served, Readable
  <2>3. Exists(new)' /\ (job.post.pending \/ ~json'[new].pending)
    BY <1>7, <1>8 DEF Exists
  <2> QED
    BY <1>3, <2>1, <2>2, <2>3
<1> QED
  BY <1>6, <1>10, <1>11, <1>12, <1>13, <1>14, <1>15, <1>16, <1>17 DEF IInv

-----------------------------------------------------------------------------
(* The invariant.                                                          *)

\* A library from before the current layout satisfies the invariant.
LEMMA InitFits == ASSUME Init PROVE IInv
<1> DEFINE first == CHOOSE v \in Versions : v \notin Damaged
<1>1. first \in Versions
  BY VersionAssumption
<1> HIDE DEF first
<1>2. PICK old \in [Files -> LegacyRevs \cup {0}] :
         /\ json = [k \in Layouts \X Files |->
                       IF k[1] = "root" \/ old[k[2]] = 0 THEN NoCard
                       ELSE [NoCard EXCEPT !.md5 = media[k[2]], !.rev = old[k[2]], !.stamp = 1]]
         /\ tags = [k \in Layouts \X Files |-> json[k].stamp]
  BY DEF Init
<1>3. /\ media \in [Files -> {0, first}] /\ newest = media /\ reverted = {} /\ drive = "here" /\ archive = {}
      /\ row = [f \in Files |-> NoRow] /\ manifest = [f \in Files |-> NoEntry]
      /\ ledger = [f \in Files |-> NoState] /\ removals = [f \in Files |-> {}]
      /\ job = Idle /\ stamp = 1 /\ jobs = 0 /\ edits = 0 /\ touched = {} /\ raced = {}
      /\ migration = [at |-> "off", todo |-> {}, key |-> <<>>]
  BY DEF Init, first
<1>4. media \in [Files -> Versions \cup {0}] /\ newest \in [Files -> Versions \cup {0}]
  BY <1>1, <1>3
<1>5. /\ 0 \in 0..MaxStamp /\ 1 \in 0..MaxStamp /\ 0 \in 0..MaxJobs /\ 0 \in 0..MaxEdits
  BY BoundAssumption
<1>6. ASSUME NEW k \in Layouts \X Files
      PROVE  /\ json[k] \in Cards /\ json[k].stamp \in {0, 1} /\ ~json[k].pending
             /\ Exists(k) => json[k].rev # 0
             /\ k[1] = "root" => json[k] = NoCard
             /\ tags[k] = json[k].stamp
  <2>1. NoCard \in Cards /\ NoCard.stamp = 0 /\ ~NoCard.pending
    BY <1>5 DEF NoCard, Cards
  <2>2. CASE k[1] = "root" \/ old[k[2]] = 0
    BY <1>2, <2>1, <2>2 DEF Exists
  <2>3. CASE ~(k[1] = "root" \/ old[k[2]] = 0)
    <3> DEFINE card == [NoCard EXCEPT !.md5 = media[k[2]], !.rev = old[k[2]], !.stamp = 1]
    <3>1. json[k] = card
      BY <1>2, <2>3
    <3>2. media[k[2]] \in Versions \cup {0} /\ old[k[2]] \in Revs
      BY <1>4, <2>3, RevAssumption
    <3>3. card \in Cards /\ card.stamp = 1 /\ card.rev = old[k[2]] /\ card.pending = NoCard.pending
      BY <1>5, <2>1, <3>2 DEF Cards
    <3> HIDE DEF card
    <3> QED
      BY <1>2, <2>1, <2>3, <3>1, <3>3
  <2> QED
    BY <2>2, <2>3
<1>7. json \in [Layouts \X Files -> Cards] /\ tags \in [Layouts \X Files -> 0..MaxStamp]
  <2>1. json \in [Layouts \X Files -> Cards]
    BY <1>2, <1>6
  <2>2. \A k \in Layouts \X Files : json[k].stamp \in 0..MaxStamp
    BY <1>5, <1>6
  <2> QED
    BY <1>2, <2>1, <2>2
<1>8. RowsTyped /\ LedgerTyped
  <2>1. /\ NoRow \in [md5 : Versions \cup {0}, rev : Revs \cup {0}, seen : BOOLEAN]
        /\ NoState \in Entries
    BY DEF NoRow, NoState, Entries
  <2>2. NoEntry \in [at : Layouts \cup {"none", "media"}, card : 0..MaxStamp, media : Versions \cup {0}]
    BY <1>5 DEF NoEntry
  <2> QED
    BY <1>3, <2>1, <2>2 DEF RowsTyped, LedgerTyped
<1>9. TypeOK
  BY <1>3, <1>4, <1>5, <1>7, <1>8, IdleFits DEF TypeOK, RowsTyped, LedgerTyped, Entries
<1>10. RestTyped /\ JobFits /\ job.at = "idle" /\ job.tool = "none"
  <2>1. \A f \in Files : media[f] <= newest[f] /\ media[f] \in {0, newest[f]}
    <3>1. newest = media /\ Versions \cup {0} \subseteq Nat
      BY <1>3, VersionAssumption
    <3>2. \A f \in Files : media[f] \in Nat
      BY <1>4, <3>1
    <3> QED
      BY <3>1, <3>2
  <2>2. RestTyped
    BY <1>3, <2>1 DEF RestTyped
  <2> QED
    BY <1>3, <2>2, IdleFits DEF JobFits, Idle
<1>11. OldCards
  BY <1>3, <1>6 DEF OldCards, Layouts, NoCard
<1>12. Pairs
  <2>1. \A f \in Files : ~Readable(<<"root", f>>)
    BY <1>6 DEF Readable, CardAt, NoCard, Layouts
  <2> QED
    BY <1>10, <2>1 DEF Pairs, JsonMarksCompletion
<1>13. Rows
  <2>1. \A f \in Files : /\ row[f] = NoRow /\ manifest[f] = NoEntry
    BY <1>3
  <2> QED
    BY <1>3, <2>1 DEF Rows, RowFits, NoRow, NoEntry, Layouts
<1>14. Readings /\ Lists /\ Synced /\ Imported
  BY <1>10 DEF Readings, Lists, Synced, Imported, Filling
<1> QED
  BY <1>8, <1>9, <1>10, <1>11, <1>12, <1>13, <1>14 DEF IInv

\* Every step keeps it.
LEMMA StepFits == ASSUME IInv, [Next]_vars PROVE IInv'
<1>1. CASE ChangeMedia \/ MoveFolder \/ DamageCard \/ Kill \/ AutomaticCheck \/ Launch
  BY <1>1, ChangeMediaStep, MoveFolderStep, DamageCardStep, KillStep, StartStep
<1>2. CASE DiscoverScan \/ DiscoverFile \/ EnrichList \/ EnrichFile
  BY <1>2, DiscoverScanStep, DiscoverFileStep, EnrichListStep, EnrichFileStep
<1>3. CASE BackfillList \/ MatchPost \/ BuildCard \/ WriteTags \/ WriteJson \/ SettleFile \/ WriteFails
  BY <1>3, BackfillListStep, MatchPostStep, BuildCardStep, WriteTagsStep, WriteJsonStep, SettleFileStep,
     WriteFailsStep
<1>4. CASE SyncFolders \/ SyncScan \/ SyncFile \/ SyncStale \/ FinalizeMark
  BY <1>4, SyncFoldersStep, SyncScanStep, SyncFileStep, SyncStaleStep, FinalizeMarkStep
<1>5. CASE SqliteReplace \/ SqliteFile \/ CleanScan \/ CleanFile
  BY <1>5, SqliteReplaceStep, SqliteFileStep, CleanScanStep, CleanFileStep
<1>6. CASE DiscoverEnd \/ EnrichEnd \/ BackfillEnd \/ SqliteEnd \/ CleanEnd
  BY <1>6, ProcessEnds
<1>7. CASE Migration
  BY <1>7, MigrationStartStep, MigrateLookStep, MigrateCopyStep, MigrationEndStep DEF Migration
<1>8. CASE UNCHANGED vars
  <2>1. UNCHANGED <<json, tags, raced, migration, media, newest, reverted>> /\ MigrationKept
    BY <1>8 DEF vars, disk, db, MigrationKept
  <2>2. RestTyped'
    BY <2>1 DEF IInv, RestTyped
  <2> QED
    BY <2>1, <2>2, MigrationMoves
<1> QED
  BY <1>1, <1>2, <1>3, <1>4, <1>5, <1>6, <1>7, <1>8 DEF Next, Process

\* It holds in every state of every execution.
LEMMA PipelineInvariant == Spec => []IInv
<1>1. Init => IInv
  BY InitFits
<1>2. IInv /\ [Next]_vars => IInv'
  BY StepFits
<1> QED
  BY <1>1, <1>2, PTL DEF Spec

-----------------------------------------------------------------------------
(* What the pipeline promises.                                             *)

\* The types, and a readable sidecar that a tool wrote has its tags, at every
\* interruption of a write, beside the user, the migration and clean-sidecars.
THEOREM SidecarsAreComplete == Spec => []Sound
<1>1. IInv => Sound
  BY DEF IInv, Pairs, Sound
<1> QED
  BY <1>1, PipelineInvariant, PTL

\* A stamp in the manifest speaks for the row: a sync that takes a file for
\* unchanged leaves no stale post in the index.
THEOREM IndexIsHonest == Spec => []StampsAreHonest
BY RowsAreHonest, PipelineInvariant, PTL

\* No tool replaces a sidecar without a copy of it in the archive, nor a complete
\* one unasked, nor deletes one whose file is there, unless the user or the
\* migration changed that file's sidecar meanwhile.
THEOREM SidecarsAreKept == Spec => NothingLost
<1> DEFINE Kept ==
        job # Idle => \A k \in Layouts \X Files :
          LET old == json[k]
              new == json'[k]
          IN  Exists(k) /\ new # old /\ k[2] \notin touched' \cup raced /\ migration' = migration =>
              IF new.stamp = 0 THEN ~Present(k[2])
              ELSE /\ \E a \in archive : a.file = k[2] /\ a.card = old
                   /\ job.tool # "refresh" => old.ok /\ old.pending
<1>1. ASSUME IInv, [Next]_vars PROVE [Kept]_vars
  <2> SUFFICES ASSUME NEW k \in Layouts \X Files, Exists(k), json'[k] # json[k],
                      k[2] \notin touched' \cup raced, migration' = migration
               PROVE  IF json'[k].stamp = 0 THEN ~Present(k[2])
                      ELSE /\ \E a \in archive : a.file = k[2] /\ a.card = json[k]
                           /\ job.tool # "refresh" => json[k].ok /\ json[k].pending
    OBVIOUS
  <2>1. json \in [Layouts \X Files -> Cards] /\ json' # json
    BY <1>1 DEF IInv, TypeOK
  <2>2. DamageCard \/ WriteJson \/ CleanFile \/ MigrateCopy
    <3>1. ~(UNCHANGED json)
      BY <2>1
    <3> QED
      BY <1>1, <3>1 DEF Next, Process, Migration, vars, disk, ChangeMedia, MoveFolder, Kill, AutomaticCheck, Launch, Start,
         DiscoverScan, DiscoverFile, DiscoverEnd, EnrichList, EnrichFile, EnrichEnd, BackfillList, MatchPost,
         BuildCard, WriteTags, SettleFile, WriteFails, BackfillEnd, SyncFolders, SyncScan, SyncFile, SyncStale,
         FinalizeMark, SqliteReplace, SqliteFile, SqliteEnd, CleanScan, CleanEnd, MigrationStart, MigrateLook,
         MigrationEnd, CardsKept
  <2>3. CASE DamageCard
    <3>1. PICK d \in Layouts \X Files : /\ json' = [json EXCEPT ![d].ok = FALSE, ![d].stamp = stamp + 1]
                                        /\ touched' = touched \cup {d[2]}
      BY <2>3 DEF DamageCard, Edit
    <3>2. k = d
      BY <2>1, <3>1
    <3> QED
      BY <3>1, <3>2
  <2>4. CASE WriteJson
    <3> DEFINE f == job.file
    <3>1. /\ job.at = "json" /\ json' = [json EXCEPT ![<<"root", f>>] = job.post] /\ touched' = touched
      BY <2>4 DEF WriteJson, Outside
    <3>2. /\ k = <<"root", f>> /\ json'[k] = job.post
      BY <2>1, <3>1
    <3>3. /\ f \in job.todo /\ f \notin touched \cup raced /\ job.post.stamp > 1 /\ job.post.stamp \in Nat
      BY <1>1, <3>1, <3>2, BoundAssumption DEF IInv, JobFits, Fits, Shape, Cards, Filling, Pairs
    <3>4. \E a \in archive : a.file = f /\ a.card = json[<<"root", f>>]
      BY <1>1, <3>1, <3>2, <3>3 DEF IInv, Lists, Layouts
    <3>5. job.tool # "refresh" => Listed(f)
      BY <1>1, <3>1, <3>3 DEF IInv, Lists, Waiting, Filling
    <3>6. json'[k].stamp # 0 /\ k[2] = f
      BY <3>2, <3>3
    <3> QED
      BY <3>2, <3>3, <3>4, <3>5, <3>6 DEF Listed
  <2>5. CASE CleanFile
    <3>1. PICK u \in job.todo :
              /\ job.at = "unlink" /\ touched' = touched
              /\ json' = json \/ json' = [json EXCEPT ![u[2]] = NoCard]
      BY <2>5 DEF CleanFile, Outside
    <3>2. k = u[2] /\ json'[k] = NoCard
      BY <2>1, <3>1
    <3>3. ~Present(k[2])
      BY <1>1, <3>1, <3>2 DEF IInv, Lists
    <3> QED
      BY <3>2, <3>3 DEF NoCard
  <2>6. CASE MigrateCopy
    <3>1. migration.at = "copy" /\ migration' = [migration EXCEPT !.at = "look"]
      BY <2>1, <2>6 DEF MigrateCopy
    <3>2. migration'.at = "look"
      BY <1>1, <3>1 DEF IInv, RestTyped
    <3> QED
      BY <3>1, <3>2
  <2> QED
    BY <2>2, <2>3, <2>4, <2>5, <2>6
<1> QED
  BY <1>1, PipelineInvariant, PTL DEF Spec, NothingLost

\* A tool that reports success has left the index as the folder is.
THEOREM SuccessIsEarned == Spec => SuccessIsTrue
<1> DEFINE Earned ==
        Succeeds /\ job.at \in {"index", "mark"} /\ drive = "here" => \A f \in Files \ touched :
          /\ row'[f].seen <=> Present(f)
          /\ Present(f) /\ Readable(Indexed(f)) => row'[f].rev = CardAt(Indexed(f)).rev
          /\ Present(f) /\ job.tool = "import" =>
                /\ Existing(f)[1] # "none" \/ ledger'[f].status = "no_match"
                /\ Readable(Existing(f)) => ~CardAt(Existing(f)).pending
<1>1. ASSUME IInv, [Next]_vars PROVE [Earned]_vars
  <2> SUFFICES ASSUME status = "running", status' = "done", job.at \in {"index", "mark"},
                      NEW f \in Files \ touched
               PROVE  /\ row'[f].seen <=> Present(f)
                      /\ Present(f) /\ Readable(Indexed(f)) => row'[f].rev = CardAt(Indexed(f)).rev
                      /\ Present(f) /\ job.tool = "import" =>
                            /\ Existing(f)[1] # "none" \/ ledger'[f].status = "no_match"
                            /\ Readable(Existing(f)) => ~CardAt(Existing(f)).pending
    BY DEF Succeeds
  <2>1. JobFits /\ RowsTyped /\ LedgerTyped /\ job # Idle
    BY <1>1, TypesHold, IdleFits
  <2>2. SyncStale \/ FinalizeMark
    <3>1. status' # status /\ status' # "running" /\ status' # "cancelled"
      OBVIOUS
    <3>2. ~Migration
      BY <3>1 DEF Migration, MigrationStart, MigrateLook, MigrateCopy, MigrationEnd, MigrationKept
    <3>3. ~(ChangeMedia \/ MoveFolder \/ DamageCard \/ Kill \/ AutomaticCheck \/ Launch \/ UNCHANGED vars)
      BY <3>1 DEF ChangeMedia, MoveFolder, DamageCard, Kill, AutomaticCheck, Launch, Start, vars
    <3>4. ~SyncFile
      BY <3>1 DEF SyncFile, Goto, Stay
    <3> QED
      BY <1>1, <3>2, <3>3, <3>4 DEF Next, Process, DiscoverScan, DiscoverFile, DiscoverEnd, EnrichList, EnrichFile, EnrichEnd,
         BackfillList, MatchPost, BuildCard, WriteTags, WriteJson, SettleFile, WriteFails, BackfillEnd,
         SyncFolders, SyncScan, SqliteReplace, SqliteFile, SqliteEnd, CleanScan, CleanFile, CleanEnd
  <2>3. job.tool = "import" => job.steps = <<"finalize">>
    BY <2>1 DEF JobFits, Fits, InOrder, Filling
  <2>4. CASE SyncStale
    <3>1. /\ job.at = "index" /\ job.todo = {}
          /\ row' = [g \in Files |-> IF job.media[g] = 0 THEN NoRow ELSE row[g]]
      BY <2>4 DEF SyncStale
    <3>2. /\ ~(Head(job.steps) = "finalize" /\ ~job.wrong)
          /\ Exit(IF job.wrong THEN 1 ELSE 0)
      BY <2>4 DEF SyncStale, Goto, Stay
    <3>3. ~job.wrong
      BY <3>2 DEF Exit
    <3>4. job.tool # "import"
      BY <2>3, <3>2, <3>3, ImportGoesOn
    <3>5. job.media[f] = Scanned[f] /\ (Present(f) => row[f].seen /\ HasRow(f))
      BY <1>1, <3>1, <3>3 DEF IInv, Synced
    <3>6. CASE Present(f)
      BY <3>1, <3>4, <3>5, <3>6 DEF HasRow, Scanned, Present
    <3>7. CASE ~Present(f)
      BY <3>1, <3>5, <3>7 DEF Scanned, Present, NoRow
    <3> QED
      BY <3>6, <3>7
  <2>5. CASE FinalizeMark
    <3>1. /\ job.at = "mark" /\ row' = row
          /\ ledger'[f] \in {ledger[f], [ledger[f] EXCEPT !.metadata = TRUE]}
      BY <2>5 DEF FinalizeMark
    <3>2. ledger'[f].status = ledger[f].status
      BY <2>1, <3>1 DEF LedgerTyped, Entries
    <3>3. (row[f].seen <=> Present(f)) /\ (Present(f) => HasRow(f))
      BY <1>1, <3>1 DEF IInv, Synced
    <3>4. ~job.incomplete
      <4>1. PICK c \in {0, 1, 3} : Exit(c)
        BY <2>5 DEF FinalizeMark
      <4> QED
        BY <2>1, <4>1, ExitFits
    <3>5. job.tool = "import" /\ Present(f) => Served(f)
      BY <1>1, <3>1, <3>4 DEF IInv, Imported
    <3> QED
      BY <3>1, <3>2, <3>3, <3>5 DEF HasRow, Served
  <2> QED
    BY <2>2, <2>4, <2>5
<1> QED
  BY <1>1, PipelineInvariant, PTL DEF Spec, SuccessIsTrue

===============================================================================
