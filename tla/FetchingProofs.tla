---------------------------- MODULE FetchingProofs ----------------------------
(***************************************************************************)
(* Proofs about the two components that fetch from other servers:          *)
(* YouTubeJobs, for every set of jobs and users, every limit on pending    *)
(* jobs and every relation of sameness; Artists, for all tags, posts,      *)
(* platforms and images, any number of requests at once and of faults.     *)
(***************************************************************************)
EXTENDS YouTubeJobs, Artists, SequenceTheorems, FiniteSetTheorems, WellFoundedInduction, TLAPS

-----------------------------------------------------------------------------
\* The publisher holds _lock from its check to its end, a request while it
\* cancels a record that is not final; nobody waits for a publisher elsewhere.
Locked ==
    /\ \A u \in Users : lock = u <=> cancelling[u] # NoJob
    /\ lock = Publisher <=> publisher \in {"check", "rename", "integrate", "complete"}
    /\ queue = "publishing" <=> publisher # "none"
    /\ \A u \in Users : cancelling[u] # NoJob => status[cancelling[u]] \notin {"complete", "interrupted"}

\* Where there is a job, an event being handled and a process.
Busy ==
    /\ queue \in {"none", "idle"} => job = NoJob
    /\ queue \notin {"none", "idle", "recover"} => job \in Jobs
    /\ merging => queue \in {"poll", "collect"}
    /\ process # "none" => queue \in {"poll", "collect", "publishing", "kill"}

\* Only a module that stops ends its queue task, and then no request is left.
Stopping ==
    /\ module \in {"off", "crashed"} => queue = "none"
    /\ queue \in {"none", "recover"} => module # "running"
    /\ asked => module = "stopping" /\ queue \in Awaiting
    /\ transition => module = "stopping"
    /\ module # "running" => \A u \in Users : cancelling[u] = NoJob
    /\ queue = "kill" /\ outcome = "cancel" => module = "stopping"

\* A job is pending once, not while it is worked on, and untouched but for a
\* cancellation.
PendingOnce ==
    /\ \A n \in 1..Len(pending) :
          status[pending[n]] \in {"queued", "cancelled"} /\ pending[n] # job
    /\ \A m, n \in 1..Len(pending) : pending[m] = pending[n] => m = n

\* What the record of the current job can say at each position.
Working ==
    /\ queue \in {"got", "mark"} => status[job] \in {"queued", "cancelled"}
    /\ queue \in {"prepare", "launching", "poll", "collect", "fail", "failWrite"} =>
          status[job] \in {"downloading", "merging", "cancelled"}
    /\ queue = "publishing" =>
          \/ publisher # "ok" /\ status[job] \in {"downloading", "merging", "cancelled"}
          \/ publisher = "ok" /\ status[job] = "complete"
    /\ publisher \in {"rename", "integrate", "complete"} => status[job] \in {"downloading", "merging"}
    /\ queue = "kill" =>
          /\ outcome = "error" => status[job] \in {"downloading", "merging", "cancelled"}
          /\ outcome = "return" => status[job] \in {"complete", "cancelled"}

IInv ==
    /\ TypeOK
    /\ Locked
    /\ Busy
    /\ Stopping
    /\ PendingOnce
    /\ Working
    /\ NoForgottenJob

-----------------------------------------------------------------------------
\* Requests: jobs are created and cancelled, folders change hands.
LEMMA RequestStep ==
    ASSUME IInv,
           \/ FolderChanges
           \/ \E u \in Users : CancelWrite(u) \/ \E j \in Jobs : CancelRead(u, j)
           \/ \E j \in Jobs : Create(j)
    PROVE  IInv'
<1> USE JobsAssumption DEF IInv
<1>1. ASSUME FolderChanges PROVE IInv'
  <2>1. TypeOK'
    BY <1>1 DEF FolderChanges, TypeOK, Adopt, Release, Share, loop
  <2>2. Locked' /\ Busy' /\ Stopping'
    BY <1>1 DEF FolderChanges, Locked, Busy, Stopping, loop
  <2>3. PendingOnce'
    BY <1>1 DEF FolderChanges, PendingOnce, loop
  <2>4. Working'
    BY <1>1 DEF FolderChanges, Working, loop
  <2>5. NoForgottenJob'
    BY <1>1 DEF FolderChanges, NoForgottenJob, loop
  <2> QED
    BY <2>1, <2>2, <2>3, <2>4, <2>5
<1>2. ASSUME NEW u \in Users, CancelWrite(u) PROVE IInv'
  <2>1. TypeOK'
    BY <1>2 DEF CancelWrite, TypeOK, loop, Terminal
  <2>2. Locked' /\ Busy' /\ Stopping'
    BY <1>2 DEF CancelWrite, Locked, Busy, Stopping, TypeOK, loop
  <2>3. PendingOnce'
    BY <1>2 DEF CancelWrite, PendingOnce, loop
  <2>4. Working'
    BY <1>2 DEF CancelWrite, Working, Locked, loop
  <2>5. NoForgottenJob'
    BY <1>2 DEF CancelWrite, NoForgottenJob, loop
  <2> QED
    BY <2>1, <2>2, <2>3, <2>4, <2>5
<1>3. ASSUME NEW u \in Users, NEW j \in Jobs, CancelRead(u, j) PROVE IInv'
  <2>1. TypeOK'
    BY <1>3 DEF CancelRead, TypeOK, Busy, Admitted, Live, loop, records, Awaiting, Executing,
           Publishing, Terminal
  <2>2. Locked' /\ Busy' /\ Stopping'
    BY <1>3 DEF CancelRead, Locked, Busy, Stopping, TypeOK, PendingOnce, Working, NoForgottenJob,
           Admitted, Live, loop, records, Awaiting, Executing, Publishing, Terminal
  <2>3. PendingOnce'
    BY <1>3 DEF CancelRead, PendingOnce, TypeOK, Busy, Working, Admitted, Live, loop, records,
           Awaiting, Executing, Publishing, Terminal
  <2>4. Working'
    BY <1>3 DEF CancelRead, Working, TypeOK, Locked, Busy, Stopping, PendingOnce, NoForgottenJob,
           Admitted, Live, loop, records, Awaiting, Executing, Publishing, Terminal
  <2>5. NoForgottenJob'
    BY <1>3 DEF CancelRead, NoForgottenJob, TypeOK, Locked, Busy, Stopping, PendingOnce, Working,
           Admitted, Live, loop, records, Awaiting, Executing, Publishing, Terminal
  <2> QED
    BY <2>1, <2>2, <2>3, <2>4, <2>5
<1>4. ASSUME NEW j \in Jobs, Create(j) PROVE IInv'
  <2>1. TypeOK'
    BY <1>4 DEF Create, TypeOK, Live, loop
  <2>2. Locked' /\ Busy' /\ Stopping'
    BY <1>4 DEF Create, Locked, Busy, Stopping, loop
  <2>3. PendingOnce'
    <3>1. /\ pending \in Seq(Jobs) /\ Len(pending) \in Nat /\ Len(Append(pending, j)) = Len(pending) + 1
          /\ \A n \in 1..Len(pending) : Append(pending, j)[n] = pending[n]
          /\ Append(pending, j)[Len(pending) + 1] = j
      BY AppendProperties, LenProperties DEF TypeOK
    <3>2. status[j] = "none" /\ \A n \in 1..Len(pending) : pending[n] \in Jobs /\ pending[n] # j
      BY <1>4, <3>1, ElementOfSeq DEF Create, PendingOnce
    <3>3. job # j
      BY <1>4, <3>2 DEF Create, TypeOK, Busy, Stopping, Working, Admitted, Executing, Awaiting
    <3>4. /\ pending' = Append(pending, j) /\ job' = job
          /\ status'[j] = "queued" /\ \A i \in Jobs : i # j => status'[i] = status[i]
      BY <1>4 DEF Create, TypeOK, loop
    <3> QED
      BY <3>1, <3>2, <3>3, <3>4 DEF PendingOnce
  <2>4. Working'
    BY <1>4 DEF Create, Working, loop
  <2>5. NoForgottenJob'
    BY <1>4 DEF Create, NoForgottenJob, loop
  <2> QED
    BY <2>1, <2>2, <2>3, <2>4, <2>5
<1> QED
  BY <1>1, <1>2, <1>3, <1>4

\* The queue task.
LEMMA QueueStep ==
    ASSUME IInv, QueueTask
    PROVE  IInv'
<1> USE JobsAssumption DEF IInv
<1>1. ASSUME Take PROVE IInv'
  <2>1. TypeOK'
    BY <1>1 DEF Take, TypeOK, records
  <2>2. Locked' /\ Busy' /\ Stopping'
    BY <1>1 DEF Take, Locked, Busy, Stopping, TypeOK, Runs
  <2>3. PendingOnce'
    <3>1. /\ pending \in Seq(Jobs) /\ Len(pending) \in Nat \ {0} /\ Head(pending) = pending[1]
          /\ Len(Tail(pending)) = Len(pending) - 1
          /\ \A n \in 1..Len(Tail(pending)) : /\ n + 1 \in 1..Len(pending)
                                             /\ Tail(pending)[n] = pending[n + 1]
      BY <1>1, LenProperties, HeadTailProperties DEF Take, TypeOK
    <3>2. pending' = Tail(pending) /\ job' = pending[1] /\ status' = status
      BY <1>1, <3>1 DEF Take, records
    <3>3. 1 \in 1..Len(pending)
      BY <3>1
    <3> QED
      BY <3>1, <3>2, <3>3 DEF PendingOnce
  <2>4. Working'
    BY <1>1 DEF Take, Working, Locked, PendingOnce, records
  <2>5. NoForgottenJob'
    <3>1. /\ pending \in Seq(Jobs) /\ Len(pending) \in Nat \ {0} /\ Head(pending) = pending[1]
          /\ Len(Tail(pending)) = Len(pending) - 1
          /\ \A n \in 1..Len(Tail(pending)) : Tail(pending)[n] = pending[n + 1]
      BY <1>1, HeadTailProperties, LenProperties, EmptySeq DEF Take, TypeOK
    <3>2. ASSUME NEW j \in Jobs, NEW n \in 1..Len(pending), pending[n] = j, j # Head(pending)
          PROVE  \E m \in 1..Len(Tail(pending)) : Tail(pending)[m] = j
      <4>1. n - 1 \in 1..Len(Tail(pending)) /\ Tail(pending)[n - 1] = j
        BY <3>1, <3>2
      <4> QED
        BY <4>1
    <3> QED
      BY <1>1, <3>1, <3>2 DEF Take, Runs, records, Busy, NoForgottenJob
  <2> QED
    BY <2>1, <2>2, <2>3, <2>4, <2>5
<1>2. ASSUME Look PROVE IInv'
  <2>1. TypeOK'
    BY <1>2 DEF Look, TypeOK, records, Awaiting
  <2>2. Locked' /\ Busy' /\ Stopping'
    BY <1>2 DEF Look, Locked, Busy, Stopping, records, Awaiting
  <2>3. PendingOnce'
    BY <1>2 DEF Look, PendingOnce, TypeOK, records
  <2>4. Working'
    BY <1>2 DEF Look, Working, records
  <2>5. NoForgottenJob'
    BY <1>2 DEF Look, NoForgottenJob, Working, records
  <2> QED
    BY <2>1, <2>2, <2>3, <2>4, <2>5
<1>3. ASSUME Mark PROVE IInv'
  <2>1. TypeOK'
    BY <1>3 DEF Mark, TypeOK, Busy, Executing, Live
  <2>2. Locked' /\ Busy' /\ Stopping'
    BY <1>3 DEF Mark, Locked, Busy, Stopping, Awaiting
  <2>3. PendingOnce'
    BY <1>3 DEF Mark, PendingOnce
  <2>4. Working'
    BY <1>3 DEF Mark, Working, TypeOK, Busy
  <2>5. NoForgottenJob'
    BY <1>3 DEF Mark, NoForgottenJob, TypeOK
  <2> QED
    BY <2>1, <2>2, <2>3, <2>4, <2>5
<1>4. ASSUME FailRead PROVE IInv'
  <2>1. TypeOK'
    BY <1>4 DEF FailRead, TypeOK, records, Awaiting
  <2>2. Locked' /\ Busy' /\ Stopping'
    BY <1>4 DEF FailRead, Locked, Busy, Stopping, records, Awaiting
  <2>3. PendingOnce'
    BY <1>4 DEF FailRead, PendingOnce, TypeOK, records
  <2>4. Working'
    BY <1>4 DEF FailRead, Working, records
  <2>5. NoForgottenJob'
    BY <1>4 DEF FailRead, NoForgottenJob, records
  <2> QED
    BY <2>1, <2>2, <2>3, <2>4, <2>5
<1>5. ASSUME FailWrite PROVE IInv'
  <2>1. TypeOK'
    BY <1>5 DEF FailWrite, TypeOK, Busy, Awaiting, Terminal
  <2>2. Locked' /\ Busy' /\ Stopping'
    BY <1>5 DEF FailWrite, Locked, Busy, Stopping, Awaiting
  <2>3. PendingOnce'
    BY <1>5 DEF FailWrite, PendingOnce, TypeOK
  <2>4. Working'
    BY <1>5 DEF FailWrite, Working, Locked
  <2>5. NoForgottenJob'
    BY <1>5 DEF FailWrite, NoForgottenJob, TypeOK
  <2> QED
    BY <2>1, <2>2, <2>3, <2>4, <2>5
<1>6. ASSUME Recover PROVE IInv'
  <2>1. TypeOK'
    BY <1>6 DEF Recover, TypeOK, Interrupted, Terminal
  <2>2. Locked' /\ Busy' /\ Stopping'
    BY <1>6 DEF Recover, Locked, Busy, Stopping, Awaiting
  <2>3. PendingOnce'
    BY <1>6 DEF Recover, PendingOnce
  <2>4. Working'
    BY <1>6 DEF Recover, Working, Locked
  <2>5. NoForgottenJob'
    BY <1>6 DEF Recover, NoForgottenJob, Interrupted, Live
  <2> QED
    BY <2>1, <2>2, <2>3, <2>4, <2>5
<1>7. ASSUME Prepare PROVE IInv'
  <2>1. TypeOK'
    BY <1>7 DEF Prepare, TypeOK, ChildDirectory, records, Executing
  <2>2. Locked' /\ Busy' /\ Stopping'
    BY <1>7 DEF Prepare, Locked, Busy, Stopping, ChildDirectory, records, Awaiting
  <2>3. PendingOnce'
    BY <1>7 DEF Prepare, PendingOnce, records
  <2>4. Working'
    BY <1>7 DEF Prepare, Working, ChildDirectory, records
  <2>5. NoForgottenJob'
    BY <1>7 DEF Prepare, NoForgottenJob, ChildDirectory, records
  <2> QED
    BY <2>1, <2>2, <2>3, <2>4, <2>5
<1>8. ASSUME Launch PROVE IInv'
  <2>1. TypeOK'
    <3>1. /\ queue' \in {"fail"} \cup Executing /\ outcome' \in {"return", "error", "cancel"}
          /\ process' \in {"none", "running", "killed", "succeeded", "failed"}
      BY <1>8 DEF Launch, Terminate, TypeOK, Executing
    <3>2. /\ asked' \in BOOLEAN
          /\ UNCHANGED <<role, status, published, pending, lock, cancelling, job, merging, publisher,
                         module, transition>>
      BY <1>8 DEF Launch, records
    <3> QED
      BY <3>1, <3>2 DEF TypeOK, Live, Terminal, Awaiting, Executing, Publishing
  <2>2. Locked' /\ Busy' /\ Stopping'
    BY <1>8 DEF Launch, Locked, Busy, Stopping, records
  <2>3. PendingOnce'
    BY <1>8 DEF Launch, PendingOnce, records
  <2>4. Working'
    BY <1>8 DEF Launch, Working, records
  <2>5. NoForgottenJob'
    BY <1>8 DEF Launch, NoForgottenJob, records
  <2> QED
    BY <2>1, <2>2, <2>3, <2>4, <2>5
<1>9. ASSUME Poll PROVE IInv'
  <2>1. TypeOK'
    BY <1>9 DEF Poll, TypeOK, Finally, records, Executing, Terminate
  <2>2. Locked' /\ Busy' /\ Stopping'
    BY <1>9 DEF Poll, Locked, Busy, Stopping, Finally, Runs, records
  <2>3. PendingOnce'
    BY <1>9 DEF Poll, PendingOnce, records
  <2>4. Working'
    BY <1>9 DEF Poll, Working, Finally, Runs, records
  <2>5. NoForgottenJob'
    BY <1>9 DEF Poll, NoForgottenJob, Finally, Runs, records
  <2> QED
    BY <2>1, <2>2, <2>3, <2>4, <2>5
<1>10. ASSUME Collect PROVE IInv'
  <2>1. TypeOK'
    BY <1>10 DEF Collect, TypeOK, Finally, records, Executing, Terminate
  <2>2. Locked' /\ Busy' /\ Stopping'
    BY <1>10 DEF Collect, Locked, Busy, Stopping, Finally, Runs, records
  <2>3. PendingOnce'
    BY <1>10 DEF Collect, PendingOnce, records
  <2>4. Working'
    BY <1>10 DEF Collect, Working, Finally, Runs, records
  <2>5. NoForgottenJob'
    BY <1>10 DEF Collect, NoForgottenJob, Finally, Runs, records
  <2> QED
    BY <2>1, <2>2, <2>3, <2>4, <2>5
<1>11. ASSUME PublishReturns PROVE IInv'
  <2>1. TypeOK'
    BY <1>11 DEF PublishReturns, TypeOK, Busy, Finally, records, Awaiting, Terminate
  <2>2. Locked' /\ Busy' /\ Stopping'
    BY <1>11 DEF PublishReturns, Locked, Busy, Stopping, Finally, records
  <2>3. PendingOnce'
    BY <1>11 DEF PublishReturns, PendingOnce, records
  <2>4. Working'
    BY <1>11 DEF PublishReturns, Working, Finally, records
  <2>5. NoForgottenJob'
    BY <1>11 DEF PublishReturns, NoForgottenJob, Finally, records
  <2> QED
    BY <2>1, <2>2, <2>3, <2>4, <2>5
<1>12. ASSUME Leave PROVE IInv'
  <2>1. TypeOK'
    BY <1>12 DEF Leave, TypeOK, Busy, records, Awaiting, Executing, Live, Publishing, Terminal
  <2>2. Locked' /\ Busy' /\ Stopping'
    BY <1>12 DEF Leave, Locked, Busy, Stopping, records
  <2>3. PendingOnce'
    BY <1>12 DEF Leave, PendingOnce, TypeOK, records
  <2>4. Working'
    BY <1>12 DEF Leave, Working, Locked, records
  <2>5. NoForgottenJob'
    BY <1>12 DEF Leave, NoForgottenJob, TypeOK, Working, records
  <2> QED
    BY <2>1, <2>2, <2>3, <2>4, <2>5
<1>13. ASSUME Cancelled PROVE IInv'
  <2>1. TypeOK'
    <3>1. /\ queue' \in {"recover", "kill"} /\ outcome' \in {"return", "error", "cancel"}
          /\ process' \in {"none", "running", "killed", "succeeded", "failed"}
      BY <1>13 DEF Cancelled, Finally, Terminate, TypeOK
    <3>2. /\ asked' \in BOOLEAN
          /\ UNCHANGED <<role, status, published, pending, lock, cancelling, job, merging, publisher,
                         module, transition>>
      BY <1>13 DEF Cancelled, records
    <3> QED
      BY <3>1, <3>2 DEF TypeOK, Live, Terminal, Awaiting, Executing, Publishing
  <2>2. Locked' /\ Busy' /\ Stopping'
    BY <1>13 DEF Cancelled, Locked, Busy, Stopping, Finally
  <2>3. PendingOnce'
    BY <1>13 DEF Cancelled, PendingOnce, records
  <2>4. Working'
    BY <1>13 DEF Cancelled, Working, Finally, records
  <2>5. NoForgottenJob'
    BY <1>13 DEF Cancelled, NoForgottenJob, Finally, records
  <2> QED
    BY <2>1, <2>2, <2>3, <2>4, <2>5
<1> QED
  BY <1>1, <1>2, <1>3, <1>4, <1>5, <1>6, <1>7, <1>8, <1>9, <1>10, <1>11, <1>12, <1>13 DEF QueueTask

\* The downloader process and the reader of its events.
LEMMA ProcessStep ==
    ASSUME IInv, EventRead \/ EventWrite \/ ProcessEnds
    PROVE  IInv'
<1> USE JobsAssumption DEF IInv
<1>1. ASSUME EventRead PROVE IInv'
  <2>1. TypeOK'
    BY <1>1 DEF EventRead, TypeOK, records
  <2>2. Locked' /\ Busy' /\ Stopping'
    BY <1>1 DEF EventRead, Locked, Busy, Stopping, records
  <2>3. PendingOnce'
    BY <1>1 DEF EventRead, PendingOnce, records
  <2>4. Working'
    BY <1>1 DEF EventRead, Working, records
  <2>5. NoForgottenJob'
    BY <1>1 DEF EventRead, NoForgottenJob, records
  <2> QED
    BY <2>1, <2>2, <2>3, <2>4, <2>5
<1>2. ASSUME EventWrite PROVE IInv'
  <2>1. TypeOK'
    <3>1. status' \in [Jobs -> {"none"} \cup Live \cup Terminal]
      BY <1>2 DEF EventWrite, TypeOK, Live, Busy
    <3>2. /\ merging' \in BOOLEAN
          /\ UNCHANGED <<role, published, pending, lock, cancelling, queue, job, outcome, process, asked, publisher, module, transition>>
      BY <1>2 DEF EventWrite
    <3> QED
      BY <1>2, <3>1, <3>2 DEF TypeOK, Live, Terminal, Awaiting, Executing, Publishing
  <2>2. Locked' /\ Busy' /\ Stopping'
    BY <1>2 DEF EventWrite, Locked, Busy, Stopping
  <2>3. PendingOnce'
    BY <1>2 DEF EventWrite, PendingOnce
  <2>4. Working'
    BY <1>2 DEF EventWrite, Working, Busy
  <2>5. NoForgottenJob'
    BY <1>2 DEF EventWrite, NoForgottenJob, Busy
  <2> QED
    BY <2>1, <2>2, <2>3, <2>4, <2>5
<1>3. ASSUME ProcessEnds PROVE IInv'
  <2>1. TypeOK'
    BY <1>3 DEF ProcessEnds, TypeOK, Download, records
  <2>2. Locked' /\ Busy' /\ Stopping'
    BY <1>3 DEF ProcessEnds, Locked, Busy, Stopping, records
  <2>3. PendingOnce'
    BY <1>3 DEF ProcessEnds, PendingOnce, records
  <2>4. Working'
    BY <1>3 DEF ProcessEnds, Working, records
  <2>5. NoForgottenJob'
    BY <1>3 DEF ProcessEnds, NoForgottenJob, records
  <2> QED
    BY <2>1, <2>2, <2>3, <2>4, <2>5
<1> QED
  BY <1>1, <1>2, <1>3

\* The publisher.
LEMMA PublishStep ==
    ASSUME IInv, Publish
    PROVE  IInv'
<1> USE JobsAssumption DEF IInv
<1>1. ASSUME PublishEnter PROVE IInv'
  <2>1. TypeOK'
    BY <1>1 DEF PublishEnter, TypeOK, loop, records, Publishing
  <2>2. Locked' /\ Busy' /\ Stopping'
    BY <1>1 DEF PublishEnter, Locked, Busy, Stopping, loop, records
  <2>3. PendingOnce'
    BY <1>1 DEF PublishEnter, PendingOnce, loop, records
  <2>4. Working'
    BY <1>1 DEF PublishEnter, Working, loop, records
  <2>5. NoForgottenJob'
    BY <1>1 DEF PublishEnter, NoForgottenJob, loop, records
  <2> QED
    BY <2>1, <2>2, <2>3, <2>4, <2>5
<1>2. ASSUME PublishLock PROVE IInv'
  <2>1. TypeOK'
    BY <1>2 DEF PublishLock, TypeOK, loop, records, Publishing
  <2>2. Locked' /\ Busy' /\ Stopping'
    BY <1>2 DEF PublishLock, Locked, Busy, Stopping, loop
  <2>3. PendingOnce'
    BY <1>2 DEF PublishLock, PendingOnce, loop, records
  <2>4. Working'
    BY <1>2 DEF PublishLock, Working, loop, records
  <2>5. NoForgottenJob'
    BY <1>2 DEF PublishLock, NoForgottenJob, loop, records
  <2> QED
    BY <2>1, <2>2, <2>3, <2>4, <2>5
<1>3. ASSUME PublishCheck PROVE IInv'
  <2>1. TypeOK'
    BY <1>3 DEF PublishCheck, TypeOK, loop, records, Publishing
  <2>2. Locked' /\ Busy' /\ Stopping'
    BY <1>3 DEF PublishCheck, Locked, Busy, Stopping, loop
  <2>3. PendingOnce'
    BY <1>3 DEF PublishCheck, PendingOnce, loop, records
  <2>4. Working'
    BY <1>3 DEF PublishCheck, Working, loop, records
  <2>5. NoForgottenJob'
    BY <1>3 DEF PublishCheck, NoForgottenJob, loop, records
  <2> QED
    BY <2>1, <2>2, <2>3, <2>4, <2>5
<1>4. ASSUME PublishRename PROVE IInv'
  <2>1. TypeOK'
    <3>1. published' \in SUBSET Jobs
      BY <1>4 DEF PublishRename, TypeOK, Busy, Locked
    <3>2. /\ publisher' \in {"integrate", "error"} /\ lock' \in {lock, Nobody}
      BY <1>4 DEF PublishRename
    <3> QED
      BY <1>4, <3>1, <3>2 DEF PublishRename, TypeOK, loop, Publishing
  <2>2. Locked' /\ Busy' /\ Stopping'
    BY <1>4 DEF PublishRename, Locked, Busy, Stopping, loop
  <2>3. PendingOnce'
    BY <1>4 DEF PublishRename, PendingOnce, loop
  <2>4. Working'
    BY <1>4 DEF PublishRename, Working, loop
  <2>5. NoForgottenJob'
    BY <1>4 DEF PublishRename, NoForgottenJob, loop
  <2> QED
    BY <2>1, <2>2, <2>3, <2>4, <2>5
<1>5. ASSUME PublishIntegrate PROVE IInv'
  <2>1. TypeOK'
    BY <1>5 DEF PublishIntegrate, TypeOK, loop, records, Publishing
  <2>2. Locked' /\ Busy' /\ Stopping'
    BY <1>5 DEF PublishIntegrate, Locked, Busy, Stopping, loop
  <2>3. PendingOnce'
    BY <1>5 DEF PublishIntegrate, PendingOnce, loop, records
  <2>4. Working'
    BY <1>5 DEF PublishIntegrate, Working, loop, records
  <2>5. NoForgottenJob'
    BY <1>5 DEF PublishIntegrate, NoForgottenJob, loop, records
  <2> QED
    BY <2>1, <2>2, <2>3, <2>4, <2>5
<1>6. ASSUME PublishComplete PROVE IInv'
  <2>1. TypeOK'
    <3>1. status' \in [Jobs -> {"none"} \cup Live \cup Terminal]
      BY <1>6 DEF PublishComplete, TypeOK, Terminal
    <3> QED
      BY <1>6, <3>1 DEF PublishComplete, TypeOK, loop
  <2>2. Locked' /\ Busy' /\ Stopping'
    BY <1>6 DEF PublishComplete, Locked, Busy, Stopping, loop
  <2>3. PendingOnce'
    BY <1>6 DEF PublishComplete, PendingOnce, loop
  <2>4. Working'
    BY <1>6 DEF PublishComplete, Working, TypeOK, Locked, Busy, loop
  <2>5. NoForgottenJob'
    BY <1>6 DEF PublishComplete, NoForgottenJob, loop
  <2> QED
    BY <2>1, <2>2, <2>3, <2>4, <2>5
<1> QED
  BY <1>1, <1>2, <1>3, <1>4, <1>5, <1>6 DEF Publish

\* The module stops, dies and starts.
LEMMA ModuleStep ==
    ASSUME IInv, Disable \/ Shutdown \/ Stopped \/ Crash \/ Start
    PROVE  IInv'
<1> USE JobsAssumption DEF IInv
<1>1. ASSUME Disable PROVE IInv'
  <2>1. TypeOK'
    BY <1>1 DEF Disable, TypeOK, AskToStop, records
  <2>2. Locked' /\ Busy' /\ Stopping'
    BY <1>1 DEF Disable, Locked, Busy, Stopping, AskToStop
  <2>3. PendingOnce'
    BY <1>1 DEF Disable, PendingOnce, records
  <2>4. Working'
    BY <1>1 DEF Disable, Working, records
  <2>5. NoForgottenJob'
    BY <1>1 DEF Disable, NoForgottenJob, AskToStop, records
  <2> QED
    BY <2>1, <2>2, <2>3, <2>4, <2>5
<1>2. ASSUME Shutdown PROVE IInv'
  <2>1. TypeOK'
    BY <1>2 DEF Shutdown, TypeOK, AskToStop, records
  <2>2. Locked' /\ Busy' /\ Stopping'
    BY <1>2 DEF Shutdown, Locked, Busy, Stopping, AskToStop
  <2>3. PendingOnce'
    BY <1>2 DEF Shutdown, PendingOnce, records
  <2>4. Working'
    BY <1>2 DEF Shutdown, Working, records
  <2>5. NoForgottenJob'
    BY <1>2 DEF Shutdown, NoForgottenJob, AskToStop, records
  <2> QED
    BY <2>1, <2>2, <2>3, <2>4, <2>5
<1>3. ASSUME Stopped PROVE IInv'
  <2>1. TypeOK'
    BY <1>3 DEF Stopped, TypeOK, Busy, loop, records
  <2>2. Locked' /\ Busy' /\ Stopping'
    BY <1>3 DEF Stopped, Locked, Busy, Stopping, loop, Awaiting
  <2>3. PendingOnce'
    BY <1>3 DEF Stopped, PendingOnce, loop, records
  <2>4. Working'
    BY <1>3 DEF Stopped, Working, loop, records
  <2>5. NoForgottenJob'
    BY <1>3 DEF Stopped, NoForgottenJob, records
  <2> QED
    BY <2>1, <2>2, <2>3, <2>4, <2>5
<1>4. ASSUME Crash PROVE IInv'
  <2>1. TypeOK'
    <3>1. <<>> \in Seq(Jobs) /\ Len(<<>>) = 0 /\ 0 <= MaxPending
      BY EmptySeq
    <3>2. cancelling' \in [Users -> Jobs \cup {NoJob}]
      BY <1>4 DEF Crash
    <3> QED
      BY <1>4, <3>1, <3>2 DEF Crash, TypeOK, records
  <2>2. Locked' /\ Busy' /\ Stopping'
    BY <1>4 DEF Crash, Locked, Busy, Stopping
  <2>3. PendingOnce'
    BY <1>4 DEF Crash, PendingOnce
  <2>4. Working'
    BY <1>4 DEF Crash, Working
  <2>5. NoForgottenJob'
    BY <1>4 DEF Crash, NoForgottenJob
  <2> QED
    BY <2>1, <2>2, <2>3, <2>4, <2>5
<1>5. ASSUME Start PROVE IInv'
  <2>1. TypeOK'
    BY <1>5 DEF Start, TypeOK, Interrupted, Awaiting, Terminal
  <2>2. Locked' /\ Busy' /\ Stopping'
    BY <1>5 DEF Start, Locked, Busy, Stopping
  <2>3. PendingOnce'
    BY <1>5 DEF Start, PendingOnce
  <2>4. Working'
    BY <1>5 DEF Start, Working, Locked, Stopping
  <2>5. NoForgottenJob'
    BY <1>5 DEF Start, NoForgottenJob, Interrupted, Live
  <2> QED
    BY <2>1, <2>2, <2>3, <2>4, <2>5
<1> QED
  BY <1>1, <1>2, <1>3, <1>4, <1>5

\* Every state the queue can reach satisfies the inductive invariant.
LEMMA JobsInvariant == Spec => []IInv
<1> USE JobsAssumption
<1>1. ASSUME Init PROVE IInv
  <2>1. <<>> \in Seq(Jobs) /\ Len(<<>>) = 0
    BY EmptySeq
  <2>2. TypeOK
    <3>1. status \in [Jobs -> {"none"} \cup Live \cup Terminal] /\ cancelling \in [Users -> Jobs \cup {NoJob}]
      BY <1>1 DEF Init
    <3>2. pending \in Seq(Jobs) /\ Len(pending) <= MaxPending
      BY <1>1, <2>1 DEF Init
    <3> QED
      BY <1>1, <3>1, <3>2 DEF Init, TypeOK, Awaiting
  <2>3. Locked /\ Busy /\ Stopping
    BY <1>1 DEF Init, Locked, Busy, Stopping
  <2>4. PendingOnce /\ Working /\ NoForgottenJob
    BY <1>1, <2>1 DEF Init, PendingOnce, Working, NoForgottenJob
  <2> QED
    BY <2>2, <2>3, <2>4 DEF IInv
<1>2. ASSUME IInv, [Next]_vars PROVE IInv'
  <2>1. CASE UNCHANGED vars
    BY <1>2, <2>1 DEF vars, records, loop, IInv, TypeOK, Locked, Busy, Stopping, PendingOnce, Working,
           NoForgottenJob
  <2>2. CASE \E i, j \in Jobs : Retry(i, j)
    BY <1>2, <2>2, RequestStep DEF Retry
  <2>3. CASE FolderChanges \/ \E u \in Users : CancelWrite(u)
    BY <1>2, <2>3, RequestStep
  <2>4. CASE \E j \in Jobs : Create(j) \/ \E u \in Users : CancelRead(u, j)
    BY <1>2, <2>4, RequestStep
  <2> QED
    BY <1>2, <2>1, <2>2, <2>3, <2>4, QueueStep, ProcessStep, PublishStep, ModuleStep DEF Next
<1> QED
  BY <1>1, <1>2, PTL DEF Spec

\* Whatever is created, cancelled, crashed or disabled, and in which order: no
\* live record is left without somebody who works on it, and no downloader
\* process without a job being executed (run_queue, execute and recover).
THEOREM QueueIsSound == Spec => []Sound
<1>1. ASSUME IInv PROVE Sound
  <2>1. NoStrayProcess
    BY <1>1, JobsAssumption DEF IInv, Busy, NoStrayProcess, Executing
  <2> QED
    BY <1>1, <2>1 DEF IInv, Sound
<1> QED
  BY <1>1, JobsInvariant, PTL

\* A cancellation that was answered is never followed by the publication of
\* the media, whichever of publish and cancel comes first.
LEMMA OnlyLiveJobsArePublished == Spec => PublishesLiveJobs
<1>1. ASSUME IInv, [Next]_vars
      PROVE  [\A j \in published' \ published : status[j] \in {"downloading", "merging"}]_vars
  <2>1. CASE PublishRename
    BY <1>1, <2>1 DEF PublishRename, IInv, Working
  <2>2. CASE published' = published
    BY <2>2
  <2>3. published' = published \/ PublishRename
    BY <1>1 DEF Next, QueueTask, Publish, vars, records, loop, Retry, Create, CancelRead, CancelWrite,
           FolderChanges, Take, Look, Mark, FailRead, FailWrite, Recover, Prepare, Launch, Poll,
           Collect, PublishReturns, Leave, Cancelled, EventRead, EventWrite, ProcessEnds,
           PublishEnter, PublishLock, PublishCheck, PublishIntegrate, PublishComplete, Disable,
           Shutdown, AskToStop, Stopped, Crash, Start
  <2> QED
    BY <2>1, <2>2, <2>3
<1> QED
  BY <1>1, JobsInvariant, PTL DEF Spec, PublishesLiveJobs

\* The record of a job that is complete or was interrupted stays as it is: the
\* writes of update() that do not look first never meet one.
LEMMA FinalRecordsStay == Spec => FinalStays
<1> DEFINE Final(j) == status[j] \in {"complete", "interrupted"}
           Stays == \A j \in Jobs : Final(j) => status'[j] = status[j]
<1>1. ASSUME IInv, [Next]_vars PROVE Stays
  <2> USE JobsAssumption DEF IInv
  <2>1. ASSUME NEW u \in Users, CancelWrite(u) PROVE Stays
    BY <1>1, <2>1 DEF CancelWrite, TypeOK, Locked
  <2>2. ASSUME NEW j \in Jobs, Create(j) PROVE Stays
    BY <1>1, <2>2 DEF Create, TypeOK
  <2>3. CASE Mark \/ FailWrite
    BY <1>1, <2>3 DEF Mark, FailWrite, TypeOK, Working
  <2>4. CASE EventWrite
    BY <1>1, <2>4 DEF EventWrite, TypeOK, Working, Busy
  <2>5. CASE PublishComplete
    BY <1>1, <2>5 DEF PublishComplete, TypeOK, Working
  <2>6. CASE Recover \/ Start
    BY <1>1, <2>6 DEF Recover, Start, Interrupted, Live
  <2>7. CASE status' = status
    BY <2>7
  <2>8. CASE QueueTask
    BY <2>3, <2>6, <2>7, <2>8 DEF QueueTask, records, Take, Look, FailRead, Prepare, Launch, Poll,
           Collect, PublishReturns, Leave, Cancelled
  <2>9. CASE Publish
    BY <2>5, <2>7, <2>9 DEF Publish, records, PublishEnter, PublishLock, PublishCheck, PublishRename,
           PublishIntegrate
  <2>10. CASE FolderChanges \/ EventRead \/ ProcessEnds \/ \E u \in Users, j \in Jobs : CancelRead(u, j)
    BY <2>7, <2>10 DEF records, FolderChanges, EventRead, ProcessEnds, CancelRead
  <2>11. CASE Disable \/ Shutdown \/ Stopped \/ Crash
    BY <2>7, <2>11 DEF records, Disable, Shutdown, Stopped, Crash
  <2>12. CASE UNCHANGED vars
    BY <2>7, <2>12 DEF vars, records
  <2> QED
    BY <1>1, <2>1, <2>2, <2>4, <2>6, <2>8, <2>9, <2>10, <2>11, <2>12 DEF Next, Retry
<1> QED
  BY <1>1, JobsInvariant, PTL DEF Spec, FinalStays

\* What a record says of its job is what happened to it.
THEOREM RecordsStayHonest == Spec => RecordsAreHonest
BY OnlyLiveJobsArePublished, FinalRecordsStay DEF RecordsAreHonest


-----------------------------------------------------------------------------
Entries   == [page : (SUBSET Posts) \cup {Null}, artist : BOOLEAN, platforms : {Platforms},
              posts : SUBSET Posts]
CacheRows == [fresh : BOOLEAN, examples : SUBSET Posts, names : BOOLEAN, status : {"ok", "missing"},
              found : BOOLEAN, checked : BOOLEAN, urls : SUBSET Platforms,
              unanswered : SUBSET {"page", "names", "artist", "urls"}]
Images    == [tag : Tags, platform : Platforms, kind : Kinds, url : Urls]
Copies    == [tag : Tags, platform : Platforms, kind : Kinds,
              content : {ContentOf[u] : u \in Urls}, n : Nat]
NewCopies == [url : Urls, file : Copies]
AssetRows == [tag : Tags, platform : Platforms, kind : Kinds, url : Urls, file : Copies]

\* The types that ArtistTypeOK leaves open.
TablesAreTyped ==
    /\ danbooru \in [Tags -> Entries]
    /\ profiles \in [Tags -> [Platforms -> [Kinds -> Urls \cup {Null}]]]
    /\ wiki \in [Tags -> CacheRows \cup {Null}]
    /\ unseen \in [Tags -> SUBSET Posts] /\ seen \in [Tags -> SUBSET Posts]
    /\ assets \in Seq(AssetRows)
    /\ IsFiniteSet(files) /\ IsFiniteSet(gone)
    /\ past \in [raced : BOOLEAN, clashed : BOOLEAN, cut : BOOLEAN]

\* What a request holds at each position.
Viewing   == [op : {"view"}, at : {"fetch"}, tag : Tags, artist : BOOLEAN]
Saving    == [op : {"view"}, at : {"save"}, tag : Tags, values : CacheRows]
Listing   == [op : {"list"}, tags : SUBSET Tags]
Asking    == [op : {"check"}, at : {"fetch"}, tag : Tags, initialize : BOOLEAN]
Reading   == [op : {"check"}, at : {"read"}, tag : Tags, initialize : BOOLEAN, ids : SUBSET Posts]
Writing   == [op : {"check"}, at : {"write"}, tag : Tags, ids : SUBSET Posts, baseline : BOOLEAN,
              was : BOOLEAN]
Marking   == [op : {"seen"}, tag : Tags, latest : Posts \cup {Null}]
Archiving == [op : {"refresh"}, at : {"artist", "platform", "asset", "download", "insert"},
              tags : SUBSET Tags, tag : Tags \cup {Null}, platforms : SUBSET Platforms,
              media : SUBSET Images, file : Images \cup NewCopies \cup {Null},
              saved : SUBSET Images, unchanged : SUBSET Images]
Holdings  == {Idle} \cup Viewing \cup Saving \cup Listing \cup Asking \cup Reading \cup Writing
                    \cup Marking \cup Archiving

\* A row of the cache says missing only if the server did, and passes for that
\* of an artist only if the artist was looked up; it has the platforms of the
\* artist's entry, and the others unless their list could not be had.
Honest(v) ==
    /\ "page" \notin v.unanswered
    /\ v.found => /\ "artist" \notin v.unanswered
                  /\ v.urls = IF "urls" \in v.unanswered THEN Inline ELSE Platforms
    /\ v.checked <=> v.found

\* The image m, or one of the same content, is among the rows.
Held(m, rows) == \E r \in rows : Identity(r) = Identity(m) /\ r.file.content = ContentOf[m.url]

Inserting(r) == r.op = "refresh" /\ r.at = "insert"

\* A refresh works on an artist until the next; what it downloads is an image,
\* and what it inserts a copy that is in the archive; what it has counted has
\* a row, or is what it inserts next.
Refreshes(r, there, rows) ==
    /\ r.at # "artist" => r.tag \in Tags
    /\ r.at = "download" => r.file \in Images
    /\ r.at = "insert" => /\ r.file \in NewCopies /\ r.file.file \in there
                          /\ r.file.file.content = ContentOf[r.file.url]
    /\ \A m \in r.saved \cup r.unchanged :
          \/ Held(m, rows)
          \/ r.at = "insert" /\ r.file.url = m.url /\ Identity(r.file.file) = Identity(m)

\* What a request r holds agrees with the archive; the row that it saves is
\* honest, and a check starts afresh only what had not begun.
Fits(r, there, rows) ==
    /\ r \in Holdings
    /\ r \in Saving => Honest(r.values)
    /\ r \in Writing => ~ (r.baseline /\ r.was)
    /\ r \in Archiving => Refreshes(r, there, rows)

RequestsFit ==
    /\ req = [c \in Callers |-> req[c]]
    /\ \A c \in Callers : Fits(req[c], files \cup gone, Rows)

WikiIsHonest == \A t \in Tags : wiki[t] # Null => Honest(wiki[t])

\* Nothing seen lies above the last seen id.
SeenIsUpTo ==
    ~past.raced =>
        \A t \in Tags : follows[t] # Null /\ follows[t].upTo # Null =>
            \A p \in seen[t] : p <= follows[t].upTo

ArtistInv ==
    /\ ArtistTypeOK
    /\ TablesAreTyped
    /\ RequestsFit
    /\ WikiIsHonest
    /\ VersionsAreKept
    /\ SeenIsUpTo

-----------------------------------------------------------------------------
(* Requests, posts and rows.                                               *)

\* The kind and the position of a request tell what it holds.
LEMMA KindsOfRequests ==
    ASSUME NEW r \in Holdings
    PROVE  /\ r.op = "idle" => r = Idle
           /\ r.op = "view" /\ r.at = "fetch" => r \in Viewing
           /\ r.op = "view" /\ r.at = "save" => r \in Saving
           /\ r.op = "list" => r \in Listing
           /\ r.op = "check" /\ r.at = "fetch" => r \in Asking
           /\ r.op = "check" /\ r.at = "read" => r \in Reading
           /\ r.op = "check" /\ r.at = "write" => r \in Writing
           /\ r.op = "seen" => r \in Marking
           /\ r.op = "refresh" <=> r \in Archiving
<1>1. CASE r \in {Idle} \cup Viewing \cup Saving
  BY <1>1 DEF Idle, Viewing, Saving, Archiving
<1>2. CASE r \in Listing \cup Marking
  BY <1>2 DEF Listing, Marking, Archiving
<1>3. CASE r \in Asking \cup Reading \cup Writing
  BY <1>3 DEF Asking, Reading, Writing, Archiving
<1>4. CASE r \in Archiving
  BY <1>4 DEF Archiving
<1> QED
  BY <1>1, <1>2, <1>3, <1>4 DEF Holdings

\* Nothing that a request agrees with is taken out of the archive.
LEMMA StillFits ==
    ASSUME NEW r, NEW there, NEW more, there \subseteq more,
           NEW rows, NEW longer, rows \subseteq longer, Fits(r, there, rows)
    PROVE  Fits(r, more, longer)
<1>1. \A m : Held(m, rows) => Held(m, longer)
  BY DEF Held
<1>2. Refreshes(r, there, rows) => Refreshes(r, more, longer)
  BY <1>1 DEF Refreshes
<1> QED
  BY <1>2 DEF Fits

\* A step of one request.
LEMMA OneRequestSteps ==
    ASSUME RequestsFit, NEW c \in Callers, NEW r, Becomes(c, r), Fits(r, files' \cup gone', Rows'),
           files \cup gone \subseteq files' \cup gone', Rows \subseteq Rows'
    PROVE  /\ RequestsFit'
           /\ req'[c] = r
           /\ \A d \in Callers : d # c => req'[d] = req[d]
<1>1. req' = [d \in Callers |-> IF d = c THEN r ELSE req[d]]
  BY DEF RequestsFit, Becomes
<1>2. \A d \in Callers : Fits(req'[d], files' \cup gone', Rows')
  BY <1>1, StillFits DEF RequestsFit
<1> QED
  BY <1>1, <1>2 DEF RequestsFit

\* A request that holds neither a row, nor a plan to write, nor an image.
LEMMA PlainFits ==
    ASSUME NEW r \in {Idle} \cup Viewing \cup Listing \cup Asking \cup Reading \cup Marking,
           NEW there, NEW rows
    PROVE  Fits(r, there, rows)
<1>1. r \in Holdings
  BY DEF Holdings
<1>2. CASE r \in {Idle} \cup Viewing \cup Listing
  BY <1>1, <1>2 DEF Fits, Idle, Viewing, Listing, Saving, Writing, Archiving
<1>3. CASE r \in Asking \cup Reading \cup Marking
  BY <1>1, <1>3 DEF Fits, Asking, Reading, Marking, Saving, Writing, Archiving
<1> QED
  BY <1>2, <1>3

\* The versions of the archive do not depend on what else is going on.
LEMMA VersionsStay ==
    ASSUME VersionsAreKept, UNCHANGED <<assets, files, gone>>,
           past.cut => past'.cut, past.clashed => past'.clashed,
           \A d \in Callers : Inserting(req[d]) => req'[d] = req[d]
    PROVE  VersionsAreKept'
BY DEF VersionsAreKept, Inserting, Rows, Shows, Range, Identity, Asset

LEMMA BeginsIdle ==
    ASSUME NEW c, NEW op, Begin(c, op)
    PROVE  ~ Inserting(req[c])
BY DEF Begin, Inserting, Idle

\* Only the requests that archive have to do with the archive.
LEMMA ArchiveStays ==
    ASSUME ArtistInv, UNCHANGED <<assets, files, gone>>, past'.cut = past.cut, past'.clashed = past.clashed,
           \/ UNCHANGED req
           \/ \E c \in Callers : \E r : /\ Becomes(c, r) /\ Fits(r, files \cup gone, Rows)
                                        /\ ~ Inserting(req[c])
    PROVE  RequestsFit' /\ VersionsAreKept' /\ Rows' = Rows
<1>1. Rows' = Rows
  BY DEF Rows
<1>2. CASE UNCHANGED req
  BY <1>1, <1>2, VersionsStay DEF ArtistInv, RequestsFit
<1>3. CASE \E c \in Callers : \E r : /\ Becomes(c, r) /\ Fits(r, files \cup gone, Rows)
                                     /\ ~ Inserting(req[c])
  <2>1. PICK c \in Callers : \E r : /\ Becomes(c, r) /\ Fits(r, files \cup gone, Rows)
                                    /\ ~ Inserting(req[c])
    BY <1>3
  <2>2. PICK r : Becomes(c, r) /\ Fits(r, files \cup gone, Rows) /\ ~ Inserting(req[c])
    BY <2>1
  <2>3. RequestsFit' /\ \A d \in Callers : d # c => req'[d] = req[d]
    BY <1>1, <2>2, OneRequestSteps DEF ArtistInv
  <2> QED
    BY <1>1, <2>2, <2>3, VersionsStay DEF ArtistInv
<1> QED
  BY <1>1, <1>2, <1>3

\* Nothing changes but, at most, one request, which inserts nothing now.
LEMMA OnlyRequestsStep ==
    ASSUME ArtistInv, UNCHANGED <<tables, remote, files, gone, past>>,
           \/ UNCHANGED req
           \/ \E c \in Callers : \E r : /\ Becomes(c, r) /\ Fits(r, files \cup gone, Rows)
                                        /\ ~ Inserting(req[c])
    PROVE  ArtistInv'
<1>1. RequestsFit' /\ VersionsAreKept' /\ Rows' = Rows
  BY ArchiveStays DEF tables
<1>2. ArtistTypeOK'
  BY <1>1 DEF ArtistInv, ArtistTypeOK, Tracked, tables
<1>3. TablesAreTyped' /\ WikiIsHonest' /\ SeenIsUpTo'
  BY DEF ArtistInv, TablesAreTyped, WikiIsHonest, SeenIsUpTo, tables, remote
<1> QED
  BY <1>1, <1>2, <1>3 DEF ArtistInv

\* A set of posts that is not empty has a newest one.
LEMMA NewestPost ==
    ASSUME NEW S, S \subseteq Nat, IsFiniteSet(S), S # {}
    PROVE  Max(S) \in S /\ \A p \in S : p <= Max(S)
<1> DEFINE Topped(U) == \E x \in U : \A y \in U : y <= x
           Less  == {p \in Nat \X Nat : p[1] < p[2]}
           Bad   == {U \in SUBSET S : U # {} /\ ~ Topped(U)}
           Sizes == {Cardinality(U) : U \in Bad}
<1>1. \A U \in SUBSET S : U \subseteq Nat /\ IsFiniteSet(U) /\ Cardinality(U) \in Nat
  BY FS_Subset, FS_CardinalityType
<1>2. Bad = {}
  <2> SUFFICES ASSUME Bad # {} PROVE FALSE
    OBVIOUS
  <2>1. Sizes # {} /\ Sizes \subseteq Nat
    BY <1>1
  <2>2. IsWellFoundedOn(Less, Nat)
    BY NatLessThanWellFounded DEF OpToRel
  <2> HIDE DEF Less, Sizes, Bad
  <2>3. PICK n \in Sizes : \A k \in Sizes : ~ (<<k, n>> \in Less)
    BY <2>1, <2>2, WFMin
  <2>4. PICK U \in Bad : n = Cardinality(U)
    BY <2>3 DEF Sizes
  <2>5. U \in SUBSET S /\ U # {} /\ ~ Topped(U)
    BY <2>4 DEF Bad
  <2>6. PICK x \in U : TRUE
    BY <2>5
  <2> DEFINE V == U \ {x}
  <2>7. V \in SUBSET S /\ Cardinality(V) = n - 1 /\ Cardinality(V) \in Nat /\ n \in Nat
    BY <1>1, <2>4, <2>5, <2>6, FS_RemoveElement
  <2>8. V \notin Bad
    <3>1. V \in Bad => Cardinality(V) \in Sizes
      BY DEF Sizes
    <3>2. <<Cardinality(V), n>> \in Less
      BY <2>7 DEF Less
    <3> QED
      BY <2>3, <3>1, <3>2
  <2>9. V = {} \/ Topped(V)
    BY <2>7, <2>8 DEF Bad
  <2>10. CASE V = {}
    BY <1>1, <2>5, <2>6, <2>10
  <2>11. CASE Topped(V)
    <3>1. PICK m \in V : \A y \in V : y <= m
      BY <2>11
    <3>2. \A y \in U : y <= IF m <= x THEN x ELSE m
      BY <1>1, <2>5, <2>6, <3>1
    <3> QED
      BY <2>5, <2>6, <3>1, <3>2
  <2> QED
    BY <2>9, <2>10, <2>11
<1>3. Topped(S)
  BY <1>2
<1> QED
  BY <1>3 DEF Max

-----------------------------------------------------------------------------
(* The wiki of a tag.                                                      *)

LEMMA WikiValuesAreHonest ==
    ASSUME DataAssumption, TablesAreTyped, NEW t \in Tags, NEW artist \in BOOLEAN,
           NEW reply \in {"ok", "404"}, NEW lost \in SUBSET {"names", "artist", "urls"}
    PROVE  WikiValues(t, artist, reply, lost) \in CacheRows /\ Honest(WikiValues(t, artist, reply, lost))
<1> DEFINE a == IF artist THEN ArtistValues(t, lost) ELSE NoArtist
           page == IF reply = "ok" THEN danbooru[t].page ELSE Null
<1>1. /\ a.found \in BOOLEAN /\ a.checked \in BOOLEAN /\ a.urls \in SUBSET Platforms
      /\ a.checked <=> a.found
      /\ a.found => /\ artist /\ "artist" \notin lost
                    /\ a.urls = IF "urls" \in lost THEN Inline ELSE Platforms
  BY DEF ArtistValues, NoArtist, ArtistUrls, DataAssumption, TablesAreTyped, Entries
<1>2. Examples(page) \in SUBSET Posts
  BY DEF Examples, TablesAreTyped, Entries
<1> QED
  BY <1>1, <1>2 DEF WikiValues, RelatedNames, CacheRows, Honest

LEMMA ViewStep ==
    ASSUME ArtistInv, NEW c \in Callers, View(c)
    PROVE  ArtistInv'
<1> USE DataAssumption
<1>1. ASSUME NEW t \in Tags, NEW artist \in BOOLEAN, ViewCached(c, t, artist) PROVE ArtistInv'
  BY <1>1, OnlyRequestsStep DEF ViewCached
<1>2. ASSUME NEW t \in Tags, NEW artist \in BOOLEAN, NEW refresh \in BOOLEAN,
             ViewStale(c, t, refresh, artist)
      PROVE  ArtistInv'
  <2>1. Fits([op |-> "view", at |-> "fetch", tag |-> t, artist |-> artist], files \cup gone, Rows)
    BY PlainFits DEF Viewing
  <2> QED
    BY <1>2, <2>1, BeginsIdle, OnlyRequestsStep DEF ViewStale
<1>3. CASE ViewFetch(c)
  <2>1. req[c] \in Viewing
    BY <1>3, KindsOfRequests DEF ViewFetch, ArtistInv, RequestsFit, Fits
  <2>2. PICK reply \in Replies(danbooru[req[c].tag].page # Null),
             lost \in SUBSET {"names", "artist", "urls"} :
          IF Stops(reply) THEN lost = {} /\ End(c)
          ELSE Becomes(c, [op |-> "view", at |-> "save", tag |-> req[c].tag,
                         values |-> WikiValues(req[c].tag, req[c].artist, reply, lost)])
    BY <1>3 DEF ViewFetch
  <2> DEFINE r == [op |-> "view", at |-> "save", tag |-> req[c].tag,
                   values |-> WikiValues(req[c].tag, req[c].artist, reply, lost)]
  <2>3. ASSUME ~ Stops(reply) PROVE Fits(r, files \cup gone, Rows)
    <3>1. reply \in {"ok", "404"}
      BY <2>2, <2>3 DEF Replies, Stops
    <3>2. r.values \in CacheRows /\ Honest(r.values)
      BY <2>1, <3>1, WikiValuesAreHonest DEF Viewing, ArtistInv
    <3>3. r \in Saving
      BY <2>1, <3>2 DEF Saving, Viewing
    <3> QED
      BY <3>2, <3>3 DEF Fits, Holdings, Saving, Writing, Archiving
  <2>4. Fits(Idle, files \cup gone, Rows)
    BY PlainFits
  <2>5. ~ Inserting(req[c])
    BY <2>1 DEF Viewing, Inserting
  <2> QED
    BY <1>3, <2>2, <2>3, <2>4, <2>5, OnlyRequestsStep DEF ViewFetch, End, Becomes
<1>4. CASE ViewSave(c)
  <2>1. req[c] \in Saving /\ Honest(req[c].values)
    BY <1>4, KindsOfRequests DEF ViewSave, ArtistInv, RequestsFit, Fits
  <2>2. Fits(Idle, files \cup gone, Rows) /\ ~ Inserting(req[c])
    BY <2>1, PlainFits DEF Saving, Inserting
  <2>3. RequestsFit' /\ VersionsAreKept' /\ Rows' = Rows
    BY <1>4, <2>2, ArchiveStays DEF ViewSave, End, Becomes
  <2>4. \A t \in Tags : wiki'[t] = IF t = req[c].tag THEN req[c].values ELSE wiki[t]
    BY <1>4 DEF ViewSave, ArtistInv, TablesAreTyped
  <2>5. WikiIsHonest'
    BY <2>1, <2>4 DEF WikiIsHonest, ArtistInv
  <2>6. TablesAreTyped'
    BY <1>4, <2>1 DEF ViewSave, ArtistInv, TablesAreTyped, Saving, remote
  <2>7. ArtistTypeOK'
    BY <1>4, <2>1, <2>3, <2>4 DEF ViewSave, ArtistInv, ArtistTypeOK, Tracked, Saving, CacheRows, Honest
  <2>8. SeenIsUpTo'
    BY <1>4 DEF ViewSave, ArtistInv, SeenIsUpTo
  <2> QED
    BY <2>3, <2>5, <2>6, <2>7, <2>8 DEF ArtistInv
<1> QED
  BY <1>1, <1>2, <1>3, <1>4 DEF View

-----------------------------------------------------------------------------
(* Artists the user follows.                                               *)

\* What a step of the follows has to keep.
LEMMA FollowsStep ==
    ASSUME ArtistInv, ArtistTypeOK', SeenIsUpTo', unseen' \in [Tags -> SUBSET Posts], seen' \in [Tags -> SUBSET Posts],
           UNCHANGED <<wiki, assets, remote, files, gone>>,
           past' = past \/ past' = [past EXCEPT !.raced = TRUE],
           \/ UNCHANGED req
           \/ \E c \in Callers : \E r : /\ Becomes(c, r) /\ Fits(r, files \cup gone, Rows)
                                        /\ ~ Inserting(req[c])
    PROVE  ArtistInv'
<1>1. past' \in [raced : BOOLEAN, clashed : BOOLEAN, cut : BOOLEAN] /\ past'.cut = past.cut
      /\ past'.clashed = past.clashed
  BY DEF ArtistInv, TablesAreTyped
<1>2. RequestsFit' /\ VersionsAreKept' /\ Rows' = Rows
  BY <1>1, ArchiveStays
<1>3. TablesAreTyped' /\ WikiIsHonest'
  BY <1>1 DEF ArtistInv, TablesAreTyped, WikiIsHonest, remote
<1> QED
  BY <1>2, <1>3 DEF ArtistInv

\* The cached page names posts that the table does not have as seen.
LEMMA SeedsAreNew ==
    ASSUME ArtistInv, NEW t \in Tags
    PROVE  Seeds(t) \in SUBSET Posts /\ Seeds(t) \cap seen[t] = {}
BY DEF Seeds, ArtistInv, TablesAreTyped, CacheRows

\* The newest of the posts of an artist.
LEMMA LatestIsNewest ==
    ASSUME DataAssumption, NullAssumption, NEW S \in SUBSET Posts
    PROVE  /\ Latest(S) \in Posts \cup {Null}
           /\ Latest(S) = Null <=> S = {}
           /\ S # {} => Latest(S) = Max(S) /\ Max(S) \in Posts /\ \A p \in S : p <= Max(S)
<1>1. S \subseteq Nat /\ IsFiniteSet(S)
  BY FS_Subset DEF DataAssumption
<1>2. S # {} => Max(S) \in S /\ \A p \in S : p <= Max(S)
  BY <1>1, NewestPost
<1> QED
  BY <1>2 DEF Latest, NullAssumption

LEMMA RowsAreNotNull ==
    ASSUME NullAssumption, NEW f \in BOOLEAN, NEW p \in Posts \cup {Null}
    PROVE  [first |-> f, upTo |-> p] # Null
<1>1. [first |-> f, upTo |-> p] \in [first : BOOLEAN, upTo : Posts \cup {Null}]
  OBVIOUS
<1> QED
  BY <1>1 DEF NullAssumption

LEMMA FollowStep ==
    ASSUME ArtistInv, NEW c \in Callers, NEW t \in Tags, Follow(c, t) \/ Unfollow(c, t)
    PROVE  ArtistInv'
<1> USE DataAssumption, NullAssumption
<1>1. CASE Follow(c, t)
  <2>1. \A s \in Tags : /\ s # t => follows'[s] = follows[s] /\ unseen'[s] = unseen[s]
                        /\ follows[s] # Null => follows'[s] = follows[s]
                        /\ seen'[s] = seen[s]
    BY <1>1 DEF Follow, ArtistInv, ArtistTypeOK, TablesAreTyped
  <2>2. unseen'[t] = unseen[t] \cup Seeds(t) /\ follows'[t] # Null
        /\ (follows[t] = Null => follows'[t].upTo = Null)
    <3> DEFINE new == [first |-> FALSE, upTo |-> Null]
    <3>1. new # Null /\ new.upTo = Null
      BY RowsAreNotNull
    <3> HIDE DEF new
    <3>2. follows'[t] = IF follows[t] = Null THEN new ELSE follows[t]
      BY <1>1 DEF Follow, ArtistInv, ArtistTypeOK, new
    <3>3. unseen'[t] = unseen[t] \cup Seeds(t)
      BY <1>1 DEF Follow, ArtistInv, TablesAreTyped
    <3> QED
      BY <3>1, <3>2, <3>3
  <2>3. follows' \in [Tags -> [first : BOOLEAN, upTo : Posts \cup {Null}] \cup {Null}]
    BY <1>1 DEF Follow, ArtistInv, ArtistTypeOK
  <2>4. unseen' \in [Tags -> SUBSET Posts]
    BY <1>1, SeedsAreNew DEF Follow, ArtistInv, TablesAreTyped
  <2>5. ArtistTypeOK'
    BY <1>1, <2>1, <2>2, <2>3, SeedsAreNew DEF Follow, ArtistInv, ArtistTypeOK, Tracked, Rows
  <2>6. SeenIsUpTo'
    BY <1>1, <2>1, <2>2 DEF Follow, ArtistInv, SeenIsUpTo
  <2> QED
    BY <1>1, <2>4, <2>5, <2>6, FollowsStep DEF Follow, ArtistInv, TablesAreTyped
<1>2. CASE Unfollow(c, t)
  <2>1. \A s \in Tags : /\ s # t => /\ follows'[s] = follows[s] /\ unseen'[s] = unseen[s]
                                    /\ seen'[s] = seen[s]
    BY <1>2 DEF Unfollow, ArtistInv, ArtistTypeOK, TablesAreTyped
  <2>2. follows'[t] = Null /\ unseen'[t] = {} /\ seen'[t] = {}
    BY <1>2 DEF Unfollow, ArtistInv, ArtistTypeOK, TablesAreTyped
  <2>3. follows' \in [Tags -> [first : BOOLEAN, upTo : Posts \cup {Null}] \cup {Null}]
        /\ unseen' \in [Tags -> SUBSET Posts] /\ seen' \in [Tags -> SUBSET Posts]
    BY <1>2 DEF Unfollow, ArtistInv, ArtistTypeOK, TablesAreTyped
  <2>4. ArtistTypeOK'
    BY <1>2, <2>1, <2>2, <2>3 DEF Unfollow, ArtistInv, ArtistTypeOK, Tracked, Rows
  <2>5. SeenIsUpTo'
    BY <1>2, <2>1, <2>2 DEF Unfollow, ArtistInv, SeenIsUpTo
  <2> QED
    BY <1>2, <2>3, <2>4, <2>5, FollowsStep DEF Unfollow
<1> QED
  BY <1>1, <1>2

LEMMA ListStep ==
    ASSUME ArtistInv, NEW c \in Callers, ListRead(c) \/ ListSeed(c)
    PROVE  ArtistInv'
<1> USE DataAssumption, NullAssumption
<1>1. CASE ListRead(c)
  <2>1. Fits([op |-> "list", tags |-> Followed], files \cup gone, Rows)
    BY PlainFits DEF Listing, Followed
  <2> QED
    BY <1>1, <2>1, BeginsIdle, OnlyRequestsStep DEF ListRead
<1>2. CASE ListSeed(c)
  <2>1. req[c] \in Listing
    BY <1>2, KindsOfRequests DEF ListSeed, ArtistInv, RequestsFit, Fits
  <2>2. ~ Inserting(req[c]) /\ Fits(Idle, files \cup gone, Rows)
    BY <2>1, PlainFits DEF Listing, Inserting
  <2>3. \A t \in Tags : /\ unseen'[t] = unseen[t] \/ unseen'[t] = unseen[t] \cup Seeds(t)
                        /\ follows[t] = Null => unseen'[t] = unseen[t]
    BY <1>2 DEF ListSeed, ArtistInv, TablesAreTyped
  <2>4. unseen' \in [Tags -> SUBSET Posts]
    BY <1>2, SeedsAreNew DEF ListSeed, ArtistInv, TablesAreTyped
  <2>5. ArtistTypeOK'
    BY <1>2, <2>3, SeedsAreNew DEF ListSeed, ArtistInv, ArtistTypeOK, Tracked, Rows
  <2>6. SeenIsUpTo'
    BY <1>2 DEF ListSeed, ArtistInv, SeenIsUpTo
  <2> QED
    BY <1>2, <2>2, <2>4, <2>5, <2>6, FollowsStep DEF ListSeed, End, Becomes, ArtistInv, TablesAreTyped
<1> QED
  BY <1>1, <1>2

LEMMA CheckAsks ==
    ASSUME ArtistInv, NEW c \in Callers,
           \/ \E t \in Tags, initialize \in BOOLEAN : CheckStart(c, t, initialize)
           \/ \E limit \in Limits : CheckFetch(c, limit)
           \/ CheckRead(c)
    PROVE  ArtistInv'
<1>1. ASSUME NEW t \in Tags, NEW initialize \in BOOLEAN, CheckStart(c, t, initialize) PROVE ArtistInv'
  <2>1. Fits([op |-> "check", at |-> "fetch", tag |-> t, initialize |-> initialize],
             files \cup gone, Rows)
    BY PlainFits DEF Asking
  <2> QED
    BY <1>1, <2>1, BeginsIdle, OnlyRequestsStep DEF CheckStart
<1>2. ASSUME NEW limit \in Limits, CheckFetch(c, limit) PROVE ArtistInv'
  <2>1. req[c] \in Asking
    BY <1>2, KindsOfRequests DEF CheckFetch, ArtistInv, RequestsFit, Fits
  <2>2. Newest(req[c].tag, limit) \in SUBSET Posts
    BY <2>1 DEF Newest, ArtistInv, TablesAreTyped, Entries, Asking
  <2>3. Fits([op |-> "check", at |-> "read", tag |-> req[c].tag, initialize |-> req[c].initialize,
              ids |-> Newest(req[c].tag, limit)], files \cup gone, Rows)
    BY <2>1, <2>2, PlainFits DEF Asking, Reading
  <2>4. Fits(Idle, files \cup gone, Rows) /\ ~ Inserting(req[c])
    BY <2>1, PlainFits DEF Asking, Inserting
  <2> QED
    BY <1>2, <2>3, <2>4, OnlyRequestsStep DEF CheckFetch, End, Becomes
<1>3. CASE CheckRead(c)
  <2>1. req[c] \in Reading
    BY <1>3, KindsOfRequests DEF CheckRead, ArtistInv, RequestsFit, Fits
  <2>2. Fits(Idle, files \cup gone, Rows) /\ ~ Inserting(req[c])
    BY <2>1, PlainFits DEF Reading, Inserting
  <2>3. CASE follows[req[c].tag] = Null
    BY <1>3, <2>2, <2>3, OnlyRequestsStep DEF CheckRead, End, Becomes
  <2>4. CASE follows[req[c].tag] # Null
    <3> DEFINE r == [op |-> "check", at |-> "write", tag |-> req[c].tag, ids |-> req[c].ids,
                     baseline |-> Establishes(req[c].tag, req[c].initialize),
                     was |-> follows[req[c].tag].first]
    <3>1. r.was \in BOOLEAN /\ r.baseline \in BOOLEAN /\ ~ (r.baseline /\ r.was)
      BY <2>1, <2>4 DEF ArtistInv, ArtistTypeOK, Reading, Establishes
    <3>2. r \in Writing
      BY <2>1, <3>1 DEF Writing, Reading
    <3>3. Fits(r, files \cup gone, Rows)
      BY <3>1, <3>2 DEF Fits, Holdings, Saving, Writing, Archiving
    <3> QED
      BY <1>3, <2>2, <2>4, <3>3, OnlyRequestsStep DEF CheckRead
  <2> QED
    BY <2>3, <2>4
<1> QED
  BY <1>1, <1>2, <1>3

LEMMA CheckWrites ==
    ASSUME ArtistInv, NEW c \in Callers, CheckWrite(c)
    PROVE  ArtistInv'
<1> USE DataAssumption, NullAssumption
<1> DEFINE t   == req[c].tag
           all == Tracked(t) \cup req[c].ids
<1>1. req[c] \in Writing /\ ~ (req[c].baseline /\ req[c].was)
  BY KindsOfRequests DEF CheckWrite, ArtistInv, RequestsFit, Fits
<1>2. Fits(Idle, files \cup gone, Rows) /\ ~ Inserting(req[c]) /\ t \in Tags /\ all \in SUBSET Posts
  BY <1>1, PlainFits DEF Writing, Inserting, Tracked, ArtistInv, TablesAreTyped
<1>3. past' = past \/ past' = [past EXCEPT !.raced = TRUE]
  BY DEF CheckWrite, Note
<1>4. ~ past'.raced => ~ past.raced
  BY <1>3 DEF ArtistInv, TablesAreTyped
<1>5. CASE UNCHANGED <<follows, unseen, seen>>
  <2>1. ArtistTypeOK'
    BY <1>5 DEF CheckWrite, ArtistInv, ArtistTypeOK, Tracked, Rows
  <2>2. SeenIsUpTo'
    BY <1>4, <1>5 DEF ArtistInv, SeenIsUpTo
  <2> QED
    BY <1>2, <1>3, <1>5, <2>1, <2>2, FollowsStep DEF CheckWrite, End, Becomes, ArtistInv, TablesAreTyped
<1>6. CASE /\ follows[t] # Null /\ req[c].baseline
           /\ unseen' = [unseen EXCEPT ![t] = {}]
           /\ seen' = [seen EXCEPT ![t] = all]
           /\ follows' = [follows EXCEPT ![t] =
                  [first |-> TRUE, upTo |-> IF all = {} THEN @.upTo ELSE Max(all)]]
  <2> DEFINE top == IF all = {} THEN follows[t].upTo ELSE Max(all)
  <2>1. top \in Posts \cup {Null} /\ (all # {} => \A p \in all : p <= top)
    BY <1>2, <1>6, LatestIsNewest DEF ArtistInv, ArtistTypeOK
  <2> HIDE DEF top, all
  <2>2. follows'[t] = [first |-> TRUE, upTo |-> top] /\ unseen'[t] = {} /\ seen'[t] = all
    <3>1. follows'[t] = [first |-> TRUE, upTo |-> top]
      BY <1>2, <1>6 DEF ArtistInv, ArtistTypeOK, top, all
    <3>2. unseen'[t] = {} /\ seen'[t] = all
      BY <1>2, <1>6 DEF ArtistInv, TablesAreTyped, all
    <3> QED
      BY <3>1, <3>2
  <2>3. follows'[t] # Null /\ follows'[t].upTo = top
    <3> DEFINE new == [first |-> TRUE, upTo |-> top]
    <3>1. new # Null /\ new.upTo = top
      BY <2>1, RowsAreNotNull
    <3> HIDE DEF new
    <3>2. follows'[t] = new
      BY <2>2 DEF new
    <3> QED
      BY <3>1, <3>2
  <2>4. \A s \in Tags : s # t => /\ follows'[s] = follows[s] /\ unseen'[s] = unseen[s]
                                 /\ seen'[s] = seen[s]
    BY <1>6 DEF ArtistInv, ArtistTypeOK, TablesAreTyped, all
  <2>5. follows' \in [Tags -> [first : BOOLEAN, upTo : Posts \cup {Null}] \cup {Null}]
    BY <1>2, <1>6, <2>1 DEF ArtistInv, ArtistTypeOK, top, all
  <2>6. unseen' \in [Tags -> SUBSET Posts] /\ seen' \in [Tags -> SUBSET Posts]
    BY <1>2, <1>6 DEF ArtistInv, TablesAreTyped, all
  <2>7. ArtistTypeOK'
    BY <1>2, <2>2, <2>3, <2>4, <2>5, <2>6 DEF CheckWrite, ArtistInv, ArtistTypeOK, Tracked, Rows
  <2>8. SeenIsUpTo'
    BY <1>4, <2>1, <2>2, <2>3, <2>4 DEF ArtistInv, SeenIsUpTo
  <2> QED
    BY <1>2, <1>3, <2>6, <2>7, <2>8, FollowsStep DEF CheckWrite, End, Becomes
<1>7. CASE unseen' = [unseen EXCEPT ![t] = all \ seen[t]] /\ UNCHANGED <<follows, seen>>
           /\ follows[t] # Null
  <2> HIDE DEF all
  <2>1. unseen'[t] = all \ seen[t] /\ \A s \in Tags : s # t => unseen'[s] = unseen[s]
    BY <1>2, <1>7 DEF ArtistInv, TablesAreTyped
  <2>2. unseen' \in [Tags -> SUBSET Posts]
    BY <1>2, <1>7 DEF ArtistInv, TablesAreTyped
  <2>3. ArtistTypeOK'
    BY <1>2, <1>7, <2>1, <2>2 DEF CheckWrite, ArtistInv, ArtistTypeOK, TablesAreTyped, Tracked, Rows
  <2>4. SeenIsUpTo'
    BY <1>4, <1>7 DEF ArtistInv, SeenIsUpTo
  <2> QED
    BY <1>2, <1>3, <1>7, <2>2, <2>3, <2>4, FollowsStep DEF CheckWrite, End, Becomes, ArtistInv, TablesAreTyped
<1> QED
  BY <1>5, <1>6, <1>7 DEF CheckWrite

LEMMA SeenStep ==
    ASSUME ArtistInv, NEW c \in Callers, SeenWrite(c) \/ \E t \in Tags : SeenRead(c, t)
    PROVE  ArtistInv'
<1> USE DataAssumption, NullAssumption
<1>1. ASSUME NEW t \in Tags, SeenRead(c, t) PROVE ArtistInv'
  <2>1. Tracked(t) \in SUBSET Posts
    BY DEF Tracked, ArtistInv, TablesAreTyped
  <2>2. Fits([op |-> "seen", tag |-> t, latest |-> Latest(Tracked(t))], files \cup gone, Rows)
    BY <2>1, LatestIsNewest, PlainFits DEF Marking
  <2> QED
    BY <1>1, <2>2, BeginsIdle, OnlyRequestsStep DEF SeenRead
<1>2. CASE SeenWrite(c)
  <2> DEFINE t    == req[c].tag
             upto == UpTo(t, req[c].latest)
  <2>1. req[c] \in Marking
    BY <1>2, KindsOfRequests DEF SeenWrite, ArtistInv, RequestsFit, Fits
  <2>2. /\ Fits(Idle, files \cup gone, Rows) /\ ~ Inserting(req[c])
        /\ t \in Tags /\ Tracked(t) \in SUBSET Posts
    BY <2>1, PlainFits DEF Marking, Inserting, Tracked, ArtistInv, TablesAreTyped
  <2>3. past' = past \/ past' = [past EXCEPT !.raced = TRUE]
    BY <1>2 DEF SeenWrite, Note
  <2>4. ~ past'.raced => ~ past.raced
    BY <2>3 DEF ArtistInv, TablesAreTyped
  <2>5. CASE follows[t] = Null
    <3>1. UNCHANGED <<follows, unseen, seen>>
      BY <1>2, <2>5 DEF SeenWrite
    <3>2. ArtistTypeOK'
      BY <1>2, <3>1 DEF SeenWrite, ArtistInv, ArtistTypeOK, Tracked, Rows
    <3>3. SeenIsUpTo'
      BY <2>4, <3>1 DEF ArtistInv, SeenIsUpTo
    <3> QED
      BY <1>2, <2>2, <2>3, <3>1, <3>2, <3>3, FollowsStep DEF SeenWrite, End, Becomes, ArtistInv, TablesAreTyped
  <2>6. CASE follows[t] # Null
    <3>1. upto \in Posts \cup {Null}
      BY <2>1, <2>2, <2>6 DEF UpTo, Marking, ArtistInv, ArtistTypeOK
    <3>2. follows' = [follows EXCEPT ![t].upTo = upto] /\ seen' = [seen EXCEPT ![t] = Tracked(t)]
          /\ unseen' = [unseen EXCEPT ![t] = {}]
      BY <1>2, <2>6 DEF SeenWrite
    <3>3. ~ past'.raced => req[c].latest = Latest(Tracked(t))
      BY <1>2, <2>6 DEF SeenWrite, Note, ArtistInv, TablesAreTyped
    <3>4. ~ past'.raced /\ Tracked(t) # {} => \A p \in Tracked(t) : p <= upto
      BY <2>2, <3>3, LatestIsNewest DEF UpTo
    <3> DEFINE new == [first |-> follows[t].first, upTo |-> upto]
               all == Tracked(t)
    <3> HIDE DEF upto, all
    <3>5. new # Null /\ new.upTo = upto /\ new \in [first : BOOLEAN, upTo : Posts \cup {Null}]
      BY <2>2, <2>6, <3>1, RowsAreNotNull DEF ArtistInv, ArtistTypeOK
    <3>6. follows'[t] = new
      BY <2>2, <2>6, <3>2 DEF ArtistInv, ArtistTypeOK
    <3> HIDE DEF new
    <3>7. \A s \in Tags : s # t => /\ follows'[s] = follows[s] /\ unseen'[s] = unseen[s]
                                   /\ seen'[s] = seen[s]
      BY <3>2 DEF ArtistInv, ArtistTypeOK, TablesAreTyped
    <3>8. unseen'[t] = {} /\ seen'[t] = all
      BY <2>2, <3>2 DEF ArtistInv, TablesAreTyped, all
    <3>9. /\ follows' \in [Tags -> [first : BOOLEAN, upTo : Posts \cup {Null}] \cup {Null}]
          /\ unseen' \in [Tags -> SUBSET Posts] /\ seen' \in [Tags -> SUBSET Posts]
      <4>1. follows' = [s \in Tags |-> follows'[s]]
        BY <3>2 DEF ArtistInv, ArtistTypeOK
      <4>2. \A s \in Tags : follows'[s] \in [first : BOOLEAN, upTo : Posts \cup {Null}] \cup {Null}
        BY <3>5, <3>6, <3>7 DEF ArtistInv, ArtistTypeOK
      <4>3. unseen' \in [Tags -> SUBSET Posts] /\ seen' \in [Tags -> SUBSET Posts]
        BY <2>2, <3>2 DEF ArtistInv, TablesAreTyped
      <4> HIDE DEF ArtistInv
      <4> QED
        BY <4>1, <4>2, <4>3
    <3>10. ArtistTypeOK'
      BY <1>2, <2>2, <3>5, <3>6, <3>7, <3>8, <3>9 DEF SeenWrite, ArtistInv, ArtistTypeOK, Tracked, Rows
    <3>11. SeenIsUpTo'
      BY <2>4, <3>4, <3>5, <3>6, <3>7, <3>8 DEF ArtistInv, SeenIsUpTo, all
    <3> QED
      BY <1>2, <2>2, <2>3, <3>9, <3>10, <3>11, FollowsStep DEF SeenWrite, End, Becomes
  <2> QED
    BY <2>5, <2>6
<1> QED
  BY <1>1, <1>2

LEMMA WatchStep ==
    ASSUME ArtistInv, NEW c \in Callers, Watch(c)
    PROVE  ArtistInv'
BY FollowStep, ListStep, CheckAsks, CheckWrites, SeenStep DEF Watch

-----------------------------------------------------------------------------
(* The archive of profile images.                                          *)

\* A refresh that inserts nothing next.
LEMMA RefreshFits ==
    ASSUME NEW r \in Archiving, NEW there, NEW rows, r.at # "insert",
           r.at # "artist" => r.tag \in Tags, r.at = "download" => r.file \in Images,
           \A m \in r.saved \cup r.unchanged : Held(m, rows)
    PROVE  Fits(r, there, rows)
<1>1. Refreshes(r, there, rows)
  BY DEF Refreshes
<1>2. r \notin Saving /\ r \notin Writing
  BY DEF Archiving, Saving, Writing
<1> QED
  BY <1>1, <1>2 DEF Fits, Holdings

LEMMA RefreshHolds ==
    ASSUME RequestsFit, NEW c \in Callers, req[c].op = "refresh"
    PROVE  req[c] \in Archiving /\ Refreshes(req[c], files \cup gone, Rows)
BY KindsOfRequests DEF RequestsFit, Fits

\* A refresh moves on: nothing but the request changes.
LEMMA RefreshGoes ==
    ASSUME ArtistInv, NEW c \in Callers, UNCHANGED <<tables, remote, files, gone, past>>, ~ Inserting(req[c]),
           NEW r \in Archiving, Becomes(c, r), r.at # "insert",
           r.at # "artist" => r.tag \in Tags, r.at = "download" => r.file \in Images,
           \A m \in r.saved \cup r.unchanged : Held(m, Rows)
    PROVE  ArtistInv'
<1>1. Fits(r, files \cup gone, Rows)
  BY RefreshFits
<1> QED
  BY <1>1, OnlyRequestsStep

LEMMA RefreshEnds ==
    ASSUME ArtistInv, NEW c \in Callers, UNCHANGED <<tables, remote, files, gone, past>>, ~ Inserting(req[c]),
           End(c)
    PROVE  ArtistInv'
<1>1. Fits(Idle, files \cup gone, Rows)
  BY PlainFits
<1> QED
  BY <1>1, OnlyRequestsStep DEF End, Becomes

LEMMA RefreshBegins ==
    ASSUME ArtistInv, NEW c \in Callers, NEW S \in SUBSET Tags, RefreshStart(c, S)
    PROVE  ArtistInv'
<1> DEFINE r == [op |-> "refresh", at |-> "artist", tags |-> S, tag |-> Null, platforms |-> {},
                 media |-> {}, file |-> Null, saved |-> {}, unchanged |-> {}]
<1>1. r \in Archiving /\ r.at = "artist" /\ r.saved = {} /\ r.unchanged = {}
  BY DEF Archiving
<1>2. Becomes(c, r)
  BY DEF RefreshStart
<1> HIDE DEF r
<1> QED
  BY <1>1, <1>2, BeginsIdle, RefreshGoes DEF RefreshStart

\* The newest row of an image with its address is a row of it.
LEMMA CurrentIsHeld ==
    ASSUME ArtistInv, NEW m, Current(m)
    PROVE  Held(m, Rows)
<1>1. PICK i \in DOMAIN assets : Identity(assets[i]) = Identity(m) /\ assets[i].url = m.url
  BY DEF Current
<1>2. assets[i] \in Rows
  BY DEF Rows, Range
<1> QED
  BY <1>1, <1>2 DEF Held, ArtistInv, ArtistTypeOK

LEMMA RefreshLooks ==
    ASSUME ArtistInv, NEW c \in Callers, RefreshArtist(c) \/ RefreshPlatform(c) \/ RefreshAsset(c)
    PROVE  ArtistInv'
<1>1. req[c] \in Archiving /\ req[c].at \in {"artist", "platform", "asset"} /\ ~ Inserting(req[c])
  BY RefreshHolds DEF RefreshArtist, RefreshPlatform, RefreshAsset, ArtistInv, Inserting
<1>2. /\ req[c].at # "artist" => req[c].tag \in Tags
      /\ \A m \in req[c].saved \cup req[c].unchanged : Held(m, Rows)
  BY <1>1, RefreshHolds DEF ArtistInv, Refreshes, Archiving
<1>3. CASE RefreshArtist(c)
  <2>1. CASE End(c)
    BY <1>1, <1>3, <2>1, RefreshEnds DEF RefreshArtist
  <2>2. ASSUME NEW t \in req[c].tags,
               Becomes(c, [req[c] EXCEPT !.at = "platform", !.tag = t, !.platforms = Sources(t),
                                       !.tags = @ \ {t}])
        PROVE  ArtistInv'
    <3> DEFINE r == [req[c] EXCEPT !.at = "platform", !.tag = t, !.platforms = Sources(t),
                                   !.tags = @ \ {t}]
    <3>1. t \in Tags /\ Sources(t) \in SUBSET Platforms
      BY <1>1 DEF Archiving, Sources, ArtistInv, ArtistTypeOK
    <3>2. r \in Archiving /\ r.at = "platform" /\ r.tag = t /\ r.saved = req[c].saved
          /\ r.unchanged = req[c].unchanged
      BY <1>1, <3>1 DEF Archiving
    <3> HIDE DEF r
    <3>3. Becomes(c, r)
      BY <2>2 DEF r
    <3> QED
      BY <1>1, <1>2, <1>3, <3>1, <3>2, <3>3, RefreshGoes DEF RefreshArtist
  <2> QED
    BY <1>3, <2>1, <2>2 DEF RefreshArtist
<1>4. CASE RefreshPlatform(c)
  <2>1. CASE Go(c, "artist")
    <3> DEFINE r == [req[c] EXCEPT !.at = "artist"]
    <3>1. r \in Archiving /\ r.at = "artist" /\ r.saved = req[c].saved
          /\ r.unchanged = req[c].unchanged
      BY <1>1 DEF Archiving
    <3>2. Becomes(c, r)
      BY <2>1 DEF Go, Becomes
    <3> HIDE DEF r
    <3> QED
      BY <1>1, <1>2, <1>4, <3>1, <3>2, RefreshGoes DEF RefreshPlatform
  <2>2. ASSUME NEW p \in req[c].platforms, NEW at \in {"platform", "asset"},
               NEW media \in {req[c].media, Published(req[c].tag, p)},
               Becomes(c, [req[c] EXCEPT !.at = at, !.platforms = @ \ {p}, !.media = media])
        PROVE  ArtistInv'
    <3> DEFINE r == [req[c] EXCEPT !.at = at, !.platforms = @ \ {p}, !.media = media]
    <3>1. req[c].tag \in Tags /\ p \in Platforms
      BY <1>1, <1>2, <1>4 DEF RefreshPlatform, Archiving
    <3>2. Published(req[c].tag, p) \in SUBSET Images
      BY <3>1 DEF Published, Images, ArtistInv, TablesAreTyped
    <3>3. r \in Archiving /\ r.at = at /\ r.tag = req[c].tag /\ r.saved = req[c].saved
          /\ r.unchanged = req[c].unchanged
      BY <1>1, <2>2, <3>1, <3>2 DEF Archiving
    <3> HIDE DEF r
    <3>4. Becomes(c, r)
      BY <2>2 DEF r
    <3> QED
      BY <1>1, <1>2, <1>4, <3>1, <3>3, <3>4, RefreshGoes DEF RefreshPlatform
  <2> DEFINE p == CHOOSE q \in req[c].platforms : TRUE
  <2>3. CASE req[c].platforms # {} /\ Becomes(c, [req[c] EXCEPT !.platforms = @ \ {p}])
    <3>1. p \in req[c].platforms
      BY <2>3
    <3> HIDE DEF p
    <3>2. [req[c] EXCEPT !.platforms = @ \ {p}]
          = [req[c] EXCEPT !.at = "platform", !.platforms = @ \ {p}, !.media = req[c].media]
      BY <1>1, <1>4 DEF RefreshPlatform, Archiving
    <3> QED
      BY <2>2, <2>3, <3>1, <3>2
  <2>4. CASE req[c].platforms # {}
             /\ Becomes(c, [req[c] EXCEPT !.at = "asset", !.platforms = @ \ {p},
                                        !.media = Published(req[c].tag, p)])
    <3>1. p \in req[c].platforms
      BY <2>4
    <3> HIDE DEF p
    <3> QED
      BY <2>2, <2>4, <3>1
  <2> QED
    BY <1>4, <2>1, <2>3, <2>4 DEF RefreshPlatform
<1>5. CASE RefreshAsset(c)
  <2>1. CASE Go(c, "platform")
    <3> DEFINE r == [req[c] EXCEPT !.at = "platform"]
    <3>1. r \in Archiving /\ r.at = "platform" /\ r.tag = req[c].tag /\ r.saved = req[c].saved
          /\ r.unchanged = req[c].unchanged
      BY <1>1 DEF Archiving
    <3>2. Becomes(c, r)
      BY <2>1 DEF Go, Becomes
    <3> HIDE DEF r
    <3> QED
      BY <1>1, <1>2, <1>5, <3>1, <3>2, RefreshGoes DEF RefreshAsset
  <2> DEFINE m == CHOOSE n \in req[c].media : TRUE
  <2>2. CASE req[c].media # {} /\ Current(m) /\ Kept(c, m)
    <3> DEFINE r == [req[c] EXCEPT !.at = "asset", !.media = @ \ {m}, !.unchanged = @ \cup {m}]
    <3>1. m \in req[c].media
      BY <2>2
    <3> HIDE DEF m
    <3>2. m \in Images /\ Held(m, Rows)
      BY <1>1, <2>2, <3>1, CurrentIsHeld DEF Archiving
    <3>3. r \in Archiving /\ r.at = "asset" /\ r.tag = req[c].tag /\ r.saved = req[c].saved
          /\ r.unchanged = req[c].unchanged \cup {m}
      BY <1>1, <3>2 DEF Archiving
    <3>4. Becomes(c, r)
      BY <2>2 DEF Kept
    <3> HIDE DEF r
    <3>5. \A x \in r.saved \cup r.unchanged : Held(x, Rows)
      BY <1>2, <3>2, <3>3
    <3> QED
      BY <1>1, <1>2, <1>5, <3>3, <3>4, <3>5, RefreshGoes DEF RefreshAsset
  <2>3. CASE req[c].media # {} /\ Becomes(c, [req[c] EXCEPT !.at = "download", !.file = m])
    <3> DEFINE r == [req[c] EXCEPT !.at = "download", !.file = m]
    <3>1. m \in req[c].media
      BY <2>3
    <3> HIDE DEF m
    <3>2. m \in Images
      BY <1>1, <3>1 DEF Archiving
    <3>3. r \in Archiving /\ r.at = "download" /\ r.tag = req[c].tag /\ r.saved = req[c].saved
          /\ r.unchanged = req[c].unchanged /\ r.file = m
      BY <1>1, <3>2 DEF Archiving
    <3>4. Becomes(c, r)
      BY <2>3
    <3> HIDE DEF r
    <3> QED
      BY <1>1, <1>2, <1>5, <3>2, <3>3, <3>4, RefreshGoes DEF RefreshAsset
  <2> QED
    BY <1>5, <2>1, <2>2, <2>3 DEF RefreshAsset
<1> QED
  BY <1>3, <1>4, <1>5

LEMMA NewFileIsCopy ==
    ASSUME TablesAreTyped, NEW m \in Images
    PROVE  NewFile(m) \in Copies /\ Identity(NewFile(m)) = Identity(m)
           /\ NewFile(m).content = ContentOf[m.url]
<1>1. Cardinality(files \cup gone) \in Nat
  BY FS_Union, FS_CardinalityType DEF TablesAreTyped
<1> QED
  BY <1>1 DEF NewFile, Copies, Images, Downloaded, Identity, Asset

LEMMA DownloadStep ==
    ASSUME ArtistInv, NEW c \in Callers, RefreshDownload(c)
    PROVE  ArtistInv'
<1> DEFINE m == req[c].file
<1>1. /\ req[c] \in Archiving /\ req[c].at = "download" /\ ~ Inserting(req[c])
      /\ req[c].tag \in Tags /\ m \in Images
      /\ \A x \in req[c].saved \cup req[c].unchanged : Held(x, Rows)
  BY RefreshHolds DEF RefreshDownload, ArtistInv, Inserting, Refreshes
<1>2. CASE Becomes(c, [req[c] EXCEPT !.at = "platform", !.media = {}]) /\ UNCHANGED files
  <2> DEFINE r == [req[c] EXCEPT !.at = "platform", !.media = {}]
  <2>1. r \in Archiving /\ r.at = "platform" /\ r.tag = req[c].tag /\ r.saved = req[c].saved
        /\ r.unchanged = req[c].unchanged
    BY <1>1 DEF Archiving
  <2>2. Becomes(c, r)
    BY <1>2
  <2> HIDE DEF r
  <2> QED
    BY <1>1, <1>2, <2>1, <2>2, RefreshGoes DEF RefreshDownload
<1>3. CASE Duplicate(m) /\ Kept(c, m) /\ UNCHANGED files
  <2> DEFINE r == [req[c] EXCEPT !.at = "asset", !.media = @ \ {m}, !.unchanged = @ \cup {m}]
  <2>1. Held(m, Rows)
    BY <1>3 DEF Held, Duplicate, Downloaded
  <2>2. Becomes(c, r)
    BY <1>3 DEF Kept
  <2> HIDE DEF m
  <2>3. r \in Archiving /\ r.at = "asset" /\ r.tag = req[c].tag /\ r.saved = req[c].saved
        /\ r.unchanged = req[c].unchanged \cup {m}
    BY <1>1 DEF Archiving
  <2> HIDE DEF r
  <2>4. \A x \in r.saved \cup r.unchanged : Held(x, Rows)
    BY <1>1, <2>1, <2>3
  <2> QED
    BY <1>1, <1>3, <2>2, <2>3, <2>4, RefreshGoes DEF RefreshDownload
<1>4. CASE /\ files' = files \cup {NewFile(m)}
           /\ Becomes(c, [req[c] EXCEPT !.at = "insert", !.file = [url |-> m.url, file |-> NewFile(m)],
                                      !.media = @ \ {m}, !.saved = @ \cup {m}])
  <2> DEFINE r == [req[c] EXCEPT !.at = "insert", !.file = [url |-> m.url, file |-> NewFile(m)],
                                 !.media = @ \ {m}, !.saved = @ \cup {m}]
  <2>1. NewFile(m) \in Copies /\ Identity(NewFile(m)) = Identity(m)
        /\ NewFile(m).content = ContentOf[m.url]
    BY <1>1, NewFileIsCopy DEF ArtistInv
  <2>2. Becomes(c, r) /\ NewFile(m) \in files'
    BY <1>4
  <2>3. /\ r \in Archiving /\ r.at = "insert" /\ r.tag = req[c].tag
        /\ r.file = [url |-> m.url, file |-> NewFile(m)]
        /\ r.saved = req[c].saved \cup {m} /\ r.unchanged = req[c].unchanged
    <3> HIDE DEF m
    <3>1. [url |-> m.url, file |-> NewFile(m)] \in NewCopies
      BY <1>1, <2>1 DEF NewCopies, Images
    <3> QED
      BY <1>1, <3>1 DEF Archiving
  <2> HIDE DEF r, m
  <2>4. UNCHANGED <<tables, remote, gone, past>> /\ Rows' = Rows
    BY DEF RefreshDownload, Rows, tables
  <2>5. Refreshes(r, files' \cup gone', Rows')
    BY <1>1, <2>1, <2>2, <2>3, <2>4 DEF Refreshes, NewCopies, Images
  <2>6. Fits(r, files' \cup gone', Rows')
    BY <2>3, <2>5 DEF Fits, Holdings, Archiving, Saving, Writing
  <2>7. RequestsFit' /\ req'[c] = r /\ \A d \in Callers : d # c => req'[d] = req[d]
    BY <1>4, <2>2, <2>4, <2>6, OneRequestSteps DEF ArtistInv
  <2>8. TablesAreTyped'
    BY <1>4, <2>4, FS_AddElement DEF ArtistInv, TablesAreTyped, tables, remote
  <2>9. ArtistTypeOK' /\ WikiIsHonest' /\ SeenIsUpTo'
    BY <2>4 DEF ArtistInv, ArtistTypeOK, Tracked, WikiIsHonest, SeenIsUpTo, tables
  <2>10. VersionsAreKept'
    <3>1. \A x \in Rows' : x.file \in files' \/ x.file \in gone'
      BY <1>4, <2>4 DEF ArtistInv, VersionsAreKept, Shows
    <3>2. \A i, j \in DOMAIN assets' : assets'[i].file.content = assets'[j].file.content
                                       /\ Identity(assets'[i]) = Identity(assets'[j]) => i = j
      BY <2>4 DEF ArtistInv, VersionsAreKept, tables
    <3>3. ASSUME NEW f \in files'
          PROVE  \/ past'.cut \/ past'.clashed
                 \/ \E x \in Rows' : x.file = f
                 \/ \E d \in Callers : req'[d].op = "refresh" /\ req'[d].at = "insert"
                                       /\ req'[d].file.file = f
      <4>1. CASE f \in files
        BY <1>1, <2>4, <2>7, <4>1 DEF ArtistInv, VersionsAreKept, Inserting
      <4>2. CASE f = NewFile(m)
        BY <2>3, <2>7, <4>2 DEF Archiving
      <4> QED
        BY <1>4, <4>1, <4>2
    <3> QED
      BY <3>1, <3>2, <3>3 DEF VersionsAreKept, Shows
  <2> QED
    BY <2>7, <2>8, <2>9, <2>10 DEF ArtistInv
<1> QED
  BY <1>2, <1>3, <1>4 DEF RefreshDownload

LEMMA InsertStep ==
    ASSUME ArtistInv, NEW c \in Callers, RefreshInsert(c)
    PROVE  ArtistInv'
<1> DEFINE f == req[c].file
<1>1. /\ req[c] \in Archiving /\ req[c].at = "insert" /\ req[c].op = "refresh"
      /\ req[c].tag \in Tags /\ f \in NewCopies
      /\ f.file.content = ContentOf[f.url] /\ f.file \in files \cup gone
      /\ \A x \in req[c].saved \cup req[c].unchanged :
            \/ Held(x, Rows)
            \/ f.url = x.url /\ Identity(f.file) = Identity(x)
  <2>1. req[c].op = "refresh" /\ req[c].at = "insert"
    BY DEF RefreshInsert
  <2>2. req[c] \in Archiving /\ Refreshes(req[c], files \cup gone, Rows)
    BY <2>1, RefreshHolds DEF ArtistInv
  <2> QED
    BY <2>1, <2>2 DEF Refreshes
<1>2. UNCHANGED <<wiki, follows, unseen, seen, danbooru, profiles, files, gone>>
  BY DEF RefreshInsert, remote
<1> HIDE DEF f
<1>3. CASE End(c) /\ Note("clashed") /\ UNCHANGED assets
  <2>1. past' \in [raced : BOOLEAN, clashed : BOOLEAN, cut : BOOLEAN] /\ past'.clashed
        /\ past'.raced = past.raced
    BY <1>3 DEF Note, ArtistInv, TablesAreTyped
  <2>2. Rows' = Rows
    BY <1>3 DEF Rows
  <2>3. Fits(Idle, files' \cup gone', Rows')
    BY PlainFits
  <2>4. RequestsFit'
    BY <1>2, <1>3, <2>2, <2>3, OneRequestSteps DEF ArtistInv, End, Becomes
  <2>5. ArtistTypeOK' /\ WikiIsHonest' /\ SeenIsUpTo' /\ TablesAreTyped'
    BY <1>2, <1>3, <2>1, <2>2 DEF ArtistInv, ArtistTypeOK, Tracked, WikiIsHonest, SeenIsUpTo, TablesAreTyped
  <2>6. VersionsAreKept'
    BY <1>2, <1>3, <2>1, <2>2 DEF ArtistInv, VersionsAreKept, Shows
  <2> QED
    BY <2>4, <2>5, <2>6 DEF ArtistInv
<1>4. CASE /\ \A x \in Rows : ~ (Identity(x) = Identity(f.file) /\ x.file.content = f.file.content)
           /\ assets' = Append(assets, Row(f))
           /\ Go(c, "asset") /\ UNCHANGED past
  <2> DEFINE r == [req[c] EXCEPT !.at = "asset"]
  <2>1. Row(f) \in AssetRows /\ Row(f).url = f.url /\ Row(f).file = f.file
        /\ Identity(Row(f)) = Identity(f.file)
    BY <1>1 DEF Row, AssetRows, NewCopies, Copies, Identity, Asset
  <2>2. /\ assets \in Seq(AssetRows) /\ assets' \in Seq(AssetRows)
        /\ DOMAIN assets = 1 .. Len(assets) /\ DOMAIN assets' = 1 .. Len(assets) + 1
        /\ Len(assets) \in Nat
        /\ \A i \in DOMAIN assets : assets'[i] = assets[i]
        /\ assets'[Len(assets) + 1] = Row(f)
    BY <1>4, <2>1 DEF ArtistInv, TablesAreTyped
  <2>3. Rows' = Rows \cup {Row(f)}
    BY <2>2 DEF Rows, Range
  <2>4. r \in Archiving /\ r.at = "asset" /\ r.tag = req[c].tag /\ r.saved = req[c].saved
        /\ r.unchanged = req[c].unchanged
    BY <1>1 DEF Archiving
  <2>5. Becomes(c, r)
    BY <1>4 DEF Go, Becomes
  <2> HIDE DEF r
  <2>6. \A x \in r.saved \cup r.unchanged : Held(x, Rows')
    BY <1>1, <2>1, <2>3, <2>4 DEF Held
  <2>7. Fits(r, files' \cup gone', Rows')
    BY <1>1, <2>4, <2>6, RefreshFits
  <2>8. RequestsFit' /\ req'[c] = r /\ \A d \in Callers : d # c => req'[d] = req[d]
    BY <1>2, <2>3, <2>5, <2>7, OneRequestSteps DEF ArtistInv
  <2>9. ArtistTypeOK'
    BY <1>1, <1>2, <2>1, <2>3 DEF ArtistInv, ArtistTypeOK, Tracked, NewCopies
  <2>10. WikiIsHonest' /\ SeenIsUpTo' /\ TablesAreTyped'
    BY <1>2, <1>4, <2>2 DEF ArtistInv, WikiIsHonest, SeenIsUpTo, TablesAreTyped
  <2>11. VersionsAreKept'
    <3>1. \A x \in Rows' : x.file \in files' \/ x.file \in gone'
      BY <1>1, <1>2, <2>1, <2>3 DEF ArtistInv, VersionsAreKept, Shows
    <3>2. ASSUME NEW i \in DOMAIN assets', NEW j \in DOMAIN assets',
                 assets'[i].file.content = assets'[j].file.content,
                 Identity(assets'[i]) = Identity(assets'[j])
          PROVE  i = j
      <4>1. \A k \in DOMAIN assets : assets[k] \in Rows
        BY DEF Rows, Range
      <4>2. CASE i \in DOMAIN assets /\ j \in DOMAIN assets
        BY <2>2, <3>2, <4>2 DEF ArtistInv, VersionsAreKept
      <4>3. CASE i \in DOMAIN assets /\ j = Len(assets) + 1
        BY <1>4, <2>1, <2>2, <3>2, <4>1, <4>3
      <4>4. CASE j \in DOMAIN assets /\ i = Len(assets) + 1
        BY <1>4, <2>1, <2>2, <3>2, <4>1, <4>4
      <4>5. CASE i = Len(assets) + 1 /\ j = Len(assets) + 1
        BY <4>5
      <4> QED
        BY <2>2, <4>2, <4>3, <4>4, <4>5
    <3>3. ASSUME NEW g \in files'
          PROVE  \/ past'.cut \/ past'.clashed
                 \/ \E x \in Rows' : x.file = g
                 \/ \E d \in Callers : req'[d].op = "refresh" /\ req'[d].at = "insert"
                                       /\ req'[d].file.file = g
      <4>1. CASE g = f.file
        BY <2>1, <2>3, <4>1
      <4>2. CASE g # f.file
        BY <1>2, <1>4, <2>3, <2>8, <4>2 DEF ArtistInv, VersionsAreKept, f
      <4> QED
        BY <4>1, <4>2
    <3> QED
      BY <3>1, <3>2, <3>3 DEF VersionsAreKept, Shows
  <2> QED
    BY <2>8, <2>9, <2>10, <2>11 DEF ArtistInv
<1> QED
  BY <1>3, <1>4 DEF RefreshInsert, f

LEMMA RefreshStep ==
    ASSUME ArtistInv, NEW c \in Callers, Refresh(c)
    PROVE  ArtistInv'
<1>1. ASSUME NEW t \in Tags, RefreshOne(c, t) PROVE ArtistInv'
  BY <1>1, RefreshBegins DEF RefreshOne
<1>2. CASE RefreshFollowed(c)
  BY <1>2, RefreshBegins DEF RefreshFollowed, Followed
<1> QED
  BY <1>1, <1>2, RefreshLooks, DownloadStep, InsertStep DEF Refresh

-----------------------------------------------------------------------------
(* The world around.                                                       *)

LEMMA ElsewhereStep ==
    ASSUME ArtistInv, Elsewhere
    PROVE  ArtistInv'
<1> USE DataAssumption
<1>1. UNCHANGED <<wiki, follows, unseen, seen, assets, files, gone, req, past>>
  BY DEF Elsewhere, tables
<1>2. /\ danbooru' \in [Tags -> Entries]
      /\ profiles' \in [Tags -> [Platforms -> [Kinds -> Urls \cup {Null}]]]
  <2>1. PICK t \in Tags :
          \/ \E p \in Posts : danbooru' = [danbooru EXCEPT ![t].posts = @ \cup {p}] /\ UNCHANGED profiles
          \/ \E g \in Pages : danbooru' = [danbooru EXCEPT ![t].page = g] /\ UNCHANGED profiles
          \/ \E p \in Platforms, k \in Kinds, u \in Urls \cup {Null} :
                profiles' = [profiles EXCEPT ![t][p][k] = u] /\ UNCHANGED danbooru
    BY DEF Elsewhere
  <2>2. danbooru \in [Tags -> Entries]
    BY DEF ArtistInv, TablesAreTyped
  <2>3. CASE \E p \in Posts : danbooru' = [danbooru EXCEPT ![t].posts = @ \cup {p}] /\ UNCHANGED profiles
    <3>1. PICK p \in Posts : danbooru' = [danbooru EXCEPT ![t].posts = @ \cup {p}]
      BY <2>3
    <3>2. [danbooru[t] EXCEPT !.posts = @ \cup {p}] \in Entries
      BY <2>2 DEF Entries
    <3> QED
      BY <2>3, <2>2, <3>1, <3>2 DEF ArtistInv, TablesAreTyped
  <2>4. CASE \E g \in Pages : danbooru' = [danbooru EXCEPT ![t].page = g] /\ UNCHANGED profiles
    <3>1. PICK g \in Pages : danbooru' = [danbooru EXCEPT ![t].page = g]
      BY <2>4
    <3>2. [danbooru[t] EXCEPT !.page = g] \in Entries
      BY <2>2 DEF Entries, DataAssumption
    <3> QED
      BY <2>4, <2>2, <3>1, <3>2 DEF ArtistInv, TablesAreTyped
  <2>5. CASE \E p \in Platforms, k \in Kinds, u \in Urls \cup {Null} :
                profiles' = [profiles EXCEPT ![t][p][k] = u] /\ UNCHANGED danbooru
    BY <2>5, <2>2 DEF ArtistInv, TablesAreTyped
  <2> QED
    BY <2>1, <2>3, <2>4, <2>5
<1>3. RequestsFit' /\ VersionsAreKept' /\ Rows' = Rows
  BY <1>1, ArchiveStays
<1>4. ArtistTypeOK' /\ WikiIsHonest' /\ SeenIsUpTo'
  BY <1>1, <1>3 DEF ArtistInv, ArtistTypeOK, Tracked, WikiIsHonest, SeenIsUpTo
<1>5. TablesAreTyped'
  BY <1>1, <1>2 DEF ArtistInv, TablesAreTyped
<1> QED
  BY <1>3, <1>4, <1>5 DEF ArtistInv

LEMMA AgeStep ==
    ASSUME ArtistInv, NEW t \in Tags, Age(t)
    PROVE  ArtistInv'
<1>1. wiki[t] # Null /\ UNCHANGED <<follows, unseen, seen, assets, danbooru, profiles, files, gone, req, past>>
  BY DEF Age, remote
<1>2. wiki[t] \in CacheRows
  BY <1>1 DEF ArtistInv, TablesAreTyped
<1> DEFINE row == [wiki[t] EXCEPT !.fresh = FALSE]
<1>3. /\ row \in CacheRows /\ row.urls = wiki[t].urls /\ row.found = wiki[t].found
      /\ row.checked = wiki[t].checked /\ row.unanswered = wiki[t].unanswered
  BY <1>2 DEF CacheRows
<1>4. wiki' = [wiki EXCEPT ![t] = row]
  BY DEF Age
<1> HIDE DEF row
<1>5. \A s \in Tags : wiki'[s] = IF s = t THEN row ELSE wiki[s]
  BY <1>4 DEF ArtistInv, TablesAreTyped
<1>6. RequestsFit' /\ VersionsAreKept' /\ Rows' = Rows
  BY <1>1, ArchiveStays
<1>7. Honest(wiki[t]) => Honest(row)
  BY <1>3 DEF Honest
<1>8. WikiIsHonest'
  BY <1>1, <1>5, <1>7 DEF ArtistInv, WikiIsHonest
<1>9. ArtistTypeOK'
  BY <1>1, <1>3, <1>5, <1>6 DEF ArtistInv, ArtistTypeOK, Tracked
<1>10. TablesAreTyped' /\ SeenIsUpTo'
  BY <1>1, <1>3, <1>4 DEF ArtistInv, TablesAreTyped, SeenIsUpTo
<1> QED
  BY <1>6, <1>8, <1>9, <1>10 DEF ArtistInv

LEMMA DiscardStep ==
    ASSUME ArtistInv, NEW f \in files, Discard(f)
    PROVE  ArtistInv'
<1>1. /\ files' = files \ {f} /\ gone' = gone \cup {f}
      /\ UNCHANGED <<wiki, follows, unseen, seen, assets, danbooru, profiles, req, past>>
  BY DEF Discard, tables, remote
<1>2. files' \cup gone' = files \cup gone /\ Rows' = Rows
  BY <1>1 DEF Rows
<1>3. RequestsFit'
  BY <1>1, <1>2 DEF ArtistInv, RequestsFit
<1>4. ArtistTypeOK' /\ WikiIsHonest' /\ SeenIsUpTo'
  BY <1>1, <1>2 DEF ArtistInv, ArtistTypeOK, Tracked, WikiIsHonest, SeenIsUpTo
<1>5. TablesAreTyped'
  BY <1>1, FS_AddElement, FS_RemoveElement DEF ArtistInv, TablesAreTyped
<1>6. VersionsAreKept'
  BY <1>1, <1>2 DEF ArtistInv, VersionsAreKept, Shows
<1> QED
  BY <1>3, <1>4, <1>5, <1>6 DEF ArtistInv

LEMMA RestartStep ==
    ASSUME ArtistInv, Restart
    PROVE  ArtistInv'
<1>1. /\ UNCHANGED <<wiki, follows, unseen, seen, assets, danbooru, profiles, files, gone>>
      /\ req' = [c \in Callers |-> Idle]
  BY DEF Restart, tables, remote
<1>2. /\ past' \in [raced : BOOLEAN, clashed : BOOLEAN, cut : BOOLEAN]
      /\ past'.raced = past.raced /\ past'.clashed = past.clashed /\ (past.cut => past'.cut)
      /\ ~ past'.cut => \A c \in Callers : ~ Inserting(req[c])
  BY DEF Restart, Note, ArtistInv, TablesAreTyped, Inserting
<1>3. Rows' = Rows
  BY <1>1 DEF Rows
<1>4. Fits(Idle, files' \cup gone', Rows')
  BY PlainFits
<1>5. RequestsFit'
  BY <1>1, <1>4 DEF RequestsFit
<1>6. ArtistTypeOK' /\ WikiIsHonest' /\ SeenIsUpTo'
  BY <1>1, <1>2, <1>3 DEF ArtistInv, ArtistTypeOK, Tracked, WikiIsHonest, SeenIsUpTo
<1>7. TablesAreTyped'
  BY <1>1, <1>2 DEF ArtistInv, TablesAreTyped
<1>8. VersionsAreKept'
  BY <1>1, <1>2, <1>3 DEF ArtistInv, VersionsAreKept, Shows, Inserting
<1> QED
  BY <1>5, <1>6, <1>7, <1>8 DEF ArtistInv

LEMMA InitIsSound ==
    ASSUME ArtistInit
    PROVE  ArtistInv
<1> USE DataAssumption, NullAssumption
<1>1. danbooru \in [Tags -> Entries]
  <2> DEFINE first == {[page |-> g, artist |-> a, platforms |-> Platforms, posts |-> {1}] :
                          g \in Pages, a \in BOOLEAN}
  <2>1. first \subseteq Entries
    BY DEF Entries, DataAssumption
  <2> HIDE DEF first
  <2>2. danbooru \in [Tags -> first]
    BY DEF ArtistInit, first
  <2> QED
    BY <2>1, <2>2
<1>2. \A t \in Tags : /\ Cached(t) \in CacheRows /\ Honest(Cached(t)) /\ Cached(t).urls \in SUBSET Platforms
                      /\ Cached(t).checked /\ Cached(t).found
  BY <1>1 DEF Entries, Cached, CacheRows, Honest, Examples
<1> DEFINE row == [first |-> TRUE, upTo |-> 1]
<1> HIDE DEF Cached, row
<1>3. /\ wiki = [t \in Tags |-> wiki[t]] /\ follows = [t \in Tags |-> follows[t]]
      /\ seen = [t \in Tags |-> seen[t]]
      /\ \A t \in Tags : \/ wiki[t] = Cached(t) /\ follows[t] = row /\ seen[t] = {1}
                         \/ wiki[t] = Null /\ follows[t] = Null /\ seen[t] = {}
  BY DEF ArtistInit, row
<1>4. /\ unseen = [t \in Tags |-> {}] /\ assets = <<>> /\ files = {} /\ gone = {}
      /\ req = [c \in Callers |-> Idle] /\ past = NoPast
      /\ profiles = [t \in Tags |-> [p \in Platforms |-> [k \in Kinds |-> FirstUrl]]]
  BY DEF ArtistInit
<1>5. Rows = {} /\ DOMAIN assets = {}
  BY <1>4 DEF Rows, Range
<1>6. 1 \in Posts /\ FirstUrl \in Urls
  BY DEF DataAssumption
<1>7. ArtistTypeOK
  <2>1. row \in [first : BOOLEAN, upTo : Posts \cup {Null}] /\ row # Null /\ row.upTo = 1
    BY <1>6, RowsAreNotNull DEF row
  <2>2. \A t \in Tags : wiki[t] # Null => wiki[t] = Cached(t)
    BY <1>3
  <2>3. follows \in [Tags -> [first : BOOLEAN, upTo : Posts \cup {Null}] \cup {Null}]
    BY <1>3, <2>1
  <2>4. \A t \in Tags : /\ unseen[t] \cap seen[t] = {} /\ Tracked(t) \subseteq Posts
                        /\ follows[t] = Null => Tracked(t) = {}
    BY <1>3, <1>4, <1>6, <2>1 DEF Tracked
  <2>5. \A t \in Tags : wiki[t] # Null => /\ wiki[t].urls \subseteq Platforms
                                          /\ wiki[t].checked <=> wiki[t].found
    BY <1>2, <2>2
  <2> QED
    BY <1>5, <2>3, <2>4, <2>5 DEF ArtistTypeOK
<1>8. TablesAreTyped
  <2>1. IsFiniteSet(files) /\ IsFiniteSet(gone)
    BY <1>4, FS_EmptySet
  <2>2. past \in [raced : BOOLEAN, clashed : BOOLEAN, cut : BOOLEAN]
    BY <1>4 DEF NoPast
  <2>3. assets \in Seq(AssetRows)
    BY <1>4
  <2> QED
    BY <1>1, <1>2, <1>3, <1>4, <1>6, <2>1, <2>2, <2>3 DEF TablesAreTyped
<1>9. RequestsFit
  BY <1>4, PlainFits DEF RequestsFit
<1>10. WikiIsHonest
  BY <1>2, <1>3 DEF WikiIsHonest
<1>11. VersionsAreKept
  BY <1>4, <1>5 DEF VersionsAreKept
<1>12. SeenIsUpTo
  BY <1>3 DEF SeenIsUpTo, row
<1> QED
  BY <1>7, <1>8, <1>9, <1>10, <1>11, <1>12 DEF ArtistInv

\* Every state the requests can reach satisfies the inductive invariant.
LEMMA ArtistsInvariant == ArtistSpec => []ArtistInv
<1>1. ASSUME ArtistInv, [ArtistNext]_artistVars PROVE ArtistInv'
  <2>1. CASE UNCHANGED artistVars
    BY <1>1, <2>1, OnlyRequestsStep DEF artistVars, tables, remote
  <2> QED
    BY <1>1, <2>1, ViewStep, WatchStep, RefreshStep, ElsewhereStep, AgeStep, DiscardStep,
       RestartStep DEF ArtistNext
<1> QED
  BY <1>1, InitIsSound, PTL DEF ArtistSpec

-----------------------------------------------------------------------------
\* Posts are kept for followed artists only, rows have the image of their
\* address, and the archive keeps one row and one file of every version that it
\* took (archive_artist_profile_asset, ON DELETE CASCADE), whatever overlaps,
\* fails or is killed.
THEOREM ArchiveIsSound == ArtistSpec => []ArtistSound
<1>1. ArtistInv => ArtistSound
  BY DEF ArtistInv, ArtistSound
<1> QED
  BY <1>1, ArtistsInvariant, PTL

\* A failed question for a page or an artist is never cached as its answer, and
\* a failed list of addresses leaves those of the artist's entry, however
\* requests for one page overlap (fetch_tag_wiki_values,
\* tag_wiki_cache_complete_for_category).
THEOREM LookupsStayHonest == ArtistSpec => []LookupsAreHonest
<1>1. ASSUME ArtistInv PROVE LookupsAreHonest
  <2>1. \A t \in Tags : danbooru[t].platforms = Platforms
    BY <1>1 DEF ArtistInv, TablesAreTyped, Entries
  <2> QED
    BY <1>1, <2>1 DEF ArtistInv, WikiIsHonest, Honest, LookupsAreHonest, CompleteForCategory
<1> QED
  BY <1>1, ArtistsInvariant, PTL

\* What a refresh counts as saved or unchanged has a row in the archive, and its
\* file unless the user removed that, also when two refreshes archive one image
\* (archive_artist_profile_asset).
THEOREM AnswersAreTrue == ArtistSpec => []AnswersAreHeld
<1>1. ASSUME ArtistInv PROVE AnswersAreHeld
  <2>1. \A m : Held(m, Rows) => Archived(m)
    BY <1>1 DEF ArtistInv, VersionsAreKept, Held, Archived, Downloaded
  <2>2. ASSUME NEW c \in Callers, req[c].op = "refresh",
               NEW m \in req[c].saved \cup req[c].unchanged
        PROVE  Archived(m) \/ Records(req[c], m)
    <3>1. Refreshes(req[c], files \cup gone, Rows)
      BY <1>1, <2>2, RefreshHolds DEF ArtistInv
    <3> QED
      BY <2>1, <2>2, <3>1 DEF Refreshes, Records, Downloaded
  <2> QED
    BY <2>2 DEF AnswersAreHeld
<1> QED
  BY <1>1, ArtistsInvariant, PTL

\* Nothing else than the user's own request marks a post seen once the
\* notifications of its artist began, and no post is lost or turns new again
\* (check_artist_danbooru_posts, mark_artist_follow_seen).
THEOREM NoNewsIsLost == ArtistSpec => NewsIsKept
<1> DEFINE News == \A t \in Tags : follows[t] # Null /\ follows'[t] # Null =>
          /\ seen[t] \subseteq seen'[t] /\ unseen[t] \subseteq unseen'[t] \cup seen'[t]
          /\ \/ past'.raced
             \/ /\ follows[t].first => \/ seen'[t] = seen[t]
                                       \/ \E c \in Callers : req[c].op = "seen" /\ req'[c] = Idle
                /\ follows'[t].upTo # Null => \A p \in seen'[t] : p <= follows'[t].upTo
<1>1. ASSUME ArtistInv, ArtistInv', [ArtistNext]_artistVars PROVE News
  <2> SUFFICES ASSUME NEW t \in Tags, follows[t] # Null, follows'[t] # Null
               PROVE  /\ seen[t] \subseteq seen'[t] /\ unseen[t] \subseteq unseen'[t] \cup seen'[t]
                      /\ ~ past'.raced /\ follows[t].first =>
                            \/ seen'[t] = seen[t]
                            \/ \E c \in Callers : req[c].op = "seen" /\ req'[c] = Idle
    BY <1>1 DEF ArtistInv, SeenIsUpTo
  <2>1. CASE seen'[t] = seen[t] /\ unseen[t] \subseteq unseen'[t]
    BY <2>1
  <2>2. ASSUME NEW c \in Callers, CheckWrite(c)
        PROVE  /\ seen[t] \subseteq seen'[t] /\ unseen[t] \subseteq unseen'[t] \cup seen'[t]
               /\ ~ past'.raced /\ follows[t].first => seen'[t] = seen[t]
    <3>1. req[c] \in Writing /\ ~ (req[c].baseline /\ req[c].was) /\ req[c].tag \in Tags
      BY <1>1, <2>2, KindsOfRequests DEF CheckWrite, ArtistInv, RequestsFit, Fits, Writing
    <3>2. CASE req[c].tag # t
      BY <1>1, <2>2, <3>2 DEF CheckWrite, ArtistInv, TablesAreTyped
    <3>3. CASE req[c].tag = t /\ req[c].baseline
      <4>1. seen'[t] = Tracked(t) \cup req[c].ids
        BY <1>1, <2>2, <3>3 DEF CheckWrite, ArtistInv, TablesAreTyped
      <4>2. follows[t].first => past'.raced
        BY <1>1, <2>2, <3>1, <3>3 DEF CheckWrite, Note, ArtistInv, ArtistTypeOK, TablesAreTyped, Writing
      <4> QED
        BY <4>1, <4>2 DEF Tracked
    <3>4. CASE req[c].tag = t /\ ~ req[c].baseline
      <4>1. seen'[t] = seen[t] /\ unseen'[t] = (Tracked(t) \cup req[c].ids) \ seen[t]
        BY <1>1, <2>2, <3>4 DEF CheckWrite, ArtistInv, TablesAreTyped
      <4> QED
        BY <4>1 DEF Tracked
    <3> QED
      BY <3>2, <3>3, <3>4
  <2>3. ASSUME NEW c \in Callers, SeenWrite(c)
        PROVE  /\ seen[t] \subseteq seen'[t] /\ unseen[t] \subseteq unseen'[t] \cup seen'[t]
               /\ req[c].op = "seen" /\ req'[c] = Idle
    <3>1. req[c].op = "seen" /\ req'[c] = Idle
      BY <1>1, <2>3 DEF SeenWrite, End, ArtistInv, RequestsFit
    <3>2. CASE req[c].tag # t
      BY <1>1, <2>3, <3>1, <3>2 DEF SeenWrite, ArtistInv, TablesAreTyped
    <3>3. CASE req[c].tag = t
      <4>1. seen'[t] = Tracked(t)
        BY <1>1, <2>3, <3>3 DEF SeenWrite, ArtistInv, TablesAreTyped
      <4> QED
        BY <3>1, <4>1 DEF Tracked
    <3> QED
      BY <3>2, <3>3
  <2>4. ASSUME NEW c \in Callers, Watch(c)
        PROVE  \/ seen'[t] = seen[t] /\ unseen[t] \subseteq unseen'[t]
               \/ CheckWrite(c) \/ SeenWrite(c)
    <3>1. ASSUME NEW s \in Tags, Follow(c, s)
          PROVE  seen'[t] = seen[t] /\ unseen[t] \subseteq unseen'[t]
      BY <1>1, <3>1 DEF Follow, ArtistInv, TablesAreTyped
    <3>4. ASSUME NEW s \in Tags, Unfollow(c, s)
          PROVE  seen'[t] = seen[t] /\ unseen[t] \subseteq unseen'[t]
      <4>1. s # t
        BY <1>1, <3>4 DEF Unfollow, ArtistInv, ArtistTypeOK
      <4> QED
        BY <1>1, <3>4, <4>1 DEF Unfollow, ArtistInv, TablesAreTyped
    <3>2. CASE ListSeed(c)
      BY <1>1, <3>2 DEF ListSeed, ArtistInv, TablesAreTyped
    <3>3. CASE UNCHANGED <<seen, unseen>>
      BY <3>3
    <3> QED
      BY <2>4, <3>1, <3>2, <3>3, <3>4 DEF Watch, SeenRead, CheckStart, CheckFetch, CheckRead, ListRead, tables
  <2>5. \/ UNCHANGED <<seen, unseen>>
        \/ \E c \in Callers : Watch(c)
    <3>1. ASSUME NEW c \in Callers, View(c) PROVE UNCHANGED <<seen, unseen>>
      BY <3>1 DEF View, ViewCached, ViewStale, ViewFetch, ViewSave, tables
    <3>2. ASSUME NEW c \in Callers, Refresh(c) PROVE UNCHANGED <<seen, unseen>>
      BY <3>2 DEF Refresh, RefreshOne, RefreshFollowed, RefreshStart, RefreshArtist, RefreshPlatform,
             RefreshAsset, RefreshDownload, RefreshInsert, tables
    <3> QED
      BY <1>1, <3>1, <3>2 DEF ArtistNext, artistVars, Elsewhere, Age, Discard, Restart, tables
  <2> QED
    BY <2>1, <2>2, <2>3, <2>4, <2>5
<1> QED
  BY <1>1, ArtistsInvariant, PTL DEF ArtistSpec, NewsIsKept
=============================================================================
