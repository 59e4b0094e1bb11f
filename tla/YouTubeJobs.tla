------------------------------ MODULE YouTubeJobs ------------------------------
(***************************************************************************)
(* The YouTube download queue (backend/modules/youtube/jobs.py): durable   *)
(* records in the user database, a list of pending jobs in memory, one     *)
(* queue task on the event loop, one downloader process, and a thread that *)
(* publishes a finished download into a folder that other requests may     *)
(* give away or forget meanwhile.                                          *)
(*                                                                         *)
(* The queue task and its event reader share the event loop: one of them   *)
(* runs until it awaits.  Requests and the publisher are threads and run   *)
(* between any two database calls, so a status read and the update that    *)
(* depends on it are two steps unless _lock protects both sides.           *)
(***************************************************************************)
EXTENDS Naturals, Sequences, FiniteSets

CONSTANTS
    Jobs, NoJob,
    Same,          \* pairs of jobs with the same url, folder and qualities
    MaxPending,    \* 20 in the code
    Users,         \* threads that serve cancel requests
    Nobody, Publisher,
    Contended      \* may other maintenance hold the operation lock?

ASSUME JobsAssumption ==
    /\ NoJob \notin Jobs /\ Same \subseteq Jobs \X Jobs
    /\ MaxPending \in Nat \ {0} /\ Contended \in BOOLEAN
    /\ Nobody \notin Users /\ Publisher \notin Users /\ Nobody # Publisher

VARIABLES
    role,        \* the role of the destination folder, "none" if unlisted
    status,      \* the status column of youtube_downloads
    published,   \* jobs whose staging folder was renamed to its final place
    pending,     \* _pending
    lock,        \* owner of _lock
    cancelling,  \* the job each user thread is cancelling, once read
    queue, job,  \* where run_queue and execute are, and their current job
    outcome,     \* how execute leaves its finally block
    merging,     \* events() has read a live status and is about to write
    process,     \* the downloader process
    publisher,   \* where the publish thread is
    asked,       \* the queue task was cancelled and has not noticed
    module,      \* the module, as ModuleRuntime drives it
    transition   \* _module_transition of maintenance.py

records == <<role, status, published>>
loop    == <<queue, job, outcome, merging, process, asked>>
vars == <<records, pending, lock, cancelling, loop, publisher, module, transition>>

Live     == {"queued", "downloading", "merging"}
Terminal == {"complete", "cancelled", "failed", "interrupted"}
Executing == {"prepare", "launching", "poll", "collect", "publishing", "kill"}
Awaiting  == {"idle", "launching", "poll", "collect", "publishing", "kill"}
Publishing == {"lock", "check", "rename", "integrate", "complete"}

TypeOK ==
    /\ role \in {"youtube", "files", "none"}
    /\ status \in [Jobs -> {"none"} \cup Live \cup Terminal]
    /\ published \in SUBSET Jobs
    /\ pending \in Seq(Jobs) /\ Len(pending) <= MaxPending
    /\ lock \in Users \cup {Nobody, Publisher}
    /\ cancelling \in [Users -> Jobs \cup {NoJob}]
    /\ queue \in {"none", "got", "mark", "fail", "failWrite", "recover"} \cup Awaiting \cup Executing
    /\ job \in Jobs \cup {NoJob}
    /\ outcome \in {"return", "error", "cancel"}
    /\ merging \in BOOLEAN
    /\ process \in {"none", "running", "killed", "succeeded", "failed"}
    /\ publisher \in {"none", "start", "ok", "error"} \cup Publishing
    /\ asked \in BOOLEAN /\ transition \in BOOLEAN
    /\ module \in {"running", "stopping", "off", "crashed"}

Init ==
    /\ role = "youtube"
    /\ status = [j \in Jobs |-> "none"] /\ published = {}
    /\ pending = <<>> /\ lock = Nobody
    /\ cancelling = [u \in Users |-> NoJob]
    /\ queue = "idle" /\ job = NoJob /\ outcome = "return"
    /\ merging = FALSE /\ process = "none" /\ asked = FALSE
    /\ publisher = "none"
    /\ module = "running" /\ transition = FALSE

-----------------------------------------------------------------------------
(* Requests.  module_guard admits them while the module runs undisturbed.  *)

Admitted == module = "running" /\ ~transition

\* destination: the folder is listed and a role lets downloads in.
Destination == role \in {"files", "youtube"}

\* The module adopts the folder, and releases it to Files or forgets it.
Adopt   == Admitted /\ role # "none" /\ role' = "youtube"
Release == Admitted /\ role = "youtube" /\ role' \in {"files", "none"}

\* Files lists the folder anew, or withdraws or hides its own.
Share == role # "youtube" /\ role' = IF role = "none" THEN "files" ELSE "none"

FolderChanges ==
    /\ Adopt \/ Release \/ Share
    /\ UNCHANGED <<status, published, pending, lock, cancelling, loop, publisher, module, transition>>

Create(j) ==
    /\ Admitted /\ Destination /\ lock = Nobody
    /\ status[j] = "none"
    /\ \A i \in Jobs : <<i, j>> \in Same => status[i] \notin Live
    /\ Len(pending) < MaxPending
    /\ status' = [status EXCEPT ![j] = "queued"]
    /\ pending' = Append(pending, j)
    /\ UNCHANGED <<role, published, lock, cancelling, loop, publisher, module, transition>>

\* A job that did not complete is created once more, with its fields.
Retry(i, j) ==
    /\ <<i, j>> \in Same
    /\ status[i] \in {"failed", "cancelled", "interrupted"}
    /\ Create(j)

\* Mutant: cancel does not hold the lock between its read and its write.
CancelReadUnlocked(u, j) ==
    /\ Admitted /\ lock = Nobody
    /\ cancelling[u] = NoJob
    /\ status[j] \in Live
    /\ cancelling' = [cancelling EXCEPT ![u] = j]
    /\ UNCHANGED <<records, pending, lock, loop, publisher, module, transition>>

\* cancel reads the record under _lock ...
CancelRead(u, j) ==
    /\ Admitted /\ lock = Nobody
    /\ cancelling[u] = NoJob
    /\ status[j] \in Live
    /\ lock' = u
    /\ cancelling' = [cancelling EXCEPT ![u] = j]
    /\ UNCHANGED <<records, pending, loop, publisher, module, transition>>

\* ... and then writes it, whatever writers without _lock did meanwhile.
CancelWrite(u) ==
    /\ cancelling[u] # NoJob
    /\ status' = [status EXCEPT ![cancelling[u]] = "cancelled"]
    /\ cancelling' = [cancelling EXCEPT ![u] = NoJob]
    /\ lock' = Nobody
    /\ UNCHANGED <<role, published, pending, loop, publisher, module, transition>>

-----------------------------------------------------------------------------
(* run_queue. *)

\* The event loop runs the queue task: nothing else does, and it was not
\* cancelled since its last await.
Runs(where) == queue = where /\ ~merging /\ ~asked

Take ==
    /\ Runs("idle") /\ lock = Nobody /\ pending # <<>>
    /\ job' = Head(pending)
    /\ pending' = Tail(pending)
    /\ queue' = "got"
    /\ UNCHANGED <<records, lock, cancelling, outcome, merging, process, asked, publisher, module,
                   transition>>

\* A job that was cancelled while it was pending is skipped.
Look ==
    /\ queue = "got"
    /\ IF status[job] = "queued"
       THEN queue' = "mark" /\ UNCHANGED job
       ELSE queue' = "idle" /\ job' = NoJob
    /\ UNCHANGED <<records, pending, lock, cancelling, outcome, merging, process, asked, publisher,
                   module, transition>>

\* update writes without looking again.
Mark ==
    /\ queue = "mark"
    /\ status' = [status EXCEPT ![job] = "downloading"]
    /\ queue' = "prepare"
    /\ UNCHANGED <<role, published, pending, lock, cancelling, job, outcome, merging, process, asked,
                   publisher, module, transition>>

\* Mutant: the failure is logged and not recorded.
FailQuietly ==
    /\ queue = "fail"
    /\ queue' = "idle" /\ job' = NoJob
    /\ UNCHANGED <<records, pending, lock, cancelling, outcome, merging, process, asked, publisher,
                   module, transition>>

\* The handler of a failed execute reads the record ...
FailRead ==
    /\ queue = "fail"
    /\ IF status[job] # "cancelled"
       THEN queue' = "failWrite" /\ UNCHANGED job
       ELSE queue' = "idle" /\ job' = NoJob
    /\ UNCHANGED <<records, pending, lock, cancelling, outcome, merging, process, asked, publisher,
                   module, transition>>

\* ... and writes it.
FailWrite ==
    /\ queue = "failWrite"
    /\ status' = [status EXCEPT ![job] = "failed"]
    /\ queue' = "idle"
    /\ job' = NoJob
    /\ UNCHANGED <<role, published, pending, lock, cancelling, outcome, merging, process, asked,
                   publisher, module, transition>>

\* recover: nothing stays pending, and what was live is interrupted.
Interrupted(s) == [j \in Jobs |-> IF s[j] \in Live THEN "interrupted" ELSE s[j]]

\* The finally block of run_queue; the task then ends.
Recover ==
    /\ queue = "recover" /\ lock = Nobody
    /\ status' = Interrupted(status)
    /\ pending' = <<>>
    /\ queue' = "none"
    /\ job' = NoJob
    /\ UNCHANGED <<role, published, lock, cancelling, outcome, merging, process, asked, publisher, module,
                   transition>>

-----------------------------------------------------------------------------
(* execute. *)

\* terminate: the process group is killed if it still runs.
Terminate(p) == IF p = "running" THEN "killed" ELSE p

\* Enter the finally block.
Finally(how) ==
    /\ queue' = "kill"
    /\ outcome' = how
    /\ process' = Terminate(process)

\* child_directory, which makes the staging directory: links are refused.
ChildDirectory == {"launching", "fail"}

\* The folder, the staging directory and the tools are checked.
Prepare ==
    /\ queue = "prepare"
    /\ queue' \in IF Destination THEN ChildDirectory ELSE {"fail"}
    /\ UNCHANGED <<records, pending, lock, cancelling, job, outcome, merging, process, asked,
                   publisher, module, transition>>

\* create_subprocess_exec answers, with a process or an error.  A cancelled
\* task waits for it all the same; then the error takes the place of the
\* cancellation, or the process is killed.
Launch ==
    /\ queue = "launching"
    /\ \/ /\ queue' = "fail"
          /\ UNCHANGED <<process, outcome>>
       \/ IF asked
          THEN process' = Terminate("running") /\ queue' = "kill" /\ outcome' = "cancel"
          ELSE process' = "running" /\ queue' = "poll" /\ UNCHANGED outcome
    /\ asked' = FALSE
    /\ UNCHANGED <<records, pending, lock, cancelling, job, merging, publisher, module, transition>>

\* download, in the process: it reports the finished media last, or raises.
Download == {"succeeded", "failed"}

\* main, which exits with the outcome, unless the process is killed.
ProcessEnds ==
    /\ process \in {"running", "killed"}
    /\ process' \in IF process = "killed" THEN {"failed"} ELSE Download
    /\ UNCHANGED <<records, pending, lock, cancelling, queue, job, outcome, merging, asked,
                   publisher, module, transition>>

\* events() handles a merging event: the status is read ...
EventRead ==
    /\ queue \in {"poll", "collect"} /\ process # "none" /\ ~merging
    /\ status[job] \notin {"cancelled", "interrupted"}
    /\ merging' = TRUE
    /\ UNCHANGED <<records, pending, lock, cancelling, queue, job, outcome, process, asked,
                   publisher, module, transition>>

\* ... and written.
EventWrite ==
    /\ merging
    /\ status' = [status EXCEPT ![job] = "merging"]
    /\ merging' = FALSE
    /\ UNCHANGED <<role, published, pending, lock, cancelling, queue, job, outcome, process, asked,
                   publisher, module, transition>>

\* One turn of the poll loop.  A broken event stream is an error.
Poll ==
    /\ Runs("poll")
    /\ \/ /\ process \in {"succeeded", "failed"}
          /\ queue' = "collect"
          /\ UNCHANGED <<process, outcome>>
       \/ process = "running" /\ status[job] = "cancelled" /\ Finally("return")
       \/ process = "running" /\ status[job] # "cancelled" /\ Finally("error")
    /\ UNCHANGED <<records, pending, lock, cancelling, job, merging, asked, publisher, module,
                   transition>>

\* Every event was read: publish in a thread.  A failed process, a broken
\* stream or a missing result is an error.
Collect ==
    /\ Runs("collect")
    /\ \/ /\ process = "succeeded"
          /\ queue' = "publishing"
          /\ publisher' = "start"
          /\ UNCHANGED <<process, outcome>>
       \/ Finally("error") /\ UNCHANGED publisher
    /\ UNCHANGED <<records, pending, lock, cancelling, job, merging, asked, module, transition>>

\* The publication is awaited even by a cancelled task; its error, if it
\* raises one, takes the place of the cancellation.
PublishReturns ==
    /\ queue = "publishing" /\ publisher \in {"ok", "error"}
    /\ Finally(IF publisher = "error" THEN "error" ELSE IF asked THEN "cancel" ELSE "return")
    /\ publisher' = "none"
    /\ asked' = FALSE
    /\ UNCHANGED <<records, pending, lock, cancelling, job, merging, module, transition>>

\* The end of the finally block: back to the loop, to its handler, or out of
\* it.  A cancellation cuts the wait for the killed process short.
Leave ==
    /\ queue = "kill" /\ ~merging
    /\ asked \/ process # "killed"
    /\ process' = "none"
    /\ asked' = FALSE
    /\ queue' = IF asked \/ outcome = "cancel" THEN "recover"
                ELSE IF outcome = "error" THEN "fail" ELSE "idle"
    /\ job' = IF queue' = "idle" THEN NoJob ELSE job
    /\ UNCHANGED <<records, pending, lock, cancelling, outcome, merging, publisher, module,
                   transition>>

\* CancelledError is raised where the task sleeps or collects.
Cancelled ==
    /\ asked /\ ~merging
    /\ \/ queue = "idle" /\ queue' = "recover" /\ UNCHANGED <<outcome, process>>
       \/ queue \in {"poll", "collect"} /\ Finally("cancel")
    /\ asked' = FALSE
    /\ UNCHANGED <<records, pending, lock, cancelling, job, merging, publisher, module, transition>>

-----------------------------------------------------------------------------
(* publish, in its thread. *)

\* exclusive_tool_operation(wait=False): refused during a module transition,
\* or while other maintenance holds the operation lock.
PublishEnter ==
    /\ publisher = "start"
    /\ \/ ~transition /\ publisher' = "lock"
       \/ (transition \/ Contended) /\ publisher' = "error"
    /\ UNCHANGED <<records, pending, lock, cancelling, loop, module, transition>>

PublishLock ==
    /\ publisher = "lock" /\ lock = Nobody
    /\ lock' = Publisher
    /\ publisher' = "check"
    /\ UNCHANGED <<records, pending, cancelling, loop, module, transition>>

\* The record must be live still; the folder, the staging directory and its
\* files must be as they were, and the destination free.
PublishCheck ==
    /\ publisher = "check"
    /\ \/ /\ status[job] \in {"downloading", "merging"} /\ Destination
          /\ publisher' = "rename" /\ UNCHANGED lock
       \/ publisher' = "error" /\ lock' = Nobody
    /\ UNCHANGED <<records, pending, cancelling, loop, module, transition>>

PublishRename ==
    /\ publisher = "rename"
    /\ \/ published' = published \cup {job} /\ publisher' = "integrate" /\ UNCHANGED lock
       \/ publisher' = "error" /\ lock' = Nobody /\ UNCHANGED published
    /\ UNCHANGED <<role, status, pending, cancelling, loop, module, transition>>

\* Index, hash and source link; a failure keeps the published media.
PublishIntegrate ==
    /\ publisher = "integrate"
    /\ \/ publisher' = "complete" /\ UNCHANGED lock
       \/ publisher' = "error" /\ lock' = Nobody
    /\ UNCHANGED <<records, pending, cancelling, loop, module, transition>>

PublishComplete ==
    /\ publisher = "complete"
    /\ status' = [status EXCEPT ![job] = "complete"]
    /\ publisher' = "ok"
    /\ lock' = Nobody
    /\ UNCHANGED <<role, published, pending, cancelling, loop, module, transition>>

-----------------------------------------------------------------------------
(* The module: live disable, shutdown, crash, start. *)

\* ModuleRuntime.stop runs on the loop, so it finds the queue task awaiting.
AskToStop ==
    /\ module = "running" /\ queue \in Awaiting /\ ~merging
    /\ module' = "stopping"
    /\ asked' = TRUE

\* The transition is granted: no request in flight, no publication inside.
Disable ==
    /\ AskToStop
    /\ publisher \notin Publishing /\ \A u \in Users : cancelling[u] = NoJob
    /\ transition' = TRUE
    /\ UNCHANGED <<records, pending, lock, cancelling, queue, job, outcome, merging, process,
                   publisher>>

\* The server shuts down when its requests have been answered.
Shutdown ==
    /\ AskToStop
    /\ \A u \in Users : cancelling[u] = NoJob
    /\ UNCHANGED <<records, pending, lock, cancelling, queue, job, outcome, merging, process,
                   publisher, transition>>

\* gather returns when the queue task has ended.
Stopped ==
    /\ module = "stopping" /\ queue = "none"
    /\ module' = "off"
    /\ transition' = FALSE
    /\ UNCHANGED <<records, pending, lock, cancelling, loop, publisher>>

\* The server dies: memory and threads go, the records and files stay.
Crash ==
    /\ module # "crashed"
    /\ module' = "crashed"
    /\ pending' = <<>> /\ lock' = Nobody
    /\ cancelling' = [u \in Users |-> NoJob]
    /\ queue' = "none" /\ job' = NoJob /\ outcome' = "return"
    /\ merging' = FALSE /\ process' = "none" /\ asked' = FALSE
    /\ publisher' = "none" /\ transition' = FALSE
    /\ UNCHANGED records

\* Mutant: the records are not recovered on startup.
StartAsIs ==
    /\ module \in {"off", "crashed"}
    /\ module' = "running"
    /\ pending' = <<>>
    /\ queue' = "idle" /\ outcome' = "return"
    /\ UNCHANGED <<records, lock, cancelling, job, merging, process, asked, publisher, transition>>

\* The startup hook recovers the records before the queue task exists.
Start ==
    /\ module \in {"off", "crashed"}
    /\ module' = "running"
    /\ status' = Interrupted(status)
    /\ pending' = <<>>
    /\ queue' = "idle" /\ outcome' = "return"
    /\ UNCHANGED <<role, published, lock, cancelling, job, merging, process, asked, publisher, transition>>

-----------------------------------------------------------------------------
QueueTask ==
    \/ Take \/ Look \/ Mark \/ FailRead \/ FailWrite \/ Recover
    \/ Prepare \/ Launch \/ Poll \/ Collect \/ PublishReturns \/ Leave \/ Cancelled

Publish ==
    \/ PublishEnter \/ PublishLock \/ PublishCheck \/ PublishRename \/ PublishIntegrate
    \/ PublishComplete

Next ==
    \/ \E i, j \in Jobs : Retry(i, j)
    \/ \E j \in Jobs : Create(j) \/ \E u \in Users : CancelRead(u, j)
    \/ FolderChanges
    \/ \E u \in Users : CancelWrite(u)
    \/ QueueTask \/ EventRead \/ EventWrite \/ ProcessEnds \/ Publish
    \/ Disable \/ Shutdown \/ Stopped \/ Crash \/ Start

Spec == Init /\ [][Next]_vars

\* The event loop serves its ready callbacks in turn, so a chatty downloader
\* does not starve the queue task; the threads are scheduled and a download
\* ends.  Nobody has to disable, restart, create or cancel anything.
Fairness ==
    /\ SF_vars(QueueTask) /\ WF_vars(EventWrite) /\ WF_vars(Publish) /\ WF_vars(ProcessEnds) /\ WF_vars(Stopped)
    /\ \A u \in Users : WF_vars(CancelWrite(u))

FairSpec == Spec /\ Fairness

-----------------------------------------------------------------------------
(* Properties. *)

\* Every live record is somebody's: a queued job is pending or just taken, and
\* a downloading or merging one is the job the queue task is working on.
NoForgottenJob ==
    module # "crashed" =>
        \A j \in Jobs :
            /\ status[j] = "queued" =>
                  (\E n \in 1..Len(pending) : pending[n] = j) \/ (job = j /\ queue \in {"got", "mark"})
            /\ status[j] \in {"downloading", "merging"} => job = j /\ queue # "none"

\* A downloader process belongs to the job being executed, and no process
\* survives a disable or a shutdown.
NoStrayProcess ==
    process # "none" => job # NoJob /\ queue \in Executing

\* What every state of the queue has to satisfy.
Sound == TypeOK /\ NoForgottenJob /\ NoStrayProcess

\* Nothing but a live job's media are ever moved to their final place: a
\* cancellation that was answered comes before the check, or waits until the
\* publication is over.
PublishesLiveJobs ==
    [][\A j \in published' \ published : status[j] \in {"downloading", "merging"}]_vars

\* A completed or interrupted record is final: no late event, cancellation or
\* failure of the same run rewrites it.
FinalStays ==
    [][\A j \in Jobs : status[j] \in {"complete", "interrupted"} => status'[j] = status[j]]_vars

\* What a record says of its job is what happened to it.
RecordsAreHonest == PublishesLiveJobs /\ FinalStays

\* Every queued job comes to an end, whatever fails and even when the queue is
\* being stopped; only a crash leaves it for the next start.
EveryJobEnds ==
    \A j \in Jobs : status[j] = "queued" ~> (status[j] \in Terminal \/ module = "crashed")

===============================================================================
