------------------------------ MODULE Maintenance ------------------------------
(***************************************************************************)
(* Shared maintenance exclusion (backend/maintenance.py) together with the *)
(* one piece of long work that outlives the request that started it: the   *)
(* import-pipeline tool (backend/modules/danbooru/tools.py).               *)
(*                                                                         *)
(* A thread is a request or a background thread of the server.  Every      *)
(* acquisition of _tool_operation_lock is a step of its own, because a     *)
(* non-blocking caller is refused merely by finding the lock held.  The    *)
(* sections under _tool_state_lock never block and are atomic.             *)
(***************************************************************************)
EXTENDS Naturals, FiniteSets

CONSTANTS
    Threads, NoThread,
    Tools, NoTool,
    Steps,            \* number of commands a tool runs, one process each
    IncompleteSteps,  \* steps whose exit code 3 means "partial, go on"
    ReadMayFail       \* may reading a process's output raise?

ASSUME ThreadsAssumption == IsFiniteSet(Threads) /\ NoThread \notin Threads
ASSUME ToolsAssumption   == NoTool \notin Tools
ASSUME StepsAssumption   == Steps \in Nat \ {0} /\ IncompleteSteps \subseteq 1..Steps
ASSUME ReadAssumption    == ReadMayFail \in BOOLEAN

VARIABLES
    lock,        \* owner of _tool_operation_lock
    pc, op,      \* where each thread is, and what it is doing
    transition,  \* _module_transition
    operations,  \* _module_operations
    active,      \* _active_tool_id
    target,      \* the tool a cancelling thread is about to terminate
    status,      \* _running_tasks[tool]["status"]
    stage, step, incomplete,  \* the tool's worker thread: where, loop index, local flag
    process,     \* the operating-system process of the current step
    registered,  \* tool \in _running_processes
    holders,     \* cancelling threads that hold a reference to that process
    orphans      \* tools with a live process no worker waits for

threadVars == <<lock, pc, op, transition, operations, target>>
workerVars == <<status, stage, step, incomplete, process, registered, holders, orphans>>
vars == <<threadVars, active, workerVars>>

Windows == {"window", "tryWindow", "tick"}
Ops     == Windows \cup {"transition", "operation"}
NonBlocking == {"tryWindow", "transition"}
Live     == {"running", "cancelling"}
Terminal == {"cancelled", "error", "partial", "done"}

TypeOK ==
    /\ lock \in Threads \cup {NoThread}
    /\ pc \in [Threads -> {"idle", "acquire", "check", "inside", "launch", "launching",
                           "reacquire", "leave", "terminate"}]
    /\ op \in [Threads -> Ops \cup {"none"}]
    /\ transition \in BOOLEAN
    /\ operations \in Nat
    /\ active \in Tools \cup {NoTool}
    /\ target \in [Threads -> Tools \cup {NoTool}]
    /\ status \in [Tools -> {"idle"} \cup Live \cup Terminal]
    /\ stage \in [Tools -> {"none", "next", "spawn", "register", "read", "success",
                            "finish", "failed", "cleanup"}]
    /\ step \in [Tools -> 1..(Steps + 1)]
    /\ incomplete \in [Tools -> BOOLEAN]
    /\ process \in [Tools -> {"none", "running", "killed", "exited"}]
    /\ registered \in [Tools -> BOOLEAN]
    /\ holders \in [Tools -> SUBSET Threads]
    /\ orphans \in SUBSET Tools

Init ==
    /\ lock = NoThread
    /\ pc = [t \in Threads |-> "idle"]
    /\ op = [t \in Threads |-> "none"]
    /\ transition = FALSE
    /\ operations = 0
    /\ active = NoTool
    /\ target = [t \in Threads |-> NoTool]
    /\ status = [k \in Tools |-> "idle"]
    /\ stage = [k \in Tools |-> "none"]
    /\ step = [k \in Tools |-> 1]
    /\ incomplete = [k \in Tools |-> FALSE]
    /\ process = [k \in Tools |-> "none"]
    /\ registered = [k \in Tools |-> FALSE]
    /\ holders = [k \in Tools |-> {}]
    /\ orphans = {}

-----------------------------------------------------------------------------
(* The operation lock: request, acquire, refuse, and the three admissions. *)

\* The thread is back outside every context manager.
Return(t) ==
    /\ pc' = [pc EXCEPT ![t] = "idle"]
    /\ op' = [op EXCEPT ![t] = "none"]

\* The thread goes on to another point of the same call.
Goto(t, next) ==
    /\ pc' = [pc EXCEPT ![t] = next]
    /\ UNCHANGED op

\* A request enters one of the context managers of maintenance.py.
Request(t, o) ==
    /\ pc[t] = "idle"
    /\ o \in Ops
    /\ pc' = [pc EXCEPT ![t] = "acquire"]
    /\ op' = [op EXCEPT ![t] = o]
    /\ UNCHANGED <<lock, transition, operations, active, target, workerVars>>

Acquire(t) ==
    /\ pc[t] = "acquire"
    /\ lock = NoThread
    /\ lock' = t
    /\ Goto(t, "check")
    /\ UNCHANGED <<transition, operations, active, target, workerVars>>

\* acquire(blocking=False) found the lock held, whoever holds it and why.
Refuse(t) ==
    /\ pc[t] = "acquire"
    /\ op[t] \in NonBlocking
    /\ lock # NoThread
    /\ Return(t)
    /\ UNCHANGED <<lock, transition, operations, active, target, workerVars>>

\* Mutant: the window does not look at the reserved tool.
EnterWindowBesideTool(t) ==
    /\ pc[t] = "check" /\ op[t] \in Windows
    /\ IF ~transition
       THEN Goto(t, "inside") /\ UNCHANGED lock
       ELSE Return(t) /\ lock' = NoThread
    /\ UNCHANGED <<transition, operations, active, target, workerVars>>

\* The caller keeps the lock for the whole window, or raises and releases it.
EnterWindow(t) ==
    /\ pc[t] = "check" /\ op[t] \in Windows
    /\ IF ~transition /\ active = NoTool
       THEN Goto(t, "inside") /\ UNCHANGED lock
       ELSE Return(t) /\ lock' = NoThread
    /\ UNCHANGED <<transition, operations, active, target, workerVars>>

LeaveWindow(t) ==
    /\ pc[t] = "inside" /\ op[t] \in Windows
    /\ Return(t)
    /\ lock' = NoThread
    /\ UNCHANGED <<transition, operations, active, target, workerVars>>

\* Mutant: the transition does not wait for requests in flight.
EnterTransitionAtOnce(t) ==
    /\ pc[t] = "check" /\ op[t] = "transition"
    /\ IF ~transition /\ active = NoTool
       THEN Goto(t, "inside") /\ transition' = TRUE
       ELSE Return(t) /\ UNCHANGED transition
    /\ lock' = NoThread
    /\ UNCHANGED <<operations, active, target, workerVars>>

\* The flag, not the lock, is what a transition holds while workers drain.
EnterTransition(t) ==
    /\ pc[t] = "check" /\ op[t] = "transition"
    /\ IF ~transition /\ operations = 0 /\ active = NoTool
       THEN Goto(t, "inside") /\ transition' = TRUE
       ELSE Return(t) /\ UNCHANGED transition
    /\ lock' = NoThread
    /\ UNCHANGED <<operations, active, target, workerVars>>

EnterOperation(t) ==
    /\ pc[t] = "check" /\ op[t] = "operation"
    /\ IF ~transition
       THEN Goto(t, "inside") /\ operations' = operations + 1
       ELSE Return(t) /\ UNCHANGED operations
    /\ lock' = NoThread
    /\ UNCHANGED <<transition, active, target, workerVars>>

\* The finally of module_transition and module_operation blocks on the lock.
BeginLeave(t) ==
    /\ pc[t] = "inside" /\ op[t] \in {"transition", "operation"}
    /\ Goto(t, "reacquire")
    /\ UNCHANGED <<lock, transition, operations, active, target, workerVars>>

Reacquire(t) ==
    /\ pc[t] \in {"reacquire", "launch"}
    /\ lock = NoThread
    /\ lock' = t
    /\ Goto(t, IF pc[t] = "launch" THEN "launching" ELSE "leave")
    /\ UNCHANGED <<transition, operations, active, target, workerVars>>

LeaveTransition(t) ==
    /\ pc[t] = "leave" /\ op[t] = "transition"
    /\ transition' = FALSE
    /\ lock' = NoThread
    /\ Return(t)
    /\ UNCHANGED <<operations, active, target, workerVars>>

LeaveOperation(t) ==
    /\ pc[t] = "leave" /\ op[t] = "operation"
    /\ operations' = operations - 1
    /\ lock' = NoThread
    /\ Return(t)
    /\ UNCHANGED <<transition, active, target, workerVars>>

-----------------------------------------------------------------------------
(* Launching and cancelling a tool. *)

\* The body of _launch_tool under both locks: a fresh task and its worker, or
\* a "busy" / "already_running" answer that changes nothing.
StartWorker(k) ==
    IF ~transition /\ active = NoTool
    THEN /\ active' = k
         /\ status' = [status EXCEPT ![k] = "running"]
         /\ stage' = [stage EXCEPT ![k] = "next"]
         /\ step' = [step EXCEPT ![k] = 1]
         /\ incomplete' = [incomplete EXCEPT ![k] = FALSE]
    ELSE UNCHANGED <<active, status, stage, step, incomplete>>

\* A request to a tool route, already admitted as a module operation.
RequestLaunch(t) ==
    /\ pc[t] = "inside" /\ op[t] = "operation"
    /\ pc' = [pc EXCEPT ![t] = "launch"]
    /\ UNCHANGED <<lock, op, transition, operations, active, target, workerVars>>

Launch(t, k) ==
    /\ pc[t] = "launching"
    /\ StartWorker(k)
    /\ lock' = NoThread
    /\ pc' = [pc EXCEPT ![t] = "inside"]
    /\ UNCHANGED <<op, transition, operations, target, process, registered, holders, orphans>>

\* run_automation_tick launches from inside its own window: the operation lock
\* is reentrant, and the nested release leaves it with the same thread.
TickLaunch(t, k) ==
    /\ pc[t] = "inside" /\ op[t] = "tick"
    /\ StartWorker(k)
    /\ UNCHANGED <<threadVars, process, registered, holders, orphans>>

\* Mutant: the request reports the end itself.
CancelReports(t, k) ==
    /\ pc[t] = "inside" /\ op[t] = "operation"
    /\ status[k] \in Live
    /\ status' = [status EXCEPT ![k] = "cancelled"]
    /\ UNCHANGED <<threadVars, active, stage, step, incomplete, process, registered, holders,
                   orphans>>

\* First half of _cancel_tool: mark, and take the process registered now.
Cancel(t, k) ==
    /\ pc[t] = "inside" /\ op[t] = "operation"
    /\ status[k] \in Live
    /\ status' = [status EXCEPT ![k] = "cancelling"]
    /\ IF registered[k]
       THEN /\ pc' = [pc EXCEPT ![t] = "terminate"]
            /\ target' = [target EXCEPT ![t] = k]
            /\ holders' = [holders EXCEPT ![k] = @ \cup {t}]
       ELSE UNCHANGED <<pc, target, holders>>
    /\ UNCHANGED <<lock, op, transition, operations, active, stage, step, incomplete, process,
                   registered, orphans>>

\* Second half, outside the state lock: the process may already be gone.
Terminate(t) ==
    /\ pc[t] = "terminate"
    /\ LET k == target[t] IN
       /\ process' = [process EXCEPT ![k] = IF t \in holders[k] /\ @ = "running"
                                            THEN "killed" ELSE @]
       /\ holders' = [holders EXCEPT ![k] = @ \ {t}]
    /\ pc' = [pc EXCEPT ![t] = "inside"]
    /\ target' = [target EXCEPT ![t] = NoTool]
    /\ UNCHANGED <<lock, op, transition, operations, active, status, stage, step, incomplete,
                   registered, orphans>>

-----------------------------------------------------------------------------
(* The worker thread _run, one action per section between its locks. *)

\* Top of the loop: a pending cancellation ends the run before the next step.
NextStep(k) ==
    /\ stage[k] = "next"
    /\ IF status[k] = "cancelling"
       THEN /\ status' = [status EXCEPT ![k] = "cancelled"]
            /\ stage' = [stage EXCEPT ![k] = "cleanup"]
       ELSE /\ stage' = [stage EXCEPT ![k] = "spawn"]
            /\ UNCHANGED status
    /\ UNCHANGED <<threadVars, active, step, incomplete, process, registered, holders, orphans>>

\* Popen runs outside every lock, so a cancellation may come before Register.
Spawn(k) ==
    /\ stage[k] = "spawn"
    /\ \/ /\ process' = [process EXCEPT ![k] = "running"]
          /\ holders' = [holders EXCEPT ![k] = {}]
          /\ stage' = [stage EXCEPT ![k] = "register"]
       \/ /\ stage' = [stage EXCEPT ![k] = "failed"]
          /\ UNCHANGED <<process, holders>>
    /\ UNCHANGED <<threadVars, active, status, step, incomplete, registered, orphans>>

Register(k) ==
    /\ stage[k] = "register"
    /\ registered' = [registered EXCEPT ![k] = TRUE]
    /\ stage' = [stage EXCEPT ![k] = "read"]
    /\ UNCHANGED <<threadVars, active, status, step, incomplete, process, holders, orphans>>

\* The process ends, by itself or because it was terminated.
ProcessExits(k) ==
    /\ process[k] \in {"running", "killed"}
    /\ process' = [process EXCEPT ![k] = "exited"]
    /\ UNCHANGED <<threadVars, active, status, stage, step, incomplete, registered, holders,
                   orphans>>

OrphanExits(k) ==
    /\ k \in orphans
    /\ orphans' = orphans \ {k}
    /\ UNCHANGED <<threadVars, active, status, stage, step, incomplete, process, registered,
                   holders>>

\* After wait(): cancelled, failed, or on to the next step.
Reap(k) ==
    /\ stage[k] = "read"
    /\ process[k] = "exited"
    /\ process' = [process EXCEPT ![k] = "none"]
    /\ registered' = [registered EXCEPT ![k] = FALSE]
    /\ \E code \in {0, 1, 3} :
         IF status[k] = "cancelling"
         THEN /\ status' = [status EXCEPT ![k] = "cancelled"]
              /\ stage' = [stage EXCEPT ![k] = "cleanup"]
              /\ UNCHANGED <<step, incomplete>>
         ELSE IF code = 0 \/ (code = 3 /\ step[k] \in IncompleteSteps)
         THEN /\ incomplete' = [incomplete EXCEPT ![k] = @ \/ code = 3]
              /\ step' = [step EXCEPT ![k] = @ + 1]
              /\ stage' = [stage EXCEPT ![k] = IF step[k] < Steps THEN "next" ELSE "success"]
              /\ UNCHANGED status
         ELSE /\ status' = [status EXCEPT ![k] = "error"]
              /\ stage' = [stage EXCEPT ![k] = "cleanup"]
              /\ UNCHANGED <<step, incomplete>>
    /\ UNCHANGED <<threadVars, active, holders, orphans>>

\* Reading or decoding a line raises: the process is left as it is.
ReadFails(k) ==
    /\ ReadMayFail
    /\ stage[k] = "read"
    /\ stage' = [stage EXCEPT ![k] = "failed"]
    /\ orphans' = IF process[k] = "running" THEN orphans \cup {k} ELSE orphans
    /\ process' = [process EXCEPT ![k] = "none"]
    /\ holders' = [holders EXCEPT ![k] = {}]
    /\ UNCHANGED <<threadVars, active, status, step, incomplete, registered>>

\* on_success and the cache reset, outside every lock; either may raise.
AfterSteps(k) ==
    /\ stage[k] = "success"
    /\ \E next \in {"finish", "failed"} : stage' = [stage EXCEPT ![k] = next]
    /\ UNCHANGED <<threadVars, active, status, step, incomplete, process, registered, holders,
                   orphans>>

\* The final report overwrites the status, a late "cancelling" included.
Finish(k) ==
    /\ stage[k] = "finish"
    /\ status' = [status EXCEPT ![k] = IF incomplete[k] THEN "partial" ELSE "done"]
    /\ stage' = [stage EXCEPT ![k] = "cleanup"]
    /\ UNCHANGED <<threadVars, active, step, incomplete, process, registered, holders, orphans>>

\* Mutant: the error path leaves without the finally block.
FailAndReturn(k) ==
    /\ stage[k] = "failed"
    /\ status' = [status EXCEPT ![k] = "error"]
    /\ stage' = [stage EXCEPT ![k] = "none"]
    /\ UNCHANGED <<threadVars, active, step, incomplete, process, registered, holders, orphans>>

\* The except block: the reason is reported, whatever the status was.
Fail(k) ==
    /\ stage[k] = "failed"
    /\ status' = [status EXCEPT ![k] = "error"]
    /\ stage' = [stage EXCEPT ![k] = "cleanup"]
    /\ UNCHANGED <<threadVars, active, step, incomplete, process, registered, holders, orphans>>

\* The finally block: unregister, give the reservation back; the locals go too.
Cleanup(k) ==
    /\ stage[k] = "cleanup"
    /\ registered' = [registered EXCEPT ![k] = FALSE]
    /\ active' = IF active = k THEN NoTool ELSE active
    /\ stage' = [stage EXCEPT ![k] = "none"]
    /\ step' = [step EXCEPT ![k] = 1]
    /\ incomplete' = [incomplete EXCEPT ![k] = FALSE]
    /\ UNCHANGED <<threadVars, status, process, holders, orphans>>

-----------------------------------------------------------------------------
Thread(t) ==
    \/ Acquire(t) \/ Refuse(t)
    \/ EnterWindow(t) \/ LeaveWindow(t)
    \/ EnterTransition(t) \/ LeaveTransition(t)
    \/ EnterOperation(t) \/ LeaveOperation(t)
    \/ BeginLeave(t) \/ Reacquire(t)
    \/ Terminate(t)
    \/ \E k \in Tools : Launch(t, k)

User(t) ==
    \/ \E o \in Ops : Request(t, o)
    \/ RequestLaunch(t)
    \/ \E k \in Tools : TickLaunch(t, k) \/ Cancel(t, k)

Worker(k) ==
    \/ NextStep(k) \/ Spawn(k) \/ Register(k) \/ Reap(k)
    \/ AfterSteps(k) \/ Finish(k) \/ Fail(k) \/ Cleanup(k)

Next ==
    \/ \E t \in Threads : Thread(t) \/ User(t)
    \/ \E k \in Tools : Worker(k) \/ ReadFails(k) \/ ProcessExits(k) \/ OrphanExits(k)

Spec == Init /\ [][Next]_vars

\* Workers and threads are scheduled, and a pipeline process ends in the end.
\* Nothing is assumed of users, or of who wins a contended lock.
Fairness ==
    /\ \A k \in Tools : WF_vars(Worker(k)) /\ WF_vars(ProcessExits(k))
    /\ \A t \in Threads : WF_vars(Thread(t))

FairSpec == Spec /\ Fairness

-----------------------------------------------------------------------------
(* Properties. *)

InWindow(t) == pc[t] = "inside" /\ op[t] \in Windows
InTransition(t) == op[t] = "transition" /\ pc[t] \in {"inside", "reacquire", "leave"}
InOperation(t) ==
    /\ op[t] = "operation"
    /\ pc[t] \in {"inside", "launch", "launching", "terminate", "reacquire", "leave"}

\* Exclusion.  While a backup, restore or publication is inside its window no
\* tool is reserved and no module is being switched; only the automatic check
\* may have reserved one, from inside its own window.  While modules are being
\* switched nothing else at all is reserved, and nobody else is switching.
Exclusion ==
    /\ \A t \in Threads : InWindow(t) => ~transition /\ (active # NoTool => op[t] = "tick")
    /\ \A t, u \in Threads : InWindow(t) /\ InWindow(u) => t = u
    /\ \A t, u \in Threads : InTransition(t) /\ InTransition(u) => t = u
    /\ \A t, u \in Threads : InTransition(t) => ~InOperation(u) /\ ~InWindow(u)
    /\ (\E t \in Threads : InTransition(t)) => active = NoTool

\* The reservation names the one worker there is: a tool whose worker thread is
\* still anywhere between _launch_tool and its finally block, or whose task
\* says it is running, is the active one.
ReservationNamesWorker ==
    \A k \in Tools : stage[k] # "none" \/ status[k] \in Live => active = k

\* A task reported as cancelled, failed or finished has no process left: the
\* report comes after wait(), never from the request that asked for it.
ReportedAfterExit ==
    \A k \in Tools : status[k] \in {"cancelled", "partial", "done"} => process[k] = "none"

\* What the worker still reads never runs while a backup or restore is inside
\* its window or modules are being switched.  (An orphan may: reading its output
\* raised, and the worker gave the reservation back without ending it.)
NoPipelineInWindow ==
    (\E t \in Threads : (InWindow(t) /\ op[t] # "tick") \/ InTransition(t))
        => \A k \in Tools : process[k] = "none"

\* What every state of _launch_tool, _run and _cancel_tool has to satisfy.
Sound == TypeOK /\ ReservationNamesWorker /\ ReportedAfterExit /\ NoPipelineInWindow

\* The reservation always comes back: after a failed Popen, a failed hook, a
\* cancellation, or a step that exits with an error.
ReservationReturned == \A k \in Tools : active = k ~> active # k

\* The locks, flags and counters of the code implement compatible reservations.
Granted == INSTANCE Reservations WITH
    windows     <- {t \in Threads : InWindow(t)},
    transitions <- {t \in Threads : InTransition(t)},
    operations  <- {t \in Threads : InOperation(t)},
    tool        <- active
Compatible == Granted!RSpec

===============================================================================
