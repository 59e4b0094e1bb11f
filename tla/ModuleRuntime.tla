----------------------------- MODULE ModuleRuntime -----------------------------
(***************************************************************************)
(* One optional module of the suite: its persisted enablement, its runtime *)
(* on the event loop (ModuleRuntime in backend/lifecycle.py), the requests *)
(* that enable, disable or retry it (backend/routers/suite.py) and the     *)
(* requests to the module itself (module_guard in backend/server.py).      *)
(*                                                                         *)
(* A toggle is a thread: it holds module_change_lock, reserves the module  *)
(* transition, and hands coroutines to the event loop and waits for them.  *)
(* The loop runs a coroutine, or the callback of a worker that ended,      *)
(* until it awaits; nothing else runs on the loop meanwhile.               *)
(***************************************************************************)
EXTENDS Naturals, FiniteSets

CONSTANTS
    Toggles, Nobody,   \* threads that enable, disable or retry the module
    Requests,          \* requests to the module
    Workers            \* its background tasks

ASSUME RuntimeAssumption ==
    /\ Nobody \notin Toggles
    /\ IsFiniteSet(Toggles) /\ IsFiniteSet(Requests) /\ IsFiniteSet(Workers)

VARIABLES
    enabled,      \* the row of suite_enabled_modules
    restored,     \* history: a restore replaced it in this life of the server
    phase,        \* the server: down, up, or in the finally of lifespan
    state,        \* _states[slug]["state"]
    started,      \* slug in self.tasks
    worker,       \* the state of each task of self.tasks[slug]
    unseen,       \* ended tasks whose _worker_done the loop has not called
    change,       \* the coroutine handed to the loop
    after,        \* what its toggle does when it succeeds
    changeLock,   \* owner of module_change_lock
    transition,   \* _module_transition of maintenance.py, for a toggle here
    pc, want,     \* each toggle: where, and what for
    request       \* each request to the module

choice      == <<enabled, restored>>
toggleVars  == <<changeLock, transition, pc, want>>
runtimeVars == <<state, started, worker, unseen, change, after>>
vars == <<choice, phase, runtimeVars, toggleVars, request>>

Wants == {"enable", "disable", "retry"}
Positions == {"idle", "lock", "read", "enter", "init", "initializing", "start", "stop", "wait",
              "persist", "leave"}
Alive == {"running", "cancelling", "deaf"}
Ended == {"ended", "crashed", "cancelled"}

TypeOK ==
    /\ enabled \in BOOLEAN /\ restored \in BOOLEAN
    /\ started \in BOOLEAN /\ transition \in BOOLEAN
    /\ phase \in {"down", "up", "closing"}
    /\ state \in {"disabled", "starting", "running", "stopping", "failed"}
    /\ worker \in [Workers -> {"none"} \cup Alive \cup Ended]
    /\ unseen \in SUBSET Workers
    /\ change \in {"none", "start", "stop", "drain", "drainFailed", "done", "error"}
    /\ after \in {"none", "init", "persist", "leave"}
    /\ changeLock \in Toggles \cup {Nobody}
    /\ pc \in [Toggles -> Positions]
    /\ want \in [Toggles -> Wants \cup {"none"}]
    /\ request \in [Requests -> {"none", "leased", "known", "served"}]

\* The server is down: nothing is in memory.
Init ==
    /\ enabled \in BOOLEAN /\ restored = FALSE
    /\ phase = "down" /\ state = "disabled" /\ started = FALSE
    /\ worker = [w \in Workers |-> "none"] /\ unseen = {}
    /\ change = "none" /\ after = "none"
    /\ changeLock = Nobody /\ transition = FALSE
    /\ pc = [t \in Toggles |-> "idle"] /\ want = [t \in Toggles |-> "none"]
    /\ request = [r \in Requests |-> "none"]

-----------------------------------------------------------------------------
(* The event loop: start, stop and the callbacks of the workers. *)

\* The hooks ran and every background task was created.
StartsWorkers ==
    /\ state' = "running"
    /\ started' = TRUE
    /\ worker' = [w \in Workers |-> "running"]
    /\ unseen' = {}

CancelAll == [w \in Workers |-> IF worker[w] = "running" THEN "cancelling" ELSE worker[w]]

\* stop, up to its gather.
BeginStop ==
    /\ state' = "stopping"
    /\ worker' = CancelAll
    /\ UNCHANGED <<started, unseen>>

\* start, from change: idempotent while the tasks are registered, so a module
\* that is registered but not running is stopped.  A hook that raises leaves
\* no tasks to wait for.
ChangeStart ==
    /\ change = "start"
    /\ \/ /\ started
          /\ IF state = "running"
             THEN change' = "done" /\ UNCHANGED <<state, started, worker, unseen>>
             ELSE change' = "drainFailed" /\ BeginStop
       \/ ~started /\ change' = "done" /\ StartsWorkers
       \/ ~started /\ change' = "error" /\ state' = "failed" /\ UNCHANGED <<started, worker, unseen>>
    /\ UNCHANGED <<choice, phase, after, toggleVars, request>>

ChangeStop ==
    /\ change = "stop"
    /\ change' = "drain"
    /\ BeginStop
    /\ UNCHANGED <<choice, phase, after, toggleVars, request>>

\* Every task has ended, and its callback ran before the gather's.
Drained == unseen = {} /\ \A w \in Workers : worker[w] \notin Alive

\* The tasks are forgotten; a change that failed to start reports that.
StopFinishes ==
    /\ change \in {"drain", "drainFailed"}
    /\ Drained
    /\ started' = FALSE
    /\ state' = IF change = "drain" THEN "disabled" ELSE "failed"
    /\ change' = IF change = "drain" THEN "done" ELSE "error"
    /\ UNCHANGED <<choice, phase, worker, unseen, after, toggleVars, request>>

\* A task ends: by itself, with an exception, or as the cancellation it was
\* asked for; a cancelled task finishes its thread work first.
WorkerEnds(w) ==
    /\ worker[w] \in Alive
    /\ worker' = [worker EXCEPT ![w] = IF @ = "cancelling" THEN "cancelled" ELSE "ended"]
    /\ unseen' = unseen \cup {w}
    /\ UNCHANGED <<choice, phase, state, started, change, after, toggleVars, request>>

WorkerCrashes(w) ==
    /\ worker[w] \in Alive
    /\ worker' = [worker EXCEPT ![w] = "crashed"]
    /\ unseen' = unseen \cup {w}
    /\ UNCHANGED <<choice, phase, state, started, change, after, toggleVars, request>>

\* A cancelled task goes on: it was waiting for the publication of a download,
\* which fails, so that the failure takes the place of the cancellation and is
\* caught where every failed download is.  Nobody cancels a task twice.
WorkerGoesOn(w) ==
    /\ worker[w] = "cancelling"
    /\ worker' = [worker EXCEPT ![w] = "deaf"]
    /\ UNCHANGED <<choice, phase, state, started, unseen, change, after, toggleVars, request>>

\* _worker_done: a crash fails the module and cancels its siblings, unless the
\* module is being stopped or the task is not one of its tasks any more.
WorkerDone(w) ==
    /\ w \in unseen
    /\ unseen' = unseen \ {w}
    /\ IF worker[w] = "crashed" /\ started /\ state \notin {"stopping", "disabled"}
       THEN state' = "failed" /\ worker' = CancelAll
       ELSE UNCHANGED <<state, worker>>
    /\ UNCHANGED <<choice, phase, started, change, after, toggleVars, request>>

-----------------------------------------------------------------------------
(* The toggles: _set_enabled and retry_module. *)

Goto(t, where) == pc' = [pc EXCEPT ![t] = where]

Ask(t) ==
    /\ phase = "up" /\ pc[t] = "idle"
    /\ Goto(t, "lock")
    /\ \E o \in Wants : want' = [want EXCEPT ![t] = o]
    /\ UNCHANGED <<choice, phase, runtimeVars, changeLock, transition, request>>

Lock(t) ==
    /\ pc[t] = "lock" /\ changeLock = Nobody
    /\ changeLock' = t
    /\ Goto(t, "read")
    /\ UNCHANGED <<choice, phase, runtimeVars, transition, want, request>>

\* There is something to do: the choice differs, or the module is not running.
Needed(t) ==
    CASE want[t] = "enable"  -> ~enabled
      [] want[t] = "disable" -> enabled
      [] want[t] = "retry"   -> enabled /\ state # "running"

ReadChoice(t) ==
    /\ pc[t] = "read"
    /\ Goto(t, IF Needed(t) THEN "enter" ELSE "leave")
    /\ UNCHANGED <<choice, phase, runtimeVars, changeLock, transition, want, request>>

\* module_transition is refused while a request is in flight, and whenever
\* other maintenance holds the operation lock or a tool runs.
Enter(t) ==
    /\ pc[t] = "enter"
    /\ \/ /\ \A r \in Requests : request[r] = "none"
          /\ transition' = TRUE
          /\ Goto(t, IF want[t] = "enable" THEN "init" ELSE "stop")
       \/ Goto(t, "leave") /\ UNCHANGED transition
    /\ UNCHANGED <<choice, phase, runtimeVars, changeLock, want, request>>

\* _initialize_module says so before it migrates anything ...
BeginInit(t) ==
    /\ pc[t] = "init"
    /\ state' = "starting"
    /\ Goto(t, "initializing")
    /\ UNCHANGED <<choice, phase, started, worker, unseen, change, after, changeLock, transition,
                   want, request>>

\* Mutant: the error leaves without the context managers.
EndInitReturns(t) ==
    /\ pc[t] = "initializing"
    /\ \/ Goto(t, "start") /\ UNCHANGED <<state, want>>
       \/ Goto(t, "idle") /\ state' = "failed" /\ want' = [want EXCEPT ![t] = "none"]
    /\ UNCHANGED <<choice, phase, started, worker, unseen, change, after, changeLock, transition,
                   request>>

\* ... and fails the module when the migration raises.
EndInit(t) ==
    /\ pc[t] = "initializing"
    /\ \/ Goto(t, "start") /\ UNCHANGED state
       \/ Goto(t, "leave") /\ state' = "failed"
    /\ UNCHANGED <<choice, phase, started, worker, unseen, change, after, changeLock, transition,
                   want, request>>

\* change_from_request: the coroutine is the loop's from here on.
Submit(t, what, then) ==
    /\ change' = what
    /\ after' = then
    /\ Goto(t, "wait")
    /\ UNCHANGED <<choice, phase, state, started, worker, unseen, changeLock, transition, want,
                   request>>

\* A retry stops the module before it initializes and starts it again.
SubmitStop(t) ==
    pc[t] = "stop" /\ Submit(t, "stop", IF want[t] = "retry" THEN "init" ELSE "persist")

SubmitStart(t) ==
    pc[t] = "start" /\ Submit(t, "start", IF want[t] = "retry" THEN "leave" ELSE "persist")

\* The coroutine returned, or raised and ends the request.
Wait(t) ==
    /\ pc[t] = "wait" /\ change \in {"done", "error"}
    /\ Goto(t, IF change = "done" THEN after ELSE "leave")
    /\ change' = "none" /\ after' = "none"
    /\ UNCHANGED <<choice, phase, state, started, worker, unseen, changeLock, transition, want,
                   request>>

\* The choice is written last ...
Persist(t) ==
    /\ pc[t] = "persist"
    /\ enabled' = (want[t] = "enable")
    /\ Goto(t, "leave")
    /\ UNCHANGED <<restored, phase, runtimeVars, changeLock, transition, want, request>>

\* Mutant: the runtime is left as it is.
PersistFailsAsIs(t) ==
    /\ pc[t] = "persist"
    /\ Goto(t, "leave")
    /\ UNCHANGED <<choice, phase, runtimeVars, changeLock, transition, want, request>>

\* ... and when that fails the runtime goes back to where it was.
PersistFails(t) ==
    pc[t] = "persist" /\ Submit(t, IF want[t] = "enable" THEN "stop" ELSE "start", "leave")

\* Out of module_transition and module_change_lock, with an answer.
Leave(t) ==
    /\ pc[t] = "leave"
    /\ transition' = FALSE
    /\ changeLock' = Nobody
    /\ Goto(t, "idle")
    /\ want' = [want EXCEPT ![t] = "none"]
    /\ UNCHANGED <<choice, phase, runtimeVars, request>>

-----------------------------------------------------------------------------
(* Requests to the module: the lease first, then the two checks. *)

\* Mutant: a request is admitted in the middle of a transition.
LeaseAnytime(r) ==
    /\ phase = "up" /\ request[r] = "none"
    /\ request' = [request EXCEPT ![r] = "leased"]
    /\ UNCHANGED <<choice, phase, runtimeVars, toggleVars>>

Lease(r) ==
    /\ phase = "up" /\ request[r] = "none"
    /\ ~transition
    /\ request' = [request EXCEPT ![r] = "leased"]
    /\ UNCHANGED <<choice, phase, runtimeVars, toggleVars>>

\* require_enabled: the database ...
CheckEnabled(r) ==
    /\ request[r] = "leased"
    /\ request' = [request EXCEPT ![r] = IF enabled THEN "known" ELSE "none"]
    /\ UNCHANGED <<choice, phase, runtimeVars, toggleVars>>

\* ... and the runtime.
CheckRunning(r) ==
    /\ request[r] = "known"
    /\ request' = [request EXCEPT ![r] = IF state = "running" THEN "served" ELSE "none"]
    /\ UNCHANGED <<choice, phase, runtimeVars, toggleVars>>

EndRequest(r) ==
    /\ request[r] = "served"
    /\ request' = [request EXCEPT ![r] = "none"]
    /\ UNCHANGED <<choice, phase, runtimeVars, toggleVars>>

-----------------------------------------------------------------------------
(* The server: lifespan. *)

\* Startup brings an enabled module online.  Unreadable enablement or failed
\* storage leaves it unregistered; a failed hook leaves it registered.
Boot ==
    /\ phase = "down"
    /\ phase' = "up"
    /\ \/ ~enabled /\ UNCHANGED <<state, started, worker, unseen>>
       \/ enabled /\ StartsWorkers
       \/ state' = "failed" /\ UNCHANGED <<started, worker, unseen>>
       \/ enabled /\ state' = "failed" /\ started' = TRUE /\ UNCHANGED <<worker, unseen>>
    /\ UNCHANGED <<choice, change, after, toggleVars, request>>

\* The server has answered its requests: every registered module is stopped.
Close ==
    /\ phase = "up" /\ change = "none"
    /\ \A t \in Toggles : pc[t] = "idle"
    /\ \A r \in Requests : request[r] = "none"
    /\ phase' = "closing"
    /\ IF started
       THEN change' = "drain" /\ BeginStop
       ELSE UNCHANGED <<change, state, started, worker, unseen>>
    /\ UNCHANGED <<choice, after, toggleVars, request>>

\* A restore replaces the user database in its exclusive window, which shuts
\* transitions out and requests in; it asks for a restart that may not come.
\* Bound: one restore in a life of the server.
Restore ==
    /\ phase = "up" /\ ~transition
    /\ ~restored
    /\ restored' = TRUE
    /\ enabled' \in BOOLEAN
    /\ UNCHANGED <<phase, runtimeVars, toggleVars, request>>

\* Memory is gone; the choice stays.
Down ==
    /\ phase' = "down" /\ state' = "disabled" /\ started' = FALSE
    /\ worker' = [w \in Workers |-> "none"] /\ unseen' = {}
    /\ change' = "none" /\ after' = "none"
    /\ changeLock' = Nobody /\ transition' = FALSE
    /\ pc' = [t \in Toggles |-> "idle"] /\ want' = [t \in Toggles |-> "none"]
    /\ request' = [r \in Requests |-> "none"]
    /\ restored' = FALSE
    /\ UNCHANGED enabled

\* The orderly end of lifespan, and the other one.
Exit  == phase = "closing" /\ change \in {"none", "done"} /\ Down
Crash == phase # "down" /\ Down

-----------------------------------------------------------------------------
Toggle(t) ==
    \/ Lock(t) \/ ReadChoice(t) \/ Enter(t) \/ BeginInit(t) \/ EndInit(t)
    \/ SubmitStop(t) \/ SubmitStart(t) \/ Wait(t)
    \/ Persist(t) \/ PersistFails(t) \/ Leave(t)

EventLoop ==
    \/ ChangeStart \/ ChangeStop \/ StopFinishes
    \/ \E w \in Workers : WorkerDone(w)

Request(r) == Lease(r) \/ CheckEnabled(r) \/ CheckRunning(r) \/ EndRequest(r)

Next ==
    \/ \E t \in Toggles : Ask(t) \/ Toggle(t)
    \/ EventLoop
    \/ \E w \in Workers : WorkerEnds(w) \/ WorkerCrashes(w) \/ WorkerGoesOn(w)
    \/ \E r \in Requests : Request(r)
    \/ Restore \/ Boot \/ Close \/ Exit \/ Crash

Spec == Init /\ [][Next]_vars

\* The loop and the threads run; a thread that waits for the change lock gets
\* it some time; a worker that was cancelled ends, unless it goes on.
Fairness ==
    /\ WF_vars(EventLoop)
    /\ \A t \in Toggles : WF_vars(Toggle(t)) /\ SF_vars(Lock(t))
    /\ \A w \in Workers :
          WF_vars(worker[w] = "cancelling" /\ (WorkerEnds(w) \/ WorkerCrashes(w)))

FairSpec == Spec /\ Fairness

-----------------------------------------------------------------------------
(* Properties. *)

\* Between toggles the runtime agrees with the persisted choice: an enabled
\* module runs or has failed, a disabled one has no tasks left, whatever step
\* of the last toggle failed.  (A restored choice takes effect on restart.)
Agreement ==
    phase = "up" /\ changeLock = Nobody /\ ~restored =>
        IF enabled THEN state \in {"running", "failed"}
                   ELSE state \in {"disabled", "failed"} /\ ~started

\* A module said to run has all its workers: none is being cancelled, and one
\* that crashed has a callback coming.
RunningIsHealthy ==
    state = "running" =>
        /\ started
        /\ \A w \in Workers : worker[w] \in {"running", "ended"} \/ w \in unseen

\* A module without registered tasks has none that still runs, and no callback
\* of an earlier task can reach the tasks of the next start.
UnregisteredIsQuiet ==
    ~started => unseen = {} /\ \A w \in Workers : worker[w] \notin Alive

\* What every state of ModuleRuntime and set_enabled has to satisfy.
Sound == TypeOK /\ Agreement /\ RunningIsHealthy /\ UnregisteredIsQuiet

\* The loop waits for a worker that went on after its cancellation, with
\* module_change_lock held.
Stuck == change \in {"drain", "drainFailed"} /\ \E w \in Workers : worker[w] = "deaf"

\* A toggle is answered, again and again, unless a worker goes on after its
\* cancellation for ever: then the loop waits for that worker, and the toggle
\* for the loop or for the change lock.  Nothing else keeps one for ever, be it
\* a failed step, a crashed worker or another toggle.
ToggleEnds == \A t \in Toggles : []<>(pc[t] = "idle") \/ <>[]Stuck

\* Seen from its requests the module is a switch that moves between them.
Switch == INSTANCE ModuleSwitch WITH
    on <- enabled, replaced <- restored,
    serving <- {r \in Requests : request[r] = "served"}
IsASwitch == Switch!SwitchSpec

===============================================================================
