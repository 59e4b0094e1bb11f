----------------------------- MODULE RuntimeProofs -----------------------------
(***************************************************************************)
(* Proofs about ModuleRuntime, for every set of toggles, requests and      *)
(* workers.                                                                *)
(***************************************************************************)
EXTENDS ModuleRuntime, TLAPS

-----------------------------------------------------------------------------
Inside == {"init", "initializing", "start", "stop", "wait", "persist"}

\* module_change_lock is held from the read of the choice to the answer, and the
\* transition inside it, with no request of the module under way.
LockHeld ==
    /\ \A t \in Toggles : pc[t] \notin {"idle", "lock"} <=> changeLock = t
    /\ \A t \in Toggles : pc[t] # "idle" => want[t] \in Wants
    /\ \A t \in Toggles : pc[t] \in Inside => transition
    /\ transition => changeLock # Nobody /\ \A r \in Requests : request[r] = "none"

\* Only a server that is up has toggles and requests; one that is down nothing.
UpOnly ==
    /\ phase # "up" => /\ \A t \in Toggles : pc[t] = "idle"
                     /\ changeLock = Nobody /\ \A r \in Requests : request[r] = "none"
    /\ phase = "down" => state = "disabled" /\ ~started /\ change = "none" /\ ~restored

\* While the server is up, a coroutine is somebody's, who waits for it.
ChangeOwned ==
    /\ phase = "up" /\ change # "none" => \E t \in Toggles : pc[t] = "wait"
    /\ \A t \in Toggles : pc[t] = "wait" => change # "none" /\ after # "none"

\* A task whose callback is due has ended; those of a running module have
\* neither been cancelled nor crashed unnoticed.
TasksAccounted ==
    /\ \A w \in unseen : worker[w] \in Ended
    /\ state = "running" =>
          /\ started
          /\ \A w \in Workers : \/ worker[w] \in {"running", "ended"}
                                \/ worker[w] = "crashed" /\ w \in unseen

\* A request that was told the module is enabled was told the truth.
KnownIsTrue ==
    \A r \in Requests : request[r] \in {"known", "served"} => enabled \/ restored

\* The runtime is as the choice, or has failed.
Settled == IF enabled THEN state \in {"running", "failed"}
                      ELSE state \in {"disabled", "failed"} /\ ~started

\* The coroutine that t waits for brings the module online.
Starts(t) == (after = "persist" /\ want[t] = "enable") \/ (after = "leave" /\ want[t] # "enable")

\* Where the module is at each position of the toggle t.
Placed(t) ==
    /\ pc[t] \in {"read", "enter", "leave"} => Settled
    /\ pc[t] \in Inside \cup {"enter"} => (enabled <=> want[t] # "enable")
    /\ pc[t] \in {"init", "initializing", "start"} => ~started /\ want[t] # "disable"
    /\ pc[t] \in {"initializing", "start"} => state = "starting"
    /\ pc[t] = "stop" => want[t] # "enable"
    /\ pc[t] = "wait" =>
          /\ change \in IF Starts(t) THEN {"start", "done", "error"} ELSE {"stop", "drain", "done"}
          /\ change = "start" => ~started
          /\ change = "error" => state = "failed" /\ ~started
          /\ change = "done" => IF Starts(t) THEN state \in {"running", "failed"}
                                             ELSE state = "disabled" /\ ~started
          /\ after = "persist" => want[t] # "retry"
          /\ after = "init" => want[t] = "retry"
    /\ pc[t] = "persist" =>
          /\ want[t] # "retry"
          /\ IF want[t] = "enable" THEN state \in {"running", "failed"}
                                   ELSE state = "disabled" /\ ~started

Tracked ==
    phase = "up" /\ ~restored =>
        /\ changeLock = Nobody => Settled
        /\ \A t \in Toggles : changeLock = t => Placed(t)

IInv ==
    /\ TypeOK
    /\ LockHeld
    /\ UpOnly
    /\ ChangeOwned
    /\ TasksAccounted
    /\ UnregisteredIsQuiet
    /\ KnownIsTrue
    /\ Tracked

-----------------------------------------------------------------------------
\* The loop and its tasks.
LEMMA LoopStep ==
    ASSUME IInv,
           \/ ChangeStart \/ ChangeStop \/ StopFinishes
           \/ \E w \in Workers : WorkerDone(w) \/ WorkerEnds(w) \/ WorkerCrashes(w)
                                                \/ WorkerGoesOn(w)
    PROVE  IInv'
<1> USE RuntimeAssumption DEF IInv
<1>1. ASSUME ChangeStart PROVE IInv'
  <2>1. TypeOK'
    <3>1. worker' \in [Workers -> {"none"} \cup Alive \cup Ended] /\ unseen' \in SUBSET Workers
      BY <1>1 DEF ChangeStart, StartsWorkers, BeginStop, CancelAll, TypeOK, Alive
    <3>2. /\ started' \in BOOLEAN
          /\ state' \in {"disabled", "starting", "running", "stopping", "failed"}
      BY <1>1 DEF ChangeStart, StartsWorkers, BeginStop, TypeOK
    <3>3. change' \in {"none", "start", "stop", "drain", "drainFailed", "done", "error"}
      BY <1>1 DEF ChangeStart
    <3> QED
      BY <1>1, <3>1, <3>2, <3>3 DEF ChangeStart, choice, toggleVars, TypeOK
  <2>2. LockHeld' /\ UpOnly' /\ ChangeOwned'
    BY <1>1 DEF ChangeStart, StartsWorkers, BeginStop, CancelAll, toggleVars, LockHeld, UpOnly,
           ChangeOwned
  <2>3. TasksAccounted' /\ UnregisteredIsQuiet' /\ KnownIsTrue'
    BY <1>1 DEF ChangeStart, StartsWorkers, BeginStop, CancelAll, choice, Ended, TypeOK,
           TasksAccounted, UnregisteredIsQuiet, KnownIsTrue
  <2>4. Tracked'
    BY <1>1 DEF ChangeStart, StartsWorkers, BeginStop, CancelAll, choice, toggleVars, Settled,
           Placed, Starts, LockHeld, ChangeOwned, Tracked
  <2> QED
    BY <2>1, <2>2, <2>3, <2>4
<1>2. ASSUME ChangeStop PROVE IInv'
  <2>1. TypeOK'
    BY <1>2 DEF ChangeStop, BeginStop, CancelAll, choice, toggleVars, Alive, TypeOK
  <2>2. LockHeld' /\ UpOnly' /\ ChangeOwned'
    BY <1>2 DEF ChangeStop, BeginStop, CancelAll, toggleVars, LockHeld, UpOnly, ChangeOwned
  <2>3. TasksAccounted' /\ UnregisteredIsQuiet' /\ KnownIsTrue'
    BY <1>2 DEF ChangeStop, BeginStop, CancelAll, choice, Ended, TypeOK, TasksAccounted,
           UnregisteredIsQuiet, KnownIsTrue
  <2>4. Tracked'
    BY <1>2 DEF ChangeStop, BeginStop, CancelAll, choice, toggleVars, Settled, Placed, Starts,
           LockHeld, ChangeOwned, Tracked
  <2> QED
    BY <2>1, <2>2, <2>3, <2>4
<1>3. ASSUME StopFinishes PROVE IInv'
  <2>1. TypeOK'
    BY <1>3 DEF StopFinishes, Drained, choice, toggleVars, TypeOK
  <2>2. LockHeld' /\ UpOnly' /\ ChangeOwned'
    BY <1>3 DEF StopFinishes, Drained, toggleVars, LockHeld, UpOnly, ChangeOwned
  <2>3. TasksAccounted' /\ UnregisteredIsQuiet' /\ KnownIsTrue'
    BY <1>3 DEF StopFinishes, Drained, choice, TasksAccounted, UnregisteredIsQuiet, KnownIsTrue
  <2>4. Tracked'
    BY <1>3 DEF StopFinishes, Drained, choice, toggleVars, Settled, Placed, Starts, LockHeld,
           ChangeOwned, Tracked
  <2> QED
    BY <2>1, <2>2, <2>3, <2>4
<1>4. ASSUME NEW w \in Workers, WorkerDone(w) PROVE IInv'
  <2>1. TypeOK'
    BY <1>4 DEF WorkerDone, CancelAll, choice, toggleVars, Alive, TypeOK
  <2>2. LockHeld' /\ UpOnly' /\ ChangeOwned'
    BY <1>4 DEF WorkerDone, CancelAll, choice, toggleVars, LockHeld, UpOnly, ChangeOwned
  <2>3. TasksAccounted' /\ UnregisteredIsQuiet' /\ KnownIsTrue'
    BY <1>4 DEF WorkerDone, CancelAll, choice, Ended, TypeOK, TasksAccounted, UnregisteredIsQuiet,
           KnownIsTrue
  <2>4. Tracked'
    BY <1>4 DEF WorkerDone, CancelAll, choice, toggleVars, Settled, Placed, Starts, Tracked
  <2> QED
    BY <2>1, <2>2, <2>3, <2>4
<1>5. ASSUME NEW w \in Workers, WorkerEnds(w) PROVE IInv'
  <2>1. TypeOK'
    BY <1>5 DEF WorkerEnds, choice, toggleVars, Ended, TypeOK
  <2>2. LockHeld' /\ UpOnly' /\ ChangeOwned'
    BY <1>5 DEF WorkerEnds, choice, toggleVars, LockHeld, UpOnly, ChangeOwned
  <2>3. TasksAccounted' /\ UnregisteredIsQuiet' /\ KnownIsTrue'
    BY <1>5 DEF WorkerEnds, choice, Ended, TypeOK, TasksAccounted, UnregisteredIsQuiet,
           KnownIsTrue
  <2>4. Tracked'
    BY <1>5 DEF WorkerEnds, choice, toggleVars, Settled, Placed, Starts, Tracked
  <2> QED
    BY <2>1, <2>2, <2>3, <2>4
<1>6. ASSUME NEW w \in Workers, WorkerCrashes(w) PROVE IInv'
  <2>1. TypeOK'
    BY <1>6 DEF WorkerCrashes, choice, toggleVars, Ended, TypeOK
  <2>2. LockHeld' /\ UpOnly' /\ ChangeOwned'
    BY <1>6 DEF WorkerCrashes, choice, toggleVars, LockHeld, UpOnly, ChangeOwned
  <2>3. TasksAccounted' /\ UnregisteredIsQuiet' /\ KnownIsTrue'
    BY <1>6 DEF WorkerCrashes, choice, Ended, TypeOK, TasksAccounted, UnregisteredIsQuiet,
           KnownIsTrue
  <2>4. Tracked'
    BY <1>6 DEF WorkerCrashes, choice, toggleVars, Settled, Placed, Starts, Tracked
  <2> QED
    BY <2>1, <2>2, <2>3, <2>4
<1>7. ASSUME NEW w \in Workers, WorkerGoesOn(w) PROVE IInv'
  <2>1. TypeOK'
    BY <1>7 DEF WorkerGoesOn, choice, toggleVars, Alive, TypeOK
  <2>2. LockHeld' /\ UpOnly' /\ ChangeOwned'
    BY <1>7 DEF WorkerGoesOn, choice, toggleVars, LockHeld, UpOnly, ChangeOwned
  <2>3. TasksAccounted' /\ UnregisteredIsQuiet' /\ KnownIsTrue'
    BY <1>7 DEF WorkerGoesOn, choice, Alive, Ended, TypeOK, TasksAccounted, UnregisteredIsQuiet,
           KnownIsTrue
  <2>4. Tracked'
    BY <1>7 DEF WorkerGoesOn, choice, toggleVars, Settled, Placed, Starts, Tracked
  <2> QED
    BY <2>1, <2>2, <2>3, <2>4
<1> QED
  BY <1>1, <1>2, <1>3, <1>4, <1>5, <1>6, <1>7

\* A toggle.
LEMMA ToggleStep ==
    ASSUME IInv, NEW t \in Toggles,
           Ask(t) \/ Lock(t) \/ ReadChoice(t) \/ Enter(t) \/ BeginInit(t) \/ EndInit(t)
           \/ SubmitStop(t) \/ SubmitStart(t) \/ Wait(t)
           \/ Persist(t) \/ PersistFails(t) \/ Leave(t)
    PROVE  IInv'
<1> USE RuntimeAssumption DEF IInv
<1>1. ASSUME Ask(t) PROVE IInv'
  <2>1. TypeOK'
    BY <1>1 DEF Ask, Goto, choice, runtimeVars, Positions, TypeOK
  <2>2. LockHeld' /\ UpOnly' /\ ChangeOwned'
    BY <1>1 DEF Ask, Goto, runtimeVars, Inside, TypeOK, LockHeld, UpOnly, ChangeOwned
  <2>3. TasksAccounted' /\ UnregisteredIsQuiet' /\ KnownIsTrue'
    BY <1>1 DEF Ask, Goto, choice, runtimeVars, TasksAccounted, UnregisteredIsQuiet, KnownIsTrue
  <2>4. Tracked'
    BY <1>1 DEF Ask, Goto, choice, runtimeVars, Settled, Placed, Starts, LockHeld, Tracked
  <2> QED
    BY <2>1, <2>2, <2>3, <2>4
<1>2. ASSUME Lock(t) PROVE IInv'
  <2>1. TypeOK'
    BY <1>2 DEF Lock, Goto, choice, runtimeVars, Positions, TypeOK
  <2>2. LockHeld' /\ UpOnly' /\ ChangeOwned'
    BY <1>2 DEF Lock, Goto, runtimeVars, Inside, TypeOK, LockHeld, UpOnly, ChangeOwned
  <2>3. TasksAccounted' /\ UnregisteredIsQuiet' /\ KnownIsTrue'
    BY <1>2 DEF Lock, Goto, choice, runtimeVars, TasksAccounted, UnregisteredIsQuiet, KnownIsTrue
  <2>4. Tracked'
    BY <1>2 DEF Lock, Goto, choice, runtimeVars, Inside, Settled, Placed, Tracked
  <2> QED
    BY <2>1, <2>2, <2>3, <2>4
<1>3. ASSUME ReadChoice(t) PROVE IInv'
  <2>1. TypeOK'
    BY <1>3 DEF ReadChoice, Goto, Needed, choice, runtimeVars, Positions, TypeOK
  <2>2. LockHeld' /\ UpOnly' /\ ChangeOwned'
    BY <1>3 DEF ReadChoice, Goto, Needed, runtimeVars, Inside, LockHeld, UpOnly, ChangeOwned
  <2>3. TasksAccounted' /\ UnregisteredIsQuiet' /\ KnownIsTrue'
    BY <1>3 DEF ReadChoice, Goto, Needed, choice, runtimeVars, TasksAccounted,
           UnregisteredIsQuiet, KnownIsTrue
  <2>4. Tracked'
    BY <1>3 DEF ReadChoice, Goto, Needed, choice, runtimeVars, Wants, Inside, Settled, Placed,
           TypeOK, LockHeld, Tracked
  <2> QED
    BY <2>1, <2>2, <2>3, <2>4
<1>4. ASSUME Enter(t) PROVE IInv'
  <2>1. TypeOK'
    <3>1. pc' \in [Toggles -> Positions] /\ transition' \in BOOLEAN
      BY <1>4 DEF Enter, Goto, TypeOK, Positions
    <3> QED
      BY <1>4, <3>1 DEF Enter, choice, runtimeVars, TypeOK
  <2>2. LockHeld' /\ UpOnly' /\ ChangeOwned'
    BY <1>4 DEF Enter, Goto, runtimeVars, Inside, TypeOK, LockHeld, UpOnly, ChangeOwned
  <2>3. TasksAccounted' /\ UnregisteredIsQuiet' /\ KnownIsTrue'
    BY <1>4 DEF Enter, Goto, choice, runtimeVars, TasksAccounted, UnregisteredIsQuiet, KnownIsTrue
  <2>4. Tracked'
    BY <1>4 DEF Enter, Goto, choice, runtimeVars, Settled, Placed, TypeOK, LockHeld, Tracked
  <2> QED
    BY <2>1, <2>2, <2>3, <2>4
<1>5. ASSUME BeginInit(t) PROVE IInv'
  <2>1. TypeOK'
    BY <1>5 DEF BeginInit, Goto, choice, Positions, TypeOK
  <2>2. LockHeld' /\ UpOnly' /\ ChangeOwned'
    BY <1>5 DEF BeginInit, Goto, Inside, LockHeld, UpOnly, ChangeOwned
  <2>3. TasksAccounted' /\ UnregisteredIsQuiet' /\ KnownIsTrue'
    BY <1>5 DEF BeginInit, Goto, choice, TasksAccounted, UnregisteredIsQuiet, KnownIsTrue
  <2>4. Tracked'
    BY <1>5 DEF BeginInit, Goto, choice, Inside, Settled, Placed, LockHeld, Tracked
  <2> QED
    BY <2>1, <2>2, <2>3, <2>4
<1>6. ASSUME EndInit(t) PROVE IInv'
  <2>1. TypeOK'
    BY <1>6 DEF EndInit, Goto, choice, Positions, TypeOK
  <2>2. LockHeld' /\ UpOnly' /\ ChangeOwned'
    BY <1>6 DEF EndInit, Goto, Inside, TypeOK, LockHeld, UpOnly, ChangeOwned
  <2>3. TasksAccounted' /\ UnregisteredIsQuiet' /\ KnownIsTrue'
    BY <1>6 DEF EndInit, Goto, choice, TasksAccounted, UnregisteredIsQuiet, KnownIsTrue
  <2>4. Tracked'
    BY <1>6 DEF EndInit, Goto, choice, Inside, Settled, Placed, TypeOK, LockHeld, Tracked
  <2> QED
    BY <2>1, <2>2, <2>3, <2>4
<1>7. ASSUME SubmitStop(t) PROVE IInv'
  <2>1. TypeOK'
    BY <1>7 DEF SubmitStop, Goto, Submit, choice, Positions, TypeOK
  <2>2. LockHeld' /\ UpOnly' /\ ChangeOwned'
    BY <1>7 DEF SubmitStop, Goto, Submit, Inside, TypeOK, LockHeld, UpOnly, ChangeOwned
  <2>3. TasksAccounted' /\ UnregisteredIsQuiet' /\ KnownIsTrue'
    BY <1>7 DEF SubmitStop, Goto, Submit, choice, TasksAccounted, UnregisteredIsQuiet, KnownIsTrue
  <2>4. Tracked'
    BY <1>7 DEF SubmitStop, Goto, Submit, choice, Inside, Settled, Placed, Starts, LockHeld,
           Tracked
  <2> QED
    BY <2>1, <2>2, <2>3, <2>4
<1>8. ASSUME SubmitStart(t) PROVE IInv'
  <2>1. TypeOK'
    BY <1>8 DEF SubmitStart, Goto, Submit, choice, Positions, TypeOK
  <2>2. LockHeld' /\ UpOnly' /\ ChangeOwned'
    BY <1>8 DEF SubmitStart, Goto, Submit, Inside, TypeOK, LockHeld, UpOnly, ChangeOwned
  <2>3. TasksAccounted' /\ UnregisteredIsQuiet' /\ KnownIsTrue'
    BY <1>8 DEF SubmitStart, Goto, Submit, choice, TasksAccounted, UnregisteredIsQuiet,
           KnownIsTrue
  <2>4. Tracked'
    BY <1>8 DEF SubmitStart, Goto, Submit, choice, Wants, Inside, Settled, Placed, Starts,
           LockHeld, Tracked
  <2> QED
    BY <2>1, <2>2, <2>3, <2>4
<1>9. ASSUME Wait(t) PROVE IInv'
  <2>1. TypeOK'
    <3>1. pc' \in [Toggles -> Positions]
      BY <1>9 DEF Wait, Goto, TypeOK, ChangeOwned, Positions
    <3> QED
      BY <1>9, <3>1 DEF Wait, choice, TypeOK
  <2>2. LockHeld' /\ UpOnly' /\ ChangeOwned'
    BY <1>9 DEF Wait, Goto, Inside, TypeOK, LockHeld, UpOnly, ChangeOwned
  <2>3. TasksAccounted' /\ UnregisteredIsQuiet' /\ KnownIsTrue'
    BY <1>9 DEF Wait, Goto, choice, TasksAccounted, UnregisteredIsQuiet, KnownIsTrue
  <2>4. Tracked'
    BY <1>9 DEF Wait, Goto, choice, Inside, Settled, Placed, Starts, TypeOK, LockHeld, Tracked
  <2> QED
    BY <2>1, <2>2, <2>3, <2>4
<1>10. ASSUME Persist(t) PROVE IInv'
  <2>1. TypeOK'
    BY <1>10 DEF Persist, Goto, runtimeVars, Positions, TypeOK
  <2>2. LockHeld' /\ UpOnly' /\ ChangeOwned'
    BY <1>10 DEF Persist, Goto, runtimeVars, Inside, LockHeld, UpOnly, ChangeOwned
  <2>3. TasksAccounted' /\ UnregisteredIsQuiet' /\ KnownIsTrue'
    BY <1>10 DEF Persist, Goto, runtimeVars, LockHeld, TasksAccounted, UnregisteredIsQuiet,
           KnownIsTrue, Inside
  <2>4. Tracked'
    BY <1>10 DEF Persist, Goto, runtimeVars, Inside, Settled, Placed, TypeOK, LockHeld, Tracked
  <2> QED
    BY <2>1, <2>2, <2>3, <2>4
<1>11. ASSUME PersistFails(t) PROVE IInv'
  <2>1. TypeOK'
    BY <1>11 DEF PersistFails, Goto, Submit, choice, Positions, TypeOK
  <2>2. LockHeld' /\ UpOnly' /\ ChangeOwned'
    BY <1>11 DEF PersistFails, Goto, Submit, Inside, TypeOK, LockHeld, UpOnly, ChangeOwned
  <2>3. TasksAccounted' /\ UnregisteredIsQuiet' /\ KnownIsTrue'
    BY <1>11 DEF PersistFails, Goto, Submit, choice, TasksAccounted, UnregisteredIsQuiet,
           KnownIsTrue
  <2>4. Tracked'
    BY <1>11 DEF PersistFails, Goto, Submit, choice, Inside, Settled, Placed, Starts, LockHeld,
           Tracked
  <2> QED
    BY <2>1, <2>2, <2>3, <2>4
<1>12. ASSUME Leave(t) PROVE IInv'
  <2>1. TypeOK'
    <3>1. pc' \in [Toggles -> Positions] /\ want' \in [Toggles -> Wants \cup {"none"}]
      BY <1>12 DEF Leave, Goto, TypeOK, Positions
    <3>2. transition' \in BOOLEAN /\ changeLock' \in Toggles \cup {Nobody}
      BY <1>12 DEF Leave
    <3> QED
      BY <1>12, <3>1, <3>2 DEF Leave, choice, runtimeVars, TypeOK
  <2>2. LockHeld' /\ UpOnly' /\ ChangeOwned'
    BY <1>12 DEF Leave, Goto, runtimeVars, Inside, TypeOK, LockHeld, UpOnly, ChangeOwned
  <2>3. TasksAccounted' /\ UnregisteredIsQuiet' /\ KnownIsTrue'
    BY <1>12 DEF Leave, Goto, choice, runtimeVars, TasksAccounted, UnregisteredIsQuiet,
           KnownIsTrue
  <2>4. Tracked'
    BY <1>12 DEF Leave, Goto, choice, runtimeVars, Settled, Placed, LockHeld, Tracked
  <2> QED
    BY <2>1, <2>2, <2>3, <2>4
<1> QED
  BY <1>1, <1>2, <1>3, <1>4, <1>5, <1>6, <1>7, <1>8, <1>9, <1>10, <1>11, <1>12

\* A request to the module.
LEMMA RequestStep ==
    ASSUME IInv, NEW r \in Requests,
           Lease(r) \/ CheckEnabled(r) \/ CheckRunning(r) \/ EndRequest(r)
    PROVE  IInv'
<1> USE RuntimeAssumption DEF IInv
<1>1. ASSUME Lease(r) PROVE IInv'
  <2>1. TypeOK'
    BY <1>1 DEF Lease, choice, runtimeVars, toggleVars, TypeOK
  <2>2. LockHeld' /\ UpOnly' /\ ChangeOwned'
    BY <1>1 DEF Lease, runtimeVars, toggleVars, LockHeld, UpOnly, ChangeOwned
  <2>3. TasksAccounted' /\ UnregisteredIsQuiet' /\ KnownIsTrue'
    BY <1>1 DEF Lease, choice, runtimeVars, TasksAccounted, UnregisteredIsQuiet, KnownIsTrue
  <2>4. Tracked'
    BY <1>1 DEF Lease, choice, runtimeVars, toggleVars, Settled, Placed, Starts, Tracked
  <2> QED
    BY <2>1, <2>2, <2>3, <2>4
<1>2. ASSUME CheckEnabled(r) PROVE IInv'
  <2>1. TypeOK'
    BY <1>2 DEF CheckEnabled, choice, runtimeVars, toggleVars, TypeOK
  <2>2. LockHeld' /\ UpOnly' /\ ChangeOwned'
    BY <1>2 DEF CheckEnabled, runtimeVars, toggleVars, LockHeld, UpOnly, ChangeOwned
  <2>3. TasksAccounted' /\ UnregisteredIsQuiet' /\ KnownIsTrue'
    BY <1>2 DEF CheckEnabled, choice, runtimeVars, TasksAccounted, UnregisteredIsQuiet,
           KnownIsTrue
  <2>4. Tracked'
    BY <1>2 DEF CheckEnabled, choice, runtimeVars, toggleVars, Settled, Placed, Starts, Tracked
  <2> QED
    BY <2>1, <2>2, <2>3, <2>4
<1>3. ASSUME CheckRunning(r) PROVE IInv'
  <2>1. TypeOK'
    BY <1>3 DEF CheckRunning, choice, runtimeVars, toggleVars, TypeOK
  <2>2. LockHeld' /\ UpOnly' /\ ChangeOwned'
    BY <1>3 DEF CheckRunning, runtimeVars, toggleVars, LockHeld, UpOnly, ChangeOwned
  <2>3. TasksAccounted' /\ UnregisteredIsQuiet' /\ KnownIsTrue'
    BY <1>3 DEF CheckRunning, choice, runtimeVars, TasksAccounted, UnregisteredIsQuiet,
           KnownIsTrue
  <2>4. Tracked'
    BY <1>3 DEF CheckRunning, choice, runtimeVars, toggleVars, Settled, Placed, Starts, Tracked
  <2> QED
    BY <2>1, <2>2, <2>3, <2>4
<1>4. ASSUME EndRequest(r) PROVE IInv'
  <2>1. TypeOK'
    BY <1>4 DEF EndRequest, choice, runtimeVars, toggleVars, TypeOK
  <2>2. LockHeld' /\ UpOnly' /\ ChangeOwned'
    BY <1>4 DEF EndRequest, runtimeVars, toggleVars, LockHeld, UpOnly, ChangeOwned
  <2>3. TasksAccounted' /\ UnregisteredIsQuiet' /\ KnownIsTrue'
    BY <1>4 DEF EndRequest, choice, runtimeVars, TasksAccounted, UnregisteredIsQuiet, KnownIsTrue
  <2>4. Tracked'
    BY <1>4 DEF EndRequest, choice, runtimeVars, toggleVars, Settled, Placed, Starts, Tracked
  <2> QED
    BY <2>1, <2>2, <2>3, <2>4
<1> QED
  BY <1>1, <1>2, <1>3, <1>4

\* The server and the restore.
LEMMA ServerStep ==
    ASSUME IInv, Restore \/ Boot \/ Close \/ Exit \/ Crash
    PROVE  IInv'
<1> USE RuntimeAssumption DEF IInv
<1>1. ASSUME Restore PROVE IInv'
  <2>1. TypeOK'
    BY <1>1 DEF Restore, runtimeVars, toggleVars, TypeOK
  <2>2. LockHeld' /\ UpOnly' /\ ChangeOwned'
    BY <1>1 DEF Restore, runtimeVars, toggleVars, LockHeld, UpOnly, ChangeOwned
  <2>3. TasksAccounted' /\ UnregisteredIsQuiet' /\ KnownIsTrue'
    BY <1>1 DEF Restore, runtimeVars, TasksAccounted, UnregisteredIsQuiet, KnownIsTrue
  <2>4. Tracked'
    BY <1>1 DEF Restore, Settled, Placed, Tracked
  <2> QED
    BY <2>1, <2>2, <2>3, <2>4
<1>2. ASSUME Boot PROVE IInv'
  <2>1. TypeOK'
    <3>1. worker' \in [Workers -> {"none"} \cup Alive \cup Ended] /\ unseen' \in SUBSET Workers
      BY <1>2 DEF Boot, StartsWorkers, TypeOK, Alive
    <3>2. /\ started' \in BOOLEAN
          /\ state' \in {"disabled", "starting", "running", "stopping", "failed"}
      BY <1>2 DEF Boot, StartsWorkers, TypeOK
    <3> QED
      BY <1>2, <3>1, <3>2 DEF Boot, choice, toggleVars, TypeOK
  <2>2. LockHeld' /\ UpOnly' /\ ChangeOwned'
    BY <1>2 DEF Boot, StartsWorkers, toggleVars, LockHeld, UpOnly, ChangeOwned
  <2>3. TasksAccounted' /\ UnregisteredIsQuiet' /\ KnownIsTrue'
    BY <1>2 DEF Boot, StartsWorkers, UpOnly, TasksAccounted, UnregisteredIsQuiet, KnownIsTrue
  <2>4. Tracked'
    BY <1>2 DEF Boot, StartsWorkers, choice, toggleVars, Settled, Placed, UpOnly, Tracked
  <2> QED
    BY <2>1, <2>2, <2>3, <2>4
<1>3. ASSUME Close PROVE IInv'
  <2>1. TypeOK'
    BY <1>3 DEF Close, BeginStop, CancelAll, choice, toggleVars, Alive, TypeOK
  <2>2. LockHeld' /\ UpOnly' /\ ChangeOwned'
    BY <1>3 DEF Close, BeginStop, CancelAll, toggleVars, TypeOK, LockHeld, UpOnly, ChangeOwned
  <2>3. TasksAccounted' /\ UnregisteredIsQuiet' /\ KnownIsTrue'
    BY <1>3 DEF Close, BeginStop, CancelAll, Ended, TypeOK, TasksAccounted, UnregisteredIsQuiet,
           KnownIsTrue
  <2>4. Tracked'
    BY <1>3 DEF Close, BeginStop, CancelAll, Settled, Placed, Tracked
  <2> QED
    BY <2>1, <2>2, <2>3, <2>4
<1>4. ASSUME Exit PROVE IInv'
  <2>1. TypeOK'
    BY <1>4 DEF Exit, Down, Positions, TypeOK
  <2>2. LockHeld' /\ UpOnly' /\ ChangeOwned'
    BY <1>4 DEF Exit, Down, LockHeld, UpOnly, ChangeOwned
  <2>3. TasksAccounted' /\ UnregisteredIsQuiet' /\ KnownIsTrue'
    BY <1>4 DEF Exit, Down, Alive, TasksAccounted, UnregisteredIsQuiet, KnownIsTrue
  <2>4. Tracked'
    BY <1>4 DEF Exit, Down, Settled, Placed, Tracked
  <2> QED
    BY <2>1, <2>2, <2>3, <2>4
<1>5. ASSUME Crash PROVE IInv'
  <2>1. TypeOK'
    BY <1>5 DEF Crash, Down, Positions, TypeOK
  <2>2. LockHeld' /\ UpOnly' /\ ChangeOwned'
    BY <1>5 DEF Crash, Down, Inside, LockHeld, UpOnly, ChangeOwned
  <2>3. TasksAccounted' /\ UnregisteredIsQuiet' /\ KnownIsTrue'
    BY <1>5 DEF Crash, Down, Alive, TasksAccounted, UnregisteredIsQuiet, KnownIsTrue
  <2>4. Tracked'
    BY <1>5 DEF Crash, Down, Settled, Placed, Tracked
  <2> QED
    BY <2>1, <2>2, <2>3, <2>4
<1> QED
  BY <1>1, <1>2, <1>3, <1>4, <1>5

LEMMA RuntimeInvariant == Spec => []IInv
<1>1. ASSUME Init PROVE IInv
  <2>1. TypeOK
    BY <1>1 DEF Init, TypeOK, Positions
  <2>2. LockHeld /\ UpOnly /\ ChangeOwned
    BY <1>1, RuntimeAssumption DEF Init, LockHeld, Inside, UpOnly, ChangeOwned
  <2>3. TasksAccounted /\ UnregisteredIsQuiet
    BY <1>1 DEF Init, TasksAccounted, UnregisteredIsQuiet, Alive
  <2>4. KnownIsTrue /\ Tracked
    BY <1>1 DEF Init, KnownIsTrue, Tracked
  <2> QED
    BY <2>1, <2>2, <2>3, <2>4 DEF IInv
<1>2. IInv /\ [Next]_vars => IInv'
  <2> SUFFICES ASSUME IInv, Next \/ UNCHANGED vars PROVE IInv'
    OBVIOUS
  <2>1. ASSUME NEW t \in Toggles, Ask(t) \/ Toggle(t) PROVE IInv'
    BY <2>1, ToggleStep DEF Toggle
  <2>2. ASSUME EventLoop \/ \E w \in Workers : WorkerEnds(w) \/ WorkerCrashes(w) \/ WorkerGoesOn(w)
         PROVE IInv'
    BY <2>2, LoopStep DEF EventLoop
  <2>3. ASSUME NEW r \in Requests, Request(r) PROVE IInv'
    BY <2>3, RequestStep DEF Request
  <2>4. ASSUME Restore \/ Boot \/ Close \/ Exit \/ Crash PROVE IInv'
    BY <2>4, ServerStep
  <2>5. CASE UNCHANGED vars
    BY <2>5 DEF vars, choice, runtimeVars, toggleVars, IInv, TypeOK, LockHeld, UpOnly, ChangeOwned,
       TasksAccounted, UnregisteredIsQuiet, KnownIsTrue, Tracked, Placed, Settled, Starts
  <2> QED
    BY <2>1, <2>2, <2>3, <2>4, <2>5 DEF Next
<1> QED
  BY <1>1, <1>2, PTL DEF Spec

-----------------------------------------------------------------------------
\* Whatever step of a toggle fails, and whatever crashes meanwhile, the runtime
\* agrees with the persisted choice between toggles, and no task outlives its
\* registration.
THEOREM RuntimeIsSound == Spec => []Sound
<1>1. ASSUME IInv PROVE Sound
  <2>1. TypeOK /\ UnregisteredIsQuiet
    BY <1>1 DEF IInv
  <2>2. Agreement
    BY <1>1 DEF IInv, Tracked, Settled, Agreement
  <2>3. RunningIsHealthy
    BY <1>1 DEF IInv, TasksAccounted, RunningIsHealthy
  <2> QED
    BY <2>1, <2>2, <2>3 DEF Sound
<1> QED
  BY <1>1, RuntimeInvariant, PTL

-----------------------------------------------------------------------------
\* What the switch sees of the runtime.
Serving == {r \in Requests : request[r] = "served"}

\* A toggle reaches the switch when it writes the choice, which is inside the
\* transition that shuts requests out.
LEMMA ToggleRefines ==
    ASSUME IInv, NEW t \in Toggles, Ask(t) \/ Toggle(t)
    PROVE  Switch!Toggle \/ UNCHANGED Switch!switch
<1>1. CASE Persist(t)
  <2>1. Serving = {}
    BY <1>1 DEF Persist, IInv, LockHeld, Inside, Serving
  <2>2. UNCHANGED <<restored, Serving>>
    BY <1>1 DEF Persist, Serving
  <2>3. enabled' = enabled \/ enabled' = ~enabled
    BY <1>1 DEF Persist, IInv, TypeOK
  <2> QED
    BY <2>1, <2>2, <2>3 DEF Switch!Toggle, Switch!switch, Serving
<1>2. CASE ~Persist(t)
  BY <1>2 DEF Ask, Toggle, Lock, ReadChoice, Enter, BeginInit, EndInit, SubmitStop, SubmitStart,
     Submit, Wait, PersistFails, Leave, choice, Switch!switch
<1> QED
  BY <1>1, <1>2

\* A request is served when both of its checks have passed; the choice cannot
\* have changed between them.
LEMMA RequestRefines ==
    ASSUME IInv, NEW r \in Requests, Request(r)
    PROVE  Switch!Serve(r) \/ Switch!Answer(r) \/ UNCHANGED Switch!switch
<1>1. CASE Lease(r) \/ CheckEnabled(r)
  <2>1. UNCHANGED <<enabled, restored, Serving>>
    BY <1>1 DEF Lease, CheckEnabled, choice, IInv, TypeOK, Serving
  <2> QED
    BY <2>1 DEF Switch!switch, Serving
<1>2. CASE CheckRunning(r) /\ state = "running"
  <2>1. enabled \/ restored
    BY <1>2 DEF CheckRunning, IInv, KnownIsTrue
  <2>2. UNCHANGED <<enabled, restored>> /\ r \notin Serving /\ Serving' = Serving \cup {r}
    BY <1>2 DEF CheckRunning, choice, IInv, TypeOK, Serving
  <2> QED
    BY <2>1, <2>2 DEF Switch!Serve, Serving
<1>3. CASE CheckRunning(r) /\ state # "running"
  <2>1. UNCHANGED <<enabled, restored, Serving>>
    BY <1>3 DEF CheckRunning, choice, IInv, TypeOK, Serving
  <2> QED
    BY <2>1 DEF Switch!switch, Serving
<1>4. CASE EndRequest(r)
  <2>1. UNCHANGED <<enabled, restored>> /\ r \in Serving /\ Serving' = Serving \ {r}
    BY <1>4 DEF EndRequest, choice, IInv, TypeOK, Serving
  <2> QED
    BY <2>1 DEF Switch!Answer, Serving
<1> QED
  BY <1>1, <1>2, <1>3, <1>4 DEF Request

\* Seen from its requests the module is a switch: it moves between requests,
\* never under one, and a request is served only while it is on.
THEOREM RuntimeIsASwitch == Spec => IsASwitch
<1>1. Init => Switch!SwitchInit
  BY DEF Init, Switch!SwitchInit
<1>2. IInv /\ [Next]_vars => [Switch!SwitchNext]_(Switch!switch)
  <2> SUFFICES ASSUME IInv, Next \/ UNCHANGED vars
               PROVE  Switch!SwitchNext \/ UNCHANGED Switch!switch
    OBVIOUS
  <2>1. ASSUME NEW t \in Toggles, Ask(t) \/ Toggle(t)
        PROVE  Switch!SwitchNext \/ UNCHANGED Switch!switch
    BY <2>1, ToggleRefines DEF Switch!SwitchNext
  <2>2. ASSUME EventLoop \/ \E w \in Workers : WorkerEnds(w) \/ WorkerCrashes(w) \/ WorkerGoesOn(w)
        PROVE  UNCHANGED Switch!switch
    BY <2>2 DEF EventLoop, ChangeStart, ChangeStop, StopFinishes, WorkerDone, WorkerEnds,
       WorkerCrashes, WorkerGoesOn, choice, Switch!switch
  <2>3. ASSUME NEW r \in Requests, Request(r)
        PROVE  Switch!SwitchNext \/ UNCHANGED Switch!switch
    BY <2>3, RequestRefines DEF Switch!SwitchNext
  <2>4. CASE Restore
    BY <2>4 DEF Restore, Switch!SwitchNext, Switch!Replace
  <2>5. CASE Boot \/ Close
    BY <2>5 DEF Boot, Close, choice, Switch!switch
  <2>6. CASE Exit \/ Crash
    BY <2>6 DEF Exit, Crash, Down, Switch!SwitchNext, Switch!Die
  <2>7. CASE UNCHANGED vars
    BY <2>7 DEF vars, choice, Switch!switch
  <2> QED
    BY <2>1, <2>2, <2>3, <2>4, <2>5, <2>6, <2>7 DEF Next
<1> QED
  BY <1>1, <1>2, RuntimeInvariant, PTL DEF Spec, IsASwitch, Switch!SwitchSpec
===============================================================================
