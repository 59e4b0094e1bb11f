--------------------------- MODULE MaintenanceProofs ---------------------------
(***************************************************************************)
(* Proofs about Maintenance, for every finite set of threads, every set of *)
(* tools and every number of steps.                                        *)
(***************************************************************************)
EXTENDS Maintenance, FiniteSetTheorems, TLAPS

-----------------------------------------------------------------------------
\* What a thread is doing agrees with where it is.
OpMatchesPc ==
    \A t \in Threads :
        /\ pc[t] = "idle" <=> op[t] = "none"
        /\ pc[t] \in {"launch", "launching", "terminate"} => op[t] = "operation"
        /\ pc[t] \in {"reacquire", "leave"} => op[t] \in {"transition", "operation"}

\* A thread past its acquisition, or inside a window, owns the operation lock.
LockOwner ==
    \A t \in Threads :
        pc[t] \in {"check", "launching", "leave"} \/ InWindow(t) => lock = t

\* The flag is set for as long as somebody is inside a transition.
FlagGuards ==
    /\ \A t \in Threads : InTransition(t) => transition
    /\ \A t, u \in Threads : InTransition(t) /\ InTransition(u) => t = u
    /\ transition => operations = 0 /\ active = NoTool

\* The counter counts the requests that are inside a module operation.
OperationsCounted == operations = Cardinality({t \in Threads : InOperation(t)})

\* A window is open only while nothing incompatible is reserved.
WindowGuards ==
    \A t \in Threads : InWindow(t) => ~transition /\ (active # NoTool => op[t] = "tick")

\* A worker between the top of its loop and the wait is on one of its steps.
LoopIndex ==
    \A k \in Tools : stage[k] \in {"next", "spawn", "register", "read"} => step[k] \in 1..Steps

\* The outcome is reported before the finally block runs.
ReportedBeforeCleanup == \A k \in Tools : stage[k] = "cleanup" => status[k] \in Terminal

\* A worker that has not reported yet is one whose task is still live, and only
\* such a worker has a process.
WorkerIsLive == \A k \in Tools : stage[k] \notin {"none", "cleanup"} => status[k] \in Live
ProcessHasWorker == \A k \in Tools : process[k] # "none" => stage[k] \in {"register", "read"}

IInv ==
    /\ TypeOK
    /\ OpMatchesPc
    /\ LockOwner
    /\ FlagGuards
    /\ OperationsCounted
    /\ WindowGuards
    /\ ReservationNamesWorker
    /\ LoopIndex
    /\ ReportedBeforeCleanup
    /\ WorkerIsLive
    /\ ProcessHasWorker

-----------------------------------------------------------------------------
\* A step of a worker, of its process or of its reader leaves the locks, flags
\* and counters alone; at most it gives the reservation back.
LEMMA WorkerFrame ==
    ASSUME NEW k \in Tools, Worker(k) \/ ReadFails(k) \/ ProcessExits(k) \/ OrphanExits(k)
    PROVE  UNCHANGED threadVars /\ active' \in {active, NoTool}
BY DEF Worker, NextStep, Spawn, Register, Reap, AfterSteps, Finish, Fail, Cleanup, ReadFails,
       ProcessExits, OrphanExits

\* So a step is one of a thread, or leaves all of that alone.
LEMMA StepOfThread ==
    ASSUME [Next]_vars
    PROVE  \/ \E t \in Threads : Thread(t) \/ User(t)
           \/ UNCHANGED threadVars /\ active' \in {active, NoTool}
BY WorkerFrame DEF Next, vars

\* Likewise, the tasks are out of reach of most of what a thread does.
LEMMA StepOfWorker ==
    ASSUME [Next]_vars
    PROVE  \/ UNCHANGED <<active, workerVars>>
           \/ \E t \in Threads : \/ Terminate(t)
                                \/ \E k \in Tools : Launch(t, k) \/ TickLaunch(t, k) \/ Cancel(t, k)
           \/ \E k \in Tools : Worker(k) \/ ReadFails(k) \/ ProcessExits(k) \/ OrphanExits(k)
BY DEF Next, vars, Thread, User, Request, Acquire, Refuse, EnterWindow, LeaveWindow,
       EnterTransition, LeaveTransition, EnterOperation, LeaveOperation, BeginLeave, Reacquire,
       RequestLaunch

\* The counter is positive while somebody is inside an operation.
LEMMA CounterPositive ==
    ASSUME TypeOK, OperationsCounted, NEW t \in Threads, InOperation(t)
    PROVE  operations > 0
<1> DEFINE S == {u \in Threads : InOperation(u)}
<1>1. IsFiniteSet(S)
  BY ThreadsAssumption, FS_Subset
<1>2. Cardinality(S) # 0
  BY <1>1, FS_EmptySet
<1> QED
  BY <1>2 DEF OperationsCounted, TypeOK

\* Every step keeps the types.  The counter needs CounterPositive, and the loop
\* index the fact that a worker that waits for a process is inside its loop.
LEMMA TypeStep == IInv /\ [Next]_vars => TypeOK'
<1> SUFFICES ASSUME IInv, [Next]_vars PROVE TypeOK'
  OBVIOUS
<1> TypeOK
  BY DEF IInv
<1>1. ASSUME NEW t \in Threads, NEW o \in Ops, Request(t, o) PROVE TypeOK'
  BY <1>1 DEF Request, TypeOK, threadVars, workerVars, Ops, Windows
<1>2. ASSUME NEW t \in Threads, Acquire(t) PROVE TypeOK'
  BY <1>2 DEF Acquire, TypeOK, threadVars, workerVars, Goto, Ops, Windows
<1>3. ASSUME NEW t \in Threads, Refuse(t) PROVE TypeOK'
  BY <1>3 DEF Refuse, TypeOK, threadVars, workerVars, Return, Ops, Windows
<1>4. ASSUME NEW t \in Threads, EnterWindow(t) PROVE TypeOK'
  BY <1>4 DEF EnterWindow, TypeOK, threadVars, workerVars, Goto, Return, Ops, Windows
<1>5. ASSUME NEW t \in Threads, LeaveWindow(t) PROVE TypeOK'
  BY <1>5 DEF LeaveWindow, TypeOK, threadVars, workerVars, Return, Ops, Windows
<1>6. ASSUME NEW t \in Threads, EnterTransition(t) PROVE TypeOK'
  BY <1>6 DEF EnterTransition, TypeOK, threadVars, workerVars, Goto, Return, Ops, Windows
<1>7. ASSUME NEW t \in Threads, LeaveTransition(t) PROVE TypeOK'
  BY <1>7 DEF LeaveTransition, TypeOK, threadVars, workerVars, Return, Ops, Windows
<1>8. ASSUME NEW t \in Threads, EnterOperation(t) PROVE TypeOK'
  BY <1>8 DEF EnterOperation, TypeOK, threadVars, workerVars, Goto, Return, Ops, Windows
<1>9. ASSUME NEW t \in Threads, LeaveOperation(t) PROVE TypeOK'
  <2>1. operations > 0
    BY <1>9, CounterPositive DEF LeaveOperation, InOperation, IInv
  <2> QED
    BY <1>9, <2>1 DEF LeaveOperation, Return, TypeOK, threadVars, workerVars, Ops, Windows
<1>10. ASSUME NEW t \in Threads, BeginLeave(t) PROVE TypeOK'
  BY <1>10 DEF BeginLeave, TypeOK, threadVars, workerVars, Goto, Ops, Windows
<1>11. ASSUME NEW t \in Threads, Reacquire(t) PROVE TypeOK'
  BY <1>11 DEF Reacquire, TypeOK, threadVars, workerVars, Goto, Ops, Windows
<1>12. ASSUME NEW t \in Threads, RequestLaunch(t) PROVE TypeOK'
  BY <1>12 DEF RequestLaunch, TypeOK, threadVars, workerVars, Goto, Ops, Windows
<1>13. ASSUME NEW t \in Threads, NEW k \in Tools, Launch(t, k) PROVE TypeOK'
  <2>1. 1 \in 1..(Steps + 1)
    BY StepsAssumption
  <2> QED
    BY <1>13, <2>1 DEF Launch, StartWorker, TypeOK, threadVars, workerVars, Live
<1>14. ASSUME NEW t \in Threads, NEW k \in Tools, TickLaunch(t, k) PROVE TypeOK'
  <2>1. 1 \in 1..(Steps + 1)
    BY StepsAssumption
  <2> QED
    BY <1>14, <2>1 DEF TickLaunch, StartWorker, TypeOK, threadVars, workerVars, Live
<1>15. ASSUME NEW t \in Threads, NEW k \in Tools, Cancel(t, k) PROVE TypeOK'
  BY <1>15 DEF Cancel, TypeOK, threadVars, workerVars, Ops, Windows, Live, Terminal
<1>16. ASSUME NEW t \in Threads, Terminate(t) PROVE TypeOK'
  BY <1>16 DEF Terminate, TypeOK, threadVars, workerVars, Ops, Windows
<1>17. ASSUME NEW k \in Tools, NextStep(k) PROVE TypeOK'
  BY <1>17 DEF NextStep, TypeOK, threadVars, workerVars, Live, Terminal
<1>18. ASSUME NEW k \in Tools, Spawn(k) PROVE TypeOK'
  BY <1>18 DEF Spawn, TypeOK, threadVars, workerVars
<1>19. ASSUME NEW k \in Tools, Register(k) PROVE TypeOK'
  BY <1>19 DEF Register, TypeOK, threadVars, workerVars
<1>20. ASSUME NEW k \in Tools, Reap(k) PROVE TypeOK'
  <2>1. step[k] \in 1..Steps
    BY <1>20 DEF Reap, IInv, LoopIndex
  <2>2. step' \in [Tools -> 1..(Steps + 1)]
    BY <1>20, <2>1, StepsAssumption DEF Reap, TypeOK
  <2> QED
    <3>1. stage' \in [Tools -> {"none", "next", "spawn", "register", "read", "success",
                                "finish", "failed", "cleanup"}]
      BY <1>20 DEF Reap, TypeOK
    <3>2. status' \in [Tools -> {"idle"} \cup Live \cup Terminal]
      BY <1>20 DEF Reap, TypeOK, Live, Terminal
    <3>3. incomplete' \in [Tools -> BOOLEAN]
      BY <1>20 DEF Reap, TypeOK
    <3> QED
      BY <1>20, <2>2, <3>1, <3>2, <3>3 DEF Reap, TypeOK, threadVars
<1>21. ASSUME NEW k \in Tools, AfterSteps(k) PROVE TypeOK'
  BY <1>21 DEF AfterSteps, TypeOK, threadVars, workerVars
<1>22. ASSUME NEW k \in Tools, Finish(k) PROVE TypeOK'
  BY <1>22 DEF Finish, TypeOK, threadVars, workerVars, Live, Terminal
<1>23. ASSUME NEW k \in Tools, Fail(k) PROVE TypeOK'
  BY <1>23 DEF Fail, TypeOK, threadVars, workerVars, Live, Terminal
<1>24. ASSUME NEW k \in Tools, Cleanup(k) PROVE TypeOK'
  BY <1>24, StepsAssumption DEF Cleanup, TypeOK, threadVars, workerVars
<1>25. ASSUME NEW k \in Tools, ReadFails(k) PROVE TypeOK'
  BY <1>25 DEF ReadFails, TypeOK, threadVars, workerVars
<1>26. ASSUME NEW k \in Tools, ProcessExits(k) PROVE TypeOK'
  BY <1>26 DEF ProcessExits, TypeOK, threadVars, workerVars
<1>27. ASSUME NEW k \in Tools, OrphanExits(k) PROVE TypeOK'
  BY <1>27 DEF OrphanExits, TypeOK, threadVars, workerVars
<1>28. CASE UNCHANGED vars
  BY <1>28 DEF vars, TypeOK, threadVars, workerVars
<1> QED
  BY <1>1, <1>2, <1>3, <1>4, <1>5, <1>6, <1>7, <1>8, <1>9, <1>10, <1>11, <1>12, <1>13, <1>14, <1>15, <1>16, <1>17, <1>18, <1>19, <1>20, <1>21, <1>22, <1>23, <1>24, <1>25, <1>26, <1>27, <1>28 DEF Next, Thread, User, Worker

\* A thread that is at some point of a call is in a call that has this point.
LEMMA OpStep == IInv /\ [Next]_vars => OpMatchesPc'
<1> SUFFICES ASSUME IInv, [Next]_vars PROVE OpMatchesPc'
  OBVIOUS
<1>1. ASSUME NEW t \in Threads, NEW o \in Ops, Request(t, o) PROVE OpMatchesPc'
  BY <1>1 DEF Request, IInv, TypeOK, OpMatchesPc, Ops, Windows
<1>2. ASSUME NEW t \in Threads, Acquire(t) PROVE OpMatchesPc'
  BY <1>2 DEF Acquire, IInv, TypeOK, OpMatchesPc, Ops, Windows, Goto
<1>3. ASSUME NEW t \in Threads, Refuse(t) PROVE OpMatchesPc'
  BY <1>3 DEF Refuse, IInv, TypeOK, OpMatchesPc, Ops, Windows, Return
<1>4. ASSUME NEW t \in Threads, EnterWindow(t) PROVE OpMatchesPc'
  BY <1>4 DEF EnterWindow, IInv, TypeOK, OpMatchesPc, Ops, Windows, Goto, Return
<1>5. ASSUME NEW t \in Threads, LeaveWindow(t) PROVE OpMatchesPc'
  BY <1>5 DEF LeaveWindow, IInv, TypeOK, OpMatchesPc, Ops, Windows, Return
<1>6. ASSUME NEW t \in Threads, EnterTransition(t) PROVE OpMatchesPc'
  BY <1>6 DEF EnterTransition, IInv, TypeOK, OpMatchesPc, Ops, Windows, Goto, Return
<1>7. ASSUME NEW t \in Threads, LeaveTransition(t) PROVE OpMatchesPc'
  BY <1>7 DEF LeaveTransition, IInv, TypeOK, OpMatchesPc, Ops, Windows, Return
<1>8. ASSUME NEW t \in Threads, EnterOperation(t) PROVE OpMatchesPc'
  BY <1>8 DEF EnterOperation, IInv, TypeOK, OpMatchesPc, Ops, Windows, Goto, Return
<1>9. ASSUME NEW t \in Threads, LeaveOperation(t) PROVE OpMatchesPc'
  BY <1>9 DEF LeaveOperation, IInv, TypeOK, OpMatchesPc, Ops, Windows, Return
<1>10. ASSUME NEW t \in Threads, BeginLeave(t) PROVE OpMatchesPc'
  BY <1>10 DEF BeginLeave, IInv, TypeOK, OpMatchesPc, Ops, Windows, Goto
<1>11. ASSUME NEW t \in Threads, Reacquire(t) PROVE OpMatchesPc'
  BY <1>11 DEF Reacquire, IInv, TypeOK, OpMatchesPc, Ops, Windows, Goto
<1>12. ASSUME NEW t \in Threads, RequestLaunch(t) PROVE OpMatchesPc'
  BY <1>12 DEF RequestLaunch, IInv, TypeOK, OpMatchesPc, Ops, Windows, Goto
<1>13. ASSUME NEW t \in Threads, NEW k \in Tools, Launch(t, k) PROVE OpMatchesPc'
  BY <1>13 DEF Launch, IInv, TypeOK, OpMatchesPc, Ops, Windows, StartWorker
<1>14. ASSUME NEW t \in Threads, NEW k \in Tools, TickLaunch(t, k) PROVE OpMatchesPc'
  BY <1>14 DEF TickLaunch, IInv, TypeOK, OpMatchesPc, Ops, Windows, StartWorker, threadVars
<1>15. ASSUME NEW t \in Threads, NEW k \in Tools, Cancel(t, k) PROVE OpMatchesPc'
  BY <1>15 DEF Cancel, IInv, TypeOK, OpMatchesPc, Ops, Windows
<1>16. ASSUME NEW t \in Threads, Terminate(t) PROVE OpMatchesPc'
  BY <1>16 DEF Terminate, IInv, TypeOK, OpMatchesPc, Ops, Windows
<1>17. CASE UNCHANGED threadVars /\ active' \in {active, NoTool}
  BY <1>17 DEF threadVars, IInv, OpMatchesPc
<1> QED
  BY <1>1, <1>2, <1>3, <1>4, <1>5, <1>6, <1>7, <1>8, <1>9, <1>10, <1>11, <1>12, <1>13, <1>14, <1>15, <1>16, <1>17, StepOfThread DEF Thread, User

\* A thread at a point that needs the operation lock still owns it.
LEMMA LockStep == IInv /\ [Next]_vars => LockOwner'
<1> SUFFICES ASSUME IInv, [Next]_vars PROVE LockOwner'
  OBVIOUS
<1>1. ASSUME NEW t \in Threads, NEW o \in Ops, Request(t, o) PROVE LockOwner'
  BY <1>1 DEF Request, IInv, TypeOK, OpMatchesPc, LockOwner, InWindow, Ops, Windows
<1>2. ASSUME NEW t \in Threads, Acquire(t) PROVE LockOwner'
  BY <1>2, ThreadsAssumption DEF Acquire, IInv, TypeOK, OpMatchesPc, LockOwner, InWindow, Ops, Windows, Goto
<1>3. ASSUME NEW t \in Threads, Refuse(t) PROVE LockOwner'
  BY <1>3 DEF Refuse, IInv, TypeOK, OpMatchesPc, LockOwner, InWindow, Ops, Windows, Return
<1>4. ASSUME NEW t \in Threads, EnterWindow(t) PROVE LockOwner'
  BY <1>4 DEF EnterWindow, IInv, TypeOK, OpMatchesPc, LockOwner, InWindow, Ops, Windows, Goto, Return
<1>5. ASSUME NEW t \in Threads, LeaveWindow(t) PROVE LockOwner'
  BY <1>5 DEF LeaveWindow, IInv, TypeOK, OpMatchesPc, LockOwner, InWindow, Ops, Windows, Return
<1>6. ASSUME NEW t \in Threads, EnterTransition(t) PROVE LockOwner'
  BY <1>6 DEF EnterTransition, IInv, TypeOK, OpMatchesPc, LockOwner, InWindow, Ops, Windows, Goto, Return
<1>7. ASSUME NEW t \in Threads, LeaveTransition(t) PROVE LockOwner'
  BY <1>7 DEF LeaveTransition, IInv, TypeOK, OpMatchesPc, LockOwner, InWindow, Ops, Windows, Return
<1>8. ASSUME NEW t \in Threads, EnterOperation(t) PROVE LockOwner'
  BY <1>8 DEF EnterOperation, IInv, TypeOK, OpMatchesPc, LockOwner, InWindow, Ops, Windows, Goto, Return
<1>9. ASSUME NEW t \in Threads, LeaveOperation(t) PROVE LockOwner'
  BY <1>9 DEF LeaveOperation, IInv, TypeOK, OpMatchesPc, LockOwner, InWindow, Ops, Windows, Return
<1>10. ASSUME NEW t \in Threads, BeginLeave(t) PROVE LockOwner'
  BY <1>10 DEF BeginLeave, IInv, TypeOK, OpMatchesPc, LockOwner, InWindow, Ops, Windows, Goto
<1>11. ASSUME NEW t \in Threads, Reacquire(t) PROVE LockOwner'
  BY <1>11, ThreadsAssumption DEF Reacquire, IInv, TypeOK, OpMatchesPc, LockOwner, InWindow, Ops, Windows, Goto
<1>12. ASSUME NEW t \in Threads, RequestLaunch(t) PROVE LockOwner'
  BY <1>12 DEF RequestLaunch, IInv, TypeOK, OpMatchesPc, LockOwner, InWindow, Ops, Windows, Goto
<1>13. ASSUME NEW t \in Threads, NEW k \in Tools, Launch(t, k) PROVE LockOwner'
  BY <1>13 DEF Launch, IInv, TypeOK, OpMatchesPc, LockOwner, InWindow, Ops, Windows, StartWorker
<1>14. ASSUME NEW t \in Threads, NEW k \in Tools, TickLaunch(t, k) PROVE LockOwner'
  BY <1>14 DEF TickLaunch, IInv, TypeOK, OpMatchesPc, LockOwner, InWindow, Ops, Windows, StartWorker, threadVars
<1>15. ASSUME NEW t \in Threads, NEW k \in Tools, Cancel(t, k) PROVE LockOwner'
  BY <1>15 DEF Cancel, IInv, TypeOK, OpMatchesPc, LockOwner, InWindow, Ops, Windows
<1>16. ASSUME NEW t \in Threads, Terminate(t) PROVE LockOwner'
  BY <1>16 DEF Terminate, IInv, TypeOK, OpMatchesPc, LockOwner, InWindow, Ops, Windows
<1>17. CASE UNCHANGED threadVars /\ active' \in {active, NoTool}
  BY <1>17 DEF threadVars, IInv, LockOwner, InWindow
<1> QED
  BY <1>1, <1>2, <1>3, <1>4, <1>5, <1>6, <1>7, <1>8, <1>9, <1>10, <1>11, <1>12, <1>13, <1>14, <1>15, <1>16, <1>17, StepOfThread DEF Thread, User

\* Whoever switches modules has raised the flag, alone and with nothing else reserved.
LEMMA FlagStep == IInv /\ [Next]_vars => FlagGuards'
<1> SUFFICES ASSUME IInv, [Next]_vars PROVE FlagGuards'
  OBVIOUS
<1>1. ASSUME NEW t \in Threads, NEW o \in Ops, Request(t, o) PROVE FlagGuards'
  BY <1>1 DEF Request, IInv, TypeOK, OpMatchesPc, LockOwner, InWindow, FlagGuards, InTransition, Ops, Windows
<1>2. ASSUME NEW t \in Threads, Acquire(t) PROVE FlagGuards'
  BY <1>2 DEF Acquire, IInv, TypeOK, OpMatchesPc, LockOwner, InWindow, FlagGuards, InTransition, Ops, Windows, Goto
<1>3. ASSUME NEW t \in Threads, Refuse(t) PROVE FlagGuards'
  BY <1>3 DEF Refuse, IInv, TypeOK, OpMatchesPc, LockOwner, InWindow, FlagGuards, InTransition, Ops, Windows, Return
<1>4. ASSUME NEW t \in Threads, EnterWindow(t) PROVE FlagGuards'
  BY <1>4 DEF EnterWindow, IInv, TypeOK, OpMatchesPc, LockOwner, InWindow, FlagGuards, InTransition, Ops, Windows, Goto, Return
<1>5. ASSUME NEW t \in Threads, LeaveWindow(t) PROVE FlagGuards'
  BY <1>5 DEF LeaveWindow, IInv, TypeOK, OpMatchesPc, LockOwner, InWindow, FlagGuards, InTransition, Ops, Windows, Return
<1>6. ASSUME NEW t \in Threads, EnterTransition(t) PROVE FlagGuards'
  BY <1>6 DEF EnterTransition, IInv, TypeOK, OpMatchesPc, LockOwner, InWindow, FlagGuards, InTransition, Ops, Windows, Goto, Return
<1>7. ASSUME NEW t \in Threads, LeaveTransition(t) PROVE FlagGuards'
  BY <1>7 DEF LeaveTransition, IInv, TypeOK, OpMatchesPc, LockOwner, InWindow, FlagGuards, InTransition, Ops, Windows, Return
<1>8. ASSUME NEW t \in Threads, EnterOperation(t) PROVE FlagGuards'
  BY <1>8 DEF EnterOperation, IInv, TypeOK, OpMatchesPc, LockOwner, InWindow, FlagGuards, InTransition, Ops, Windows, Goto, Return
<1>9. ASSUME NEW t \in Threads, LeaveOperation(t) PROVE FlagGuards'
  <2>1. operations > 0
    BY <1>9, CounterPositive DEF LeaveOperation, InOperation, IInv
  <2> QED
    BY <1>9, <2>1 DEF LeaveOperation, IInv, TypeOK, OpMatchesPc, FlagGuards, InTransition, Return
<1>10. ASSUME NEW t \in Threads, BeginLeave(t) PROVE FlagGuards'
  BY <1>10 DEF BeginLeave, IInv, TypeOK, OpMatchesPc, LockOwner, InWindow, FlagGuards, InTransition, Ops, Windows, Goto
<1>11. ASSUME NEW t \in Threads, Reacquire(t) PROVE FlagGuards'
  BY <1>11 DEF Reacquire, IInv, TypeOK, OpMatchesPc, LockOwner, InWindow, FlagGuards, InTransition, Ops, Windows, Goto
<1>12. ASSUME NEW t \in Threads, RequestLaunch(t) PROVE FlagGuards'
  BY <1>12 DEF RequestLaunch, IInv, TypeOK, OpMatchesPc, LockOwner, InWindow, FlagGuards, InTransition, Ops, Windows, Goto
<1>13. ASSUME NEW t \in Threads, NEW k \in Tools, Launch(t, k) PROVE FlagGuards'
  BY <1>13 DEF Launch, IInv, TypeOK, OpMatchesPc, LockOwner, InWindow, FlagGuards, InTransition, Ops, Windows, StartWorker
<1>14. ASSUME NEW t \in Threads, NEW k \in Tools, TickLaunch(t, k) PROVE FlagGuards'
  BY <1>14 DEF TickLaunch, IInv, TypeOK, OpMatchesPc, LockOwner, InWindow, FlagGuards, InTransition, Ops, Windows, StartWorker, threadVars
<1>15. ASSUME NEW t \in Threads, NEW k \in Tools, Cancel(t, k) PROVE FlagGuards'
  BY <1>15 DEF Cancel, IInv, TypeOK, OpMatchesPc, LockOwner, InWindow, FlagGuards, InTransition, Ops, Windows
<1>16. ASSUME NEW t \in Threads, Terminate(t) PROVE FlagGuards'
  BY <1>16 DEF Terminate, IInv, TypeOK, OpMatchesPc, LockOwner, InWindow, FlagGuards, InTransition, Ops, Windows
<1>17. CASE UNCHANGED threadVars /\ active' \in {active, NoTool}
  BY <1>17 DEF threadVars, IInv, FlagGuards, InTransition
<1> QED
  BY <1>1, <1>2, <1>3, <1>4, <1>5, <1>6, <1>7, <1>8, <1>9, <1>10, <1>11, <1>12, <1>13, <1>14, <1>15, <1>16, <1>17, StepOfThread DEF Thread, User

\* A thread inside its window still finds what its check found.
LEMMA WindowStep == IInv /\ [Next]_vars => WindowGuards'
<1> SUFFICES ASSUME IInv, [Next]_vars PROVE WindowGuards'
  OBVIOUS
<1>1. ASSUME NEW t \in Threads, NEW o \in Ops, Request(t, o) PROVE WindowGuards'
  BY <1>1 DEF Request, IInv, TypeOK, OpMatchesPc, LockOwner, InWindow, WindowGuards, Ops, Windows
<1>2. ASSUME NEW t \in Threads, Acquire(t) PROVE WindowGuards'
  BY <1>2 DEF Acquire, IInv, TypeOK, OpMatchesPc, LockOwner, InWindow, WindowGuards, Ops, Windows, Goto
<1>3. ASSUME NEW t \in Threads, Refuse(t) PROVE WindowGuards'
  BY <1>3 DEF Refuse, IInv, TypeOK, OpMatchesPc, LockOwner, InWindow, WindowGuards, Ops, Windows, Return
<1>4. ASSUME NEW t \in Threads, EnterWindow(t) PROVE WindowGuards'
  BY <1>4 DEF EnterWindow, IInv, TypeOK, OpMatchesPc, LockOwner, InWindow, WindowGuards, Ops, Windows, Goto, Return
<1>5. ASSUME NEW t \in Threads, LeaveWindow(t) PROVE WindowGuards'
  BY <1>5 DEF LeaveWindow, IInv, TypeOK, OpMatchesPc, LockOwner, InWindow, WindowGuards, Ops, Windows, Return
<1>6. ASSUME NEW t \in Threads, EnterTransition(t) PROVE WindowGuards'
  BY <1>6 DEF EnterTransition, IInv, TypeOK, OpMatchesPc, LockOwner, InWindow, WindowGuards, Ops, Windows, Goto, Return
<1>7. ASSUME NEW t \in Threads, LeaveTransition(t) PROVE WindowGuards'
  BY <1>7 DEF LeaveTransition, IInv, TypeOK, OpMatchesPc, LockOwner, InWindow, WindowGuards, Ops, Windows, Return
<1>8. ASSUME NEW t \in Threads, EnterOperation(t) PROVE WindowGuards'
  BY <1>8 DEF EnterOperation, IInv, TypeOK, OpMatchesPc, LockOwner, InWindow, WindowGuards, Ops, Windows, Goto, Return
<1>9. ASSUME NEW t \in Threads, LeaveOperation(t) PROVE WindowGuards'
  BY <1>9 DEF LeaveOperation, IInv, TypeOK, OpMatchesPc, LockOwner, InWindow, WindowGuards, Ops, Windows, Return
<1>10. ASSUME NEW t \in Threads, BeginLeave(t) PROVE WindowGuards'
  BY <1>10 DEF BeginLeave, IInv, TypeOK, OpMatchesPc, LockOwner, InWindow, WindowGuards, Ops, Windows, Goto
<1>11. ASSUME NEW t \in Threads, Reacquire(t) PROVE WindowGuards'
  BY <1>11 DEF Reacquire, IInv, TypeOK, OpMatchesPc, LockOwner, InWindow, WindowGuards, Ops, Windows, Goto
<1>12. ASSUME NEW t \in Threads, RequestLaunch(t) PROVE WindowGuards'
  BY <1>12 DEF RequestLaunch, IInv, TypeOK, OpMatchesPc, LockOwner, InWindow, WindowGuards, Ops, Windows, Goto
<1>13. ASSUME NEW t \in Threads, NEW k \in Tools, Launch(t, k) PROVE WindowGuards'
  BY <1>13 DEF Launch, IInv, TypeOK, OpMatchesPc, LockOwner, InWindow, WindowGuards, Ops, Windows, StartWorker
<1>14. ASSUME NEW t \in Threads, NEW k \in Tools, TickLaunch(t, k) PROVE WindowGuards'
  BY <1>14 DEF TickLaunch, IInv, TypeOK, OpMatchesPc, LockOwner, InWindow, WindowGuards, Ops, Windows, StartWorker, threadVars
<1>15. ASSUME NEW t \in Threads, NEW k \in Tools, Cancel(t, k) PROVE WindowGuards'
  BY <1>15 DEF Cancel, IInv, TypeOK, OpMatchesPc, LockOwner, InWindow, WindowGuards, Ops, Windows
<1>16. ASSUME NEW t \in Threads, Terminate(t) PROVE WindowGuards'
  BY <1>16 DEF Terminate, IInv, TypeOK, OpMatchesPc, LockOwner, InWindow, WindowGuards, Ops, Windows
<1>17. CASE UNCHANGED threadVars /\ active' \in {active, NoTool}
  BY <1>17 DEF threadVars, IInv, WindowGuards, InWindow
<1> QED
  BY <1>1, <1>2, <1>3, <1>4, <1>5, <1>6, <1>7, <1>8, <1>9, <1>10, <1>11, <1>12, <1>13, <1>14, <1>15, <1>16, <1>17, StepOfThread DEF Thread, User

\* The counter counts: it goes up and down with the set of requests inside.
LEMMA CountStep == IInv /\ [Next]_vars => OperationsCounted'
<1> SUFFICES ASSUME IInv, [Next]_vars PROVE OperationsCounted'
  OBVIOUS
<1> DEFINE Inside == {u \in Threads : InOperation(u)}
<1>1. IsFiniteSet(Inside)
  BY ThreadsAssumption, FS_Subset
<1>2. ASSUME NEW t \in Threads, EnterOperation(t) PROVE OperationsCounted'
  <2>1. CASE transition
    <3>1. Inside' = Inside
      BY <1>2, <2>1 DEF EnterOperation, IInv, TypeOK, OpMatchesPc, InOperation, Return
    <3> QED
      BY <1>2, <2>1, <3>1 DEF EnterOperation, IInv, OperationsCounted
  <2>2. CASE ~transition
    <3>1. Inside' = Inside \cup {t} /\ t \notin Inside
      BY <1>2, <2>2 DEF EnterOperation, IInv, TypeOK, OpMatchesPc, InOperation, Goto
    <3>2. Cardinality(Inside') = Cardinality(Inside) + 1
      BY <1>1, <3>1, FS_AddElement
    <3> QED
      BY <1>2, <2>2, <3>2 DEF EnterOperation, IInv, OperationsCounted
  <2> QED
    BY <2>1, <2>2
<1>3. ASSUME NEW t \in Threads, LeaveOperation(t) PROVE OperationsCounted'
  <2>1. Inside' = Inside \ {t} /\ t \in Inside
    BY <1>3 DEF LeaveOperation, IInv, TypeOK, OpMatchesPc, InOperation, Return
  <2>2. Cardinality(Inside') = Cardinality(Inside) - 1
    BY <1>1, <2>1, FS_RemoveElement
  <2> QED
    BY <1>3, <2>2 DEF LeaveOperation, IInv, OperationsCounted
<1>4. CASE \A t \in Threads : ~EnterOperation(t) /\ ~LeaveOperation(t)
  <2>1. ASSUME NEW t \in Threads, NEW o \in Ops, Request(t, o) PROVE Inside' = Inside /\ UNCHANGED operations
    BY <2>1 DEF Request, IInv, TypeOK, OpMatchesPc, InOperation, Ops, Windows
  <2>2. ASSUME NEW t \in Threads, Acquire(t) PROVE Inside' = Inside /\ UNCHANGED operations
    BY <2>2 DEF Acquire, IInv, TypeOK, OpMatchesPc, InOperation, Ops, Windows, Goto
  <2>3. ASSUME NEW t \in Threads, Refuse(t) PROVE Inside' = Inside /\ UNCHANGED operations
    BY <2>3 DEF Refuse, IInv, TypeOK, OpMatchesPc, InOperation, Ops, Windows, Return
  <2>4. ASSUME NEW t \in Threads, EnterWindow(t) PROVE Inside' = Inside /\ UNCHANGED operations
    BY <2>4 DEF EnterWindow, IInv, TypeOK, OpMatchesPc, InOperation, Ops, Windows, Goto, Return
  <2>5. ASSUME NEW t \in Threads, LeaveWindow(t) PROVE Inside' = Inside /\ UNCHANGED operations
    BY <2>5 DEF LeaveWindow, IInv, TypeOK, OpMatchesPc, InOperation, Ops, Windows, Return
  <2>6. ASSUME NEW t \in Threads, EnterTransition(t) PROVE Inside' = Inside /\ UNCHANGED operations
    BY <2>6 DEF EnterTransition, IInv, TypeOK, OpMatchesPc, InOperation, Ops, Windows, Goto, Return
  <2>7. ASSUME NEW t \in Threads, LeaveTransition(t) PROVE Inside' = Inside /\ UNCHANGED operations
    BY <2>7 DEF LeaveTransition, IInv, TypeOK, OpMatchesPc, InOperation, Ops, Windows, Return
  <2>8. ASSUME NEW t \in Threads, BeginLeave(t) PROVE Inside' = Inside /\ UNCHANGED operations
    BY <2>8 DEF BeginLeave, IInv, TypeOK, OpMatchesPc, InOperation, Ops, Windows, Goto
  <2>9. ASSUME NEW t \in Threads, Reacquire(t) PROVE Inside' = Inside /\ UNCHANGED operations
    BY <2>9 DEF Reacquire, IInv, TypeOK, OpMatchesPc, InOperation, Ops, Windows, Goto
  <2>10. ASSUME NEW t \in Threads, RequestLaunch(t) PROVE Inside' = Inside /\ UNCHANGED operations
    BY <2>10 DEF RequestLaunch, IInv, TypeOK, OpMatchesPc, InOperation, Ops, Windows, Goto
  <2>11. ASSUME NEW t \in Threads, NEW k \in Tools, Launch(t, k) PROVE Inside' = Inside /\ UNCHANGED operations
    BY <2>11 DEF Launch, IInv, TypeOK, OpMatchesPc, InOperation, Ops, Windows, StartWorker
  <2>12. ASSUME NEW t \in Threads, NEW k \in Tools, TickLaunch(t, k) PROVE Inside' = Inside /\ UNCHANGED operations
    BY <2>12 DEF TickLaunch, IInv, TypeOK, OpMatchesPc, InOperation, Ops, Windows, StartWorker, threadVars
  <2>13. ASSUME NEW t \in Threads, NEW k \in Tools, Cancel(t, k) PROVE Inside' = Inside /\ UNCHANGED operations
    BY <2>13 DEF Cancel, IInv, TypeOK, OpMatchesPc, InOperation, Ops, Windows
  <2>14. ASSUME NEW t \in Threads, Terminate(t) PROVE Inside' = Inside /\ UNCHANGED operations
    BY <2>14 DEF Terminate, IInv, TypeOK, OpMatchesPc, InOperation, Ops, Windows
  <2>15. ASSUME UNCHANGED threadVars PROVE Inside' = Inside /\ UNCHANGED operations
    BY <2>15 DEF threadVars, InOperation
  <2> HIDE DEF Inside
  <2>20. Inside' = Inside /\ UNCHANGED operations
    BY <1>4, <2>1, <2>2, <2>3, <2>4, <2>5, <2>6, <2>7, <2>8, <2>9, <2>10, <2>11, <2>12, <2>13, <2>14, <2>15, StepOfThread DEF Thread, User
  <2> QED
    BY <2>20 DEF IInv, OperationsCounted, Inside
<1> QED
  BY <1>2, <1>3, <1>4

\* One worker at a time: only a free reservation is taken, and only the finally
\* block of the worker it names gives it back.
LEMMA WorkerStep == IInv /\ [Next]_vars => ReservationNamesWorker'
<1> SUFFICES ASSUME IInv, [Next]_vars PROVE ReservationNamesWorker'
  OBVIOUS
<1>1. ASSUME NEW t \in Threads, NEW k \in Tools, Launch(t, k) PROVE ReservationNamesWorker'
  BY <1>1, ToolsAssumption DEF Launch, IInv, TypeOK, ReservationNamesWorker, workerVars, Live, StartWorker
<1>2. ASSUME NEW t \in Threads, NEW k \in Tools, TickLaunch(t, k) PROVE ReservationNamesWorker'
  BY <1>2, ToolsAssumption DEF TickLaunch, IInv, TypeOK, ReservationNamesWorker, workerVars, Live, StartWorker, threadVars
<1>3. ASSUME NEW t \in Threads, NEW k \in Tools, Cancel(t, k) PROVE ReservationNamesWorker'
  BY <1>3, ToolsAssumption DEF Cancel, IInv, TypeOK, ReservationNamesWorker, workerVars, Live
<1>4. ASSUME NEW t \in Threads, Terminate(t) PROVE ReservationNamesWorker'
  BY <1>4 DEF Terminate, IInv, TypeOK, ReservationNamesWorker, workerVars, Live
<1>5. ASSUME NEW k \in Tools, NextStep(k) PROVE ReservationNamesWorker'
  BY <1>5, ToolsAssumption DEF NextStep, IInv, TypeOK, ReservationNamesWorker, workerVars, Live
<1>6. ASSUME NEW k \in Tools, Spawn(k) PROVE ReservationNamesWorker'
  BY <1>6, ToolsAssumption DEF Spawn, IInv, TypeOK, ReservationNamesWorker, workerVars, Live
<1>7. ASSUME NEW k \in Tools, Register(k) PROVE ReservationNamesWorker'
  BY <1>7, ToolsAssumption DEF Register, IInv, TypeOK, ReservationNamesWorker, workerVars, Live
<1>8. ASSUME NEW k \in Tools, Reap(k) PROVE ReservationNamesWorker'
  BY <1>8, ToolsAssumption DEF Reap, IInv, TypeOK, ReservationNamesWorker, workerVars, Live
<1>9. ASSUME NEW k \in Tools, AfterSteps(k) PROVE ReservationNamesWorker'
  BY <1>9, ToolsAssumption DEF AfterSteps, IInv, TypeOK, ReservationNamesWorker, workerVars, Live
<1>10. ASSUME NEW k \in Tools, Finish(k) PROVE ReservationNamesWorker'
  BY <1>10, ToolsAssumption DEF Finish, IInv, TypeOK, ReservationNamesWorker, workerVars, Live
<1>11. ASSUME NEW k \in Tools, Fail(k) PROVE ReservationNamesWorker'
  BY <1>11, ToolsAssumption DEF Fail, IInv, TypeOK, ReservationNamesWorker, workerVars, Live
<1>12. ASSUME NEW k \in Tools, Cleanup(k) PROVE ReservationNamesWorker'
  BY <1>12, ToolsAssumption DEF Cleanup, IInv, TypeOK, ReservationNamesWorker, workerVars, Live, ReportedBeforeCleanup, Terminal
<1>13. ASSUME NEW k \in Tools, ReadFails(k) PROVE ReservationNamesWorker'
  BY <1>13, ToolsAssumption DEF ReadFails, IInv, TypeOK, ReservationNamesWorker, workerVars, Live
<1>14. ASSUME NEW k \in Tools, ProcessExits(k) PROVE ReservationNamesWorker'
  BY <1>14, ToolsAssumption DEF ProcessExits, IInv, TypeOK, ReservationNamesWorker, workerVars, Live
<1>15. ASSUME NEW k \in Tools, OrphanExits(k) PROVE ReservationNamesWorker'
  BY <1>15, ToolsAssumption DEF OrphanExits, IInv, TypeOK, ReservationNamesWorker, workerVars, Live
<1>16. CASE UNCHANGED <<active, workerVars>>
  BY <1>16 DEF workerVars, IInv, ReservationNamesWorker, Live
<1> QED
  BY <1>1, <1>2, <1>3, <1>4, <1>5, <1>6, <1>7, <1>8, <1>9, <1>10, <1>11, <1>12, <1>13, <1>14, <1>15, <1>16, StepOfWorker DEF Worker

\* The worker that runs a step is inside its loop.
LEMMA LoopStep == IInv /\ [Next]_vars => LoopIndex'
<1> SUFFICES ASSUME IInv, [Next]_vars PROVE LoopIndex'
  OBVIOUS
<1>1. ASSUME NEW t \in Threads, NEW k \in Tools, Launch(t, k) PROVE LoopIndex'
  BY <1>1, StepsAssumption DEF Launch, IInv, TypeOK, LoopIndex, workerVars, StartWorker
<1>2. ASSUME NEW t \in Threads, NEW k \in Tools, TickLaunch(t, k) PROVE LoopIndex'
  BY <1>2, StepsAssumption DEF TickLaunch, IInv, TypeOK, LoopIndex, workerVars, StartWorker, threadVars
<1>3. ASSUME NEW t \in Threads, NEW k \in Tools, Cancel(t, k) PROVE LoopIndex'
  BY <1>3 DEF Cancel, IInv, TypeOK, LoopIndex, workerVars
<1>4. ASSUME NEW t \in Threads, Terminate(t) PROVE LoopIndex'
  BY <1>4 DEF Terminate, IInv, TypeOK, LoopIndex, workerVars
<1>5. ASSUME NEW k \in Tools, NextStep(k) PROVE LoopIndex'
  BY <1>5 DEF NextStep, IInv, TypeOK, LoopIndex, workerVars
<1>6. ASSUME NEW k \in Tools, Spawn(k) PROVE LoopIndex'
  BY <1>6 DEF Spawn, IInv, TypeOK, LoopIndex, workerVars
<1>7. ASSUME NEW k \in Tools, Register(k) PROVE LoopIndex'
  BY <1>7 DEF Register, IInv, TypeOK, LoopIndex, workerVars
<1>8. ASSUME NEW k \in Tools, Reap(k) PROVE LoopIndex'
  BY <1>8, StepsAssumption DEF Reap, IInv, TypeOK, LoopIndex, workerVars
<1>9. ASSUME NEW k \in Tools, AfterSteps(k) PROVE LoopIndex'
  BY <1>9 DEF AfterSteps, IInv, TypeOK, LoopIndex, workerVars
<1>10. ASSUME NEW k \in Tools, Finish(k) PROVE LoopIndex'
  BY <1>10 DEF Finish, IInv, TypeOK, LoopIndex, workerVars
<1>11. ASSUME NEW k \in Tools, Fail(k) PROVE LoopIndex'
  BY <1>11 DEF Fail, IInv, TypeOK, LoopIndex, workerVars
<1>12. ASSUME NEW k \in Tools, Cleanup(k) PROVE LoopIndex'
  BY <1>12, StepsAssumption DEF Cleanup, IInv, TypeOK, LoopIndex, workerVars
<1>13. ASSUME NEW k \in Tools, ReadFails(k) PROVE LoopIndex'
  BY <1>13 DEF ReadFails, IInv, TypeOK, LoopIndex, workerVars
<1>14. ASSUME NEW k \in Tools, ProcessExits(k) PROVE LoopIndex'
  BY <1>14 DEF ProcessExits, IInv, TypeOK, LoopIndex, workerVars
<1>15. ASSUME NEW k \in Tools, OrphanExits(k) PROVE LoopIndex'
  BY <1>15 DEF OrphanExits, IInv, TypeOK, LoopIndex, workerVars
<1>16. CASE UNCHANGED <<active, workerVars>>
  BY <1>16 DEF workerVars, IInv, LoopIndex
<1> QED
  BY <1>1, <1>2, <1>3, <1>4, <1>5, <1>6, <1>7, <1>8, <1>9, <1>10, <1>11, <1>12, <1>13, <1>14, <1>15, <1>16, StepOfWorker DEF Worker

\* A worker reaches its finally block only after it reported an outcome.
LEMMA ReportStep == IInv /\ [Next]_vars => ReportedBeforeCleanup'
<1> SUFFICES ASSUME IInv, [Next]_vars PROVE ReportedBeforeCleanup'
  OBVIOUS
<1>1. ASSUME NEW t \in Threads, NEW k \in Tools, Launch(t, k) PROVE ReportedBeforeCleanup'
  BY <1>1, ToolsAssumption DEF Launch, IInv, TypeOK, ReportedBeforeCleanup, workerVars, StartWorker, ReservationNamesWorker
<1>2. ASSUME NEW t \in Threads, NEW k \in Tools, TickLaunch(t, k) PROVE ReportedBeforeCleanup'
  BY <1>2, ToolsAssumption DEF TickLaunch, IInv, TypeOK, ReportedBeforeCleanup, workerVars, StartWorker, threadVars, ReservationNamesWorker
<1>3. ASSUME NEW t \in Threads, NEW k \in Tools, Cancel(t, k) PROVE ReportedBeforeCleanup'
  BY <1>3 DEF Cancel, IInv, TypeOK, ReportedBeforeCleanup, workerVars, Live, Terminal
<1>4. ASSUME NEW t \in Threads, Terminate(t) PROVE ReportedBeforeCleanup'
  BY <1>4 DEF Terminate, IInv, TypeOK, ReportedBeforeCleanup, workerVars
<1>5. ASSUME NEW k \in Tools, NextStep(k) PROVE ReportedBeforeCleanup'
  BY <1>5 DEF NextStep, IInv, TypeOK, ReportedBeforeCleanup, workerVars, Terminal
<1>6. ASSUME NEW k \in Tools, Spawn(k) PROVE ReportedBeforeCleanup'
  BY <1>6 DEF Spawn, IInv, TypeOK, ReportedBeforeCleanup, workerVars
<1>7. ASSUME NEW k \in Tools, Register(k) PROVE ReportedBeforeCleanup'
  BY <1>7 DEF Register, IInv, TypeOK, ReportedBeforeCleanup, workerVars
<1>8. ASSUME NEW k \in Tools, Reap(k) PROVE ReportedBeforeCleanup'
  BY <1>8 DEF Reap, IInv, TypeOK, ReportedBeforeCleanup, workerVars, Terminal
<1>9. ASSUME NEW k \in Tools, AfterSteps(k) PROVE ReportedBeforeCleanup'
  BY <1>9 DEF AfterSteps, IInv, TypeOK, ReportedBeforeCleanup, workerVars
<1>10. ASSUME NEW k \in Tools, Finish(k) PROVE ReportedBeforeCleanup'
  BY <1>10 DEF Finish, IInv, TypeOK, ReportedBeforeCleanup, workerVars, Terminal
<1>11. ASSUME NEW k \in Tools, Fail(k) PROVE ReportedBeforeCleanup'
  BY <1>11 DEF Fail, IInv, TypeOK, ReportedBeforeCleanup, workerVars, Terminal
<1>12. ASSUME NEW k \in Tools, Cleanup(k) PROVE ReportedBeforeCleanup'
  BY <1>12 DEF Cleanup, IInv, TypeOK, ReportedBeforeCleanup, workerVars
<1>13. ASSUME NEW k \in Tools, ReadFails(k) PROVE ReportedBeforeCleanup'
  BY <1>13 DEF ReadFails, IInv, TypeOK, ReportedBeforeCleanup, workerVars
<1>14. ASSUME NEW k \in Tools, ProcessExits(k) PROVE ReportedBeforeCleanup'
  BY <1>14 DEF ProcessExits, IInv, TypeOK, ReportedBeforeCleanup, workerVars
<1>15. ASSUME NEW k \in Tools, OrphanExits(k) PROVE ReportedBeforeCleanup'
  BY <1>15 DEF OrphanExits, IInv, TypeOK, ReportedBeforeCleanup, workerVars
<1>16. CASE UNCHANGED <<active, workerVars>>
  BY <1>16 DEF workerVars, IInv, ReportedBeforeCleanup
<1> QED
  BY <1>1, <1>2, <1>3, <1>4, <1>5, <1>6, <1>7, <1>8, <1>9, <1>10, <1>11, <1>12, <1>13, <1>14, <1>15, <1>16, StepOfWorker DEF Worker

\* A task stays live until its worker reports, and a process is registered, read
\* and reaped, or given up, by one worker.
LEMMA ProcessStep == IInv /\ [Next]_vars => WorkerIsLive' /\ ProcessHasWorker'
<1> SUFFICES ASSUME IInv, [Next]_vars PROVE WorkerIsLive' /\ ProcessHasWorker'
  OBVIOUS
<1> USE DEF IInv, TypeOK, WorkerIsLive, ProcessHasWorker, Live
<1>1. ASSUME NEW t \in Threads, NEW k \in Tools, Launch(t, k)
      PROVE  WorkerIsLive' /\ ProcessHasWorker'
  BY <1>1, ToolsAssumption DEF Launch, StartWorker, ReservationNamesWorker, workerVars
<1>2. ASSUME NEW t \in Threads, NEW k \in Tools, TickLaunch(t, k)
      PROVE  WorkerIsLive' /\ ProcessHasWorker'
  BY <1>2, ToolsAssumption DEF TickLaunch, StartWorker, ReservationNamesWorker, workerVars
<1>3. ASSUME NEW t \in Threads, NEW k \in Tools, Cancel(t, k)
      PROVE  WorkerIsLive' /\ ProcessHasWorker'
  BY <1>3 DEF Cancel
<1>4. ASSUME NEW t \in Threads, Terminate(t) PROVE WorkerIsLive' /\ ProcessHasWorker'
  BY <1>4 DEF Terminate
<1>5. ASSUME NEW k \in Tools, NextStep(k) PROVE WorkerIsLive' /\ ProcessHasWorker'
  BY <1>5 DEF NextStep
<1>6. ASSUME NEW k \in Tools, Spawn(k) PROVE WorkerIsLive' /\ ProcessHasWorker'
  BY <1>6 DEF Spawn
<1>7. ASSUME NEW k \in Tools, Register(k) PROVE WorkerIsLive' /\ ProcessHasWorker'
  BY <1>7 DEF Register
<1>8. ASSUME NEW k \in Tools, Reap(k) PROVE WorkerIsLive' /\ ProcessHasWorker'
  BY <1>8 DEF Reap
<1>9. ASSUME NEW k \in Tools, AfterSteps(k) PROVE WorkerIsLive' /\ ProcessHasWorker'
  BY <1>9 DEF AfterSteps
<1>10. ASSUME NEW k \in Tools, Finish(k) PROVE WorkerIsLive' /\ ProcessHasWorker'
  BY <1>10 DEF Finish
<1>11. ASSUME NEW k \in Tools, Fail(k) PROVE WorkerIsLive' /\ ProcessHasWorker'
  BY <1>11 DEF Fail
<1>12. ASSUME NEW k \in Tools, Cleanup(k) PROVE WorkerIsLive' /\ ProcessHasWorker'
  BY <1>12 DEF Cleanup
<1>13. ASSUME NEW k \in Tools, ReadFails(k) PROVE WorkerIsLive' /\ ProcessHasWorker'
  BY <1>13 DEF ReadFails
<1>14. ASSUME NEW k \in Tools, ProcessExits(k) PROVE WorkerIsLive' /\ ProcessHasWorker'
  BY <1>14 DEF ProcessExits
<1>15. ASSUME NEW k \in Tools, OrphanExits(k) PROVE WorkerIsLive' /\ ProcessHasWorker'
  BY <1>15 DEF OrphanExits
<1>16. CASE UNCHANGED <<active, workerVars>>
  BY <1>16 DEF workerVars
<1> QED
  BY <1>1, <1>2, <1>3, <1>4, <1>5, <1>6, <1>7, <1>8, <1>9, <1>10, <1>11, <1>12, <1>13, <1>14, <1>15, <1>16, StepOfWorker DEF Worker

-----------------------------------------------------------------------------
\* The inductive invariant, which the theorems below only weaken.
LEMMA InvariantHolds == Spec => []IInv
<1>1. Init => IInv
  <2> SUFFICES ASSUME Init PROVE IInv
    OBVIOUS
  <2>1. TypeOK
    <3>1. 1 \in 1..(Steps + 1) /\ 0 \in Nat
      BY StepsAssumption
    <3> QED
      BY <3>1 DEF Init, TypeOK
  <2>4. OpMatchesPc /\ LockOwner /\ FlagGuards /\ WindowGuards
    BY DEF Init, OpMatchesPc, LockOwner, FlagGuards, WindowGuards, InWindow, InTransition
  <2>5. /\ ReservationNamesWorker /\ LoopIndex /\ ReportedBeforeCleanup
        /\ WorkerIsLive /\ ProcessHasWorker
    BY DEF Init, ReservationNamesWorker, LoopIndex, ReportedBeforeCleanup, Live,
           WorkerIsLive, ProcessHasWorker
  <2>2. {t \in Threads : InOperation(t)} = {}
    BY DEF Init, InOperation
  <2>3. OperationsCounted
    BY <2>2, FS_EmptySet DEF Init, OperationsCounted
  <2> QED
    BY <2>1, <2>3, <2>4, <2>5 DEF IInv
<1>2. IInv /\ [Next]_vars => IInv'
  BY TypeStep, OpStep, LockStep, FlagStep, CountStep, WindowStep, WorkerStep, LoopStep, ReportStep,
     ProcessStep DEF IInv
<1>3. QED
  BY <1>1, <1>2, PTL DEF Spec

\* A backup, restore or publication never overlaps a reserved tool or a module
\* switch, and a module switch overlaps nothing, for any number of threads.
THEOREM ExclusionHolds == Spec => []Exclusion
<1>1. IInv => Exclusion
  <2> SUFFICES ASSUME IInv PROVE Exclusion
    OBVIOUS
  <2>1. \A t, u \in Threads : InWindow(t) /\ InWindow(u) => t = u
    BY DEF IInv, LockOwner
  <2>2. ASSUME NEW t \in Threads, NEW u \in Threads, InTransition(t)
        PROVE  ~InOperation(u) /\ ~InWindow(u)
    <3>1. transition /\ operations = 0
      BY <2>2 DEF IInv, FlagGuards
    <3>2. ~InOperation(u)
      BY <3>1, CounterPositive DEF IInv
    <3> QED
      BY <3>1, <3>2 DEF IInv, WindowGuards
  <2> QED
    BY <2>1, <2>2 DEF IInv, Exclusion, FlagGuards, WindowGuards
<1> QED
  BY <1>1, InvariantHolds, PTL

\* There is never a second worker, an outcome is reported only after the process
\* is gone, and no process that a worker still reads runs beside a backup, a
\* restore or a module switch.
THEOREM StateIsSound == Spec => []Sound
<1>1. IInv => Sound
  <2> SUFFICES ASSUME IInv PROVE Sound
    OBVIOUS
  <2>1. ReportedAfterExit
    BY DEF IInv, ProcessHasWorker, WorkerIsLive, ReportedAfterExit, Live
  <2>2. NoPipelineInWindow
    <3>1. active = NoTool => \A k \in Tools : process[k] = "none"
      BY ToolsAssumption DEF IInv, ReservationNamesWorker, ProcessHasWorker
    <3> QED
      BY <3>1 DEF IInv, WindowGuards, FlagGuards, NoPipelineInWindow
  <2> QED
    BY <2>1, <2>2 DEF IInv, Sound
<1> QED
  BY <1>1, InvariantHolds, PTL

-----------------------------------------------------------------------------
\* Refinement.  The three sets the mapping defines, as sets.
W == {t \in Threads : InWindow(t)}
X == {t \in Threads : InTransition(t)}
P == {t \in Threads : InOperation(t)}

\* Whoever holds the lock outside a window knows that no window is open.
LEMMA LockExcludesWindows ==
    ASSUME IInv, NEW t \in Threads, pc[t] \in {"check", "launching"}
    PROVE  W = {}
BY DEF IInv, LockOwner, InWindow, W

\* The flag down means nobody is inside a transition.
LEMMA FlagDown == ASSUME IInv, ~transition PROVE X = {}
BY DEF IInv, FlagGuards, X

\* The counter at zero means nobody is inside an operation.
LEMMA CounterZero == ASSUME IInv, operations = 0 PROVE P = {}
BY CounterPositive DEF IInv, P

\* Every step of the code is a step of Reservations or none at all.
LEMMA StepRefines == IInv /\ [Next]_vars => [Granted!RNext]_(Granted!reserved)
<1> SUFFICES ASSUME IInv, [Next]_vars PROVE Granted!RNext \/ UNCHANGED <<W, X, P, active>>
  BY DEF Granted!reserved, W, X, P
<1> TypeOK /\ OpMatchesPc /\ LockOwner /\ FlagGuards
  BY DEF IInv
<1>1. ASSUME NEW t \in Threads, EnterWindow(t)
      PROVE  Granted!OpenWindow(t) \/ UNCHANGED <<W, X, P, active>>
  <2>1. CASE ~transition /\ active = NoTool
    <3>1. W = {} /\ X = {}
      BY <1>1, <2>1, LockExcludesWindows, FlagDown DEF EnterWindow
    <3>2. W' = {t} /\ X' = X /\ P' = P
      BY <1>1, <2>1, <3>1 DEF EnterWindow, Goto, TypeOK, W, X, P, InWindow, InTransition,
         InOperation, Windows
    <3> QED
      BY <1>1, <2>1, <3>1, <3>2 DEF Granted!OpenWindow, EnterWindow, W, X, P
  <2>2. CASE ~(~transition /\ active = NoTool)
    BY <1>1, <2>2 DEF EnterWindow, Return, TypeOK, W, X, P, InWindow, InTransition, InOperation,
       Windows
  <2> QED
    BY <2>1, <2>2
<1>2. ASSUME NEW t \in Threads, LeaveWindow(t) PROVE Granted!CloseWindow(t)
  <2>1. t \in W /\ W' = W \ {t} /\ X' = X /\ P' = P
    BY <1>2 DEF LeaveWindow, Return, TypeOK, W, X, P, InWindow, InTransition, InOperation, Windows
  <2> QED
    BY <1>2, <2>1 DEF Granted!CloseWindow, LeaveWindow, W, X, P
<1>3. ASSUME NEW t \in Threads, EnterTransition(t)
      PROVE  Granted!BeginTransition(t) \/ UNCHANGED <<W, X, P, active>>
  <2>1. CASE ~transition /\ operations = 0 /\ active = NoTool
    <3>1. W = {} /\ X = {} /\ P = {}
      BY <1>3, <2>1, LockExcludesWindows, FlagDown, CounterZero DEF EnterTransition
    <3>2. W' = W /\ X' = {t} /\ P' = P
      BY <1>3, <2>1, <3>1 DEF EnterTransition, Goto, TypeOK, W, X, P, InWindow, InTransition,
         InOperation, Windows
    <3> QED
      BY <1>3, <2>1, <3>1, <3>2 DEF Granted!BeginTransition, EnterTransition, W, X, P
  <2>2. CASE ~(~transition /\ operations = 0 /\ active = NoTool)
    BY <1>3, <2>2 DEF EnterTransition, Return, TypeOK, W, X, P, InWindow, InTransition,
       InOperation, Windows
  <2> QED
    BY <2>1, <2>2
<1>4. ASSUME NEW t \in Threads, LeaveTransition(t) PROVE Granted!EndTransition(t)
  <2>1. t \in X /\ X' = X \ {t} /\ W' = W /\ P' = P
    BY <1>4 DEF LeaveTransition, Return, TypeOK, W, X, P, InWindow, InTransition, InOperation,
       Windows
  <2> QED
    BY <1>4, <2>1 DEF Granted!EndTransition, LeaveTransition, W, X, P
<1>5. ASSUME NEW t \in Threads, EnterOperation(t)
      PROVE  Granted!AdmitOperation(t) \/ UNCHANGED <<W, X, P, active>>
  <2>1. CASE ~transition
    <3>1. W = {} /\ X = {} /\ t \notin P
      BY <1>5, <2>1, LockExcludesWindows, FlagDown DEF EnterOperation, P, InOperation
    <3>2. W' = W /\ X' = X /\ P' = P \cup {t}
      BY <1>5, <2>1, <3>1 DEF EnterOperation, Goto, TypeOK, W, X, P, InWindow, InTransition,
         InOperation, Windows
    <3> QED
      BY <1>5, <3>1, <3>2 DEF Granted!AdmitOperation, EnterOperation, W, X, P
  <2>2. CASE transition
    BY <1>5, <2>2 DEF EnterOperation, Return, TypeOK, W, X, P, InWindow, InTransition,
       InOperation, Windows
  <2> QED
    BY <2>1, <2>2
<1>6. ASSUME NEW t \in Threads, LeaveOperation(t) PROVE Granted!EndOperation(t)
  <2>1. t \in P /\ P' = P \ {t} /\ W' = W /\ X' = X
    BY <1>6 DEF LeaveOperation, Return, TypeOK, W, X, P, InWindow, InTransition, InOperation,
       Windows
  <2> QED
    BY <1>6, <2>1 DEF Granted!EndOperation, LeaveOperation, W, X, P
<1>7. ASSUME NEW t \in Threads, NEW k \in Tools, Launch(t, k)
      PROVE  Granted!StartTool(t, k) \/ UNCHANGED <<W, X, P, active>>
  <2>1. W' = W /\ X' = X /\ P' = P /\ t \in P /\ W = {}
    BY <1>7, LockExcludesWindows DEF Launch, TypeOK, OpMatchesPc, W, X, P, InWindow, InTransition,
       InOperation, Windows
  <2>2. CASE ~transition /\ active = NoTool
    BY <1>7, <2>1, <2>2, FlagDown DEF Launch, StartWorker, Granted!StartTool, W, X, P
  <2>3. CASE ~(~transition /\ active = NoTool)
    BY <1>7, <2>1, <2>3 DEF Launch, StartWorker
  <2> QED
    BY <2>2, <2>3
<1>8. ASSUME NEW t \in Threads, NEW k \in Tools, TickLaunch(t, k)
      PROVE  Granted!StartTool(t, k) \/ UNCHANGED <<W, X, P, active>>
  <2>1. W' = W /\ X' = X /\ P' = P /\ W = {t}
    BY <1>8 DEF TickLaunch, threadVars, W, X, P, LockOwner, InWindow, InTransition, InOperation,
       Windows
  <2>2. CASE ~transition /\ active = NoTool
    BY <1>8, <2>1, <2>2, FlagDown DEF TickLaunch, StartWorker, Granted!StartTool, W, X, P
  <2>3. CASE ~(~transition /\ active = NoTool)
    BY <1>8, <2>1, <2>3 DEF TickLaunch, StartWorker
  <2> QED
    BY <2>2, <2>3
<1>9. ASSUME NEW t \in Threads,
             \/ \E o \in Ops : Request(t, o)
             \/ Acquire(t) \/ Refuse(t) \/ BeginLeave(t) \/ Reacquire(t)
             \/ RequestLaunch(t) \/ Terminate(t)
             \/ \E k \in Tools : Cancel(t, k)
      PROVE  UNCHANGED <<W, X, P, active>>
  BY <1>9 DEF TypeOK, OpMatchesPc, W, X, P, InWindow, InTransition, InOperation, Windows, Ops, Goto,
     Return, Request, Acquire, Refuse, BeginLeave, Reacquire, RequestLaunch, Terminate, Cancel,
     NonBlocking
<1>10. CASE UNCHANGED threadVars /\ active' \in {active, NoTool}
  <2>1. W' = W /\ X' = X /\ P' = P
    BY <1>10 DEF threadVars, W, X, P, InWindow, InTransition, InOperation
  <2>2. CASE active' = active
    BY <2>1, <2>2
  <2>3. CASE active' # active
    <3>1. Granted!EndTool
      BY <1>10, <2>1, <2>3 DEF Granted!EndTool, W, X, P
    <3> QED
      BY <3>1 DEF Granted!RNext
  <2> QED
    BY <2>2, <2>3
<1> QED
  BY <1>1, <1>2, <1>3, <1>4, <1>5, <1>6, <1>7, <1>8, <1>9, <1>10, StepOfThread
     DEF Granted!RNext, Thread, User

\* The lock, the flag, the counter and the active id together implement
\* compatible reservations: no interleaving grants two that exclude each other.
THEOREM RefinesReservations == Spec => Compatible
<1>1. Init => Granted!RInit
  BY DEF Init, Granted!RInit, InWindow, InTransition, InOperation
<1>2. QED
  BY <1>1, InvariantHolds, StepRefines, PTL DEF Spec, Compatible, Granted!RSpec

===============================================================================
