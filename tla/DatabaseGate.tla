----------------------------- MODULE DatabaseGate -----------------------------
(***************************************************************************)
(* The gate in front of both SQLite databases (_DatabaseAccessGate in      *)
(* backend/database_connections.py): connections are readers, backup and   *)
(* restore are writers.  One thread is one request or worker; every        *)
(* section under the condition variable is one step, and a thread that     *)
(* waits sleeps until a notify_all and then tests its condition again.     *)
(***************************************************************************)
EXTENDS Naturals, FiniteSets

CONSTANTS
    Threads, NoThread,
    Writers,      \* threads that run a backup or a restore
    MaxDepth,     \* bound on the accesses one thread nests
    MaxWindows    \* bound on the exclusive windows of a behaviour

ASSUME GateAssumption ==
    /\ IsFiniteSet(Threads) /\ NoThread \notin Threads /\ Writers \subseteq Threads
    /\ MaxDepth \in Nat \ {0} /\ MaxWindows \in Nat

VARIABLES
    readers,   \* _readers
    writer,    \* _writer_thread
    depth,     \* _writer_depth
    waiting,   \* _waiting_writers
    phase,     \* running, asleep in Condition.wait, or notified
    reads,     \* connections each thread holds open
    windows    \* exclusive windows opened so far

gateVars == <<readers, writer, depth, waiting, phase, reads, windows>>

GateTypeOK ==
    /\ readers \in Nat /\ depth \in Nat /\ waiting \in Nat
    /\ writer \in Threads \cup {NoThread}
    /\ phase \in [Threads -> {"run", "sleepRead", "wokenRead", "sleepWrite", "wokenWrite"}]
    /\ reads \in [Threads -> 0..MaxDepth]
    /\ windows \in 0..MaxWindows

GateInit ==
    /\ readers = 0 /\ depth = 0 /\ waiting = 0
    /\ writer = NoThread
    /\ phase = [t \in Threads |-> "run"]
    /\ reads = [t \in Threads |-> 0]
    /\ windows = 0

-----------------------------------------------------------------------------
\* Mutant: a request looks only at waiting windows.
ReadBlockedByWaiters(t) == waiting > 0 /\ writer # t

ReadBlocked(t)  == writer \notin {NoThread, t} \/ (waiting > 0 /\ writer # t)
WriteBlocked    == writer # NoThread \/ readers > 0

\* notify_all: every sleeper tests its condition again.
Notified(p) ==
    [t \in Threads |-> CASE p[t] = "sleepRead"  -> "wokenRead"
                         [] p[t] = "sleepWrite" -> "wokenWrite"
                         [] OTHER               -> p[t]]

\* Mutant: the connection is counted before the wait.
TestReadEarly(t) ==
    /\ readers' = readers + 1
    /\ IF ReadBlocked(t)
       THEN phase' = [phase EXCEPT ![t] = "sleepRead"] /\ UNCHANGED reads
       ELSE /\ phase' = [phase EXCEPT ![t] = "run"]
            /\ reads' = [reads EXCEPT ![t] = @ + 1]
    /\ UNCHANGED <<writer, depth, waiting, windows>>

\* The loop of read(): sleep while blocked, otherwise count the connection.
TestRead(t) ==
    /\ IF ReadBlocked(t)
       THEN /\ phase' = [phase EXCEPT ![t] = "sleepRead"]
            /\ UNCHANGED <<readers, reads>>
       ELSE /\ phase' = [phase EXCEPT ![t] = "run"]
            /\ readers' = readers + 1
            /\ reads' = [reads EXCEPT ![t] = @ + 1]
    /\ UNCHANGED <<writer, depth, waiting, windows>>

\* connect_database.  The thread that owns the window may open connections in
\* it; a request may open a second one before it closes the first, as several
\* routers do with get_user_db and get_data_db.
OpenRead(t) ==
    /\ phase[t] = "run"
    /\ reads[t] < MaxDepth
    /\ TestRead(t)

RetryRead(t) == phase[t] = "wokenRead" /\ TestRead(t)

\* Mutant: the last connection closes without a notify_all.
CloseReadQuietly(t) ==
    /\ phase[t] = "run"
    /\ reads[t] > 0
    /\ readers' = readers - 1
    /\ reads' = [reads EXCEPT ![t] = @ - 1]
    /\ UNCHANGED <<writer, depth, waiting, phase, windows>>

CloseRead(t) ==
    /\ phase[t] = "run"
    /\ reads[t] > 0
    /\ readers' = readers - 1
    /\ reads' = [reads EXCEPT ![t] = @ - 1]
    /\ phase' = IF readers' = 0 THEN Notified(phase) ELSE phase
    /\ UNCHANGED <<writer, depth, waiting, windows>>

\* The loop of write(): w is the number of waiting writers, this one included.
TestWrite(t, w) ==
    /\ IF WriteBlocked
       THEN /\ phase' = [phase EXCEPT ![t] = "sleepWrite"]
            /\ waiting' = w
            /\ UNCHANGED <<writer, depth>>
       ELSE /\ phase' = [phase EXCEPT ![t] = "run"]
            /\ waiting' = w - 1
            /\ writer' = t
            /\ depth' = 1
    /\ UNCHANGED <<readers, reads>>

\* exclusive_database_access, from a thread that holds no connection.
OpenWrite(t) ==
    /\ phase[t] = "run" /\ t \in Writers
    /\ writer # t /\ reads[t] = 0
    /\ windows < MaxWindows
    /\ windows' = windows + 1
    /\ TestWrite(t, waiting + 1)

RetryWrite(t) ==
    /\ phase[t] = "wokenWrite"
    /\ TestWrite(t, waiting)
    /\ UNCHANGED windows

\* The owner enters again, before it opens connections of its own.
NestWrite(t) ==
    /\ phase[t] = "run" /\ writer = t /\ reads[t] = 0
    /\ depth < MaxDepth
    /\ depth' = depth + 1
    /\ UNCHANGED <<readers, writer, waiting, phase, reads, windows>>

\* Accesses nest, so a window closes after the connections opened in it.
CloseWrite(t) ==
    /\ phase[t] = "run" /\ writer = t /\ reads[t] = 0
    /\ depth' = depth - 1
    /\ IF depth' = 0
       THEN writer' = NoThread /\ phase' = Notified(phase)
       ELSE UNCHANGED <<writer, phase>>
    /\ UNCHANGED <<readers, waiting, reads, windows>>

GateNext ==
    \E t \in Threads :
        \/ OpenRead(t) \/ RetryRead(t) \/ CloseRead(t)
        \/ OpenWrite(t) \/ RetryWrite(t) \/ NestWrite(t) \/ CloseWrite(t)

GateSpec == GateInit /\ [][GateNext]_gateVars

\* A notified thread runs, and every with statement ends, however often the
\* thread opens and closes others inside it.  Nobody has to open anything.
GateFairness ==
    \A t \in Threads :
        /\ WF_gateVars(RetryRead(t)) /\ WF_gateVars(RetryWrite(t))
        /\ \A n \in 1..MaxDepth :
              /\ SF_gateVars(CloseRead(t) /\ reads[t] = n)
              /\ SF_gateVars(CloseWrite(t) /\ depth = n)

GateFairSpec == GateSpec /\ GateFairness

-----------------------------------------------------------------------------
(* Properties. *)

\* The counters count: a connection opened inside a window, one that slept in
\* between, or one closed while others sleep is never lost or counted twice.
CountersMatch ==
    /\ readers = Cardinality({c \in Threads \X (1..MaxDepth) : c[2] <= reads[c[1]]})
    /\ waiting = Cardinality({t \in Threads : phase[t] \in {"sleepWrite", "wokenWrite"}})
    /\ depth = 0 <=> writer = NoThread

\* No wakeup is lost: a thread sleeps only while its condition blocks it.
NoLostWakeup ==
    \A t \in Threads :
        /\ phase[t] = "sleepRead" => ReadBlocked(t)
        /\ phase[t] = "sleepWrite" => WriteBlocked

\* What every state of _DatabaseAccessGate has to satisfy.
GateSound == GateTypeOK /\ CountersMatch /\ NoLostWakeup

\* "Block new DB users and wait for live request connections to close": a
\* backup or restore that asks for its window gets it.
WindowOpens ==
    \A t \in Writers : phase[t] \in {"sleepWrite", "wokenWrite"} ~> writer = t

\* Some request sleeps inside a connection it holds.
NestedSleeper == \E t \in Threads : phase[t] = "sleepRead" /\ reads[t] > 0

\* The same, with the one exception there is: a request that asks for a second
\* connection while it holds its first.
WindowOpensUnlessNested ==
    \A t \in Writers :
        phase[t] \in {"sleepWrite", "wokenWrite"} ~> writer = t \/ NestedSleeper

\* A request held up by a window gets its connection afterwards, with the same
\* exception.
RequestsResume ==
    \A t \in Threads : phase[t] = "sleepRead" ~> reads[t] > 0 \/ NestedSleeper

\* Nobody waits at the gate for ever, with that exception.
Progress == WindowOpensUnlessNested /\ RequestsResume

\* The gate implements a shared/exclusive lock.
Lock == INSTANCE SharedAccess WITH
    access <- [t \in Threads |-> IF writer = t THEN "exclusive"
                                 ELSE IF reads[t] > 0 THEN "shared" ELSE "none"]
ImplementsSharedAccess == Lock!SSpec

===============================================================================
