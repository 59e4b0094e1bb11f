----------------------------- MODULE DatabaseProofs -----------------------------
(***************************************************************************)
(* Proofs about what keeps the databases safe: DatabaseGate, for every     *)
(* finite set of threads, every depth of nesting and every number of       *)
(* windows; AutomaticBackups, for every number of bundles, locations and   *)
(* retentions and any number of faults; and Restore, for every set of      *)
(* components, whatever of them are databases, and every number of         *)
(* versions.  The three share no state.                                    *)
(***************************************************************************)
EXTENDS DatabaseGate, AutomaticBackups, Restore, FiniteSetTheorems, WellFoundedInduction,
        SequenceTheorems, TLAPS

-----------------------------------------------------------------------------
(* The gate.                                                               *)

\* The connections that are open and the writers that wait, as sets.
Open == {c \in Threads \X (1..MaxDepth) : c[2] <= reads[c[1]]}
Waiters == {t \in Threads : phase[t] \in {"sleepWrite", "wokenWrite"}}

\* Nobody but the writer has a connection while there is a writer.
WriterAlone == writer # NoThread => \A t \in Threads : t # writer => reads[t] = 0

\* A thread that waits for a connection may open one more; one that waits for a
\* window has none.
Room ==
    \A t \in Threads :
        /\ phase[t] \in {"sleepRead", "wokenRead"} => reads[t] < MaxDepth
        /\ phase[t] # "run" => writer # t

GateInv ==
    /\ GateTypeOK
    /\ CountersMatch
    /\ NoLostWakeup
    /\ WriterAlone
    /\ Room

-----------------------------------------------------------------------------
\* Both sets are finite, and empty when their counter is zero.
LEMMA Counted ==
    ASSUME GateTypeOK, CountersMatch
    PROVE  /\ IsFiniteSet(Open) /\ readers = Cardinality(Open)
           /\ IsFiniteSet(Waiters) /\ waiting = Cardinality(Waiters)
           /\ readers = 0 => \A t \in Threads : reads[t] = 0
           /\ \A t \in Waiters : waiting > 0
<1>1. IsFiniteSet(Threads \X (1..MaxDepth))
  <2>1. IsFiniteSet(1..MaxDepth)
    BY GateAssumption, FS_Interval
  <2> QED
    BY <2>1, GateAssumption, FS_Product
<1>2. IsFiniteSet(Open) /\ IsFiniteSet(Waiters)
  BY <1>1, GateAssumption, FS_Subset DEF Open, Waiters
<1>3. readers = Cardinality(Open) /\ waiting = Cardinality(Waiters)
  BY DEF CountersMatch, Waiters, Open
<1>4. ASSUME readers = 0, NEW t \in Threads PROVE reads[t] = 0
  <2>1. Open = {}
    BY <1>2, <1>3, <1>4, FS_EmptySet
  <2>2. ~(<<t, 1>> \in Open)
    BY <2>1
  <2> QED
    BY <2>2, GateAssumption DEF Open, GateTypeOK
<1>5. ASSUME NEW t \in Waiters PROVE waiting > 0
  <2>1. Cardinality(Waiters) # 0
    BY <1>2, <1>5, FS_EmptySet
  <2> QED
    BY <1>3, <2>1 DEF GateTypeOK
<1> QED
  BY <1>2, <1>3, <1>4, <1>5

\* The counters match when they are the sizes of the two sets.
LEMMA CountersAgain ==
    ASSUME readers' = Cardinality(Open'), waiting' = Cardinality(Waiters'),
           depth' = 0 <=> writer' = NoThread
    PROVE  CountersMatch'
BY DEF CountersMatch, Waiters, Open

\* Whoever finds a read free is alone with the window, or there is none.
LEMMA ReadStep ==
    ASSUME GateInv, NEW t \in Threads, TestRead(t), phase[t] \in {"run", "wokenRead"},
           reads[t] < MaxDepth
    PROVE  GateInv'
<1>t. GateTypeOK /\ CountersMatch /\ NoLostWakeup /\ WriterAlone /\ Room
  BY DEF GateInv
<1>c. Waiters' = Waiters
  BY <1>t DEF TestRead, Waiters, GateTypeOK
<1>1. CASE ReadBlocked(t)
  <2>1. /\ phase' = [phase EXCEPT ![t] = "sleepRead"]
        /\ UNCHANGED <<readers, reads, writer, depth, waiting, windows>>
    BY <1>1 DEF TestRead
  <2>2. GateTypeOK'
    BY <1>t, <2>1 DEF GateTypeOK
  <2>3. Open' = Open
    BY <2>1 DEF Open
  <2>4. CountersMatch'
    BY <1>t, <1>c, <2>1, <2>3, Counted, CountersAgain DEF CountersMatch
  <2>5. NoLostWakeup' /\ WriterAlone'
    BY <1>t, <1>1, <2>1 DEF NoLostWakeup, WriterAlone, ReadBlocked, WriteBlocked, GateTypeOK
  <2>6. Room'
    BY <1>t, <1>1, <2>1 DEF Room, ReadBlocked, GateTypeOK
  <2> QED
    BY <2>2, <2>4, <2>5, <2>6 DEF GateInv
<1>2. CASE ~ReadBlocked(t)
  <2>1. /\ phase' = [phase EXCEPT ![t] = "run"]
        /\ readers' = readers + 1
        /\ reads' = [reads EXCEPT ![t] = @ + 1]
        /\ UNCHANGED <<writer, depth, waiting, windows>>
    BY <1>2 DEF TestRead
  <2>2. GateTypeOK'
    BY <1>t, <2>1, GateAssumption DEF GateTypeOK
  <2>3. Open' = Open \cup {<<t, reads[t] + 1>>} /\ <<t, reads[t] + 1>> \notin Open
    BY <1>t, <2>1, GateAssumption DEF Open, GateTypeOK
  <2>4. readers' = Cardinality(Open')
    BY <1>t, <2>1, <2>3, Counted, FS_AddElement
  <2>5. CountersMatch'
    BY <1>t, <1>c, <2>1, <2>4, Counted, CountersAgain DEF CountersMatch
  <2>6. NoLostWakeup' /\ WriterAlone' /\ Room'
    BY <1>t, <1>2, <2>1 DEF NoLostWakeup, WriterAlone, Room, ReadBlocked, WriteBlocked, GateTypeOK
  <2> QED
    BY <2>2, <2>5, <2>6 DEF GateInv
<1> QED
  BY <1>1, <1>2

\* A connection that closes wakes everybody if it was the last.
LEMMA CloseReadStep == ASSUME GateInv, NEW t \in Threads, CloseRead(t) PROVE GateInv'
<1>t. GateTypeOK /\ CountersMatch /\ NoLostWakeup /\ WriterAlone /\ Room
  BY DEF GateInv
<1>1. /\ phase[t] = "run" /\ reads[t] > 0
      /\ readers' = readers - 1
      /\ reads' = [reads EXCEPT ![t] = @ - 1]
      /\ phase' = IF readers' = 0 THEN Notified(phase) ELSE phase
      /\ UNCHANGED <<writer, depth, waiting, windows>>
  BY DEF CloseRead
<1>2. readers > 0
  BY <1>t, <1>1, Counted DEF GateTypeOK
<1>3. GateTypeOK' /\ Waiters' = Waiters
  BY <1>t, <1>1, <1>2, GateAssumption DEF GateTypeOK, Notified, Waiters
<1>4. Open' = Open \ {<<t, reads[t]>>} /\ <<t, reads[t]>> \in Open
  BY <1>t, <1>1, GateAssumption DEF Open, GateTypeOK
<1>5. readers' = Cardinality(Open')
  BY <1>t, <1>1, <1>4, Counted, FS_RemoveElement
<1>6. CountersMatch'
  BY <1>t, <1>1, <1>3, <1>5, Counted, CountersAgain DEF CountersMatch
<1>7. NoLostWakeup' /\ WriterAlone' /\ Room'
  BY <1>t, <1>1, <1>2, <1>3
     DEF NoLostWakeup, WriterAlone, Room, ReadBlocked, WriteBlocked, GateTypeOK, Notified
<1> QED
  BY <1>3, <1>6, <1>7 DEF GateInv

\* A writer is counted from its request to its window, asleep or awake.
LEMMA WriteStep ==
    ASSUME GateInv, NEW t \in Threads, OpenWrite(t) \/ RetryWrite(t)
    PROVE  GateInv'
<1>t. GateTypeOK /\ CountersMatch /\ NoLostWakeup /\ WriterAlone /\ Room
  BY DEF GateInv
<1>1. PICK w \in Nat :
        /\ TestWrite(t, w)
        /\ w = Cardinality(Waiters \cup {t}) /\ w > 0
        /\ phase[t] \in {"run", "wokenWrite"}
        /\ windows' \in 0..MaxWindows
        /\ writer # t
  <2>1. CASE OpenWrite(t)
    <3>1. t \notin Waiters
      BY <2>1 DEF OpenWrite, Waiters
    <3>2. waiting + 1 = Cardinality(Waiters \cup {t})
      BY <1>t, <3>1, Counted, FS_AddElement
    <3> QED
      BY <1>t, <2>1, <3>2, GateAssumption DEF OpenWrite, GateTypeOK
  <2>2. CASE RetryWrite(t)
    <3>1. t \in Waiters /\ Waiters \cup {t} = Waiters
      BY <2>2 DEF RetryWrite, Waiters
    <3>2. waiting = Cardinality(Waiters \cup {t}) /\ waiting > 0
      BY <1>t, <3>1, Counted
    <3> QED
      BY <1>t, <2>2, <3>2 DEF RetryWrite, GateTypeOK, Room
  <2> QED
    BY <2>1, <2>2
<1>o. Open' = Open
  BY <1>1 DEF TestWrite, Open
<1>2. CASE WriteBlocked
  <2>1. /\ phase' = [phase EXCEPT ![t] = "sleepWrite"]
        /\ waiting' = w
        /\ UNCHANGED <<writer, depth, readers, reads>>
    BY <1>1, <1>2 DEF TestWrite
  <2>2. GateTypeOK'
    BY <1>t, <1>1, <2>1 DEF GateTypeOK
  <2>3. Waiters' = Waiters \cup {t}
    BY <1>t, <2>1 DEF Waiters, GateTypeOK
  <2>4. CountersMatch'
    BY <1>t, <1>1, <1>o, <2>1, <2>3, Counted, CountersAgain DEF CountersMatch
  <2>5. NoLostWakeup' /\ WriterAlone' /\ Room'
    BY <1>t, <1>1, <1>2, <2>1
       DEF NoLostWakeup, WriterAlone, Room, ReadBlocked, WriteBlocked, GateTypeOK
  <2> QED
    BY <2>2, <2>4, <2>5 DEF GateInv
<1>3. CASE ~WriteBlocked
  <2>1. /\ phase' = [phase EXCEPT ![t] = "run"]
        /\ waiting' = w - 1
        /\ writer' = t /\ depth' = 1
        /\ UNCHANGED <<readers, reads>>
    BY <1>1, <1>3 DEF TestWrite
  <2>2. GateTypeOK'
    BY <1>t, <1>1, <2>1 DEF GateTypeOK
  <2>3. Waiters' = (Waiters \cup {t}) \ {t} /\ IsFiniteSet(Waiters \cup {t})
    BY <1>t, <2>1, Counted, FS_AddElement DEF Waiters, GateTypeOK
  <2>4. waiting' = Cardinality(Waiters')
    BY <1>1, <2>1, <2>3, FS_RemoveElement
  <2>5. CountersMatch'
    BY <1>t, <1>o, <2>1, <2>4, Counted, CountersAgain, GateAssumption DEF CountersMatch
  <2>6. readers = 0
    BY <1>t, <1>3 DEF WriteBlocked, GateTypeOK
  <2>7. NoLostWakeup' /\ WriterAlone' /\ Room'
    BY <1>t, <1>1, <2>1, <2>6, Counted, GateAssumption
       DEF NoLostWakeup, WriterAlone, Room, ReadBlocked, WriteBlocked, GateTypeOK
  <2> QED
    BY <2>2, <2>5, <2>7 DEF GateInv
<1> QED
  BY <1>2, <1>3

\* A window inside a window, and the end of one, which wakes everybody.
LEMMA WindowStep ==
    ASSUME GateInv, NEW t \in Threads, NestWrite(t) \/ CloseWrite(t)
    PROVE  GateInv'
<1>t. GateTypeOK /\ CountersMatch /\ NoLostWakeup /\ WriterAlone /\ Room
  BY DEF GateInv
<1>1. /\ depth > 0 /\ writer = t /\ phase[t] = "run"
      /\ UNCHANGED <<readers, waiting, reads, windows>>
  BY <1>t, GateAssumption DEF NestWrite, CloseWrite, CountersMatch, GateTypeOK
<1>o. Open' = Open
  BY <1>1 DEF Open
<1>2. CASE UNCHANGED <<writer, phase>> /\ depth' \in Nat \ {0}
  <2>1. GateTypeOK' /\ Waiters' = Waiters
    BY <1>t, <1>1, <1>2 DEF GateTypeOK, Waiters
  <2>2. CountersMatch'
    BY <1>t, <1>1, <1>o, <1>2, <2>1, Counted, CountersAgain DEF CountersMatch, GateTypeOK
  <2>3. NoLostWakeup' /\ WriterAlone' /\ Room'
    BY <1>t, <1>1, <1>2 DEF NoLostWakeup, WriterAlone, Room, ReadBlocked, WriteBlocked
  <2> QED
    BY <2>1, <2>2, <2>3 DEF GateInv
<1>3. CASE depth' = 0 /\ writer' = NoThread /\ phase' = Notified(phase)
  <2>1. GateTypeOK' /\ Waiters' = Waiters
    BY <1>t, <1>1, <1>3 DEF GateTypeOK, Waiters, Notified
  <2>2. CountersMatch'
    BY <1>t, <1>1, <1>o, <1>3, <2>1, Counted, CountersAgain
  <2>3. NoLostWakeup' /\ WriterAlone' /\ Room'
    BY <1>t, <1>1, <1>3, GateAssumption
       DEF NoLostWakeup, WriterAlone, Room, GateTypeOK, Notified
  <2> QED
    BY <2>1, <2>2, <2>3 DEF GateInv
<1> QED
  BY <1>t, <1>1, <1>2, <1>3 DEF NestWrite, CloseWrite, GateTypeOK

-----------------------------------------------------------------------------
\* The inductive invariant, which the theorems below rest on.
LEMMA GateInvariant == GateSpec => []GateInv
<1>1. GateInit => GateInv
  <2> SUFFICES ASSUME GateInit PROVE GateInv
    OBVIOUS
  <2>1. GateTypeOK
    BY GateAssumption DEF GateInit, GateTypeOK
  <2>2. {c \in Threads \X (1..MaxDepth) : c[2] <= reads[c[1]]} = {}
    BY GateAssumption DEF GateInit
  <2>3. {t \in Threads : phase[t] \in {"sleepWrite", "wokenWrite"}} = {}
    BY DEF GateInit
  <2>4. CountersMatch
    BY <2>2, <2>3, FS_EmptySet DEF GateInit, CountersMatch
  <2>5. NoLostWakeup /\ WriterAlone /\ Room
    BY GateAssumption DEF GateInit, NoLostWakeup, WriterAlone, Room
  <2> QED
    BY <2>1, <2>4, <2>5 DEF GateInv
<1>2. GateInv /\ [GateNext]_gateVars => GateInv'
  <2> SUFFICES ASSUME GateInv, [GateNext]_gateVars PROVE GateInv'
    OBVIOUS
  <2>1. ASSUME NEW t \in Threads, OpenRead(t) PROVE GateInv'
    BY <2>1, ReadStep DEF OpenRead
  <2>2. ASSUME NEW t \in Threads, RetryRead(t) PROVE GateInv'
    BY <2>2, ReadStep DEF RetryRead, GateInv, Room
  <2>3. CASE UNCHANGED gateVars
    BY <2>3 DEF gateVars, GateInv, GateTypeOK, CountersMatch, NoLostWakeup, WriterAlone, Room,
                ReadBlocked, WriteBlocked
  <2> QED
    BY <2>1, <2>2, <2>3, CloseReadStep, WriteStep, WindowStep DEF GateNext
<1> QED
  BY <1>1, <1>2, PTL DEF GateSpec

\* The counters count, and no thread sleeps that nothing blocks, however
\* connections and windows nest and whoever sleeps meanwhile.
THEOREM GateIsSound == GateSpec => []GateSound
<1>1. GateInv => GateSound
  BY DEF GateInv, GateSound
<1> QED
  BY <1>1, GateInvariant, PTL

-----------------------------------------------------------------------------
\* What each thread has of the databases.
Access == [t \in Threads |-> IF writer = t THEN "exclusive"
                             ELSE IF reads[t] > 0 THEN "shared" ELSE "none"]

\* The mapped state changes at one thread when the others keep what they have.
LEMMA OneAccess ==
    ASSUME NEW t \in Threads, NEW a,
           a = IF writer' = t THEN "exclusive" ELSE IF reads'[t] > 0 THEN "shared" ELSE "none",
           \A u \in Threads : u # t => (writer' = u <=> writer = u) /\ reads'[u] = reads[u]
    PROVE  Access' = [Access EXCEPT ![t] = a]
<1>1. \A u \in Threads : Access'[u] = IF u = t THEN a ELSE Access[u]
  BY DEF Access
<1>2. Access' = [u \in Threads |-> Access'[u]]
  BY DEF Access
<1>3. [Access EXCEPT ![t] = a] = [u \in Threads |-> IF u = t THEN a ELSE Access[u]]
  BY DEF Access
<1> QED
  BY <1>1, <1>2, <1>3

\* A request that finds the gate open shares it.
LEMMA ReadRefines ==
    ASSUME GateInv, NEW t \in Threads, TestRead(t)
    PROVE  Access' = Access \/ Lock!Share(t)
<1>t. GateTypeOK /\ WriterAlone
  BY DEF GateInv
<1>1. CASE Access[t] # "none" \/ ReadBlocked(t)
  <2>1. Access' = Access
    BY <1>t, <1>1 DEF TestRead, Access, GateTypeOK
  <2> QED
    BY <2>1
<1>2. CASE Access[t] = "none" /\ ~ReadBlocked(t)
  <2>1. writer = NoThread /\ reads[t] = 0
    BY <1>t, <1>2 DEF Access, ReadBlocked, GateTypeOK
  <2>2. Access' = [Access EXCEPT ![t] = "shared"]
    BY <1>t, <1>2, <2>1, GateAssumption, OneAccess DEF TestRead, GateTypeOK
  <2>3. \A u \in Threads : Access[u] # "exclusive"
    BY <2>1, GateAssumption DEF Access
  <2> QED
    BY <1>2, <2>2, <2>3 DEF Lock!Share, Access
<1> QED
  BY <1>1, <1>2

\* The gate is a shared/exclusive lock: no backup or restore ever has the
\* databases while a request does, for any number of threads.
THEOREM GateIsALock == GateSpec => ImplementsSharedAccess
<1>1. GateInit => Lock!SInit
  BY GateAssumption DEF GateInit, Lock!SInit
<1>2. GateInv /\ [GateNext]_gateVars => [Lock!SNext]_Access
  <2> SUFFICES ASSUME GateInv, GateNext \/ UNCHANGED gateVars
               PROVE  Lock!SNext \/ Access' = Access
    OBVIOUS
  <2>t. GateTypeOK /\ CountersMatch /\ WriterAlone
    BY DEF GateInv
  <2>1. ASSUME NEW t \in Threads, OpenRead(t) \/ RetryRead(t)
        PROVE  Lock!SNext \/ Access' = Access
    BY <2>1, ReadRefines DEF OpenRead, RetryRead, Lock!SNext
  <2>2. ASSUME NEW t \in Threads, CloseRead(t) PROVE Lock!SNext \/ Access' = Access
    <3>1. CASE writer = t \/ reads[t] > 1
      BY <2>t, <2>2, <3>1 DEF CloseRead, Access, GateTypeOK
    <3>2. CASE writer # t /\ reads[t] = 1
      <4>1. Access[t] = "shared"
        BY <3>2 DEF Access
      <4>2. Access' = [Access EXCEPT ![t] = "none"]
        BY <2>t, <2>2, <3>2, OneAccess DEF CloseRead, GateTypeOK
      <4> QED
        BY <4>1, <4>2 DEF Lock!SNext, Lock!Leave, Access
    <3> QED
      BY <2>t, <2>2, <3>1, <3>2 DEF CloseRead, GateTypeOK
  <2>3. ASSUME NEW t \in Threads, OpenWrite(t) \/ RetryWrite(t)
        PROVE  Lock!SNext \/ Access' = Access
    <3>1. PICK w : TestWrite(t, w)
      BY <2>3 DEF OpenWrite, RetryWrite
    <3>2. CASE WriteBlocked
      BY <3>1, <3>2 DEF TestWrite, Access
    <3>3. CASE ~WriteBlocked
      <4>1. writer = NoThread /\ \A u \in Threads : reads[u] = 0
        BY <2>t, <3>3, Counted DEF WriteBlocked, GateTypeOK
      <4>2. Access' = [Access EXCEPT ![t] = "exclusive"]
        BY <2>t, <3>1, <3>3, <4>1, GateAssumption DEF TestWrite, Access, GateTypeOK
      <4>3. \A u \in Threads : Access[u] = "none"
        BY <4>1, GateAssumption DEF Access
      <4> QED
        BY <4>2, <4>3 DEF Lock!SNext, Lock!Exclude, Access
    <3> QED
      BY <3>2, <3>3
  <2>4. ASSUME NEW t \in Threads, NestWrite(t) PROVE Access' = Access
    BY <2>4 DEF NestWrite, Access
  <2>5. ASSUME NEW t \in Threads, CloseWrite(t) PROVE Lock!SNext \/ Access' = Access
    <3>1. CASE depth' = 0
      <4>1. Access[t] = "exclusive"
        BY <2>5 DEF CloseWrite, Access
      <4>2. Access' = [Access EXCEPT ![t] = "none"]
        BY <2>t, <2>5, <3>1, GateAssumption, OneAccess DEF CloseWrite, GateTypeOK
      <4> QED
        BY <4>1, <4>2 DEF Lock!SNext, Lock!Leave, Access
    <3>2. CASE depth' # 0
      BY <2>5, <3>2 DEF CloseWrite, Access
    <3> QED
      BY <3>1, <3>2
  <2>6. CASE UNCHANGED gateVars
    BY <2>6 DEF gateVars, Access
  <2> QED
    BY <2>1, <2>2, <2>3, <2>4, <2>5, <2>6 DEF GateNext
<1> QED
  BY <1>1, <1>2, GateInvariant, PTL DEF GateSpec, ImplementsSharedAccess, Lock!SSpec, Access

-----------------------------------------------------------------------------
(* The automatic backups.                                                  *)

Retaining == stage \in {"retain", "unlink"}

\* How far the run has come with its own bundle.
MadeFirst ==
    /\ stage = "create" => made < MaxBundles
    /\ stage \in {"archive", "record"} => made \in Bundles
    /\ stage = "record" => file[made] # "partial"

\* An entry names what its file was when it was recorded; a file only ever goes
\* from whole to changed to gone, and a bundle to come has no entry.
EntriesAreOld ==
    /\ \A b \in ledger : digest[b] # "none"
    /\ \A b \in Bundles :
          /\ digest[b] # "none" => b <= made
          /\ digest[b] = "whole" => file[b] # "partial"
          /\ digest[b] = "changed" => file[b] \in {"changed", "none"}

\* While retention goes on, its list is what is on record, the run's own bundle
\* included; it still has to look at old bundles only, and is done with every
\* old one that it dropped, found changed or failed to delete.
RetentionIsOnRecord ==
    Retaining =>
        /\ state = ledger /\ made \in ledger
        /\ entries \subseteq Oldest(Local(state), retention)
        /\ \A b \in Oldest(Local(state), retention) :
              b \in entries \cup removed \cup stuck \/ file[b] # digest[b]
        /\ \A b \in removed : file[b] = "none"
        /\ stage = "unlink" => entries # {}

BackupInv ==
    /\ BackupTypeOK
    /\ MadeFirst
    /\ EntriesAreOld
    /\ RetentionIsOnRecord

-----------------------------------------------------------------------------
(* The operators of retention.                                             *)

Below == {p \in Nat \X Nat : p[1] < p[2]}

\* A set of numbers that is not empty has a least element.
LEMMA LeastNumber ==
    ASSUME NEW T, T \subseteq Nat, T # {}
    PROVE  \E x \in T : \A y \in T : x <= y
<1>1. IsWellFoundedOn(Below, Nat)
  BY NatLessThanWellFounded DEF OpToRel, Below
<1>2. PICK x \in T : \A y \in T : ~ (<<y, x>> \in Below)
  BY <1>1, WFMin
<1>3. ASSUME NEW y \in T PROVE x <= y
  <2>1. ~ (y < x)
    BY <1>2 DEF Below
  <2> QED
    BY <2>1
<1> QED
  BY <1>3

\* First finds the oldest bundle of a list.
LEMMA FirstIsOldest ==
    ASSUME BundleAssumption, NEW S, S \subseteq Bundles, S # {}
    PROVE  First(S) \in S /\ \A c \in S : First(S) <= c
<1>1. S \subseteq Nat
  BY DEF Bundles, BundleAssumption
<1>2. \E b \in S : \A c \in S : b <= c
  BY <1>1, LeastNumber
<1> QED
  BY <1>2 DEF First

\* Retention leaves no more bundles than it was asked to keep.
LEMMA OldestLeavesFew ==
    ASSUME BundleAssumption, NEW S, S \subseteq Bundles, NEW keep \in Nat \ {0}
    PROVE  /\ IsFiniteSet(S) /\ IsFiniteSet(S \ Oldest(S, keep))
           /\ Cardinality(S \ Oldest(S, keep)) <= keep
<1> DEFINE Rest == S \ Oldest(S, keep)
<1>1. IsFiniteSet(S) /\ IsFiniteSet(Rest)
  <2>1. IsFiniteSet(Bundles)
    BY FS_Interval DEF Bundles, BundleAssumption
  <2> QED
    BY <2>1, FS_Subset
<1>2. CASE Rest = {}
  BY <1>1, <1>2, FS_EmptySet
<1>3. CASE Rest # {}
  <2>1. S \subseteq Nat /\ Rest \subseteq Nat
    <3>1. S \subseteq Nat
      BY DEF Bundles, BundleAssumption
    <3> QED
      BY <3>1
  <2>2. PICK m \in Rest : \A n \in Rest : m <= n
    BY <1>3, <2>1, LeastNumber
  <2> DEFINE Newer == {n \in S : n > m}
  <2>3. IsFiniteSet(Newer) /\ Cardinality(Newer) \in Nat /\ Cardinality(Newer) < keep
    <3>1. IsFiniteSet(Newer) /\ Cardinality(Newer) \in Nat
      BY <1>1, FS_Subset, FS_CardinalityType
    <3>2. ~ (Cardinality(Newer) >= keep)
      BY <2>2 DEF Oldest
    <3> QED
      BY <3>1, <3>2
  <2>4. Rest \subseteq Newer \cup {m}
    <3>1. ASSUME NEW n \in Rest, n # m PROVE n > m
      BY <2>1, <2>2, <3>1
    <3> QED
      BY <3>1
  <2>5. IsFiniteSet(Newer \cup {m}) /\ Cardinality(Newer \cup {m}) = Cardinality(Newer) + 1
    <3>1. m \notin Newer
      BY <2>1
    <3> QED
      BY <2>3, <3>1, FS_AddElement
  <2>6. Cardinality(Rest) \in Nat /\ Cardinality(Rest) <= Cardinality(Newer \cup {m})
    BY <1>1, <2>4, <2>5, FS_Subset, FS_CardinalityType
  <2> QED
    BY <1>1, <2>3, <2>5, <2>6
<1> QED
  BY <1>1, <1>2, <1>3

-----------------------------------------------------------------------------
\* The schedule and the run.
LEMMA RunStep ==
    ASSUME BackupInv, Run
    PROVE  BackupInv'
<1> USE BundleAssumption, RetentionAssumption DEF BackupInv
<1>1. ASSUME Reschedule PROVE BackupInv'
  <2>1. BackupTypeOK'
    BY <1>1 DEF Reschedule, BackupTypeOK, fileVars, ledgerVars, options, runVars
  <2>2. MadeFirst' /\ EntriesAreOld'
    BY <1>1 DEF Reschedule, MadeFirst, EntriesAreOld, fileVars, ledgerVars, runVars
  <2>3. RetentionIsOnRecord'
    BY <1>1 DEF Reschedule, RetentionIsOnRecord, runVars, Retaining
  <2> QED
    BY <2>1, <2>2, <2>3
<1>2. ASSUME Elapse PROVE BackupInv'
  <2>1. BackupTypeOK'
    BY <1>2 DEF Elapse, BackupTypeOK, fileVars, ledgerVars, options, runVars
  <2>2. MadeFirst' /\ EntriesAreOld'
    BY <1>2 DEF Elapse, MadeFirst, EntriesAreOld, fileVars, ledgerVars, runVars
  <2>3. RetentionIsOnRecord'
    BY <1>2 DEF Elapse, RetentionIsOnRecord, runVars, Retaining
  <2> QED
    BY <2>1, <2>2, <2>3
<1>3. ASSUME Deferred PROVE BackupInv'
  <2>1. BackupTypeOK'
    BY <1>3 DEF Deferred, BackupTypeOK, fileVars, ledgerVars, options, runVars
  <2>2. MadeFirst' /\ EntriesAreOld'
    BY <1>3 DEF Deferred, MadeFirst, EntriesAreOld, fileVars, ledgerVars, runVars
  <2>3. RetentionIsOnRecord'
    BY <1>3 DEF Deferred, RetentionIsOnRecord, runVars, Retaining
  <2> QED
    BY <2>1, <2>2, <2>3
<1>4. ASSUME EnterWindow PROVE BackupInv'
  <2>1. BackupTypeOK'
    BY <1>4 DEF EnterWindow, BackupTypeOK, fileVars, ledgerVars, options, schedule
  <2>2. MadeFirst' /\ EntriesAreOld'
    BY <1>4 DEF EnterWindow, MadeFirst, EntriesAreOld, fileVars, ledgerVars
  <2>3. RetentionIsOnRecord'
    BY <1>4 DEF EnterWindow, RetentionIsOnRecord, Retaining
  <2> QED
    BY <2>1, <2>2, <2>3
<1>5. ASSUME WriteArchive PROVE BackupInv'
  <2>1. BackupTypeOK'
    BY <1>5 DEF WriteArchive, BackupTypeOK, MadeFirst, ledgerVars, options, schedule, Bundles, Contents
  <2>2. MadeFirst' /\ EntriesAreOld'
    BY <1>5 DEF WriteArchive, MadeFirst, EntriesAreOld, BackupTypeOK, ledgerVars, Bundles
  <2>3. RetentionIsOnRecord'
    BY <1>5 DEF WriteArchive, RetentionIsOnRecord, Retaining
  <2> QED
    BY <2>1, <2>2, <2>3
<1>6. ASSUME PublishArchive PROVE BackupInv'
  <2>1. BackupTypeOK'
    BY <1>6 DEF PublishArchive, BackupTypeOK, ledgerVars, options, schedule, Contents
  <2>2. MadeFirst' /\ EntriesAreOld'
    BY <1>6 DEF PublishArchive, MadeFirst, EntriesAreOld, BackupTypeOK, ledgerVars
  <2>3. RetentionIsOnRecord'
    BY <1>6 DEF PublishArchive, RetentionIsOnRecord, Retaining
  <2> QED
    BY <2>1, <2>2, <2>3
<1>7. ASSUME Record PROVE BackupInv'
  <2>1. BackupTypeOK'
    BY <1>7 DEF Record, BackupTypeOK, MadeFirst, Appending, Local, Persisting, Recording, Readings,
           Oldest, fileVars, options, schedule
  <2>2. MadeFirst' /\ EntriesAreOld'
    BY <1>7 DEF Record, MadeFirst, EntriesAreOld, BackupTypeOK, Appending, Persisting, Recording,
           Readings, fileVars
  <2>3. RetentionIsOnRecord'
    BY <1>7 DEF Record, RetentionIsOnRecord, Appending, Local, Persisting, Recording, fileVars,
           options
  <2> QED
    BY <2>1, <2>2, <2>3
<1>8. ASSUME Inspect PROVE BackupInv'
  <2>1. BackupTypeOK'
    <3>1. First(entries) \in entries
      BY <1>8, FirstIsOldest DEF Inspect, BackupTypeOK
    <3>2. /\ entries' \subseteq Bundles /\ removed' \subseteq Bundles /\ stuck' \subseteq Bundles
          /\ stage' \in {"retain", "unlink"}
      BY <1>8, <3>1 DEF Inspect, BackupTypeOK
    <3> QED
      BY <1>8, <3>2 DEF Inspect, BackupTypeOK, fileVars, ledgerVars, options, schedule, Bundles, Contents
  <2>2. MadeFirst' /\ EntriesAreOld'
    BY <1>8 DEF Inspect, MadeFirst, EntriesAreOld, fileVars, ledgerVars
  <2>3. RetentionIsOnRecord'
    BY <1>8 DEF Inspect, RetentionIsOnRecord, fileVars, ledgerVars, options, Local, Retaining
  <2> QED
    BY <2>1, <2>2, <2>3
<1>9. ASSUME Unlink PROVE BackupInv'
  <2>1. BackupTypeOK'
    <3>1. First(entries) \in Bundles
      BY <1>9, FirstIsOldest DEF Unlink, BackupTypeOK, RetentionIsOnRecord, Retaining
    <3>2. file' \in [Bundles -> Contents]
      BY <1>9, <3>1 DEF Unlink, BackupTypeOK, Contents
    <3>3. entries' \subseteq Bundles /\ removed' \subseteq Bundles /\ stuck' \subseteq Bundles
      BY <1>9, <3>1 DEF Unlink, BackupTypeOK
    <3> QED
      BY <1>9, <3>2, <3>3 DEF Unlink, BackupTypeOK, ledgerVars, options, schedule, Bundles, Contents
  <2>2. MadeFirst' /\ EntriesAreOld'
    BY <1>9 DEF Unlink, MadeFirst, EntriesAreOld, BackupTypeOK, ledgerVars
  <2>3. RetentionIsOnRecord'
    <3>1. First(entries) \in entries /\ entries \subseteq Bundles
      BY <1>9, FirstIsOldest DEF Unlink, BackupTypeOK, RetentionIsOnRecord, Retaining
    <3>2. Oldest(Local(state), retention)' = Oldest(Local(state), retention)
      BY <1>9 DEF Unlink, Oldest, Local, options
    <3>3. /\ entries' = entries \ {First(entries)} /\ First(entries) \in removed' \cup stuck'
          /\ removed \subseteq removed' /\ stuck \subseteq stuck'
          /\ \A b \in removed' : file'[b] = "none"
          /\ \A b \in Bundles : b # First(entries) => file'[b] = file[b]
      BY <1>9, <3>1 DEF Unlink, BackupTypeOK, RetentionIsOnRecord, Retaining
    <3>4. Oldest(Local(state), retention) \subseteq Bundles
      BY DEF Oldest, Local, BackupTypeOK
    <3>5. UNCHANGED <<state, ledger, made, digest>> /\ stage = "unlink" /\ stage' = "retain"
      BY <1>9 DEF Unlink, ledgerVars
    <3> QED
      BY <3>1, <3>2, <3>3, <3>4, <3>5 DEF RetentionIsOnRecord, Retaining
  <2> QED
    BY <2>1, <2>2, <2>3
<1>10. ASSUME WriteBack PROVE BackupInv'
  <2>1. BackupTypeOK'
    BY <1>10 DEF WriteBack, BackupTypeOK, EndRun, fileVars, options
  <2>2. MadeFirst' /\ EntriesAreOld'
    BY <1>10 DEF WriteBack, MadeFirst, EntriesAreOld, RetentionIsOnRecord, EndRun, fileVars,
           Retaining
  <2>3. RetentionIsOnRecord'
    BY <1>10 DEF WriteBack, RetentionIsOnRecord, EndRun, Retaining
  <2> QED
    BY <2>1, <2>2, <2>3
<1>11. ASSUME BackupFails PROVE BackupInv'
  <2>1. BackupTypeOK'
    BY <1>11 DEF BackupFails, BackupTypeOK, fileVars, ledgerVars, options, schedule
  <2>2. MadeFirst' /\ EntriesAreOld'
    BY <1>11 DEF BackupFails, MadeFirst, EntriesAreOld, fileVars, ledgerVars
  <2>3. RetentionIsOnRecord'
    BY <1>11 DEF BackupFails, RetentionIsOnRecord, Retaining
  <2> QED
    BY <2>1, <2>2, <2>3
<1>12. ASSUME RecordFailure PROVE BackupInv'
  <2>1. BackupTypeOK'
    BY <1>12 DEF RecordFailure, BackupTypeOK, EndRun, Readings, fileVars, ledgerVars, options
  <2>2. MadeFirst' /\ EntriesAreOld'
    BY <1>12 DEF RecordFailure, MadeFirst, EntriesAreOld, EndRun, Readings, fileVars, ledgerVars
  <2>3. RetentionIsOnRecord'
    BY <1>12 DEF RecordFailure, RetentionIsOnRecord, EndRun, Retaining
  <2> QED
    BY <2>1, <2>2, <2>3
<1> QED
  BY <1>1, <1>2, <1>3, <1>4, <1>5, <1>6, <1>7, <1>8, <1>9, <1>10, <1>11, <1>12 DEF Run

\* The user and the machine.
LEMMA UserStep ==
    ASSUME BackupInv, Configure \/ BackupCrash \/ \E b \in Bundles : UserDelete(b) \/ UserChange(b)
    PROVE  BackupInv'
<1> USE BundleAssumption, RetentionAssumption DEF BackupInv
<1>1. ASSUME Configure PROVE BackupInv'
  <2>1. BackupTypeOK'
    BY <1>1 DEF Configure, BackupTypeOK, Event, fileVars, ledgerVars, runVars
  <2>2. MadeFirst' /\ EntriesAreOld'
    BY <1>1 DEF Configure, MadeFirst, EntriesAreOld, fileVars, ledgerVars, runVars
  <2>3. RetentionIsOnRecord'
    BY <1>1 DEF Configure, RetentionIsOnRecord, runVars, Retaining
  <2> QED
    BY <2>1, <2>2, <2>3
<1>2. ASSUME BackupCrash PROVE BackupInv'
  <2>1. BackupTypeOK'
    BY <1>2 DEF BackupCrash, BackupTypeOK, Event, fileVars, ledgerVars, options
  <2>2. MadeFirst' /\ EntriesAreOld'
    BY <1>2 DEF BackupCrash, MadeFirst, EntriesAreOld, fileVars, ledgerVars
  <2>3. RetentionIsOnRecord'
    BY <1>2 DEF BackupCrash, RetentionIsOnRecord, Retaining
  <2> QED
    BY <2>1, <2>2, <2>3
<1>3. ASSUME NEW b \in Bundles, UserDelete(b) PROVE BackupInv'
  <2>1. BackupTypeOK'
    BY <1>3 DEF UserDelete, BackupTypeOK, Event, ledgerVars, options, runVars, schedule, Contents
  <2>2. MadeFirst' /\ EntriesAreOld'
    BY <1>3 DEF UserDelete, MadeFirst, EntriesAreOld, ledgerVars, runVars
  <2>3. RetentionIsOnRecord'
    <3>1. Oldest(Local(state), retention)' = Oldest(Local(state), retention)
      BY <1>3 DEF UserDelete, Oldest, Local, runVars, options
    <3>2. Oldest(Local(state), retention) \subseteq Bundles
      BY DEF Oldest, Local, BackupTypeOK
    <3>3. /\ UNCHANGED <<state, ledger, made, digest, entries, removed, stuck, stage>>
          /\ \A c \in Bundles : file'[c] = IF c = b THEN "none" ELSE file[c]
      BY <1>3 DEF UserDelete, BackupTypeOK, ledgerVars, runVars
    <3>4. Retaining => \A c \in Oldest(Local(state), retention) : digest[c] # "none"
      BY DEF Oldest, Local, EntriesAreOld, RetentionIsOnRecord
    <3> QED
      BY <3>1, <3>2, <3>3, <3>4 DEF RetentionIsOnRecord, Retaining, BackupTypeOK
  <2> QED
    BY <2>1, <2>2, <2>3
<1>4. ASSUME NEW b \in Bundles, UserChange(b) PROVE BackupInv'
  <2>1. BackupTypeOK'
    BY <1>4 DEF UserChange, BackupTypeOK, Event, ledgerVars, options, runVars, schedule, Contents
  <2>2. MadeFirst' /\ EntriesAreOld'
    BY <1>4 DEF UserChange, MadeFirst, EntriesAreOld, ledgerVars, runVars
  <2>3. RetentionIsOnRecord'
    <3>1. Oldest(Local(state), retention)' = Oldest(Local(state), retention)
      BY <1>4 DEF UserChange, Oldest, Local, runVars, options
    <3>2. Oldest(Local(state), retention) \subseteq Bundles
      BY DEF Oldest, Local, BackupTypeOK
    <3>3. /\ UNCHANGED <<state, ledger, made, digest, entries, removed, stuck, stage>>
          /\ \A c \in Bundles : file'[c] = IF c = b THEN "changed" ELSE file[c]
          /\ file[b] = "whole" /\ digest[b] # "changed"
      BY <1>4 DEF UserChange, BackupTypeOK, ledgerVars, runVars, EntriesAreOld
    <3> QED
      BY <3>1, <3>2, <3>3 DEF RetentionIsOnRecord, Retaining, BackupTypeOK
  <2> QED
    BY <2>1, <2>2, <2>3
<1> QED
  BY <1>1, <1>2, <1>3, <1>4

\* Every state the backups can reach satisfies the inductive invariant.
LEMMA BackupsInvariant == BackupSpec => []BackupInv
<1>1. ASSUME BackupInit PROVE BackupInv
  <2>1. BackupTypeOK
    BY <1>1, BundleAssumption DEF BackupInit, BackupTypeOK, Contents
  <2>2. MadeFirst /\ EntriesAreOld /\ RetentionIsOnRecord
    BY <1>1 DEF BackupInit, MadeFirst, EntriesAreOld, RetentionIsOnRecord, Retaining
  <2> QED
    BY <2>1, <2>2 DEF BackupInv
<1>2. ASSUME BackupInv, [BackupNext]_backupVars PROVE BackupInv'
  <2>1. CASE UNCHANGED backupVars
    <3>1. Oldest(Local(state), retention)' = Oldest(Local(state), retention)
      BY <2>1 DEF backupVars, runVars, options, fileVars, Oldest, Local
    <3> QED
      BY <1>2, <2>1, <3>1 DEF backupVars, fileVars, ledgerVars, runVars, options, schedule, BackupInv, BackupTypeOK,
             MadeFirst, EntriesAreOld, RetentionIsOnRecord, Retaining, Bundles, Contents
  <2> QED
    BY <1>2, <2>1, RunStep, UserStep DEF BackupNext
<1> QED
  BY <1>1, <1>2, PTL DEF BackupSpec

\* Retention deletes a bundle only when the newest one and as many newer ones
\* of its location as the user keeps are on record (_retain_owned is called
\* after _write_state), wherever a failure or a crash falls.
THEOREM BackupsAreSound == BackupSpec => []BackupSound
<1>1. ASSUME BackupInv PROVE BackupSound
  <2> USE <1>1, BundleAssumption DEF BackupInv
  <2>1. ASSUME stage = "unlink"
        PROVE  /\ First(entries) \in ledger /\ made \in ledger
               /\ retention <= Cardinality({n \in ledger : n > First(entries) /\ place[n] = directory})
    <3>1. First(entries) \in Oldest(Local(state), retention)
      BY <2>1, FirstIsOldest DEF BackupTypeOK, RetentionIsOnRecord, Retaining
    <3>2. {n \in Local(state) : n > First(entries)} =
          {n \in ledger : n > First(entries) /\ place[n] = directory}
      BY <2>1 DEF Local, RetentionIsOnRecord, Retaining
    <3>3. Cardinality({n \in Local(state) : n > First(entries)}) >= retention
      BY <3>1 DEF Oldest
    <3>4. Cardinality({n \in ledger : n > First(entries) /\ place[n] = directory}) \in Nat
      <4>1. IsFiniteSet(ledger)
        BY OldestLeavesFew DEF BackupTypeOK
      <4> QED
        BY <4>1, FS_Subset, FS_CardinalityType
    <3>5. First(entries) \in ledger /\ made \in ledger
      BY <2>1, <3>1 DEF Oldest, Local, RetentionIsOnRecord, Retaining
    <3> QED
      BY <3>2, <3>3, <3>4, <3>5, RetentionAssumption DEF BackupTypeOK
  <2> QED
    BY <2>1 DEF BackupSound, NewerAreOnRecord
<1> QED
  BY <1>1, BackupsInvariant, PTL

\* What the program deletes is its own: on record, and of the location that is
\* configured now (the eligible entries of _retain_owned).
THEOREM OnlyOwnBundlesAreRetired == BackupSpec => RetiresOnlyItsOwn
<1> DEFINE Own == \A b \in Bundles :
                    file[b] # "none" /\ file'[b] = "none" /\ events' = events =>
                        /\ b \in ledger
                        /\ place[b] = directory
<1>1. ASSUME BackupInv, [BackupNext]_backupVars PROVE Own
  <2> USE BundleAssumption DEF BackupInv
  <2>1. CASE Unlink
    <3>1. First(entries) \in ledger /\ place[First(entries)] = directory
      BY <1>1, <2>1, FirstIsOldest DEF Unlink, BackupTypeOK, Oldest, Local, RetentionIsOnRecord, Retaining
    <3>2. \A b \in Bundles : b # First(entries) => file'[b] = file[b]
      BY <1>1, <2>1 DEF Unlink, BackupTypeOK
    <3> QED
      BY <3>1, <3>2
  <2>2. CASE WriteArchive \/ PublishArchive
    BY <1>1, <2>2 DEF WriteArchive, PublishArchive, BackupTypeOK, MadeFirst
  <2>3. CASE events' # events
    BY <2>3
  <2>4. CASE UNCHANGED file
    BY <2>4
  <2>5. Unlink \/ WriteArchive \/ PublishArchive \/ events' # events \/ UNCHANGED file
    BY <1>1 DEF BackupTypeOK, BackupNext, Run, backupVars, fileVars, Reschedule, Elapse, Deferred, EnterWindow, Record,
           Recording, Inspect, WriteBack, BackupFails, RecordFailure, Event, UserDelete, UserChange,
           Configure, BackupCrash
  <2> QED
    BY <2>1, <2>2, <2>3, <2>4, <2>5
<1> QED
  BY <1>1, BackupsInvariant, PTL DEF BackupSpec, RetiresOnlyItsOwn

\* Retention forgets only what is gone, so a bundle it failed to delete stays
\* on record (state['owned'] without the removed entries).
THEOREM OnlyTheGoneIsForgotten == BackupSpec => ForgetsOnlyTheGone
<1> DEFINE Keeps == stage = "retain" =>
                      \A b \in ledger : file[b] # "none" => b \in ledger'
<1>1. ASSUME BackupInv, [BackupNext]_backupVars PROVE Keeps
  <2>1. CASE WriteBack
    BY <1>1, <2>1 DEF WriteBack, BackupInv, RetentionIsOnRecord, Retaining
  <2>2. CASE stage # "retain" \/ UNCHANGED ledger
    BY <2>2
  <2>3. WriteBack \/ stage # "retain" \/ UNCHANGED ledger
    BY <1>1 DEF BackupNext, Run, backupVars, ledgerVars, Reschedule, Elapse, Deferred, EnterWindow, WriteArchive,
           PublishArchive, Record, Recording, Inspect, Unlink, BackupFails, RecordFailure, UserDelete,
           UserChange, Configure, BackupCrash
  <2> QED
    BY <2>1, <2>2, <2>3
<1> QED
  BY <1>1, BackupsInvariant, PTL DEF BackupSpec, ForgetsOnlyTheGone

\* A run that ends without an error leaves no more bundles of its location on
\* record, unchanged and deletable, than the user asked for.
THEOREM RetentionIsKept == BackupSpec => NoMoreThanRetention
<1> DEFINE Left == {b \in ledger' : /\ place[b] = directory
                                    /\ file[b] = digest[b]
                                    /\ b \notin stuck}
           Few == stage = "retain" /\ stage' = "idle" /\ events' = events => Cardinality(Left) <= retention
<1>1. ASSUME BackupInv, [BackupNext]_backupVars PROVE Few
  <2> USE BundleAssumption, RetentionAssumption DEF BackupInv
  <2>1. CASE WriteBack
    <3> DEFINE Mine == Local(state)
    <3>1. Mine \subseteq Bundles /\ retention \in Nat \ {0}
      BY <1>1 DEF Local, BackupTypeOK
    <3>2. Left \subseteq Mine \ Oldest(Mine, retention)
      BY <1>1, <2>1 DEF WriteBack, Local, RetentionIsOnRecord, Retaining
    <3> HIDE DEF Left, Mine
    <3>3. /\ IsFiniteSet(Mine \ Oldest(Mine, retention))
          /\ Cardinality(Mine \ Oldest(Mine, retention)) <= retention
      BY <3>1, OldestLeavesFew
    <3>4. /\ Cardinality(Left) <= Cardinality(Mine \ Oldest(Mine, retention))
          /\ Cardinality(Left) \in Nat /\ Cardinality(Mine \ Oldest(Mine, retention)) \in Nat
      BY <3>2, <3>3, FS_Subset, FS_CardinalityType
    <3> QED
      BY <3>1, <3>3, <3>4
  <2>2. CASE ~ (stage = "retain" /\ stage' = "idle" /\ events' = events)
    BY <2>2
  <2>3. WriteBack \/ ~ (stage = "retain" /\ stage' = "idle" /\ events' = events)
    BY <1>1 DEF BackupTypeOK, BackupNext, Run, backupVars, runVars, Reschedule, Elapse, Deferred, EnterWindow,
           WriteArchive, PublishArchive, Record, Recording, Inspect, Unlink, BackupFails, RecordFailure,
           Event, UserDelete, UserChange, Configure, BackupCrash
  <2> QED
    BY <2>1, <2>2, <2>3
<1> QED
  BY <1>1, BackupsInvariant, PTL DEF BackupSpec, NoMoreThanRetention

-----------------------------------------------------------------------------
(* The restore.                                                            *)

\* Path p of c is to be undone by a rollback.
Moved(c, p) == \E i \in 1..Len(applied) : applied[i] = <<c, p>>

\* No path is moved twice.
Once == \A i, j \in 1..Len(applied) : applied[i] = applied[j] => i = j

\* The contents that the restore found at c have a copy, if there were any.
Secured(c) == base[c]["main"] = absent \/ <<c, base[c]["main"]>> \in recovery

\* Component c has been dealt with; the current one is only after Install.
Finished(c) == c \in chosen \ left /\ (c # at \/ pc \in {"next", "cleanup"})

\* Only chosen components are moved, each path once, and in the code's order.
MovesInOrder ==
    /\ \A c \in Components, p \in Path : Moved(c, p) => c \in chosen \ left
    /\ Once
    /\ left \subseteq chosen
    /\ ~Running => applied = <<>> /\ left = {}
    /\ pc \in {"save", "main", "journal", "install"} => at \in chosen \ left
    /\ pc \in {"save", "main"} => ~Moved(at, "main")
    /\ pc \in {"save", "main", "journal"} => ~Moved(at, "journal")
    /\ pc \in {"journal", "install"} => Moved(at, "main")
    /\ pc = "install" /\ at \in Databases => Moved(at, "journal")
    /\ pc \in {"next", "save", "main", "journal", "install", "cleanup"} =>
          \A c \in Components : Finished(c) =>
             Moved(c, "main") /\ (c \in Databases => Moved(c, "journal"))
    /\ pc = "cleanup" => left = {}

\* What was not moved is still there, unless an undo failed; what was moved is
\* aside, and in the recovery directory as well.
OldContents ==
    Running =>
        /\ ~failures => \A c \in Components :
              /\ ~Moved(c, "main") => live[c]["main"] = base[c]["main"]
              /\ ~Moved(c, "journal") => live[c]["journal"] \in {absent, base[c]["journal"]}
        /\ \A c \in Components :
              /\ Moved(c, "main") => previous[c]["main"] = base[c]["main"] /\ Secured(c)
              /\ Moved(c, "journal") => previous[c]["journal"] \in {absent, base[c]["journal"]}
        /\ pc = "main" => Secured(at)

\* What has been dealt with is new.
NewContents ==
    pc \in {"next", "save", "main", "journal", "install", "cleanup"} =>
        \A c \in Components : Finished(c) => live[c]["main"] = last

\* No journal of the old database lies beside what has been or is installed now.
NewJournals ==
    pc \in {"next", "save", "main", "journal", "install", "cleanup"} =>
        \A c \in Databases :
            Finished(c) \/ (pc = "install" /\ c = at) => live[c]["journal"] \in {absent, last}

\* Errors of undos are counted by rollbacks; a running restore has not answered.
Report ==
    /\ failures => pc = "rollback"
    /\ Running <=> outcome = "busy"
    /\ pc = "down" <=> outcome = "crashed"

IInv ==
    /\ TypeOK
    /\ MovesInOrder
    /\ OldContents
    /\ NewContents
    /\ NewJournals
    /\ Report
    /\ NothingLost
    /\ AnswerIsTrue
    /\ JournalsBelong

-----------------------------------------------------------------------------
\* Put changes one path of one component and keeps the type.
LEMMA PutOnePath ==
    ASSUME NEW f \in [Components -> [Path -> Data]],
           NEW c \in Components, NEW p \in Path, NEW d \in Data
    PROVE  /\ Put(f, c, p, d) \in [Components -> [Path -> Data]]
           /\ Put(f, c, p, d)[c][p] = d
           /\ \A b \in Components, q \in Path :
                 b # c \/ q # p => Put(f, c, p, d)[b][q] = f[b][q]
BY DEF Put

\* A move adds its path to those to undo.
LEMMA MovedAppend ==
    ASSUME NEW c \in Components, NEW p \in Path,
           applied \in Seq(Components \X Path), applied' = Append(applied, <<c, p>>)
    PROVE  /\ applied' \in Seq(Components \X Path)
           /\ \A b \in Components, q \in Path :
                 Moved(b, q)' <=> Moved(b, q) \/ (b = c /\ q = p)
           /\ Once /\ ~Moved(c, p) => Once'
<1>1. /\ applied' \in Seq(Components \X Path)
      /\ Len(applied') = Len(applied) + 1
      /\ \A i \in 1..Len(applied) : applied'[i] = applied[i]
      /\ applied'[Len(applied) + 1] = <<c, p>>
      /\ Len(applied) \in Nat
  OBVIOUS
<1>2. ASSUME NEW b \in Components, NEW q \in Path
      PROVE  Moved(b, q)' <=> Moved(b, q) \/ (b = c /\ q = p)
  <2>1. ASSUME Moved(b, q)' PROVE Moved(b, q) \/ (b = c /\ q = p)
    <3>1. PICK i \in 1..Len(applied') : applied'[i] = <<b, q>>
      BY <2>1 DEF Moved
    <3>2. CASE i = Len(applied) + 1
      BY <1>1, <3>1, <3>2
    <3>3. CASE i # Len(applied) + 1
      <4>1. i \in 1..Len(applied)
        BY <1>1, <3>3
      <4> QED
        BY <1>1, <3>1, <4>1 DEF Moved
    <3> QED
      BY <3>2, <3>3
  <2>2. ASSUME Moved(b, q) PROVE Moved(b, q)'
    <3>1. PICK i \in 1..Len(applied) : applied[i] = <<b, q>>
      BY <2>2 DEF Moved
    <3>2. i \in 1..Len(applied') /\ applied'[i] = <<b, q>>
      BY <1>1, <3>1
    <3> QED
      BY <3>2 DEF Moved
  <2>3. ASSUME b = c, q = p PROVE Moved(b, q)'
    <3>1. Len(applied) + 1 \in 1..Len(applied')
      BY <1>1
    <3> QED
      BY <1>1, <2>3, <3>1 DEF Moved
  <2> QED
    BY <2>1, <2>2, <2>3
<1>3. ASSUME Once, ~Moved(c, p) PROVE Once'
  BY <1>1, <1>3 DEF Moved, Once
<1> QED
  BY <1>1, <1>2, <1>3

\* An undo takes exactly the newest of them away.
LEMMA MovedFront ==
    ASSUME applied \in Seq(Components \X Path), applied # <<>>, applied' = Front(applied)
    PROVE  /\ applied' \in Seq(Components \X Path)
           /\ \E c \in Components, p \in Path :
                 /\ Last(applied) = <<c, p>>
                 /\ Moved(c, p)
                 /\ Once => Once'
                 /\ Once => \A b \in Components, q \in Path :
                       Moved(b, q)' <=> Moved(b, q) /\ ~(b = c /\ q = p)
<1>1. /\ Len(applied) \in Nat \ {0}
      /\ Last(applied) = applied[Len(applied)]
      /\ Last(applied) \in Components \X Path
  BY DEF Last
<1>2. /\ applied' \in Seq(Components \X Path)
      /\ Len(applied') = Len(applied) - 1
      /\ \A i \in 1..(Len(applied) - 1) : applied'[i] = applied[i]
  <2> DEFINE n == Len(applied) - 1
             T == SubSeq(applied, 1, n)
  <2>1. n \in Nat /\ \A i \in 1..n : applied[i] \in Components \X Path
    BY <1>1
  <2>2. /\ T \in Seq(Components \X Path)
        /\ Len(T) = IF 1 <= n THEN n - 1 + 1 ELSE 0
        /\ \A i \in 1..(n - 1 + 1) : T[i] = applied[1 + i - 1]
    <3> HIDE DEF n
    <3> QED
      BY <2>1, SubSeqProperties
  <2>3. Len(T) = n /\ \A i \in 1..n : T[i] = applied[i]
    <3> HIDE DEF n, T
    <3> QED
      BY <2>1, <2>2
  <2>4. applied' = T
    BY DEF Front
  <2> QED
    BY <2>2, <2>3, <2>4
<1>3. PICK c \in Components, p \in Path : Last(applied) = <<c, p>>
  BY <1>1
<1>4. applied[Len(applied)] = <<c, p>> /\ Len(applied) \in 1..Len(applied)
  BY <1>1, <1>3
<1>5. Moved(c, p)
  BY <1>4 DEF Moved
<1>6. ASSUME Once PROVE Once'
  BY <1>1, <1>2, <1>6 DEF Once
<1>7. ASSUME Once, NEW b \in Components, NEW q \in Path
      PROVE  Moved(b, q)' <=> Moved(b, q) /\ ~(b = c /\ q = p)
  <2>1. ASSUME Moved(b, q)' PROVE Moved(b, q) /\ ~(b = c /\ q = p)
    <3>1. PICK i \in 1..(Len(applied) - 1) : applied[i] = <<b, q>>
      BY <1>2, <2>1 DEF Moved
    <3>2. i \in 1..Len(applied) /\ i # Len(applied)
      BY <1>1, <3>1
    <3>3. <<b, q>> # <<c, p>>
      BY <1>4, <1>7, <3>1, <3>2 DEF Once
    <3>4. Moved(b, q)
      BY <3>1, <3>2 DEF Moved
    <3> QED
      BY <3>3, <3>4
  <2>2. ASSUME Moved(b, q), ~(b = c /\ q = p) PROVE Moved(b, q)'
    <3>1. PICK i \in 1..Len(applied) : applied[i] = <<b, q>>
      BY <2>2 DEF Moved
    <3>2. <<b, q>> # <<c, p>>
      BY <2>2
    <3>3. i # Len(applied)
      BY <1>4, <3>1, <3>2
    <3>4. i \in 1..(Len(applied) - 1) /\ i \in 1..Len(applied')
      BY <1>1, <1>2, <3>3
    <3>5. applied'[i] = <<b, q>>
      BY <1>2, <3>1, <3>4
    <3> QED
      BY <3>4, <3>5 DEF Moved
  <2> QED
    BY <2>1, <2>2
<1> QED
  BY <1>2, <1>3, <1>5, <1>6, <1>7

-----------------------------------------------------------------------------
\* Every step keeps the types.
LEMMA TypeStep == TypeOK /\ [Next]_vars => TypeOK'
<1> SUFFICES ASSUME TypeOK, [Next]_vars PROVE TypeOK'
  OBVIOUS
<1>c. last < MaxVersion => last + 1 \in Versions
  <2>1. last \in 0..MaxVersion
    BY DEF TypeOK, Versions
  <2>2. \A v \in 0..MaxVersion : v < MaxVersion => v + 1 \in 0..MaxVersion
    BY VersionAssumption
  <2> QED
    BY <2>1, <2>2 DEF Versions
<1> USE DEF TypeOK, Steps, Outcomes
<1>a. /\ absent \in Data /\ fresh \in Data /\ last \in Data
      /\ last < MaxVersion => last + 1 \in Versions /\ last + 1 \in Data
      /\ Nothing \in [Components -> [Path -> Data]]
      /\ "main" \in Path /\ "journal" \in Path
  <2>1. absent \in Data /\ fresh \in Data /\ \A v \in Versions : v \in Data
    BY DEF Data
  <2> QED
    BY <1>c, <2>1 DEF Nothing, Path
<1>b. <<>> \in Seq(Components \X Path)
  BY EmptySeq
<1>1. ASSUME NEW S \in SUBSET Components \ {{}}, Begin(S) PROVE TypeOK'
  BY <1>a, <1>b, <1>1 DEF Begin
<1>2. ASSUME NEW c \in Components, Prepare(c) PROVE TypeOK'
  <2>1. Put(live, c, "journal", absent) \in [Components -> [Path -> Data]]
    BY <1>a, PutOnePath
  <2> QED
    BY <1>2, <2>1 DEF Prepare
<1>3. CASE SaveLive
  <2>1. live[at]["main"] \in Data
    BY <1>a
  <2>2. recovery' \subseteq Components \X (Data \ {absent})
    <3>1. CASE live[at]["main"] = absent
      BY <1>3, <3>1 DEF SaveLive
    <3>2. CASE live[at]["main"] # absent
      <4>1. <<at, live[at]["main"]>> \in Components \X (Data \ {absent})
        BY <2>1, <3>2
      <4> QED
        BY <1>3, <4>1 DEF SaveLive
    <3> QED
      BY <3>1, <3>2
  <2> QED
    BY <1>3, <2>2 DEF SaveLive
<1>4. ASSUME NEW p \in Path, MoveAside(p)
      PROVE  /\ live' \in [Components -> [Path -> Data]]
             /\ previous' \in [Components -> [Path -> Data]]
             /\ applied' \in Seq(Components \X Path)
  <2>1. live[at][p] \in Data
    OBVIOUS
  <2> QED
    BY <1>a, <1>4, <2>1, PutOnePath, MovedAppend DEF MoveAside
<1>5. CASE MoveMain
  BY <1>a, <1>4, <1>5 DEF MoveMain
<1>6. CASE MoveJournal
  BY <1>a, <1>4, <1>6 DEF MoveJournal
<1>7. CASE Install
  BY <1>a, <1>7, PutOnePath DEF Install
<1>8. CASE Check
  <2>1. PICK opened \in SUBSET (chosen \cap Databases) :
          live' = [c \in Components |-> IF c \in opened
                                        THEN [live[c] EXCEPT !["journal"] = last]
                                        ELSE live[c]]
    BY <1>8 DEF Check
  <2>2. ASSUME NEW c \in Components
        PROVE  /\ live[c] \in [Path -> Data]
               /\ [live[c] EXCEPT !["journal"] = last] \in [Path -> Data]
    BY <1>a
  <2>3. live' \in [Components -> [Path -> Data]]
    BY <2>1, <2>2
  <2> QED
    BY <1>8, <2>3 DEF Check
<1>9. CASE Fail
  BY <1>9 DEF Fail
<1>10. CASE Undo
  <2>1. applied' \in Seq(Components \X Path)
    BY <1>10, MovedFront DEF Undo
  <2>2. PICK c \in Components, p \in Path :
          \/ /\ live' = Put(live, c, p, previous[c][p])
             /\ UNCHANGED failures
          \/ /\ failures' = TRUE
             /\ UNCHANGED live
          \/ /\ live' = Put(live, c, p, absent)
             /\ failures' = TRUE
    BY <1>10 DEF Undo
  <2>3. /\ Put(live, c, p, previous[c][p]) \in [Components -> [Path -> Data]]
        /\ Put(live, c, p, absent) \in [Components -> [Path -> Data]]
    <3>1. previous[c][p] \in Data
      OBVIOUS
    <3> QED
      BY <1>a, <3>1, PutOnePath
  <2>4. /\ live' \in [Components -> [Path -> Data]]
        /\ failures' \in BOOLEAN
    BY <2>2, <2>3
  <2> QED
    BY <1>10, <2>1, <2>4 DEF Undo
<1>11. CASE EndRollback
  BY <1>a, <1>11 DEF EndRollback
<1>12. CASE Cleanup
  BY <1>a, <1>b, <1>12 DEF Cleanup
<1>13. CASE Crash
  BY <1>a, <1>b, <1>13 DEF Crash
<1>14. CASE Start
  <2>1. ASSUME NEW c \in Components PROVE live'[c] \in [Path -> Data]
    <3>1. live[c] \in [Path -> Data]
      OBVIOUS
    <3>2. CASE c \in Databases
      BY <1>a, <1>14, <3>1, <3>2 DEF Start
    <3>3. CASE c \notin Databases
      BY <1>14, <3>1, <3>3 DEF Start
    <3> QED
      BY <3>2, <3>3
  <2>2. live' \in [Components -> [Path -> Data]]
    BY <1>14, <2>1 DEF Start
  <2> QED
    BY <1>a, <1>14, <2>2 DEF Start
<1>15. ASSUME NEW c \in Components, Edit(c) PROVE TypeOK'
  <2>1. PICK j \in {absent, last + 1} :
            live' = Put(Put(live, c, "main", last + 1), c, "journal", j)
    <3>1. PICK j \in IF c \in Databases THEN {absent, last + 1} ELSE {absent} :
              live' = Put(Put(live, c, "main", last + 1), c, "journal", j)
      BY <1>15 DEF Edit
    <3> QED
      BY <3>1
  <2>2. live' \in [Components -> [Path -> Data]]
    BY <1>a, <1>15, <2>1, PutOnePath DEF Edit
  <2> QED
    BY <1>a, <1>15, <2>2 DEF Edit
<1>16. CASE UNCHANGED vars
  BY <1>16 DEF vars
<1> QED
  BY <1>1, <1>2, <1>3, <1>5, <1>6, <1>7, <1>8, <1>9, <1>10, <1>11, <1>12, <1>13,
     <1>14, <1>15, <1>16 DEF Next

-----------------------------------------------------------------------------
\* What Moved and Once become when the list of moves stays or is emptied.
LEMMA MovedOtherwise ==
    /\ applied' = applied =>
         /\ \A c \in Components, p \in Path : Moved(c, p)' <=> Moved(c, p)
         /\ Once' <=> Once
    /\ applied' = <<>> => Once' /\ \A c \in Components, p \in Path : ~Moved(c, p)'
    /\ applied = <<>> => \A c \in Components, p \in Path : ~Moved(c, p)
<1>1. ASSUME applied' = applied
      PROVE  /\ \A c \in Components, p \in Path : Moved(c, p)' <=> Moved(c, p)
             /\ Once' <=> Once
  BY <1>1 DEF Moved, Once
<1>2. Len(<<>>) = 0 /\ 1..0 = {}
  OBVIOUS
<1>3. ASSUME applied' = <<>>
      PROVE  Once' /\ \A c \in Components, p \in Path : ~Moved(c, p)'
  BY <1>2, <1>3 DEF Moved, Once
<1>4. ASSUME applied = <<>>
      PROVE  \A c \in Components, p \in Path : ~Moved(c, p)
  BY <1>2, <1>4 DEF Moved
<1> QED
  BY <1>1, <1>3, <1>4

\* Every step keeps the order of the moves.
LEMMA OrderStep == IInv /\ [Next]_vars => MovesInOrder'
<1> SUFFICES ASSUME IInv, [Next]_vars PROVE MovesInOrder'
  OBVIOUS
<1>t. /\ at \in Components /\ left \subseteq Components /\ chosen \subseteq Components
      /\ "main" \in Path /\ "journal" \in Path
      /\ applied \in Seq(Components \X Path)
  BY DEF IInv, TypeOK, Path
<1> MovesInOrder
  BY DEF IInv
<1> USE DEF MovesInOrder, Finished, Running, Steps
<1>1. ASSUME NEW S \in SUBSET Components \ {{}}, Begin(S) PROVE MovesInOrder'
  BY <1>1, MovedOtherwise DEF Begin
<1>2. ASSUME NEW c \in Components, Prepare(c) PROVE MovesInOrder'
  BY <1>t, <1>2, MovedOtherwise DEF Prepare
<1>3. CASE SaveLive
  BY <1>t, <1>3, MovedOtherwise DEF SaveLive
<1>4. CASE MoveMain
  <2>1. /\ \A c \in Components, q \in Path :
              Moved(c, q)' <=> Moved(c, q) \/ (c = at /\ q = "main")
        /\ Once'
    BY <1>t, <1>4, MovedAppend DEF MoveMain, MoveAside
  <2> QED
    BY <1>t, <1>4, <2>1 DEF MoveMain
<1>5. CASE MoveJournal
  <2>1. /\ \A c \in Components, q \in Path :
              Moved(c, q)' <=> Moved(c, q) \/ (c = at /\ q = "journal")
        /\ Once'
    BY <1>t, <1>5, MovedAppend DEF MoveJournal, MoveAside
  <2> QED
    BY <1>t, <1>5, <2>1 DEF MoveJournal
<1>6. CASE Install
  BY <1>t, <1>6, MovedOtherwise DEF Install
<1>7. CASE Check
  BY <1>t, <1>7, MovedOtherwise DEF Check
<1>8. CASE Fail
  BY <1>t, <1>8, MovedOtherwise DEF Fail
<1>9. CASE Undo
  <2>1. Once' /\ \A c \in Components, q \in Path : Moved(c, q)' => Moved(c, q)
    BY <1>t, <1>9, MovedFront DEF Undo
  <2> QED
    BY <1>t, <1>9, <2>1 DEF Undo
<1>10. CASE EndRollback
  BY <1>t, <1>10, MovedOtherwise DEF EndRollback
<1>11. CASE Cleanup
  BY <1>t, <1>11, MovedOtherwise DEF Cleanup
<1>12. CASE Crash
  BY <1>t, <1>12, MovedOtherwise DEF Crash
<1>13. ASSUME pc = "idle" \/ pc = "down", pc' = "idle", UNCHANGED <<applied, left, at>>, chosen' = {}
       PROVE  MovesInOrder'
  BY <1>t, <1>13, MovedOtherwise
<1>14. CASE UNCHANGED vars
  BY <1>t, <1>14, MovedOtherwise DEF vars
<1>15. ASSUME NEW c \in Components, Edit(c) PROVE MovesInOrder'
  BY <1>13, <1>15 DEF Edit
<1>16. CASE Start
  BY <1>13, <1>16 DEF Start
<1> QED
  BY <1>1, <1>2, <1>3, <1>4, <1>5, <1>6, <1>7, <1>8, <1>9, <1>10, <1>11, <1>12,
     <1>14, <1>15, <1>16 DEF Next

\* Every step keeps what is reported in line with where the restore is.
LEMMA ReportStep == IInv /\ [Next]_vars => Report'
<1> SUFFICES ASSUME IInv, [Next]_vars PROVE Report'
  OBVIOUS
<1> Report
  BY DEF IInv
<1> USE DEF Report, Running, Steps
<1>1. ASSUME NEW S \in SUBSET Components \ {{}}, Begin(S) PROVE Report'
  BY <1>1 DEF Begin
<1>2. ASSUME NEW c \in Components, Prepare(c) PROVE Report'
  BY <1>2 DEF Prepare
<1>3. CASE SaveLive
  BY <1>3 DEF SaveLive
<1>4. CASE MoveMain
  BY <1>4 DEF MoveMain
<1>5. CASE MoveJournal
  BY <1>5 DEF MoveJournal
<1>6. CASE Install
  BY <1>6 DEF Install
<1>7. CASE Check
  BY <1>7 DEF Check
<1>8. CASE Fail
  BY <1>8 DEF Fail
<1>9. CASE Undo
  BY <1>9 DEF Undo
<1>10. CASE EndRollback
  BY <1>10 DEF EndRollback
<1>11. CASE Cleanup
  BY <1>11 DEF Cleanup
<1>12. CASE Crash
  BY <1>12 DEF Crash
<1>13. CASE Start
  BY <1>13 DEF Start
<1>14. ASSUME NEW c \in Components, Edit(c) PROVE Report'
  BY <1>14 DEF Edit
<1>15. CASE UNCHANGED vars
  BY <1>15 DEF vars
<1> QED
  BY <1>1, <1>2, <1>3, <1>4, <1>5, <1>6, <1>7, <1>8, <1>9, <1>10, <1>11, <1>12,
     <1>13, <1>14, <1>15 DEF Next

\* What an undo does, with its path named.
LEMMA UndoOnePath ==
    ASSUME TypeOK, Once, Undo
    PROVE  \E c \in Components, p \in Path :
              /\ Moved(c, p)
              /\ \A b \in Components, q \in Path :
                    Moved(b, q)' <=> Moved(b, q) /\ ~(b = c /\ q = p)
              /\ \A b \in Components, q \in Path :
                    b # c \/ q # p => live'[b][q] = live[b][q]
              /\ \/ live'[c][p] = previous[c][p] /\ failures' = failures
                 \/ failures' = TRUE
<1>1. PICK c \in Components, p \in Path :
         /\ Last(applied) = <<c, p>>
         /\ \/ /\ live' = Put(live, c, p, previous[c][p])
               /\ UNCHANGED failures
            \/ /\ failures' = TRUE
               /\ UNCHANGED live
            \/ /\ live' = Put(live, c, p, absent)
               /\ failures' = TRUE
  BY DEF Undo
<1>2. PICK d \in Components, r \in Path :
         /\ Last(applied) = <<d, r>>
         /\ Moved(d, r)
         /\ \A b \in Components, q \in Path :
               Moved(b, q)' <=> Moved(b, q) /\ ~(b = d /\ q = r)
  BY MovedFront DEF Undo, TypeOK
<1>3. c = d /\ p = r
  BY <1>1, <1>2
<1>4. previous[c][p] \in Data /\ absent \in Data
  BY DEF TypeOK, Data
<1>5. /\ \A b \in Components, q \in Path : b # c \/ q # p => live'[b][q] = live[b][q]
      /\ \/ live'[c][p] = previous[c][p] /\ failures' = failures
         \/ failures' = TRUE
  <2>1. live \in [Components -> [Path -> Data]]
    BY DEF TypeOK
  <2>2. \A x \in Data :
          /\ Put(live, c, p, x)[c][p] = x
          /\ \A b \in Components, q \in Path :
                b # c \/ q # p => Put(live, c, p, x)[b][q] = live[b][q]
    BY <2>1, PutOnePath
  <2> QED
    BY <1>1, <1>4, <2>2
<1> QED
  BY <1>2, <1>3, <1>5

\* PutOnePath for the variables that steps change with Put.
PutsOnePath ==
    \A c \in Components, p \in Path, d \in Data :
       /\ Put(live, c, p, d)[c][p] = d
       /\ Put(previous, c, p, d)[c][p] = d
       /\ \A b \in Components, q \in Path : b # c \/ q # p =>
             /\ Put(live, c, p, d)[b][q] = live[b][q]
             /\ Put(previous, c, p, d)[b][q] = previous[b][q]

LEMMA PutPaths == TypeOK => PutsOnePath
<1> SUFFICES ASSUME TypeOK, NEW c \in Components, NEW p \in Path, NEW d \in Data
             PROVE  /\ Put(live, c, p, d)[c][p] = d
                    /\ Put(previous, c, p, d)[c][p] = d
                    /\ \A b \in Components, q \in Path : b # c \/ q # p =>
                          /\ Put(live, c, p, d)[b][q] = live[b][q]
                          /\ Put(previous, c, p, d)[b][q] = previous[b][q]
  BY DEF PutsOnePath
<1>1. /\ Put(live, c, p, d)[c][p] = d
      /\ \A b \in Components, q \in Path : b # c \/ q # p =>
            Put(live, c, p, d)[b][q] = live[b][q]
  <2>1. live \in [Components -> [Path -> Data]]
    BY DEF TypeOK
  <2> QED
    BY <2>1, PutOnePath
<1>2. /\ Put(previous, c, p, d)[c][p] = d
      /\ \A b \in Components, q \in Path : b # c \/ q # p =>
            Put(previous, c, p, d)[b][q] = previous[b][q]
  <2>1. previous \in [Components -> [Path -> Data]]
    BY DEF TypeOK
  <2> QED
    BY <2>1, PutOnePath
<1> QED
  BY <1>1, <1>2

\* Every step keeps track of the old contents.
LEMMA OldStep == IInv /\ [Next]_vars => OldContents'
<1> SUFFICES ASSUME IInv, [Next]_vars PROVE OldContents'
  OBVIOUS
<1>t. /\ TypeOK /\ MovesInOrder /\ OldContents /\ Report
      /\ at \in Components /\ last \in Data /\ absent \in Data
      /\ "main" \in Path /\ "journal" \in Path /\ "main" # "journal"
      /\ chosen \subseteq Components /\ left \subseteq Components
      /\ applied \in Seq(Components \X Path)
      /\ live \in [Components -> [Path -> Data]]
      /\ previous \in [Components -> [Path -> Data]]
  BY DEF IInv, TypeOK, Path, Data
<1>p. PutsOnePath
  BY <1>t, PutPaths
<1> USE DEF OldContents, Secured, Running, Steps, PutsOnePath
<1>1. ASSUME NEW S \in SUBSET Components \ {{}}, Begin(S) PROVE OldContents'
  BY <1>t, <1>1, MovedOtherwise DEF Begin
<1>2. ASSUME NEW c \in Components, Prepare(c) PROVE OldContents'
  <2>1. \A b \in Components :
           /\ live'[b]["main"] = live[b]["main"]
           /\ live'[b]["journal"] \in {absent, live[b]["journal"]}
    <3>1. CASE live' = live
      BY <3>1
    <3>2. CASE live' = Put(live, c, "journal", absent)
      BY <1>t, <1>p, <3>2
    <3> QED
      BY <1>2, <3>1, <3>2 DEF Prepare
  <2> QED
    BY <1>t, <1>2, <2>1, MovedOtherwise DEF Prepare
<1>3. CASE SaveLive
  <2>1. live[at]["main"] = base[at]["main"]
    BY <1>t, <1>3 DEF SaveLive, MovesInOrder, Report
  <2>2. Secured(at)' /\ \A c \in Components : Secured(c) => Secured(c)'
    BY <1>3, <2>1 DEF SaveLive
  <2> QED
    BY <1>t, <1>3, <2>2, MovedOtherwise DEF SaveLive
<1>4. CASE MoveMain
  <2>1. /\ \A c \in Components, q \in Path :
              Moved(c, q)' <=> Moved(c, q) \/ (c = at /\ q = "main")
        /\ live[at]["main"] = base[at]["main"]
    BY <1>t, <1>4, MovedAppend DEF MoveMain, MoveAside, MovesInOrder, Report
  <2>2. live[at]["main"] \in Data
    BY <1>t
  <2>3. /\ previous'[at]["main"] = live[at]["main"]
        /\ \A c \in Components, q \in Path : c # at \/ q # "main" =>
              live'[c][q] = live[c][q] /\ previous'[c][q] = previous[c][q]
    BY <1>t, <1>4, <2>2, <1>p DEF MoveMain, MoveAside
  <2> QED
    BY <1>t, <1>4, <2>1, <2>3 DEF MoveMain, MovesInOrder
<1>5. CASE MoveJournal
  <2>1. /\ \A c \in Components, q \in Path :
              Moved(c, q)' <=> Moved(c, q) \/ (c = at /\ q = "journal")
        /\ live[at]["journal"] \in {absent, base[at]["journal"]}
    BY <1>t, <1>5, MovedAppend DEF MoveJournal, MoveAside, MovesInOrder, Report
  <2>2. live[at]["journal"] \in Data
    BY <1>t
  <2>3. /\ previous'[at]["journal"] = live[at]["journal"]
        /\ \A c \in Components, q \in Path : c # at \/ q # "journal" =>
              live'[c][q] = live[c][q] /\ previous'[c][q] = previous[c][q]
    BY <1>t, <1>5, <2>2, <1>p DEF MoveJournal, MoveAside
  <2> QED
    BY <1>t, <1>5, <2>1, <2>3 DEF MoveJournal, MovesInOrder
<1>6. CASE Install
  <2>1. \A c \in Components, q \in Path : c # at \/ q # "main" => live'[c][q] = live[c][q]
    BY <1>t, <1>6, <1>p DEF Install
  <2>2. Moved(at, "main")
    BY <1>t, <1>6 DEF Install, MovesInOrder
  <2> QED
    BY <1>t, <1>6, <2>1, <2>2, MovedOtherwise DEF Install
<1>7. CASE Check
  <2>1. PICK opened \in SUBSET (chosen \cap Databases) :
          live' = [c \in Components |-> IF c \in opened
                                        THEN [live[c] EXCEPT !["journal"] = last]
                                        ELSE live[c]]
    BY <1>7 DEF Check
  <2>2. ASSUME NEW c \in Components
        PROVE  /\ live'[c]["main"] = live[c]["main"]
               /\ c \notin opened => live'[c]["journal"] = live[c]["journal"]
    BY <1>t, <2>1 DEF Path
  <2>3. ASSUME NEW c \in opened PROVE Moved(c, "journal")
    BY <1>t, <1>7, <2>3 DEF Check, MovesInOrder, Finished
  <2> QED
    BY <1>t, <1>7, <2>2, <2>3, MovedOtherwise DEF Check
<1>8. CASE Fail
  BY <1>t, <1>8, MovedOtherwise DEF Fail
<1>9. CASE Undo
  <2>1. PICK c \in Components, p \in Path :
           /\ Moved(c, p)
           /\ \A b \in Components, q \in Path :
                 Moved(b, q)' <=> Moved(b, q) /\ ~(b = c /\ q = p)
           /\ \A b \in Components, q \in Path :
                 b # c \/ q # p => live'[b][q] = live[b][q]
           /\ \/ live'[c][p] = previous[c][p] /\ failures' = failures
              \/ failures' = TRUE
    BY <1>t, <1>9, UndoOnePath DEF MovesInOrder
  <2>2. /\ pc = "rollback" /\ pc' = "rollback"
        /\ UNCHANGED <<previous, recovery, base>>
        /\ Path = {"main", "journal"}
    BY <1>9 DEF Undo, Path
  <2>3. ASSUME ~failures', NEW b \in Components
        PROVE  /\ ~Moved(b, "main")' => live'[b]["main"] = base[b]["main"]
               /\ ~Moved(b, "journal")' => live'[b]["journal"] \in {absent, base[b]["journal"]}
    <3>1. ~failures /\ live'[c][p] = previous[c][p]
      BY <2>1, <2>3
    <3>2. /\ ~Moved(b, "main") => live[b]["main"] = base[b]["main"]
          /\ ~Moved(b, "journal") => live[b]["journal"] \in {absent, base[b]["journal"]}
          /\ Moved(b, "main") => previous[b]["main"] = base[b]["main"]
          /\ Moved(b, "journal") => previous[b]["journal"] \in {absent, base[b]["journal"]}
      BY <1>t, <2>2, <3>1
    <3>3. CASE b # c
      BY <1>t, <2>1, <3>2, <3>3
    <3>4. CASE b = c /\ p = "main"
      BY <1>t, <2>1, <3>1, <3>2, <3>4
    <3>5. CASE b = c /\ p = "journal"
      BY <1>t, <2>1, <3>1, <3>2, <3>5
    <3> QED
      BY <2>2, <3>3, <3>4, <3>5
  <2>4. ASSUME NEW b \in Components
        PROVE  /\ Moved(b, "main")' => previous[b]["main"] = base[b]["main"] /\ Secured(b)
               /\ Moved(b, "journal")' => previous[b]["journal"] \in {absent, base[b]["journal"]}
    BY <1>t, <2>1, <2>2
  <2> QED
    BY <2>2, <2>3, <2>4
<1>10. CASE EndRollback
  BY <1>10 DEF EndRollback
<1>11. CASE Cleanup
  BY <1>11 DEF Cleanup
<1>12. CASE Crash
  BY <1>12 DEF Crash
<1>13. CASE Start
  BY <1>13 DEF Start
<1>14. ASSUME NEW c \in Components, Edit(c) PROVE OldContents'
  BY <1>14 DEF Edit
<1>15. CASE UNCHANGED vars
  BY <1>t, <1>15, MovedOtherwise DEF vars
<1> QED
  BY <1>1, <1>2, <1>3, <1>4, <1>5, <1>6, <1>7, <1>8, <1>9, <1>10, <1>11, <1>12,
     <1>13, <1>14, <1>15 DEF Next

\* Every step keeps what has been dealt with new.
LEMMA NewStep == IInv /\ [Next]_vars => NewContents'
<1> SUFFICES ASSUME IInv, [Next]_vars PROVE NewContents'
  OBVIOUS
<1>t. /\ TypeOK /\ MovesInOrder /\ NewContents
      /\ at \in Components /\ last \in Data /\ absent \in Data
      /\ "main" \in Path /\ "journal" \in Path /\ "main" # "journal"
  BY DEF IInv, TypeOK, Path, Data
<1>p. PutsOnePath
  BY <1>t, PutPaths
<1> USE DEF NewContents, Finished, PutsOnePath
<1>1. ASSUME NEW S \in SUBSET Components \ {{}}, Begin(S) PROVE NewContents'
  BY <1>1 DEF Begin
<1>2. ASSUME NEW c \in Components, Prepare(c) PROVE NewContents'
  <2>1. \A b \in Components : live'[b]["main"] = live[b]["main"]
    <3>1. CASE live' = live
      BY <3>1
    <3>2. CASE live' = Put(live, c, "journal", absent)
      BY <1>t, <1>p, <3>2
    <3> QED
      BY <1>2, <3>1, <3>2 DEF Prepare
  <2> QED
    BY <1>t, <1>2, <2>1 DEF Prepare
<1>3. CASE SaveLive
  BY <1>t, <1>3 DEF SaveLive
<1>4. CASE MoveMain
  <2>1. \A b \in Components : b # at => live'[b]["main"] = live[b]["main"]
    BY <1>t, <1>p, <1>4 DEF MoveMain, MoveAside
  <2> QED
    BY <1>t, <1>4, <2>1 DEF MoveMain
<1>5. CASE MoveJournal
  <2>1. \A b \in Components : live'[b]["main"] = live[b]["main"]
    BY <1>t, <1>p, <1>5 DEF MoveJournal, MoveAside
  <2> QED
    BY <1>t, <1>5, <2>1 DEF MoveJournal
<1>6. CASE Install
  <2>1. /\ live'[at]["main"] = last
        /\ \A b \in Components : b # at => live'[b]["main"] = live[b]["main"]
    BY <1>t, <1>p, <1>6 DEF Install
  <2> QED
    BY <1>t, <1>6, <2>1 DEF Install
<1>7. CASE Check
  <2>1. PICK opened \in SUBSET (chosen \cap Databases) :
          live' = [c \in Components |-> IF c \in opened
                                        THEN [live[c] EXCEPT !["journal"] = last]
                                        ELSE live[c]]
    BY <1>7 DEF Check
  <2>2. ASSUME NEW c \in Components PROVE live'[c]["main"] = live[c]["main"]
    <3>1. live[c] \in [Path -> Data]
      BY <1>t DEF TypeOK
    <3> QED
      BY <1>t, <2>1, <3>1
  <2> QED
    BY <1>t, <1>7, <2>2 DEF Check
<1>8. CASE pc' \in {"rollback", "idle", "down"}
  BY <1>8
<1>9. CASE UNCHANGED vars
  BY <1>t, <1>9 DEF vars
<1> QED
  BY <1>1, <1>2, <1>3, <1>4, <1>5, <1>6, <1>7, <1>8, <1>9
     DEF Next, Fail, Undo, EndRollback, Cleanup, Crash, Start, Edit

\* Every step keeps old journals away: MoveJournal comes before Install, and the
\* final checks leave none but new ones.
LEMMA JournalStep == IInv /\ [Next]_vars => NewJournals'
<1> SUFFICES ASSUME IInv, [Next]_vars PROVE NewJournals'
  OBVIOUS
<1>t. /\ TypeOK /\ MovesInOrder /\ NewJournals
      /\ at \in Components /\ last \in Data /\ absent \in Data
      /\ "main" \in Path /\ "journal" \in Path /\ "main" # "journal"
      /\ Databases \subseteq Components
  BY ComponentsAssumption DEF IInv, TypeOK, Path, Data
<1>p. PutsOnePath
  BY <1>t, PutPaths
<1> USE DEF NewJournals, Finished, PutsOnePath
<1>1. ASSUME NEW S \in SUBSET Components \ {{}}, Begin(S) PROVE NewJournals'
  BY <1>1 DEF Begin
<1>2. ASSUME NEW c \in Components, Prepare(c) PROVE NewJournals'
  <2>1. \A b \in Components : live'[b]["journal"] \in {absent, live[b]["journal"]}
    <3>1. CASE live' = live
      BY <3>1
    <3>2. CASE live' = Put(live, c, "journal", absent)
      BY <1>t, <1>p, <3>2
    <3> QED
      BY <1>2, <3>1, <3>2 DEF Prepare
  <2> QED
    BY <1>t, <1>2, <2>1 DEF Prepare
<1>3. CASE SaveLive
  BY <1>t, <1>3 DEF SaveLive
<1>4. CASE MoveMain
  <2>1. \A b \in Components : live'[b]["journal"] = live[b]["journal"]
    BY <1>t, <1>p, <1>4 DEF MoveMain, MoveAside
  <2> QED
    BY <1>t, <1>4, <2>1 DEF MoveMain
<1>5. CASE MoveJournal
  <2>1. /\ live'[at]["journal"] = absent
        /\ \A b \in Components : b # at => live'[b]["journal"] = live[b]["journal"]
    BY <1>t, <1>p, <1>5 DEF MoveJournal, MoveAside
  <2> QED
    BY <1>t, <1>5, <2>1 DEF MoveJournal
<1>6. CASE Install
  <2>1. \A b \in Components : live'[b]["journal"] = live[b]["journal"]
    BY <1>t, <1>p, <1>6 DEF Install
  <2> QED
    BY <1>t, <1>6, <2>1 DEF Install
<1>7. CASE Check
  <2>1. PICK opened \in SUBSET (chosen \cap Databases) :
          live' = [c \in Components |-> IF c \in opened
                                        THEN [live[c] EXCEPT !["journal"] = last]
                                        ELSE live[c]]
    BY <1>7 DEF Check
  <2>2. ASSUME NEW c \in Components PROVE live'[c]["journal"] \in {last, live[c]["journal"]}
    <3>1. live[c] \in [Path -> Data]
      BY <1>t DEF TypeOK
    <3> QED
      BY <1>t, <2>1, <3>1
  <2>3. \A c \in Databases : c \in chosen \ left /\ (c # at \/ pc' = "cleanup") => Finished(c) \/ c = at
    BY <1>7 DEF Check
  <2> QED
    BY <1>t, <1>7, <2>2, <2>3 DEF Check
<1>8. CASE pc' \in {"rollback", "idle", "down"}
  BY <1>8
<1>9. CASE UNCHANGED vars
  BY <1>t, <1>9 DEF vars
<1> QED
  BY <1>1, <1>2, <1>3, <1>4, <1>5, <1>6, <1>7, <1>8, <1>9
     DEF Next, Fail, Undo, EndRollback, Cleanup, Crash, Start, Edit

\* So no old journal is left when a restore answers.
LEMMA BelongStep == IInv /\ [Next]_vars => JournalsBelong'
<1> SUFFICES ASSUME IInv, [Next]_vars PROVE JournalsBelong'
  OBVIOUS
<1>t. TypeOK /\ MovesInOrder /\ NewContents /\ NewJournals /\ JournalsBelong
  BY DEF IInv
<1>1. CASE pc' # "idle" \/ outcome' \notin {"restored", "unfinished"}
  BY <1>1 DEF JournalsBelong
<1>2. CASE Cleanup
  <2>1. pc = "cleanup" /\ left = {} /\ UNCHANGED <<live, last, chosen>>
    BY <1>t, <1>2 DEF Cleanup, MovesInOrder
  <2>2. ASSUME NEW c \in chosen \cap Databases
        PROVE  live[c]["main"] = last /\ live[c]["journal"] \in {absent, last}
    BY <1>t, <2>1, ComponentsAssumption DEF NewContents, NewJournals, Finished
  <2> QED
    BY <2>1, <2>2 DEF JournalsBelong
<1>3. CASE UNCHANGED vars
  BY <1>t, <1>3 DEF JournalsBelong, vars
<1> QED
  BY <1>1, <1>2, <1>3 DEF Next, Begin, Prepare, SaveLive, MoveMain, MoveJournal,
     Install, Check, Fail, Undo, EndRollback, Crash, Start, Edit

\* No step loses what the restore found: a step that moves or overwrites it
\* comes after the copy.
LEMMA LostStep == IInv /\ [Next]_vars => NothingLost'
<1> SUFFICES ASSUME IInv, [Next]_vars PROVE NothingLost'
  OBVIOUS
<1>t. /\ TypeOK /\ MovesInOrder /\ OldContents /\ NothingLost /\ Report
      /\ at \in Components /\ last \in Data /\ absent \in Data
      /\ "main" \in Path /\ "journal" \in Path /\ "main" # "journal"
  BY DEF IInv, TypeOK, Path, Data
<1>p. PutsOnePath
  BY <1>t, PutPaths
<1> USE DEF NothingLost, Running, Steps, PutsOnePath
<1>1. ASSUME NEW S \in SUBSET Components \ {{}}, Begin(S) PROVE NothingLost'
  BY <1>1 DEF Begin
<1>2. ASSUME Running, UNCHANGED <<recovery, base>>,
             \A b \in Components : live'[b]["main"] = live[b]["main"]
                                   \/ base[b]["main"] = absent
                                   \/ <<b, base[b]["main"]>> \in recovery
      PROVE  NothingLost'
  BY <1>t, <1>2
<1>3. ASSUME NEW c \in Components, Prepare(c) PROVE NothingLost'
  <2>1. \A b \in Components : live'[b]["main"] = live[b]["main"]
    <3>1. CASE live' = live
      BY <3>1
    <3>2. CASE live' = Put(live, c, "journal", absent)
      BY <1>t, <1>p, <3>2
    <3> QED
      BY <1>3, <3>1, <3>2 DEF Prepare
  <2> QED
    BY <1>2, <1>3, <2>1 DEF Prepare
<1>4. CASE SaveLive
  BY <1>t, <1>4 DEF SaveLive
<1>5. CASE MoveMain
  <2>1. \A b \in Components : b # at => live'[b]["main"] = live[b]["main"]
    BY <1>t, <1>p, <1>5 DEF MoveMain, MoveAside
  <2>2. Secured(at)
    BY <1>t, <1>5 DEF MoveMain, OldContents
  <2> QED
    BY <1>2, <1>5, <2>1, <2>2 DEF MoveMain, Secured
<1>6. CASE MoveJournal
  <2>1. \A b \in Components : live'[b]["main"] = live[b]["main"]
    BY <1>t, <1>p, <1>6 DEF MoveJournal, MoveAside
  <2> QED
    BY <1>2, <1>6, <2>1 DEF MoveJournal
<1>7. CASE Install
  <2>1. \A b \in Components : b # at => live'[b]["main"] = live[b]["main"]
    BY <1>t, <1>p, <1>7 DEF Install
  <2>2. Secured(at)
    BY <1>t, <1>7 DEF Install, OldContents, MovesInOrder
  <2> QED
    BY <1>2, <1>7, <2>1, <2>2 DEF Install, Secured
<1>8. CASE Check
  <2>1. PICK opened \in SUBSET (chosen \cap Databases) :
          live' = [c \in Components |-> IF c \in opened
                                        THEN [live[c] EXCEPT !["journal"] = last]
                                        ELSE live[c]]
    BY <1>8 DEF Check
  <2>2. ASSUME NEW c \in Components PROVE live'[c]["main"] = live[c]["main"]
    <3>1. live[c] \in [Path -> Data]
      BY <1>t DEF TypeOK
    <3> QED
      BY <1>t, <2>1, <3>1
  <2> QED
    BY <1>2, <1>8, <2>2 DEF Check
<1>9. CASE Fail
  BY <1>t, <1>9 DEF Fail
<1>10. CASE Undo
  <2>1. PICK c \in Components, p \in Path :
           /\ Moved(c, p)
           /\ \A b \in Components, q \in Path :
                 b # c \/ q # p => live'[b][q] = live[b][q]
    BY <1>t, <1>10, UndoOnePath DEF MovesInOrder
  <2>2. ASSUME NEW b \in Components
        PROVE  live'[b]["main"] = live[b]["main"] \/ Secured(b)
    <3>1. CASE b = c /\ p = "main"
      BY <1>t, <1>10, <2>1, <3>1 DEF OldContents, Undo
    <3>2. CASE ~(b = c /\ p = "main")
      BY <1>t, <2>1, <3>2
    <3> QED
      BY <3>1, <3>2
  <2> QED
    BY <1>2, <1>10, <2>2 DEF Undo, Secured
<1>11. CASE EndRollback
  BY <1>11 DEF EndRollback
<1>12. CASE Cleanup
  BY <1>12 DEF Cleanup
<1>13. CASE Crash
  BY <1>t, <1>13 DEF Crash
<1>14. CASE Start
  BY <1>14 DEF Start
<1>15. ASSUME NEW c \in Components, Edit(c) PROVE NothingLost'
  BY <1>15 DEF Edit
<1>16. CASE UNCHANGED vars
  BY <1>t, <1>16 DEF vars
<1> QED
  BY <1>1, <1>3, <1>4, <1>5, <1>6, <1>7, <1>8, <1>9, <1>10, <1>11, <1>12,
     <1>13, <1>14, <1>15, <1>16 DEF Next

\* Every answer is true: a rollback without errors has undone every move, and
\* a restore that cleans up has dealt with every component.
LEMMA AnswerStep == IInv /\ [Next]_vars => AnswerIsTrue'
<1> SUFFICES ASSUME IInv, [Next]_vars PROVE AnswerIsTrue'
  OBVIOUS
<1>t. TypeOK /\ MovesInOrder /\ OldContents /\ NewContents /\ Report /\ AnswerIsTrue
  BY DEF IInv
<1>1. CASE pc' # "idle"
  BY <1>1 DEF AnswerIsTrue
<1>2. CASE EndRollback
  <2>1. /\ pc = "rollback" /\ applied = <<>> /\ UNCHANGED <<live, base>>
        /\ outcome' = "failed" => ~failures
        /\ outcome' \notin {"restored", "unfinished"}
    BY <1>2 DEF EndRollback
  <2>2. "main" \in Path /\ "journal" \in Path
    BY DEF Path
  <2>3. \A c \in Components : ~Moved(c, "main") /\ ~Moved(c, "journal")
    BY <2>1, <2>2, MovedOtherwise
  <2> QED
    BY <1>t, <2>1, <2>3 DEF AnswerIsTrue, OldContents, Running, Steps
<1>3. CASE Cleanup
  <2>1. /\ pc = "cleanup" /\ left = {} /\ ~failures
        /\ UNCHANGED <<live, base, last, chosen>>
        /\ outcome' \in {"restored", "unfinished"}
    BY <1>t, <1>3 DEF Cleanup, MovesInOrder, Report
  <2>2. ASSUME NEW c \in Components
        PROVE  live[c]["main"] = IF c \in chosen THEN last ELSE base[c]["main"]
    <3>1. CASE c \in chosen
      BY <1>t, <2>1, <3>1 DEF NewContents, Finished
    <3>2. CASE c \notin chosen
      <4>1. ~Moved(c, "main")
        BY <1>t, <3>2 DEF MovesInOrder, Path
      <4> QED
        BY <1>t, <2>1, <3>2, <4>1 DEF OldContents, Running, Steps
    <3> QED
      BY <3>1, <3>2
  <2> QED
    BY <2>1, <2>2 DEF AnswerIsTrue
<1>4. CASE outcome' = "none"
  BY <1>4 DEF AnswerIsTrue
<1>5. CASE UNCHANGED vars
  BY <1>t, <1>5 DEF AnswerIsTrue, vars
<1> QED
  BY <1>1, <1>2, <1>3, <1>4, <1>5 DEF Next, Begin, Prepare, SaveLive, MoveMain,
     MoveJournal, Install, Check, Fail, Undo, Crash, Start, Edit

-----------------------------------------------------------------------------
\* The invariant holds initially.
LEMMA InitHolds == Init => IInv
<1> SUFFICES ASSUME Init PROVE IInv
  OBVIOUS
<1>1. PICK first \in {f \in [Components -> {0, absent}] : \A c \in Databases : f[c] = 0} :
         live = [c \in Components |-> [p \in Path |-> IF p = "main" THEN first[c] ELSE absent]]
  BY DEF Init
<1>2. 0 \in Data /\ absent \in Data /\ 0 \in Versions
  BY VersionAssumption DEF Data, Versions
<1>3. live \in [Components -> [Path -> Data]] /\ Nothing \in [Components -> [Path -> Data]]
  BY <1>1, <1>2 DEF Nothing
<1>4. <<>> \in Seq(Components \X Path)
  BY EmptySeq
<1>5. TypeOK
  BY <1>2, <1>3, <1>4 DEF Init, TypeOK, Outcomes
<1>6. Once /\ \A c \in Components, p \in Path : ~Moved(c, p)
  <2>1. Len(<<>>) = 0 /\ 1..0 = {}
    OBVIOUS
  <2> QED
    BY <2>1 DEF Init, Once, Moved
<1>7. MovesInOrder
  BY <1>6 DEF Init, MovesInOrder, Running, Steps
<1>8. /\ OldContents /\ NewContents /\ NewJournals /\ Report
      /\ NothingLost /\ AnswerIsTrue /\ JournalsBelong
  BY DEF Init, OldContents, NewContents, NewJournals, Report, NothingLost, AnswerIsTrue,
         JournalsBelong, Running, Steps
<1> QED
  BY <1>5, <1>7, <1>8 DEF IInv

\* Every step keeps it.
LEMMA StepHolds == IInv /\ [Next]_vars => IInv'
<1> SUFFICES ASSUME IInv, [Next]_vars PROVE IInv'
  OBVIOUS
<1>1. TypeOK'
  BY TypeStep DEF IInv
<1> QED
  BY <1>1, OrderStep, OldStep, NewStep, JournalStep, ReportStep, LostStep, AnswerStep,
     BelongStep DEF IInv

\* The invariant that the theorems rest on.
LEMMA Inductive == Spec => []IInv
BY InitHolds, StepHolds, PTL DEF Spec

\* A restore keeps the types of its files, moves and answers, and leaves no
\* installed database beside the journal of the one it replaced.
THEOREM RestoreIsSound == Spec => []Sound
<1>1. IInv => Sound
  BY DEF IInv, Sound
<1> QED
  BY <1>1, Inductive, PTL

\* Whatever fails, and wherever the server dies, the contents that a restore
\* found are in place or in the recovery directory.
THEOREM RestoreLosesNothing == Spec => []NothingLost
<1>1. IInv => NothingLost
  BY DEF IInv
<1> QED
  BY <1>1, Inductive, PTL

\* An error without a rollback failure means that every component is what it
\* was; success means that exactly the chosen ones are new.
THEOREM RestoreAnswersTruly == Spec => []AnswerIsTrue
<1>1. IInv => AnswerIsTrue
  BY DEF IInv
<1> QED
  BY <1>1, Inductive, PTL

-----------------------------------------------------------------------------
\* The data of the abstract replacement.
Shown == [c \in Components |-> IF Running THEN base[c]["main"] ELSE live[c]["main"]]

\* A restore that goes on shows nothing of what it does.
LEMMA ShownWhileRunning ==
    ASSUME Running, Running', UNCHANGED base
    PROVE  UNCHANGED Shown
BY DEF Shown

\* What a restore shows when it ends or dies was there, or has a copy.
LEMMA ShownAfterwards ==
    ASSUME IInv, Running, ~Running', UNCHANGED <<live, base, recovery>>
    PROVE  /\ Shown' \in [Components -> Data]
           /\ \A c \in Components :
                 Shown'[c] = Shown[c] \/ Shown[c] = absent \/ <<c, Shown[c]>> \in recovery'
<1>1. \A c \in Components : Shown[c] = base[c]["main"] /\ Shown'[c] = live[c]["main"]
  BY DEF Shown
<1>2. \A c \in Components : live[c]["main"] \in Data
  BY DEF IInv, TypeOK, Path
<1>3. Shown' \in [Components -> Data]
  BY <1>2 DEF Shown
<1> QED
  BY <1>1, <1>3 DEF IInv, NothingLost

\* Every step of the restore is a step of the replacement, or none.
LEMMA StepRefines == IInv /\ IInv' /\ [Next]_vars => [R!RNext]_(R!rvars)
<1> SUFFICES ASSUME IInv, IInv', [Next]_vars PROVE [R!RNext]_(R!rvars)
  OBVIOUS
<1>t. TypeOK /\ TypeOK' /\ Report /\ Report' /\ AnswerIsTrue'
  BY DEF IInv
<1> USE DEF R!RNext, R!rvars
<1>1. ASSUME NEW S \in SUBSET Components \ {{}}, Begin(S) PROVE R!Begin
  <2>1. UNCHANGED Shown
    BY <1>1 DEF Begin, Shown, Running, Steps
  <2> QED
    BY <1>1, <2>1 DEF Begin, R!Begin, Shown
<1>2. ASSUME Running, Running', UNCHANGED <<base, outcome>>, recovery \subseteq recovery'
      PROVE  R!Save
  <2>1. UNCHANGED Shown
    BY <1>2, ShownWhileRunning
  <2>2. outcome = "busy"
    BY <1>t, <1>2 DEF Report
  <2> QED
    BY <1>2, <2>1, <2>2 DEF R!Save, Shown
<1>3. CASE \E c \in Components : Prepare(c)
  BY <1>2, <1>3 DEF Prepare, Running, Steps
<1>4. CASE SaveLive
  BY <1>2, <1>4 DEF SaveLive, Running, Steps
<1>5. CASE MoveMain
  BY <1>2, <1>5 DEF MoveMain, Running, Steps
<1>6. CASE MoveJournal
  BY <1>2, <1>6 DEF MoveJournal, Running, Steps
<1>7. CASE Install \/ Check \/ Fail \/ Undo
  BY <1>2, <1>7 DEF Install, Check, Fail, Undo, Running, Steps
<1>8. ASSUME Running, ~Running', UNCHANGED <<live, base, recovery>>,
             outcome' \in {"needs recovery", "crashed"}
      PROVE  R!Damage
  <2>1. outcome = "busy"
    BY <1>t, <1>8 DEF Report
  <2> QED
    BY <1>8, <2>1, ShownAfterwards DEF R!Damage, R!Recoverable, Shown
<1>9. CASE EndRollback
  <2>1. Running /\ ~Running' /\ UNCHANGED <<live, base, recovery>>
    BY <1>9 DEF EndRollback, Running, Steps
  <2>2. CASE failures
    BY <1>8, <1>9, <2>1, <2>2 DEF EndRollback
  <2>3. CASE ~failures
    <3>1. outcome' = "failed" /\ pc' = "idle"
      BY <1>9, <2>3 DEF EndRollback
    <3>2. \A c \in Components : live[c]["main"] = base[c]["main"]
      BY <1>t, <2>1, <3>1 DEF AnswerIsTrue
    <3>3. UNCHANGED Shown
      BY <2>1, <3>2 DEF Shown
    <3>4. outcome = "busy"
      BY <1>t, <2>1 DEF Report
    <3> QED
      BY <2>1, <3>1, <3>3, <3>4 DEF R!Keep, Shown
  <2> QED
    BY <2>2, <2>3
<1>10. CASE Cleanup
  <2>1. /\ Running /\ ~Running' /\ UNCHANGED <<live, base, recovery, last, chosen>>
        /\ outcome' \in {"restored", "unfinished"} /\ pc' = "idle"
    BY <1>10 DEF Cleanup, Running, Steps
  <2>2. outcome = "busy"
    BY <1>t, <2>1 DEF Report
  <2>3. \A c \in Components : live[c]["main"] = IF c \in chosen THEN last ELSE base[c]["main"]
    BY <1>t, <2>1 DEF AnswerIsTrue
  <2>4. Shown' = [c \in Components |-> IF c \in chosen THEN last ELSE Shown[c]]
    BY <2>1, <2>3 DEF Shown
  <2>5. chosen \in SUBSET Components /\ last \in Data \ {absent}
    BY <1>t, VersionAssumption, ContentsAssumption DEF TypeOK, Data, Versions
  <2>6. \A c \in Components :
           Shown'[c] = Shown[c] \/ Shown[c] = absent \/ <<c, Shown[c]>> \in recovery'
    BY <2>1, ShownAfterwards
  <2> QED
    BY <2>1, <2>2, <2>4, <2>5, <2>6 DEF R!Replace, R!Recoverable, Shown
<1>11. CASE Crash
  <2>1. Running /\ ~Running' /\ UNCHANGED <<live, base, recovery>> /\ outcome' = "crashed"
    BY <1>11 DEF Crash, Running, Steps
  <2> QED
    BY <1>8, <2>1
<1>12. ASSUME ~Running, ~Running', outcome' = "none", UNCHANGED recovery PROVE R!Use
  <2>1. outcome # "busy"
    BY <1>t, <1>12 DEF Report
  <2>2. \A c \in Components : live'[c]["main"] \in Data
    BY <1>t DEF TypeOK, Path
  <2>3. Shown' \in [Components -> Data]
    BY <1>12, <2>2 DEF Shown
  <2> QED
    BY <1>12, <2>1, <2>3 DEF R!Use, Shown
<1>13. CASE Start \/ \E c \in Components : Edit(c)
  BY <1>12, <1>13 DEF Start, Edit, Running, Steps
<1>14. CASE UNCHANGED vars
  BY <1>14 DEF vars, Running
<1> QED
  BY <1>1, <1>3, <1>4, <1>5, <1>6, <1>7, <1>9, <1>10, <1>11, <1>13, <1>14 DEF Next

\* The restore, with its copies, renames, rollback and crashes, implements the
\* all-or-nothing replacement.
THEOREM RestoreIsAReplacement == Spec => IsAReplacement
<1>1. Init => R!RInit
  <2> SUFFICES ASSUME Init PROVE R!RInit
    OBVIOUS
  <2>1. TypeOK /\ ~Running
    BY InitHolds DEF Init, IInv, Running, Steps
  <2>2. \A c \in Components : live[c]["main"] \in Data
    BY <2>1 DEF TypeOK, Path
  <2> QED
    BY <2>1, <2>2 DEF Init, R!RInit
<1> QED
  BY <1>1, StepRefines, Inductive, PTL DEF Spec, IsAReplacement, R!ReplacementSpec

=============================================================================
