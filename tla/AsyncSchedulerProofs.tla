------------------------ MODULE AsyncSchedulerProofs ------------------------
(***************************************************************************)
(* Proofs about AsyncScheduler for any clients, workers, fibers and        *)
(* bounds: the program obeys the rules of Scheduler, it implements Async,  *)
(* and the fibers it resumes are suspended.                                *)
(*                                                                         *)
(* The invariants of the two modules are those of SchedulerProofs and      *)
(* AsyncProofs (AA is the latter on the scheduler's state).  ProgramOK     *)
(* joins them.  A step is shown to be one of each module or none, so both  *)
(* invariants are kept without looking into them again; what is left is    *)
(* that each step keeps ProgramOK.                                         *)
(***************************************************************************)
EXTENDS AsyncScheduler, SchedulerProofs

AA == INSTANCE AsyncProofs WITH
  runningFiber <- Known(runningFiber),
  readyFiberQueue <-
    [i \in DOMAIN readyFiberQueue |-> Known(readyFiberQueue[i])] \o uncalled,
  collectorPC <- KnownPC

(* What Async assumes of its constants follows from what this program      *)
(* does.                                                                   *)
LEMMA AssumptionsOK ==
  /\ MainThread \notin Worker /\ NoThread \notin Worker /\ MainThread # NoThread
  /\ Collector \notin Client /\ NoFiber \notin Client /\ Collector # NoFiber
  /\ AA!IsFiniteSet(Client)
  /\ TaskCounts \subseteq Nat /\ MaxCalls \in Nat /\ MaxSpurious \in Nat
<1>1. AA!IsFiniteSet(Client) <=> IsFiniteSet(Client)
  BY DEF AA!IsFiniteSet, IsFiniteSet
<1> QED
  BY <1>1, ProgramAssumption, ConstantsAssumption

(* A step of Async keeps the invariant of AsyncProofs.                     *)
LEMMA PoolStep ==
  ASSUME AA!PoolInv, [AA!Next]_(AA!vars)
  PROVE  AA!PoolInv'
<1> QED
  BY AssumptionsOK, AA!PoolNext DEF AA!ThreadAssumption, AA!BoundAssumption

(* The two instances of Async, Pool and AA, have the same actions.         *)
LEMMA SameWorkerStep ==
  ASSUME NEW w \in Worker
  PROVE  /\ Pool!WorkerStep(w) <=> AA!WorkerStep(w)
         /\ Pool!SpuriousWakeup(w) <=> AA!SpuriousWakeup(w)
<1> USE DEF Pool!Goto, AA!Goto, Pool!doneVars, AA!doneVars, Pool!handVars, AA!handVars,
            Pool!callVars, AA!callVars, Pool!mainVars, AA!mainVars, Pool!todoVars, AA!todoVars,
            Pool!fiberVars, AA!fiberVars, Pool!readyVars, AA!readyVars, Pool!endVars, AA!endVars,
            Pool!collectorVars, AA!collectorVars, Pool!HasTask, AA!HasTask,
            Pool!Lock1, AA!Lock1, Pool!TakeHead, AA!TakeHead, Pool!workerVars, AA!workerVars
<1>1. Pool!Lock0(w) <=> AA!Lock0(w)
  BY DEF Pool!Lock0, AA!Lock0
<1>2. Pool!Wait(w) <=> AA!Wait(w)
  BY DEF Pool!Wait, AA!Wait
<1>3. Pool!Wakeup(w) <=> AA!Wakeup(w)
  BY DEF Pool!Wakeup, AA!Wakeup
<1>4. Pool!TakeJob(w) <=> AA!TakeJob(w)
  BY DEF Pool!TakeJob, AA!TakeJob
<1>5. Pool!Quit(w) <=> AA!Quit(w)
  BY DEF Pool!Quit, AA!Quit
<1>6. Pool!RunTask(w) <=> AA!RunTask(w)
  BY DEF Pool!RunTask, AA!RunTask
<1>7. Pool!FinishJob(w) <=> AA!FinishJob(w)
  BY DEF Pool!FinishJob, AA!FinishJob
<1>8. Pool!Write(w) <=> AA!Write(w)
  BY DEF Pool!Write, AA!Write
<1>9. Pool!Unlock1(w) <=> AA!Unlock1(w)
  BY DEF Pool!Unlock1, AA!Unlock1
<1>10. Pool!SpuriousWakeup(w) <=> AA!SpuriousWakeup(w)
  BY DEF Pool!SpuriousWakeup, AA!SpuriousWakeup
<1> QED
  BY <1>1, <1>2, <1>3, <1>4, <1>5, <1>6, <1>7, <1>8, <1>9, <1>10
     DEF Pool!WorkerStep, AA!WorkerStep

LEMMA SameClientStep ==
  ASSUME NEW f \in Client
  PROVE  /\ \A n \in TaskCounts : Pool!AwaitTasks(f, n) <=> AA!AwaitTasks(f, n)
         /\ Pool!Signal(f) <=> AA!Signal(f)
         /\ Pool!UnlockAndCount(f) <=> AA!UnlockAndCount(f)
         /\ Pool!Suspend(f) <=> AA!Suspend(f)
         /\ Pool!EndFiber(f) <=> AA!EndFiber(f)
<1> USE DEF Pool!doneVars, AA!doneVars, Pool!handVars, AA!handVars,
            Pool!callVars, AA!callVars, Pool!workerVars, AA!workerVars, Pool!todoVars, AA!todoVars,
            Pool!readyVars, AA!readyVars, Pool!endVars, AA!endVars,
            Pool!collectorVars, AA!collectorVars, Pool!Step, AA!Step,
            Pool!ExecuteNext, AA!ExecuteNext
<1>1. ASSUME NEW n \in TaskCounts PROVE Pool!AwaitTasks(f, n) <=> AA!AwaitTasks(f, n)
  BY DEF Pool!AwaitTasks, AA!AwaitTasks
<1>2. Pool!Signal(f) <=> AA!Signal(f)
  BY DEF Pool!Signal, AA!Signal, Pool!WakeOne, AA!WakeOne
<1>3. Pool!UnlockAndCount(f) <=> AA!UnlockAndCount(f)
  BY DEF Pool!UnlockAndCount, AA!UnlockAndCount
<1>4. Pool!Suspend(f) <=> AA!Suspend(f)
  BY DEF Pool!Suspend, AA!Suspend
<1>5. Pool!EndFiber(f) <=> AA!EndFiber(f)
  BY DEF Pool!EndFiber, AA!EndFiber
<1> QED
  BY <1>1, <1>2, <1>3, <1>4, <1>5

LEMMA SameMainStep ==
  /\ Pool!Dispatch <=> AA!Dispatch
  /\ Pool!Poll <=> AA!Poll
  /\ Pool!StartCollector <=> AA!StartCollector
  /\ Pool!CollectorLock1 <=> AA!CollectorLock1
  /\ Pool!CollectorRead <=> AA!CollectorRead
  /\ Pool!CollectorSplit <=> AA!CollectorSplit
  /\ Pool!ResumeFiber <=> AA!ResumeFiber
  /\ Pool!CollectorEndTurn <=> AA!CollectorEndTurn
  /\ Pool!BeginShutdown <=> AA!BeginShutdown
  /\ Pool!UnlockWorkIsDone <=> AA!UnlockWorkIsDone
  /\ Pool!Broadcast <=> AA!Broadcast
  /\ Pool!Join <=> AA!Join
<1> USE DEF Pool!doneVars, AA!doneVars, Pool!handVars, AA!handVars,
            Pool!callVars, AA!callVars, Pool!workerVars, AA!workerVars, Pool!todoVars, AA!todoVars,
            Pool!readyVars, AA!readyVars, Pool!endVars, AA!endVars, Pool!fiberVars, AA!fiberVars,
            Pool!collectorVars, AA!collectorVars, Pool!Idle, AA!Idle,
            Pool!ExecuteNext, AA!ExecuteNext, Pool!Collecting, AA!Collecting
<1>1. Pool!Dispatch <=> AA!Dispatch
  BY DEF Pool!Dispatch, AA!Dispatch
<1>2. Pool!Poll <=> AA!Poll
  BY DEF Pool!Poll, AA!Poll, Pool!IsReadable, AA!IsReadable
<1>3. Pool!StartCollector <=> AA!StartCollector
  BY DEF Pool!StartCollector, AA!StartCollector
<1>4. Pool!CollectorLock1 <=> AA!CollectorLock1
  BY DEF Pool!CollectorLock1, AA!CollectorLock1, Pool!Lock1, AA!Lock1
<1>5. Pool!CollectorRead <=> AA!CollectorRead
  BY DEF Pool!CollectorRead, AA!CollectorRead
<1>6. Pool!CollectorSplit <=> AA!CollectorSplit
  BY DEF Pool!CollectorSplit, AA!CollectorSplit
<1>7. Pool!ResumeFiber <=> AA!ResumeFiber
  BY DEF Pool!ResumeFiber, AA!ResumeFiber
<1>8. Pool!CollectorEndTurn <=> AA!CollectorEndTurn
  BY DEF Pool!CollectorEndTurn, AA!CollectorEndTurn, Pool!NextTurn, AA!NextTurn
<1>9. Pool!BeginShutdown <=> AA!BeginShutdown
  BY DEF Pool!BeginShutdown, AA!BeginShutdown
<1>10. Pool!UnlockWorkIsDone <=> AA!UnlockWorkIsDone
  BY DEF Pool!UnlockWorkIsDone, AA!UnlockWorkIsDone
<1>11. Pool!Broadcast <=> AA!Broadcast
  BY DEF Pool!Broadcast, AA!Broadcast, Pool!WakeAll, AA!WakeAll
<1>12. Pool!Join <=> AA!Join
  BY DEF Pool!Join, AA!Join
<1> QED
  BY <1>1, <1>2, <1>3, <1>4, <1>5, <1>6, <1>7, <1>8, <1>9, <1>10, <1>11, <1>12

LEMMA SameVars == UNCHANGED Pool!vars <=> UNCHANGED AA!vars
<1> QED
  BY DEF Pool!vars, AA!vars, Pool!todoVars, AA!todoVars, Pool!doneVars, AA!doneVars,
     Pool!workerVars, AA!workerVars, Pool!handVars, AA!handVars, Pool!callVars, AA!callVars,
     Pool!mainVars, AA!mainVars, Pool!fiberVars, AA!fiberVars, Pool!readyVars, AA!readyVars,
     Pool!collectorVars, AA!collectorVars, Pool!endVars, AA!endVars

LEMMA SameNext == [Pool!Next]_(Pool!vars) => [AA!Next]_(AA!vars)
<1>1. Pool!MainStep => AA!MainStep
  BY SameClientStep, SameMainStep DEF Pool!MainStep, AA!MainStep, Pool!ClientStep, AA!ClientStep
<1>2. Pool!Destroyed => AA!Destroyed
  BY SameVars DEF Pool!Destroyed, AA!Destroyed
<1> QED
  BY <1>1, <1>2, SameWorkerStep, SameVars DEF Pool!Next, AA!Next

-----------------------------------------------------------------------------
(* The ready queue as Async knows it.                                      *)

Renamed(c, q) ==
  [i \in DOMAIN q |-> IF q[i] = c /\ q[i] # NoFiber THEN Collector ELSE q[i]]

KnownQueue == [i \in DOMAIN readyFiberQueue |-> Known(readyFiberQueue[i])] \o uncalled

LEMMA KnownIs ==
  /\ KnownQueue = Renamed(collector, readyFiberQueue) \o uncalled
  /\ KnownQueue' = Renamed(collector', readyFiberQueue') \o uncalled'
<1> QED
  BY DEF KnownQueue, Renamed, Known

(* How renaming goes with the operations on a queue.                       *)
LEMMA RenamedSeq ==
  ASSUME NEW S, NEW q \in Seq(S), NEW c
  PROVE  /\ Renamed(c, q) \in Seq(S \cup {Collector})
         /\ Len(Renamed(c, q)) = Len(q)
         /\ Renamed(c, q) = <<>> <=> q = <<>>
<1>1. /\ Len(q) \in Nat /\ DOMAIN q = 1..Len(q)
      /\ \A i \in 1..Len(q) : q[i] \in S
  BY InSeq
<1>2. Renamed(c, q) \in [1..Len(q) -> S \cup {Collector}]
  BY <1>1 DEF Renamed
<1>3. Renamed(c, q) \in Seq(S \cup {Collector}) /\ Len(Renamed(c, q)) = Len(q)
  BY <1>1, <1>2, SeqDef DEF Renamed
<1> QED
  BY <1>3, EmptySeq

LEMMA RenamedSame ==
  ASSUME NEW S, NEW q \in Seq(S), NEW c, c \notin ToSet(q) \/ c = NoFiber
  PROVE  Renamed(c, q) = q
<1>1. q = [i \in DOMAIN q |-> q[i]]
  BY InSeq
<1>2. \A i \in DOMAIN q : q[i] \in ToSet(q)
  BY DEF ToSet
<1> QED
  BY <1>1, <1>2 DEF Renamed

LEMMA RenamedAppend ==
  ASSUME NEW S, NEW q \in Seq(S), NEW x \in S, NEW c
  PROVE  Renamed(c, Append(q, x)) =
           Append(Renamed(c, q), IF x = c /\ x # NoFiber THEN Collector ELSE x)
<1> DEFINE y == IF x = c /\ x # NoFiber THEN Collector ELSE x
           T == S \cup {Collector}
<1>1. /\ Append(q, x) \in Seq(S) /\ Len(Append(q, x)) = Len(q) + 1 /\ Len(q) \in Nat
      /\ \A i \in 1..Len(q) : Append(q, x)[i] = q[i]
      /\ Append(q, x)[Len(q) + 1] = x
  BY AppendProperties
<1>2. /\ Renamed(c, q) \in Seq(T) /\ Len(Renamed(c, q)) = Len(q)
      /\ Renamed(c, Append(q, x)) \in Seq(T) /\ Len(Renamed(c, Append(q, x))) = Len(q) + 1
  BY <1>1, RenamedSeq
<1>3. /\ Append(Renamed(c, q), y) \in Seq(T) /\ Len(Append(Renamed(c, q), y)) = Len(q) + 1
      /\ \A i \in 1..Len(q) : Append(Renamed(c, q), y)[i] = Renamed(c, q)[i]
      /\ Append(Renamed(c, q), y)[Len(q) + 1] = y
  BY <1>2, AppendProperties
<1>4. \A i \in 1..(Len(q) + 1) : Renamed(c, Append(q, x))[i] = Append(Renamed(c, q), y)[i]
  <2>1. DOMAIN q = 1..Len(q) /\ DOMAIN Append(q, x) = 1..(Len(q) + 1)
    BY <1>1, InSeq
  <2> QED
    BY <2>1, <1>1, <1>3 DEF Renamed
<1> QED
  BY <1>2, <1>3, <1>4, SeqEqual

LEMMA RenamedHeadTail ==
  ASSUME NEW S, NEW q \in Seq(S), NEW c, q # <<>>
  PROVE  /\ Head(Renamed(c, q)) = IF Head(q) = c /\ Head(q) # NoFiber THEN Collector ELSE Head(q)
         /\ Tail(Renamed(c, q)) = Renamed(c, Tail(q))
<1> DEFINE T == S \cup {Collector}
           r == Renamed(c, q)
<1>1. /\ Len(q) \in Nat \ {0} /\ Head(q) = q[1]
      /\ Tail(q) \in Seq(S) /\ Len(Tail(q)) = Len(q) - 1
      /\ \A i \in 1..Len(Tail(q)) : Tail(q)[i] = q[i + 1]
  BY HeadTailProperties, EmptySeq
<1>2. r \in Seq(T) /\ Len(r) = Len(q) /\ r # <<>>
  BY RenamedSeq
<1>3. /\ Head(r) = r[1] /\ Tail(r) \in Seq(T) /\ Len(Tail(r)) = Len(q) - 1
      /\ \A i \in 1..Len(Tail(r)) : Tail(r)[i] = r[i + 1]
  BY <1>2, HeadTailProperties
<1>4. Renamed(c, Tail(q)) \in Seq(T) /\ Len(Renamed(c, Tail(q))) = Len(q) - 1
  BY <1>1, RenamedSeq
<1>5. DOMAIN q = 1..Len(q) /\ DOMAIN Tail(q) = 1..(Len(q) - 1)
  BY <1>1, InSeq
<1>6. Head(r) = IF Head(q) = c /\ Head(q) # NoFiber THEN Collector ELSE Head(q)
  BY <1>1, <1>3, <1>5 DEF Renamed
<1>7. \A i \in 1..(Len(q) - 1) : Tail(r)[i] = Renamed(c, Tail(q))[i]
  BY <1>1, <1>3, <1>5 DEF Renamed
<1> QED
  BY <1>3, <1>4, <1>6, <1>7, SeqEqual

LEMMA JoinQueues ==
  ASSUME NEW S, NEW q \in Seq(S), NEW u \in Seq(S)
  PROVE  /\ q # <<>> => Head(q \o u) = Head(q) /\ Tail(q \o u) = Tail(q) \o u /\ q \o u # <<>>
         /\ u # <<>> => Append(q, Head(u)) \o Tail(u) = q \o u
         /\ q \o <<>> = q /\ <<>> \o q = q
<1> DEFINE m == Len(q)
           n == Len(u)
<1>1. /\ q \o u \in Seq(S) /\ Len(q \o u) = m + n /\ m \in Nat /\ n \in Nat
      /\ \A i \in 1..(m + n) : (q \o u)[i] = IF i <= m THEN q[i] ELSE u[i - m]
  BY ConcatProperties
<1>2. ASSUME q # <<>>
      PROVE  Head(q \o u) = Head(q) /\ Tail(q \o u) = Tail(q) \o u /\ q \o u # <<>>
  <2>1. /\ m > 0 /\ Head(q) = q[1] /\ Tail(q) \in Seq(S) /\ Len(Tail(q)) = m - 1
        /\ \A i \in 1..(m - 1) : Tail(q)[i] = q[i + 1]
    BY <1>1, <1>2, HeadTailProperties, EmptySeq
  <2>2. q \o u # <<>>
    BY <1>1, <2>1, EmptySeq
  <2>3. /\ Head(q \o u) = (q \o u)[1] /\ Tail(q \o u) \in Seq(S)
        /\ Len(Tail(q \o u)) = m + n - 1
        /\ \A i \in 1..(m + n - 1) : Tail(q \o u)[i] = (q \o u)[i + 1]
    BY <1>1, <2>2, HeadTailProperties
  <2>4. /\ Tail(q) \o u \in Seq(S) /\ Len(Tail(q) \o u) = m - 1 + n
        /\ \A i \in 1..(m - 1 + n) : (Tail(q) \o u)[i] =
             IF i <= m - 1 THEN Tail(q)[i] ELSE u[i - (m - 1)]
    BY <2>1, ConcatProperties
  <2>5. \A i \in 1..(m + n - 1) : Tail(q \o u)[i] = (Tail(q) \o u)[i]
    <3> SUFFICES ASSUME NEW i \in 1..(m + n - 1) PROVE Tail(q \o u)[i] = (Tail(q) \o u)[i]
      OBVIOUS
    <3>1. i + 1 \in 1..(m + n) /\ i \in 1..(m - 1 + n) /\ i + 1 - m = i - (m - 1)
      BY <1>1
    <3> HIDE DEF m, n
    <3> QED
      BY <1>1, <2>1, <2>3, <2>4, <3>1
  <2>6. Tail(q \o u) = Tail(q) \o u
    <3>1. m + n - 1 = m - 1 + n
      BY <1>1
    <3> QED
      BY <2>3, <2>4, <2>5, <3>1, SeqEqual
  <2>7. Head(q \o u) = Head(q)
    BY <1>1, <2>1, <2>3
  <2> QED
    BY <2>2, <2>6, <2>7
<1>3. ASSUME u # <<>> PROVE Append(q, Head(u)) \o Tail(u) = q \o u
  <2> DEFINE p == Append(q, Head(u))
  <2>1. /\ n > 0 /\ Head(u) = u[1] /\ Head(u) \in S /\ Tail(u) \in Seq(S) /\ Len(Tail(u)) = n - 1
        /\ \A i \in 1..(n - 1) : Tail(u)[i] = u[i + 1]
    BY <1>1, <1>3, HeadTailProperties, EmptySeq
  <2>2. /\ p \in Seq(S) /\ Len(p) = m + 1
        /\ \A i \in 1..m : p[i] = q[i]
        /\ p[m + 1] = u[1]
    BY <2>1, AppendProperties
  <2>3. /\ p \o Tail(u) \in Seq(S) /\ Len(p \o Tail(u)) = m + 1 + (n - 1)
        /\ \A i \in 1..(m + 1 + (n - 1)) : (p \o Tail(u))[i] =
             IF i <= m + 1 THEN p[i] ELSE Tail(u)[i - (m + 1)]
    BY <2>1, <2>2, ConcatProperties
  <2>4. m + 1 + (n - 1) = m + n
    BY <1>1
  <2>5. \A i \in 1..(m + n) : (p \o Tail(u))[i] = (q \o u)[i]
    <3> SUFFICES ASSUME NEW i \in 1..(m + n) PROVE (p \o Tail(u))[i] = (q \o u)[i]
      OBVIOUS
    <3>1. CASE i <= m
      BY <1>1, <2>2, <2>3, <2>4, <3>1
    <3>2. CASE i = m + 1
      BY <1>1, <2>2, <2>3, <2>4, <3>2
    <3>3. CASE i > m + 1
      <4>1. i - (m + 1) \in 1..(n - 1) /\ i - (m + 1) + 1 = i - m /\ ~(i <= m + 1) /\ ~(i <= m)
        BY <1>1, <3>3
      <4> HIDE DEF m, n
      <4> QED
        BY <1>1, <2>1, <2>3, <2>4, <4>1
    <3>4. i <= m \/ i = m + 1 \/ i > m + 1
      BY <1>1
    <3> QED
      BY <3>1, <3>2, <3>3, <3>4, Zenon
  <2> QED
    BY <1>1, <2>3, <2>4, <2>5, SeqEqual
<1> QED
  BY <1>2, <1>3, ConcatEmptySeq

-----------------------------------------------------------------------------
(* The inductive invariant: those of Scheduler and of Async, and what the  *)
(* fibers, rings and timers of the one mean to the coroutines of the other.*)

(* TaraMain starts the clients before anything else happens.               *)
StartOK ==
  /\ uncalled \in Seq(Client) /\ IsInjective(uncalled)
  /\ ToSet(uncalled) \cap fibers = {}
  /\ uncalled # <<>> => /\ collector = NoFiber /\ deadFiberQueue = <<>>
                        /\ loop = "fiber" \/ (loop = "top" /\ readyFiberQueue # <<>>)

ClientsOK ==
  \A f \in Client :
    /\ fiberPC[f] # "dead" => f \in ToSet(uncalled) \cup (fibers \ DeadSet)
    /\ fiberPC[f] = "suspended" => Suspended(f)

CollectorPCs ==
  {"none", "start", "watched", "await", "lock1", "read", "split", "resume", "unwatched"}

(* The collector has a fiber of its own, be it one of a client that ended. *)
CollectorOK ==
  /\ collectorPC \in CollectorPCs
  /\ collector \in (fibers \ DeadSet) \cup {NoFiber}
  /\ collector = NoFiber <=> collectorPC = "none"
  /\ collector \in Client => fiberPC[collector] = "dead"
  /\ collectorPC = "unwatched" => jobs = <<>> /\ jobCount = 0

(* Nobody but the collector awaits a descriptor, and none but the eventfd. *)
AwaitsOK ==
  /\ Awaiting \subseteq {collector}
  /\ Awaiting # {} => collectorPC = "await"
  /\ \A fd \in FD : fd # EventFD => Awaiters(fd) = {}
  /\ eventAwaiterQueue # <<>> => eventfd > 0
  /\ phase = "handling" /\ revents[EventFD] # {} => eventfd > 0

(* No timer of the program ever comes due.                                 *)
QuietOK ==
  /\ buffer = <<>>
  /\ \A f \in Fiber : dueTime[f] \in {Timers!NotQueued, Never}
  /\ loop = "poll" => readyFiberQueue = <<>>
  /\ mainPC # "run" => loop = "exited"

ProgramOK == StartOK /\ ClientsOK /\ CollectorOK /\ AwaitsOK /\ QuietOK

ProgramInv == SchedInv /\ AA!PoolInv /\ ProgramOK

(* What PoolInv says of the state of the scheduler.                        *)
LEMMA PoolFacts ==
  ASSUME ProgramInv
  PROVE  /\ jobs \in Seq(Client) /\ jobCount \in Nat /\ eventfd \in Nat
         /\ fiberPC \in [Client -> AA!FiberPCs]
         /\ collectorPC \in {"resume", "unwatched"} => runningFiber = collector /\ collector # NoFiber
         /\ collectorPC = "none" <=> jobCount = 0 /\ collectorPC \notin {"resume", "unwatched"}
         /\ jobs # <<>> => collectorPC = "resume"
         /\ \A f \in ToSet(jobs) : f \in Client /\ fiberPC[f] = "suspended"
         /\ \A f \in Client : fiberPC[f] \in {"signal", "unlock0", "suspend"} => runningFiber = f
         /\ collector \in Fiber \cup {NoFiber} /\ fibers \subseteq Fiber
         /\ NoFiber \notin Fiber /\ Collector \notin Fiber /\ Collector # NoFiber
<1> USE DEF ProgramInv, ProgramOK
<1>1. /\ jobs \in Seq(Client) /\ jobCount \in Nat /\ eventfd \in Nat
      /\ fiberPC \in [Client -> AA!FiberPCs]
  BY DEF AA!PoolInv, AA!TypeOK
<1>2. /\ collector \in Fiber \cup {NoFiber} /\ fibers \subseteq Fiber
      /\ NoFiber \notin Fiber /\ Collector \notin Fiber /\ Collector # NoFiber
      /\ runningFiber \in Fiber \cup {NoFiber}
  BY ConstantsAssumption, ProgramAssumption DEF CollectorOK, SchedInv, OwnTypesOK
<1>3. KnownPC \in {"read", "split", "resume"} => Known(runningFiber) = Collector
  BY DEF AA!PoolInv, AA!Inv, AA!CollectorRuns
<1>4. collectorPC \in {"resume", "unwatched"} => runningFiber = collector /\ collector # NoFiber
  BY <1>2, <1>3 DEF KnownPC, Known
<1>5. KnownPC # "none" <=> jobCount > 0 \/ KnownPC = "resume"
  BY DEF AA!PoolInv, AA!CollectorServesJobs
<1>6. collectorPC = "none" <=> jobCount = 0 /\ collectorPC \notin {"resume", "unwatched"}
  BY <1>1, <1>5 DEF KnownPC, CollectorOK, CollectorPCs
<1>7. jobs # <<>> => collectorPC = "resume"
  BY DEF AA!PoolInv, AA!BackWhileResuming, KnownPC, CollectorOK, CollectorPCs
<1>8. \A f \in Client : fiberPC[f] \in {"signal", "unlock0", "suspend"} => Known(runningFiber) = f
  BY DEF AA!PoolInv, AA!CallerRuns
<1>9. \A f \in Client : fiberPC[f] \in {"signal", "unlock0", "suspend"} => runningFiber = f
  BY <1>2, <1>8, ProgramAssumption DEF Known
<1>10. \A f \in ToSet(jobs) : f \in Client /\ fiberPC[f] = "suspended"
  <2>1. AA!ToSet(jobs) = ToSet(jobs)
    BY DEF AA!ToSet, ToSet
  <2>2. AA!Back = ToSet(jobs)
    BY <2>1 DEF AA!Back
  <2>3. AA!Back \subseteq AA!InCall
    BY DEF AA!PoolInv, AA!JobsApart
  <2>4. jobs # <<>> => Known(runningFiber) = Collector
    BY <1>3, <1>7 DEF KnownPC
  <2>5. ToSet(jobs) # {} => jobs # <<>>
    BY EmptyQueue
  <2> QED
    BY <1>8, <2>2, <2>3, <2>4, <2>5, ProgramAssumption DEF AA!InCall
<1> QED
  BY <1>1, <1>2, <1>4, <1>6, <1>7, <1>9, <1>10

-----------------------------------------------------------------------------
(* Every step is one of the scheduler and one of Async, or neither.        *)

(* A step of the program is one of the scheduler, or leaves it alone.      *)
LEMMA SchedulerSteps ==
  ASSUME ProgramInv, [PoolNext]_allVars
  PROVE  [Next]_vars
<1>1. CASE UNCHANGED schedulerVars
  BY <1>1 DEF schedulerVars
<1>2. CASE StartClient \/ CollectorUnwatch \/ CollectorWatch
  BY <1>2, ProgramAssumption DEF StartClient, CollectorUnwatch, CollectorWatch, Next
<1>3. ASSUME NEW f \in Client, UnlockAndCount(f) \/ Suspend(f) \/ EndFiber(f) PROVE [Next]_vars
  BY <1>3 DEF UnlockAndCount, Suspend, EndFiber, Next, Switch
<1>4. CASE CollectorAwait
  <2>1. "Readability" \in Poll!Event
    BY DEF Poll!Event
  <2> QED
    BY <1>4, <2>1, ProgramAssumption DEF CollectorAwait, Next, Switch
<1>5. CASE Collect \/ CollectorEnd
  BY <1>5 DEF Collect, CollectorEnd, Next, Switch
<1>6. CASE Resume
  <2>1. Head(jobs) \in Fiber
    BY <1>6, PoolFacts, HeadTailQueue, InSeq, ProgramAssumption DEF Resume
  <2> QED
    BY <1>6, <2>1 DEF Resume, Next
<1>7. CASE RunLoop \/ EpollWait \/ Interrupt
  BY <1>7 DEF RunLoop, EpollWait, Interrupt, Next
<1> QED
  BY <1>1, <1>2, <1>3, <1>4, <1>5, <1>6, <1>7
     DEF PoolNext, WorkerStep, SpuriousWakeup, MainStep, Submit, Shutdown, Destroyed,
         allVars, schedulerVars

(* The rest of Async's variables, which have their own names here.         *)
restVars == <<jobQueue0, jobQueue1, mutex0, mutex1, sleepers, eventfd, workIsDone, jobCount,
              workerPC, job, next, spurious, fiberPC, jobs, taskCount, executed, calls, mainPC>>

LEMMA PoolStutters ==
  ASSUME UNCHANGED restVars, Known(runningFiber)' = Known(runningFiber),
         KnownQueue' = KnownQueue, KnownPC' = KnownPC
  PROVE  UNCHANGED Pool!vars
<1> QED
  BY DEF restVars, KnownQueue, Pool!vars, Pool!todoVars, Pool!doneVars, Pool!workerVars,
     Pool!handVars, Pool!callVars, Pool!mainVars, Pool!fiberVars, Pool!readyVars,
     Pool!collectorVars, Pool!endVars

(* The scheduler's queue and Async's, when the running fiber gives up the  *)
(* thread.                                                                 *)
Leaves(q) ==
  IF q = <<>> THEN runningFiber' = NoFiber /\ readyFiberQueue' = q
              ELSE runningFiber' = Head(q) /\ readyFiberQueue' = Tail(q)

LEMMA KnownNext ==
  ASSUME ProgramInv, NEW q \in Seq(fibers), Leaves(q), uncalled = <<>> \/ q # <<>>,
         UNCHANGED <<uncalled, fibers>>,
         collector' = collector \/ (collector' = NoFiber /\ collector \notin ToSet(q))
  PROVE  LET k == Renamed(collector, q) \o uncalled
         IN  IF k = <<>> THEN Known(runningFiber)' = NoFiber /\ KnownQueue' = k
                         ELSE Known(runningFiber)' = Head(k) /\ KnownQueue' = Tail(k)
<1> DEFINE k == Renamed(collector, q) \o uncalled
           S == Fiber \cup {NoFiber, Collector}
           r == Renamed(collector, q)
<1>1. /\ q \in Seq(S) /\ uncalled \in Seq(S) /\ r \in Seq(S)
      /\ r = <<>> <=> q = <<>>
      /\ collector \in Fiber \cup {NoFiber} /\ fibers \subseteq Fiber /\ NoFiber \notin Fiber
  <2>1. /\ fibers \subseteq S /\ Client \subseteq S /\ uncalled \in Seq(Client)
        /\ collector \in Fiber \cup {NoFiber} /\ fibers \subseteq Fiber /\ NoFiber \notin Fiber
    BY PoolFacts, ProgramAssumption DEF ProgramInv, ProgramOK, StartOK
  <2>2. q \in Seq(S) /\ uncalled \in Seq(S)
    BY <2>1, SeqMonotonic
  <2>3. S \cup {Collector} = S
    OBVIOUS
  <2> QED
    BY <2>1, <2>2, <2>3, RenamedSeq
<1>2. Renamed(collector', q) = r
  BY <1>1, RenamedSame
<1>3. CASE q = <<>>
  <2>1. k = <<>>
    BY <1>1, <1>3, JoinQueues
  <2>2. runningFiber' = NoFiber /\ readyFiberQueue' = q
    BY <1>3 DEF Leaves
  <2> QED
    BY <1>2, <2>1, <2>2, KnownIs DEF Known
<1>4. CASE q # <<>>
  <2>1. runningFiber' = Head(q) /\ readyFiberQueue' = Tail(q) /\ Head(q) \in fibers
    BY <1>1, <1>4, HeadTailQueue, InSeq DEF Leaves
  <2>2. k # <<>> /\ Head(k) = Head(r) /\ Tail(k) = Tail(r) \o uncalled
    <3>1. r # <<>> /\ r \in Seq(S) /\ uncalled \in Seq(S)
      BY <1>1, <1>4
    <3> QED
      BY <3>1, JoinQueues
  <2>3. /\ Head(r) = IF Head(q) = collector /\ Head(q) # NoFiber THEN Collector ELSE Head(q)
        /\ Tail(r) = Renamed(collector, Tail(q))
    BY <1>1, <1>4, RenamedHeadTail
  <2>4. Renamed(collector', Tail(q)) = Renamed(collector, Tail(q))
    <3>1. Tail(Renamed(collector', q)) = Renamed(collector', Tail(q))
      BY <1>1, <1>4, RenamedHeadTail
    <3> QED
      BY <1>2, <2>3, <3>1
  <2>5. Known(runningFiber)' = Head(k)
    <3>1. Head(Renamed(collector', q)) =
            IF Head(q) = collector' /\ Head(q) # NoFiber THEN Collector ELSE Head(q)
      BY <1>1, <1>4, RenamedHeadTail
    <3> QED
      BY <1>2, <2>1, <2>2, <2>3, <3>1 DEF Known
  <2> QED
    BY <2>1, <2>2, <2>3, <2>4, <2>5, KnownIs
<1> QED
  BY <1>3, <1>4

LEMMA KnownExecuteNext ==
  ASSUME ProgramInv, ExecuteNext(readyFiberQueue) \/ Leaves(readyFiberQueue),
         uncalled = <<>> \/ readyFiberQueue # <<>>,
         UNCHANGED <<uncalled, fibers>>,
         collector' = collector \/ (collector' = NoFiber /\ collector \notin ReadySet)
  PROVE  Pool!ExecuteNext(KnownQueue)
<1>1. readyFiberQueue \in Seq(fibers)
  BY DEF ProgramInv, SchedInv, OwnTypesOK
<1> QED
  BY <1>1, KnownNext, KnownIs DEF Pool!ExecuteNext, KnownQueue, ReadySet, ExecuteNext, Leaves

(* The steps of Async without the scheduler's part in them.                *)
LEMMA DirectSteps ==
  ASSUME \/ \E w \in Worker : WorkerStep(w) \/ SpuriousWakeup(w)
         \/ Submit \/ Shutdown \/ Destroyed \/ Collect
  PROVE  Pool!Next
<1> QED
  BY DEF WorkerStep, SpuriousWakeup, Submit, Shutdown, Destroyed, Collect, Pool!Next,
         Pool!MainStep, Pool!ClientStep

LEMMA Unmoved ==
  ASSUME UNCHANGED <<restVars, runningFiber, readyFiberQueue, collector, uncalled, KnownPC>>
  PROVE  UNCHANGED Pool!vars
<1>1. KnownQueue' = KnownQueue /\ Known(runningFiber)' = Known(runningFiber)
  BY KnownIs DEF Known
<1> QED
  BY <1>1, PoolStutters

(* The running fiber, when it is a client inside awaitTasks or between.    *)
LEMMA RunningClient ==
  ASSUME ProgramInv, NEW f \in Client, NEW pc, NEW nextPC, Goes(f, pc, nextPC)
  PROVE  /\ Pool!Step(f, pc, nextPC) /\ IsRunning
         /\ runningFiber = f /\ f \in fibers /\ f # collector /\ uncalled = <<>>
         /\ KnownQueue = Renamed(collector, readyFiberQueue)
<1>1. /\ f # NoFiber /\ f # Collector /\ runningFiber = f /\ uncalled = <<>>
  BY ProgramAssumption, ConstantsAssumption DEF Goes
<1>2. f # collector /\ Known(runningFiber) = f
  BY <1>1 DEF Goes, Known
<1>3. loop = "fiber" /\ failure = "none" /\ f \in fibers
  BY <1>1 DEF ProgramInv, SchedInv, LoopOK, OwnTypesOK
<1>4. mainPC = "run"
  BY <1>3 DEF ProgramInv, ProgramOK, QuietOK
<1>5. KnownQueue = Renamed(collector, readyFiberQueue)
  <2>1. readyFiberQueue \in Seq(fibers)
    BY DEF ProgramInv, SchedInv, OwnTypesOK
  <2> QED
    BY <1>1, <2>1, KnownIs, RenamedSeq, JoinQueues
<1> QED
  BY <1>1, <1>2, <1>3, <1>4, <1>5 DEF Goes, Pool!Step, IsRunning

LEMMA BlockingClientSteps ==
  ASSUME ProgramInv, NEW f \in Client, Suspend(f) \/ EndFiber(f)
  PROVE  Pool!Suspend(f) \/ Pool!EndFiber(f)
<1>1. PICK pc, nextPC : /\ Goes(f, pc, nextPC)
                        /\ \/ pc = "suspend" /\ nextPC = "suspended"
                           \/ pc = "body" /\ nextPC = "dead"
  BY DEF Suspend, EndFiber
<1>2. /\ ExecuteNext(readyFiberQueue) /\ uncalled = <<>>
      /\ UNCHANGED <<uncalled, fibers, collector, collectorPC>>
  BY <1>1 DEF Suspend, EndFiber, SuspendCurrentFiber, KillCurrentFiber, heapVars, Goes
<1>3. Pool!ExecuteNext(KnownQueue) /\ Pool!Step(f, pc, nextPC)
  BY <1>1, <1>2, KnownExecuteNext, RunningClient
<1>4. UNCHANGED <<jobQueue0, jobQueue1, mutex0, mutex1, sleepers, eventfd, workIsDone, jobCount,
                  workerPC, job, next, spurious, jobs, taskCount, executed, calls, mainPC,
                  KnownPC>>
  BY <1>2 DEF Suspend, EndFiber, poolVars, KnownPC
<1> QED
  BY <1>1, <1>3, <1>4
     DEF KnownQueue, Pool!Suspend, Pool!EndFiber, Pool!todoVars, Pool!doneVars, Pool!workerVars,
         Pool!handVars, Pool!callVars, Pool!collectorVars, Pool!endVars

(* A fiber callCoroutine takes: it is not among those that live.           *)
LEMMA CalledFiber ==
  ASSUME ProgramInv, CallCoroutine
  PROVE  \E c \in Fiber :
           /\ c \notin fibers \/ c \in DeadSet
           /\ c # runningFiber /\ c \notin ReadySet /\ c # NoFiber /\ c # collector
           /\ readyFiberQueue' = Append(readyFiberQueue, c)
           /\ ReadySet' = ReadySet \cup {c} /\ DeadSet' = DeadSet \ {c}
           /\ fibers' = fibers \cup {c}
           /\ \A f \in Fiber \ {c} : context'[f] = context[f]
           /\ c \in fibers => context' = context
           /\ Last(readyFiberQueue') = c
           /\ c \in fibers => deadFiberQueue # <<>>
           /\ deadFiberQueue = <<>> => deadFiberQueue' = <<>>
<1>1. /\ IsRunning /\ readyFiberQueue \in Seq(fibers) /\ deadFiberQueue \in Seq(fibers)
      /\ IsInjective(deadFiberQueue) /\ fibers \subseteq Fiber /\ NoFiber \notin Fiber
      /\ ReadySet \subseteq fibers \ {runningFiber} /\ runningFiber \in fibers
      /\ DeadSet \subseteq fibers \ ({runningFiber} \cup ReadySet)
      /\ collector \in (fibers \ DeadSet) \cup {NoFiber}
      /\ context \in [Fiber -> Contexts]
  BY PoolFacts, RunningFiber DEF CallCoroutine, ProgramInv, ProgramOK, CollectorOK, SchedInv,
     QueuesOK, Waiters, OwnTypesOK
<1>2. ASSUME NEW c \in Fiber, readyFiberQueue' = Append(readyFiberQueue, c)
      PROVE  Last(readyFiberQueue') = c /\ ReadySet' = ReadySet \cup {c}
  <2>1. readyFiberQueue \in Seq(Fiber)
    BY <1>1, SeqMonotonic
  <2>2. /\ Append(readyFiberQueue, c) \in Seq(Fiber)
        /\ Len(Append(readyFiberQueue, c)) = Len(readyFiberQueue) + 1
        /\ Append(readyFiberQueue, c)[Len(readyFiberQueue) + 1] = c
    BY <2>1, AppendProperties
  <2> QED
    BY <1>2, <2>1, <2>2, AppendQueue DEF Last, ReadySet
<1>3. CASE ReuseFiber
  <2>1. PICK c : c = Head(deadFiberQueue)
    OBVIOUS
  <2>2. /\ c \in DeadSet /\ DeadSet' = DeadSet \ {c} /\ UNCHANGED <<fibers, context>>
        /\ readyFiberQueue' = Append(readyFiberQueue, c) /\ deadFiberQueue # <<>>
    BY <1>1, <1>3, <2>1, HeadTailQueue DEF ReuseFiber, DeadSet, Enqueued, stateVars
  <2>3. c \in Fiber /\ c \in fibers
    BY <1>1, <2>2
  <2> QED
    BY <1>1, <1>2, <2>2, <2>3
<1>4. ASSUME NEW c \in Fiber, CreateFiber(c) PROVE (\E f \in Fiber : f = c) /\ c \notin fibers
  BY <1>4 DEF CreateFiber, NewFiber
<1>5. CASE ~ReuseFiber
  <2>1. PICK c \in Fiber : CreateFiber(c)
    BY <1>5 DEF CallCoroutine
  <2>2. /\ c \notin fibers /\ fibers' = fibers \cup {c} /\ deadFiberQueue = <<>>
        /\ deadFiberQueue' = <<>> /\ readyFiberQueue' = Append(readyFiberQueue, c)
        /\ context' = [context EXCEPT ![c] = "none"]
    BY <2>1 DEF CreateFiber, NewFiber, Enqueued
  <2>3. DeadSet = {} /\ DeadSet' = {}
    BY <2>2, EmptyQueue DEF DeadSet
  <2>4. /\ c # runningFiber /\ c \notin ReadySet /\ c # NoFiber /\ c # collector
        /\ \A f \in Fiber \ {c} : context'[f] = context[f]
    BY <1>1, <2>2
  <2> QED
    BY <1>2, <2>2, <2>3, <2>4
<1> QED
  BY <1>3, <1>5

(* A new collector is known as Collector from the time it is ready.        *)
LEMMA CountStep ==
  ASSUME ProgramInv, NEW f \in Client, UnlockAndCount(f)
  PROVE  Pool!UnlockAndCount(f)
<1>1. /\ Pool!Step(f, "unlock0", "suspend") /\ IsRunning
      /\ runningFiber = f /\ f \in fibers /\ f # collector /\ uncalled = <<>>
      /\ KnownQueue = Renamed(collector, readyFiberQueue)
      /\ uncalled' = uncalled
  BY RunningClient DEF UnlockAndCount
<1>2. /\ mutex0' = NoThread /\ jobCount' = jobCount + 1
      /\ UNCHANGED <<jobQueue0, jobQueue1, mutex1, sleepers, eventfd, workerPC, job, next,
                     spurious, taskCount, executed, calls, workIsDone, mainPC, jobs>>
      /\ jobCount \in Nat
  BY PoolFacts DEF UnlockAndCount
<1>3. CASE jobCount = 0
  <2>1. collectorPC = "none" /\ collector = NoFiber
    <3>1. collectorPC \notin {"resume", "unwatched"}
      BY <1>1, PoolFacts
    <3> QED
      BY <1>3, <3>1, PoolFacts DEF ProgramInv, ProgramOK, CollectorOK
  <2>2. CallCoroutine /\ collector' = Last(readyFiberQueue') /\ collectorPC' = "start"
    BY <1>3 DEF UnlockAndCount
  <2>3. PICK c \in Fiber : /\ c # runningFiber /\ c \notin ReadySet /\ c # NoFiber
                           /\ readyFiberQueue' = Append(readyFiberQueue, c)
                           /\ Last(readyFiberQueue') = c
    BY <2>2, CalledFiber
  <2>4. runningFiber' = runningFiber
    BY <2>2 DEF CallCoroutine
  <2>5. readyFiberQueue \in Seq(Fiber)
    BY SeqMonotonic DEF ProgramInv, SchedInv, OwnTypesOK
  <2>6. Renamed(collector', readyFiberQueue') = Append(KnownQueue, Collector)
    BY <1>1, <2>1, <2>2, <2>3, <2>5, RenamedAppend, RenamedSame DEF ReadySet
  <2>7. KnownQueue' = Append(KnownQueue, Collector)
    <3>1. /\ readyFiberQueue' \in Seq(Fiber)
          /\ Renamed(collector', readyFiberQueue') \in Seq(Fiber \cup {Collector})
      BY <2>3, <2>5, AppendProperties, RenamedSeq
    <3> QED
      BY <1>1, <2>6, <3>1, KnownIs, JoinQueues
  <2>8. Known(runningFiber)' = Known(runningFiber)
    BY <1>1, <2>1, <2>2, <2>3, <2>4 DEF Known
  <2>9. KnownPC' = "start"
    BY <2>2 DEF KnownPC
  <2> QED
    BY <1>1, <1>2, <1>3, <2>7, <2>8, <2>9
       DEF KnownQueue, Pool!UnlockAndCount, Pool!doneVars, Pool!workerVars,
           Pool!handVars, Pool!callVars, Pool!endVars
<1>4. CASE jobCount # 0
  <2>1. UNCHANGED <<vars, collector, collectorPC>>
    BY <1>2, <1>4 DEF UnlockAndCount
  <2>2. /\ KnownQueue' = KnownQueue /\ Known(runningFiber)' = Known(runningFiber)
        /\ KnownPC' = KnownPC
    BY <1>1, <2>1, KnownIs DEF Known, KnownPC, vars, fiberVars, readyVars
  <2> QED
    BY <1>1, <1>2, <1>4, <2>2
       DEF KnownQueue, Pool!UnlockAndCount, Pool!doneVars, Pool!workerVars,
           Pool!handVars, Pool!callVars, Pool!endVars
<1> QED
  BY <1>3, <1>4

(* The running fiber, when it is the collector's.                          *)
LEMMA RunningCollector ==
  ASSUME ProgramInv, runningFiber = collector, runningFiber # NoFiber
  PROVE  /\ Known(runningFiber) = Collector /\ mainPC = "run" /\ IsRunning
         /\ uncalled = <<>> /\ collector \in fibers /\ collector \notin ReadySet
         /\ KnownQueue = Renamed(collector, readyFiberQueue)
         /\ Awaiting = {}
<1>1. loop = "fiber" /\ failure = "none" /\ collector \in fibers
  BY DEF ProgramInv, SchedInv, LoopOK, OwnTypesOK
<1>2. mainPC = "run" /\ uncalled = <<>>
  BY <1>1 DEF ProgramInv, ProgramOK, QuietOK, StartOK
<1>3. readyFiberQueue \in Seq(fibers) /\ Awaiting \subseteq {collector}
      /\ collector \notin ReadySet /\ collector \notin Awaiting
  BY <1>1, RunningFiber DEF ProgramInv, ProgramOK, AwaitsOK, IsRunning
<1>4. KnownQueue = Renamed(collector, readyFiberQueue)
  BY <1>2, <1>3, KnownIs, RenamedSeq, JoinQueues
<1> QED
  BY <1>1, <1>2, <1>3, <1>4 DEF Known, IsRunning

(* The steps in which the collector waits, resumes a fiber or ends.        *)
LEMMA CollectorAwaitStep ==
  ASSUME ProgramInv, CollectorAwait
  PROVE  Pool!StartCollector \/ Pool!CollectorEndTurn
<1>1. /\ runningFiber = collector /\ runningFiber # NoFiber /\ UNCHANGED <<uncalled, collector>>
      /\ collectorPC' = "await" /\ UNCHANGED <<poolVars, awaitVars>>
      /\ ExecuteNext(readyFiberQueue) /\ UNCHANGED fibers
  BY DEF CollectorAwait, Collecting, AwaitIOEvent, heapVars
<1>2. Known(runningFiber) = Collector /\ mainPC = "run" /\ uncalled = <<>>
  BY <1>1, RunningCollector
<1>3. Pool!ExecuteNext(KnownQueue)
  BY <1>1, <1>2, KnownExecuteNext
<1>4. KnownPC' = "await"
  BY <1>1 DEF KnownPC
<1>5. CASE collectorPC = "watched"
  <2>1. KnownPC = "start"
    BY <1>5 DEF KnownPC
  <2> QED
    BY <1>1, <1>2, <1>3, <1>4, <2>1
       DEF KnownQueue, poolVars, awaitVars, Pool!StartCollector, Pool!Collecting, Pool!todoVars,
           Pool!doneVars, Pool!workerVars, Pool!handVars, Pool!callVars, Pool!endVars
<1>6. CASE collectorPC = "resume" /\ jobs = <<>> /\ jobCount # 0
  <2>1. KnownPC = "resume"
    BY <1>6 DEF KnownPC
  <2> QED
    BY <1>1, <1>2, <1>3, <1>4, <1>6, <2>1
       DEF KnownQueue, poolVars, awaitVars, Pool!CollectorEndTurn, Pool!Collecting, Pool!todoVars,
           Pool!doneVars, Pool!workerVars, Pool!handVars, Pool!callVars, Pool!endVars,
           Pool!NextTurn
<1> QED
  BY <1>5, <1>6 DEF CollectorAwait, Collecting

LEMMA CollectorEndStep ==
  ASSUME ProgramInv, CollectorEnd
  PROVE  Pool!CollectorEndTurn
<1>1. /\ runningFiber = collector /\ runningFiber # NoFiber /\ UNCHANGED uncalled
      /\ collector' = NoFiber /\ collectorPC = "unwatched"
      /\ collectorPC' = "none" /\ UNCHANGED <<poolVars, awaitVars>>
      /\ ExecuteNext(readyFiberQueue) /\ UNCHANGED fibers
  BY DEF CollectorEnd, Collecting, KillCurrentFiber
<1>2. /\ Known(runningFiber) = Collector /\ mainPC = "run" /\ uncalled = <<>>
      /\ collector \notin ReadySet
  BY <1>1, RunningCollector
<1>3. Pool!ExecuteNext(KnownQueue)
  BY <1>1, <1>2, KnownExecuteNext
<1>4. KnownPC = "resume" /\ KnownPC' = "none"
  BY <1>1 DEF KnownPC
<1>5. jobs = <<>> /\ jobCount = 0
  BY <1>1 DEF ProgramInv, ProgramOK, CollectorOK
<1> QED
  BY <1>1, <1>2, <1>3, <1>4, <1>5
     DEF KnownQueue, poolVars, awaitVars, Pool!CollectorEndTurn, Pool!Collecting, Pool!todoVars,
         Pool!doneVars, Pool!workerVars, Pool!handVars, Pool!callVars, Pool!endVars, Pool!NextTurn

LEMMA ResumeStep ==
  ASSUME ProgramInv, Resume
  PROVE  Pool!ResumeFiber
<1>1. /\ runningFiber = collector /\ runningFiber # NoFiber
      /\ UNCHANGED <<uncalled, collector, runningFiber, poolVars>>
      /\ collectorPC = "resume" /\ collectorPC' = "resume"
      /\ jobs # <<>> /\ jobs' = Tail(jobs) /\ jobCount' = jobCount - 1
      /\ fiberPC' = [fiberPC EXCEPT ![Head(jobs)] = "body"]
      /\ readyFiberQueue' = Append(readyFiberQueue, Head(jobs))
  BY DEF Resume, Collecting, ResumeFiber, Enqueued
<1>2. /\ Known(runningFiber) = Collector /\ mainPC = "run" /\ uncalled = <<>>
      /\ KnownQueue = Renamed(collector, readyFiberQueue)
  BY <1>1, RunningCollector
<1>3. Head(jobs) \in Fiber /\ Head(jobs) # collector
  <2>1. Head(jobs) \in Client /\ fiberPC[Head(jobs)] = "suspended"
    BY <1>1, PoolFacts, HeadTailQueue
  <2> QED
    BY <2>1, ProgramAssumption DEF ProgramInv, ProgramOK, CollectorOK
<1>4. KnownQueue' = Append(KnownQueue, Head(jobs))
  <2>1. readyFiberQueue \in Seq(Fiber)
    BY SeqMonotonic DEF ProgramInv, SchedInv, OwnTypesOK
  <2>2. Renamed(collector, readyFiberQueue') = Append(KnownQueue, Head(jobs))
    BY <1>1, <1>2, <1>3, <2>1, RenamedAppend
  <2>3. /\ readyFiberQueue' \in Seq(Fiber)
        /\ Renamed(collector, readyFiberQueue') \in Seq(Fiber \cup {Collector})
    BY <1>1, <1>3, <2>1, AppendProperties, RenamedSeq
  <2> QED
    BY <1>1, <1>2, <2>2, <2>3, KnownIs, JoinQueues
<1>5. KnownPC = "resume" /\ KnownPC' = "resume" /\ Known(runningFiber)' = Known(runningFiber)
  BY <1>1 DEF KnownPC, Known
<1> QED
  BY <1>1, <1>2, <1>4, <1>5
     DEF KnownQueue, poolVars, Pool!ResumeFiber, Pool!Collecting, Pool!todoVars,
         Pool!doneVars, Pool!workerVars, Pool!handVars, Pool!callVars, Pool!endVars

-----------------------------------------------------------------------------
(* The loop of run().                                                      *)

(* The steps that only the scheduler sees.                                 *)
LEMMA QuietSteps ==
  ASSUME ProgramInv, EpollWait \/ Interrupt \/ CollectorWatch \/ CollectorUnwatch
  PROVE  UNCHANGED Pool!vars
<1>1. /\ UNCHANGED <<poolVars, awaitVars>>
      /\ UNCHANGED <<runningFiber, readyFiberQueue, collector, uncalled, KnownPC>>
  <2>1. CASE EpollWait \/ Interrupt
    BY <2>1 DEF EpollWait, Interrupt, FinishWait, InterruptWait, fiberVars, readyVars, KnownPC
  <2>2. CASE CollectorWatch
    BY <2>2 DEF CollectorWatch, Collecting, WatchIO, fiberVars, readyVars, KnownPC
  <2>3. CASE CollectorUnwatch
    <3>1. /\ runningFiber = collector /\ runningFiber # NoFiber /\ UnwatchIO(EventFD)
          /\ collectorPC = "resume" /\ collectorPC' = "unwatched" /\ UNCHANGED <<uncalled, collector>>
          /\ UNCHANGED <<poolVars, awaitVars, runningFiber>>
          /\ readyFiberQueue' = readyFiberQueue \o Poll!AwaitersOf(EventFD)
      BY <2>3 DEF CollectorUnwatch, Collecting, UnwatchIO, Release
    <3>2. Awaiters(EventFD) = {}
      BY <3>1, RunningCollector, AwaitingIs, ProgramAssumption
    <3>3. Poll!AwaitersOf(EventFD) = <<>>
      BY <3>2, PollView, EmptyQueue, ProgramAssumption DEF Awaiters, ProgramInv, SchedInv
    <3>4. readyFiberQueue \in Seq(fibers)
      BY DEF ProgramInv, SchedInv, OwnTypesOK
    <3>5. readyFiberQueue' = readyFiberQueue
      BY <3>1, <3>3, <3>4, JoinQueues
    <3> QED
      BY <3>1, <3>5 DEF KnownPC
  <2> QED
    BY <2>1, <2>2, <2>3
<1> QED
  BY <1>1, Unmoved DEF restVars, poolVars, awaitVars

(* To start a client moves it from uncalled to the ready queue: the same   *)
(* queue to Async.                                                         *)
LEMMA StartClientStep ==
  ASSUME ProgramInv, StartClient
  PROVE  /\ UNCHANGED Pool!vars
         /\ readyFiberQueue' = Append(readyFiberQueue, Head(uncalled))
         /\ Head(uncalled) \notin fibers
<1>1. /\ uncalled # <<>> /\ uncalled' = Tail(uncalled) /\ Head(uncalled) \in fibers'
      /\ CallCoroutine /\ UNCHANGED <<collector, collectorPC, poolVars, awaitVars, runningFiber>>
  BY DEF StartClient, CallCoroutine
<1>2. /\ uncalled \in Seq(Client) /\ ToSet(uncalled) \cap fibers = {} /\ collector = NoFiber
      /\ deadFiberQueue = <<>>
  BY <1>1 DEF ProgramInv, ProgramOK, StartOK
<1>3. Head(uncalled) \in ToSet(uncalled)
  BY <1>1, <1>2, HeadTailQueue
<1>4. PICK c \in Fiber : /\ readyFiberQueue' = Append(readyFiberQueue, c)
                         /\ fibers' = fibers \cup {c}
  BY <1>1, CalledFiber
<1>5. c = Head(uncalled)
  BY <1>1, <1>2, <1>3, <1>4
<1>6. readyFiberQueue \in Seq(Fiber) /\ uncalled \in Seq(Fiber)
  BY <1>2, SeqMonotonic, ProgramAssumption DEF ProgramInv, SchedInv, OwnTypesOK
<1>7. readyFiberQueue' \in Seq(Fiber)
  BY <1>4, <1>6, AppendProperties
<1>8. KnownQueue' = KnownQueue
  <2>1. /\ Renamed(collector, readyFiberQueue) = readyFiberQueue
        /\ Renamed(collector', readyFiberQueue') = readyFiberQueue'
    BY <1>1, <1>2, <1>6, <1>7, RenamedSame
  <2>2. Append(readyFiberQueue, Head(uncalled)) \o Tail(uncalled) = readyFiberQueue \o uncalled
    BY <1>1, <1>6, JoinQueues
  <2> QED
    BY <1>1, <1>4, <1>5, <2>1, <2>2, KnownIs
<1>9. Known(runningFiber)' = Known(runningFiber) /\ KnownPC' = KnownPC
  BY <1>1 DEF Known, KnownPC
<1> QED
  BY <1>1, <1>2, <1>3, <1>4, <1>5, <1>8, <1>9, PoolStutters DEF restVars, poolVars, awaitVars

(* The steps of run() that Async knows: the next fiber runs, or the wait   *)
(* is over.                                                                *)
LEMMA DispatchStep ==
  ASSUME ProgramInv, RunLoop, Dispatch
  PROVE  Pool!Dispatch \/ UNCHANGED Pool!vars
<1>1. /\ loop = "top" /\ UNCHANGED <<fibers, collector, uncalled, poolVars, awaitVars>>
      /\ phase = "idle" /\ runningFiber = NoFiber /\ NoFiber \notin Fiber
  BY ConstantsAssumption DEF RunLoop, Dispatch, ProgramInv, SchedInv, LoopOK, heapVars
<1>2. collectorPC' = collectorPC /\ KnownPC' = KnownPC
  BY <1>1 DEF RunLoop, KnownPC
<1>3. CASE readyFiberQueue = <<>>
  BY <1>1, <1>2, <1>3, Unmoved DEF Dispatch, readyVars, restVars, poolVars, awaitVars
<1>4. CASE readyFiberQueue # <<>>
  <2>1. Leaves(readyFiberQueue)
    BY <1>4 DEF Dispatch, Leaves
  <2>2. Pool!ExecuteNext(KnownQueue)
    BY <1>1, <1>4, <2>1, KnownExecuteNext
  <2>3. KnownQueue # <<>>
    <3>1. readyFiberQueue \in Seq(Fiber) /\ uncalled \in Seq(Fiber \cup {Collector})
      BY SeqMonotonic, ProgramAssumption DEF ProgramInv, SchedInv, OwnTypesOK, ProgramOK, StartOK
    <3>2. /\ Renamed(collector, readyFiberQueue) \in Seq(Fiber \cup {Collector})
          /\ Renamed(collector, readyFiberQueue) # <<>>
      BY <1>4, <3>1, RenamedSeq
    <3> QED
      BY <3>1, <3>2, KnownIs, JoinQueues
  <2>4. Pool!Idle
    BY <1>1 DEF Pool!Idle, Known, ProgramInv, ProgramOK, QuietOK
  <2> QED
    BY <1>1, <1>2, <2>2, <2>3, <2>4
       DEF KnownQueue, poolVars, awaitVars, Pool!Dispatch, Pool!todoVars, Pool!doneVars,
           Pool!workerVars, Pool!handVars, Pool!callVars, Pool!endVars, Pool!collectorVars
<1> QED
  BY <1>3, <1>4

LEMMA WakeStep ==
  ASSUME ProgramInv, RunLoop, WakeAwaiters
  PROVE  Pool!Poll \/ UNCHANGED Pool!vars
<1>1. /\ loop = "poll" /\ Poll!EndWait /\ Release(eventAwaiterQueue)
      /\ UNCHANGED <<fibers, collector, uncalled, runningFiber, poolVars, awaitVars>>
      /\ readyFiberQueue' = readyFiberQueue \o eventAwaiterQueue
      /\ phase = "handling" /\ phase' = "idle"
  BY DEF RunLoop, WakeAwaiters, Release, heapVars, Poll!EndWait
<1>2. /\ readyFiberQueue = <<>> /\ uncalled = <<>> /\ mainPC = "run" /\ runningFiber = NoFiber
      /\ NoFiber \notin Fiber
  BY <1>1, ConstantsAssumption DEF ProgramInv, ProgramOK, StartOK, QuietOK, SchedInv, LoopOK
<1>3. /\ eventAwaiterQueue \in Seq(Fiber) /\ IsInjective(eventAwaiterQueue)
      /\ ToSet(eventAwaiterQueue) \subseteq Awaiting /\ Awaiting \subseteq {collector}
  BY PollView, AwaitingIs DEF ProgramInv, SchedInv, ProgramOK, AwaitsOK
<1>4. readyFiberQueue' = eventAwaiterQueue
  BY <1>1, <1>2, <1>3, JoinQueues
<1>5. CASE eventAwaiterQueue = <<>>
  <2>1. collectorPC' = collectorPC
    BY <1>1, <1>5, EmptyQueue DEF RunLoop
  <2> QED
    BY <1>1, <1>2, <1>4, <1>5, <2>1, Unmoved DEF restVars, poolVars, awaitVars, KnownPC
<1>6. CASE eventAwaiterQueue # <<>>
  <2>1. ToSet(eventAwaiterQueue) = {collector} /\ collector \in Fiber
    BY <1>3, <1>6, EmptyQueue, InSeq
  <2>2. eventAwaiterQueue = <<collector>>
    <3>1. Len(eventAwaiterQueue) = 1
      BY <1>3, <2>1, QueueLength, FS_Singleton
    <3>2. eventAwaiterQueue[1] = collector
      BY <1>3, <2>1, <3>1, InSeq
    <3> QED
      BY <1>3, <3>1, <3>2
  <2>3. collectorPC = "await" /\ eventfd > 0
    BY <1>3, <1>6, <2>1 DEF ProgramInv, ProgramOK, AwaitsOK
  <2>4. collectorPC' = "lock1"
    BY <1>1, <2>1 DEF RunLoop
  <2>5. KnownQueue = <<>> /\ KnownQueue' = <<Collector>>
    <3>1. /\ <<>> \in Seq(Fiber) /\ Append(<<>>, collector) = <<collector>>
          /\ Append(<<>>, Collector) = <<Collector>> /\ <<Collector>> \in Seq({Collector})
          /\ <<>> \in Seq({Collector})
      OBVIOUS
    <3>2. Renamed(collector, <<>>) = <<>>
      BY <3>1, RenamedSeq
    <3>3. Renamed(collector, <<collector>>) = <<Collector>>
      <4>1. Renamed(collector, Append(<<>>, collector)) = Append(<<>>, Collector)
        BY <1>2, <2>1, <3>1, <3>2, RenamedAppend
      <4> QED
        BY <3>1, <4>1
    <3>4. uncalled' = <<>> /\ collector' = collector /\ readyFiberQueue' = <<collector>>
      BY <1>1, <1>2, <1>4, <2>2
    <3>5. KnownQueue = <<>> \o <<>> /\ KnownQueue' = <<Collector>> \o <<>>
      BY <1>2, <3>2, <3>3, <3>4, KnownIs
    <3> QED
      BY <3>1, <3>5, JoinQueues
  <2>6. Pool!Idle /\ Known(runningFiber)' = Known(runningFiber)
    BY <1>1, <1>2 DEF Pool!Idle, Known
  <2>7. KnownPC = "await" /\ KnownPC' = "lock1"
    BY <2>3, <2>4 DEF KnownPC
  <2> QED
    BY <1>1, <2>3, <2>5, <2>6, <2>7
       DEF KnownQueue, poolVars, awaitVars, Pool!Poll, Pool!IsReadable, Pool!todoVars,
           Pool!doneVars, Pool!workerVars, Pool!handVars, Pool!callVars, Pool!endVars
<1> QED
  BY <1>5, <1>6

LEMMA LoopSteps ==
  ASSUME ProgramInv, RunLoop
  PROVE  Pool!Dispatch \/ Pool!Poll \/ UNCHANGED Pool!vars
<1>1. CASE Dispatch \/ WakeAwaiters
  BY <1>1, DispatchStep, WakeStep
<1>2. CASE WakeDueFiber
  BY <1>2 DEF WakeDueFiber, ProgramInv, ProgramOK, QuietOK
<1>3. CASE \/ DestroyDeadFibers \/ StartWait \/ RemoveDueItems \/ EndOfTurn
           \/ \E fd \in FD : HandleEvent(fd)
  <2>1. UNCHANGED <<runningFiber, readyFiberQueue, collector, uncalled, poolVars, awaitVars>>
    BY <1>3 DEF RunLoop, DestroyDeadFibers, StartWait, RemoveDueItems, EndOfTurn, HandleEvent,
       fiberVars, readyVars
  <2>2. phase = "handling" => phase' = "handling"
    <3>1. CASE loop # "poll"
      BY <3>1 DEF ProgramInv, SchedInv, LoopOK
    <3>2. CASE StartWait
      BY <3>2 DEF StartWait, Poll!FlushDirtyWatchers, Poll!Ready
    <3>3. CASE \E fd \in FD : HandleEvent(fd)
      BY <3>3 DEF HandleEvent, Poll!HandleError, Poll!HandleReadiness
    <3> QED
      BY <1>3, <3>1, <3>2, <3>3 DEF DestroyDeadFibers, RemoveDueItems, EndOfTurn
  <2>3. collectorPC' = collectorPC
    BY <2>2 DEF RunLoop
  <2> QED
    BY <2>1, <2>3, Unmoved DEF restVars, poolVars, awaitVars, KnownPC
<1> QED
  BY <1>1, <1>2, <1>3 DEF RunLoop, Loop

(* Every step of the program is one of Async, or none.                     *)
LEMMA AsyncSteps ==
  ASSUME ProgramInv, [PoolNext]_allVars
  PROVE  [Pool!Next]_(Pool!vars)
<1>1. CASE UNCHANGED allVars
  BY <1>1, Unmoved DEF allVars, schedulerVars, vars, fiberVars, readyVars, poolVars, awaitVars,
     restVars, KnownPC
<1>2. ASSUME NEW f \in Client, UnlockAndCount(f) \/ Suspend(f) \/ EndFiber(f)
      PROVE  Pool!ClientStep(f)
  BY <1>2, CountStep, BlockingClientSteps DEF Pool!ClientStep
<1>3. CASE CollectorAwait \/ Resume \/ CollectorEnd \/ RunLoop
  BY <1>3, CollectorAwaitStep, ResumeStep, CollectorEndStep, LoopSteps DEF Pool!Next, Pool!MainStep
<1> QED
  BY <1>1, <1>2, <1>3, DirectSteps, QuietSteps, StartClientStep
     DEF PoolNext, MainStep, Pool!Next, Pool!MainStep

-----------------------------------------------------------------------------
(* ProgramOK in each step.  SchedInv and PoolInv are kept by the two       *)
(* lemmas before and the proofs of the two modules.                        *)

LEMMA Kept ==
  ASSUME ProgramInv, [PoolNext]_allVars
  PROVE  SchedInv' /\ AA!PoolInv'
<1>1. SchedInv'
  BY SchedulerSteps, SchedNext DEF ProgramInv
<1>2. AA!PoolInv'
  BY AsyncSteps, SameNext, PoolStep DEF ProgramInv
<1> QED
  BY <1>1, <1>2

(* Steps that the scheduler has no part in.                                *)
LEMMA ProgramStays ==
  ASSUME ProgramInv, UNCHANGED <<vars, uncalled, collector>>,
         collectorPC' \in CollectorPCs,
         collectorPC' # collectorPC =>
           Awaiting = {} /\ eventAwaiterQueue = <<>> /\ phase # "handling"
           /\ collectorPC # "none" /\ collectorPC' \notin {"none", "unwatched"},
         collectorPC = "unwatched" => UNCHANGED <<jobs, jobCount>>,
         \A f \in Client : /\ fiberPC'[f] = "dead" <=> fiberPC[f] = "dead"
                           /\ fiberPC'[f] = "suspended" => fiberPC[f] = "suspended",
         eventfd > 0 => eventfd' > 0 \/ (eventAwaiterQueue = <<>> /\ phase # "handling"),
         mainPC' # "run" => loop = "exited"
  PROVE  ProgramOK'
<1>1. /\ UNCHANGED <<fibers, deadFiberQueue, readyFiberQueue, runningFiber, context, loop, buffer,
                     dueTime, phase, revents, eventAwaiterQueue>>
      /\ UNCHANGED pollVars
  BY DEF vars, fiberVars, heapVars, readyVars, stateVars, loopVars, turnVars, timeVars, pollVars
<1>2. Awaiting' = Awaiting /\ \A fd \in FD : Awaiters(fd)' = Awaiters(fd)
  BY <1>1, PollKept DEF AwaitersKept, ProgramInv, SchedInv
<1>3. StartOK'
  BY <1>1 DEF ProgramInv, ProgramOK, StartOK
<1>4. ClientsOK'
  BY <1>1 DEF ProgramInv, ProgramOK, ClientsOK, Suspended, DeadSet
<1>5. CollectorOK'
  BY <1>1 DEF ProgramInv, ProgramOK, CollectorOK, DeadSet
<1>6. AwaitsOK'
  BY <1>1, <1>2 DEF ProgramInv, ProgramOK, AwaitsOK
<1>7. QuietOK'
  BY <1>1 DEF ProgramInv, ProgramOK, QuietOK
<1> QED
  BY <1>3, <1>4, <1>5, <1>6, <1>7 DEF ProgramOK

(* The threads, the calls up to the signal, the end of the pool, and what  *)
(* the collector does with mutex1 held.                                    *)
LEMMA WorkerProgram ==
  ASSUME ProgramInv, NEW w \in Worker, WorkerStep(w) \/ SpuriousWakeup(w)
  PROVE  ProgramOK'
<1>1. /\ UNCHANGED <<vars, uncalled, collector, collectorPC>>
      /\ UNCHANGED <<fiberPC, jobs, jobCount, mainPC>>
      /\ eventfd' = eventfd \/ eventfd' = eventfd + 1
  BY DEF WorkerStep, SpuriousWakeup, schedulerVars, Pool!WorkerStep, Pool!SpuriousWakeup, Pool!Lock0,
     Pool!Wait, Pool!Wakeup, Pool!TakeJob, Pool!Quit, Pool!RunTask, Pool!FinishJob, Pool!Write,
     Pool!Unlock1, Pool!doneVars, Pool!mainVars, Pool!fiberVars, Pool!collectorVars, Pool!endVars
<1>2. eventfd > 0 => eventfd' > 0
  BY <1>1, PoolFacts
<1>3. collectorPC \in CollectorPCs /\ (mainPC # "run" => loop = "exited")
  BY DEF ProgramInv, ProgramOK, CollectorOK, QuietOK
<1> QED
  BY <1>1, <1>2, <1>3, ProgramStays

LEMMA SubmitProgram ==
  ASSUME ProgramInv, Submit
  PROVE  ProgramOK'
<1>1. PICK f \in Client, pc \in {"body", "signal"}, nextPC \in {"signal", "unlock0"} :
        fiberPC[f] = pc /\ fiberPC' = [fiberPC EXCEPT ![f] = nextPC]
  BY DEF Submit, Pool!AwaitTasks, Pool!Signal, Pool!Step
<1>2. /\ UNCHANGED <<vars, uncalled, collector, collectorPC>>
      /\ UNCHANGED <<jobs, jobCount, mainPC, eventfd>>
  BY DEF Submit, schedulerVars, Pool!AwaitTasks, Pool!Signal, Pool!doneVars, Pool!collectorVars,
     Pool!endVars
<1>3. collectorPC \in CollectorPCs /\ (mainPC # "run" => loop = "exited")
  BY DEF ProgramInv, ProgramOK, CollectorOK, QuietOK
<1>4. fiberPC \in [Client -> AA!FiberPCs]
  BY PoolFacts
<1> QED
  BY <1>1, <1>2, <1>3, <1>4, ProgramStays

LEMMA ShutdownProgram ==
  ASSUME ProgramInv, Shutdown \/ Destroyed \/ UNCHANGED allVars
  PROVE  ProgramOK'
<1>1. /\ UNCHANGED <<vars, uncalled, collector, collectorPC>>
      /\ UNCHANGED <<fiberPC, jobs, jobCount, eventfd>>
      /\ mainPC' # "run" => loop = "exited"
  <2>1. CASE Shutdown
    BY <2>1 DEF Shutdown, schedulerVars, Pool!BeginShutdown, Pool!UnlockWorkIsDone, Pool!Broadcast,
       Pool!Join, Pool!doneVars, Pool!fiberVars, Pool!collectorVars
  <2>2. CASE Destroyed
    BY <2>2 DEF Destroyed, schedulerVars, ProgramInv, ProgramOK, QuietOK, Pool!Destroyed,
       Pool!vars, Pool!mainVars, Pool!fiberVars, Pool!collectorVars, Pool!endVars, Pool!doneVars
  <2>3. CASE UNCHANGED allVars
    BY <2>3 DEF allVars, schedulerVars, poolVars, awaitVars, ProgramInv, ProgramOK, QuietOK
  <2> QED
    BY <2>1, <2>2, <2>3
<1>2. collectorPC \in CollectorPCs
  BY DEF ProgramInv, ProgramOK, CollectorOK
<1> QED
  BY <1>1, <1>2, ProgramStays

LEMMA CollectProgram ==
  ASSUME ProgramInv, Collect
  PROVE  ProgramOK'
<1>1. /\ runningFiber = collector /\ runningFiber # NoFiber
      /\ UNCHANGED <<vars, uncalled, collector>>
      /\ collectorPC \in {"lock1", "read", "split"} /\ collectorPC' \in {"read", "split", "resume"}
  BY DEF Collect, Collecting
<1>2. UNCHANGED <<fiberPC, mainPC>>
  BY DEF Collect, Pool!CollectorLock1, Pool!CollectorRead, Pool!CollectorSplit, Pool!endVars,
     Pool!Collecting
<1>3. Awaiting = {} /\ eventAwaiterQueue = <<>> /\ phase # "handling"
  BY <1>1, RunningCollector, RunningFiber DEF ProgramInv
<1>4. mainPC # "run" => loop = "exited"
  BY DEF ProgramInv, ProgramOK, QuietOK
<1>5. collectorPC' \in CollectorPCs
  BY <1>1 DEF CollectorPCs
<1> QED
  BY <1>1, <1>2, <1>3, <1>4, <1>5, ProgramStays

(* Steps in which the running fiber gives up the thread.                   *)
LEMMA Switched ==
  ASSUME ProgramInv, IsRunning, ExecuteNext(readyFiberQueue), UNCHANGED fibers,
         \A g \in Fiber \ {runningFiber} : context'[g] = context[g]
  PROVE  /\ \A g \in Fiber \ {runningFiber} : Suspended(g) => Suspended(g)'
         /\ runningFiber # runningFiber' /\ runningFiber \notin ReadySet'
         /\ loop' \in {"fiber", "reap"}
         /\ runningFiber \in Fiber /\ runningFiber \in fibers /\ phase = "idle"
         /\ eventAwaiterQueue = <<>> /\ mainPC = "run"
<1>1. /\ readyFiberQueue \in Seq(fibers) /\ IsInjective(readyFiberQueue)
      /\ ToSet(readyFiberQueue) = ReadySet
      /\ runningFiber \in fibers /\ runningFiber \in Fiber /\ runningFiber # NoFiber
      /\ runningFiber \notin ReadySet /\ phase = "idle" /\ eventAwaiterQueue = <<>>
      /\ fibers \subseteq Fiber /\ NoFiber \notin Fiber
  BY RunningFiber, PoolFacts DEF ProgramInv, ReadySet
<1>2. /\ ReadySet' \subseteq ReadySet /\ runningFiber' \in ReadySet \cup {NoFiber}
      /\ loop' \in {loop, "reap"}
  BY <1>1, ExecuteNextSets
<1>3. ASSUME NEW g \in Fiber \ {runningFiber}, Suspended(g) PROVE Suspended(g)'
  BY <1>1, <1>2, <1>3 DEF Suspended, ReadySet
<1>4. loop = "fiber" /\ mainPC = "run"
  BY DEF IsRunning, ProgramInv, ProgramOK, QuietOK
<1> QED
  BY <1>1, <1>2, <1>3, <1>4

LEMMA SuspendProgram ==
  ASSUME ProgramInv, NEW f \in Client, Suspend(f)
  PROVE  ProgramOK'
<1>1. /\ runningFiber = f /\ f \in fibers /\ f # collector /\ IsRunning
      /\ fiberPC[f] = "suspend" /\ fiberPC' = [fiberPC EXCEPT ![f] = "suspended"]
      /\ context' = [context EXCEPT ![f] = "suspend"]
      /\ ExecuteNext(readyFiberQueue)
      /\ UNCHANGED <<uncalled, collector, collectorPC, jobs, jobCount, mainPC, eventfd, fibers,
                     deadFiberQueue, dueTime, buffer, pollVars>>
  BY RunningClient DEF Suspend, Goes, SuspendCurrentFiber, SaveContext, poolVars, heapVars, timeVars,
     turnVars
<1>2. fiberPC \in [Client -> AA!FiberPCs] /\ context \in [Fiber -> Contexts] /\ f \in Fiber
  BY PoolFacts, ProgramAssumption DEF ProgramInv, SchedInv, OwnTypesOK
<1>3. \A g \in Fiber \ {f} : context'[g] = context[g]
  BY <1>1, <1>2
<1>4. /\ \A g \in Fiber \ {f} : Suspended(g) => Suspended(g)'
      /\ f # runningFiber' /\ f \notin ReadySet' /\ loop' \in {"fiber", "reap"}
      /\ mainPC = "run" /\ phase = "idle" /\ eventAwaiterQueue = <<>>
  BY <1>1, <1>3, Switched
<1>5. Awaiting' = Awaiting /\ \A fd \in FD : Awaiters(fd)' = Awaiters(fd)
  BY <1>1, PollKept DEF AwaitersKept, ProgramInv, SchedInv
<1>6. uncalled = <<>>
  BY RunningClient DEF Suspend
<1>7. Suspended(f)'
  BY <1>1, <1>2, <1>4 DEF Suspended, ReadySet
<1>8. StartOK'
  BY <1>1, <1>6 DEF ProgramInv, ProgramOK, StartOK
<1>9. ClientsOK'
  BY <1>1, <1>2, <1>4, <1>7, ProgramAssumption DEF ProgramInv, ProgramOK, ClientsOK, DeadSet
<1>10. CollectorOK'
  BY <1>1, <1>2 DEF ProgramInv, ProgramOK, CollectorOK, DeadSet
<1>11. AwaitsOK'
  BY <1>1, <1>5 DEF ProgramInv, ProgramOK, AwaitsOK, pollVars
<1>12. QuietOK'
  BY <1>1, <1>4 DEF ProgramInv, ProgramOK, QuietOK
<1> QED
  BY <1>8, <1>9, <1>10, <1>11, <1>12 DEF ProgramOK

(* A coroutine ends: that of a client or the collector's.                  *)
LEMMA EndProgram ==
  ASSUME ProgramInv, (\E f \in Client : EndFiber(f)) \/ CollectorEnd
  PROVE  ProgramOK'
<1>1. /\ IsRunning /\ uncalled = <<>> /\ ExecuteNext(readyFiberQueue)
      /\ context' = [context EXCEPT ![runningFiber] = "none"]
      /\ deadFiberQueue' = Append(deadFiberQueue, runningFiber)
      /\ UNCHANGED <<uncalled, jobs, jobCount, mainPC, eventfd, fibers, dueTime, buffer, pollVars>>
  <2>1. CASE \E g \in Client : EndFiber(g)
    BY <2>1, RunningClient DEF EndFiber, KillCurrentFiber, ClearContext, poolVars, timeVars, turnVars
  <2>2. CASE CollectorEnd
    BY <2>2, RunningCollector DEF CollectorEnd, Collecting, KillCurrentFiber, ClearContext, poolVars,
       awaitVars, timeVars, turnVars
  <2> QED
    BY <2>1, <2>2
<1>2. \/ /\ runningFiber \in Client /\ runningFiber # collector
         /\ fiberPC' = [fiberPC EXCEPT ![runningFiber] = "dead"]
         /\ UNCHANGED <<collector, collectorPC>>
      \/ /\ runningFiber = collector /\ runningFiber # NoFiber /\ collector' = NoFiber
         /\ collectorPC' = "none" /\ fiberPC' = fiberPC
  <2>1. ASSUME NEW g \in Client, EndFiber(g)
        PROVE  /\ runningFiber \in Client /\ runningFiber # collector
               /\ fiberPC' = [fiberPC EXCEPT ![runningFiber] = "dead"]
               /\ UNCHANGED <<collector, collectorPC>>
    BY <2>1, RunningClient DEF EndFiber, Goes
  <2>2. CASE CollectorEnd
    BY <2>2 DEF CollectorEnd, Collecting, awaitVars
  <2> QED
    BY <2>1, <2>2
<1>3. /\ fiberPC \in [Client -> AA!FiberPCs] /\ context \in [Fiber -> Contexts]
      /\ runningFiber \in fibers /\ fibers \subseteq Fiber /\ NoFiber \notin Fiber
      /\ deadFiberQueue \in Seq(fibers)
  BY <1>1, PoolFacts, RunningFiber DEF ProgramInv, SchedInv, OwnTypesOK
<1>4. \A g \in Fiber \ {runningFiber} : context'[g] = context[g]
  BY <1>1, <1>3
<1>5. /\ \A g \in Fiber \ {runningFiber} : Suspended(g) => Suspended(g)'
      /\ loop' \in {"fiber", "reap"} /\ phase = "idle" /\ eventAwaiterQueue = <<>>
      /\ mainPC = "run"
  BY <1>1, <1>4, Switched
<1>6. DeadSet' = DeadSet \cup {runningFiber}
  BY <1>1, <1>3, AppendQueue DEF DeadSet
<1>7. Awaiting' = Awaiting /\ \A fd \in FD : Awaiters(fd)' = Awaiters(fd)
  BY <1>1, PollKept DEF AwaitersKept, ProgramInv, SchedInv
<1>8. StartOK'
  BY <1>1 DEF ProgramInv, ProgramOK, StartOK
<1>9. ~Suspended(runningFiber)
  BY DEF Suspended
<1>10. ClientsOK'
  BY <1>1, <1>2, <1>3, <1>5, <1>6, <1>9, ProgramAssumption
     DEF ProgramInv, ProgramOK, ClientsOK, CollectorOK
<1>11. CollectorOK'
  <2>1. CASE collector' = collector /\ runningFiber # collector
    BY <1>1, <1>2, <1>3, <1>6, <2>1 DEF ProgramInv, ProgramOK, CollectorOK
  <2>2. CASE collector' = NoFiber /\ collectorPC' = "none"
    BY <1>3, <2>2, ProgramAssumption DEF CollectorOK, CollectorPCs
  <2> QED
    BY <1>2, <2>1, <2>2
<1>12. AwaitsOK'
  <2>1. runningFiber = collector /\ runningFiber # NoFiber => Awaiting = {}
    BY RunningCollector
  <2> QED
    BY <1>1, <1>2, <1>5, <1>7, <2>1 DEF ProgramInv, ProgramOK, AwaitsOK, pollVars
<1>13. QuietOK'
  BY <1>1, <1>5 DEF ProgramInv, ProgramOK, QuietOK
<1> QED
  BY <1>8, <1>10, <1>11, <1>12, <1>13 DEF ProgramOK

(* The collector waits without a timeout, so it is Never that enters the   *)
(* timer.                                                                  *)
LEMMA AwaitProgram ==
  ASSUME ProgramInv, CollectorAwait
  PROVE  ProgramOK'
<1>1. /\ runningFiber = collector /\ runningFiber # NoFiber /\ collectorPC \in {"watched", "resume"}
      /\ collectorPC' = "await" /\ ExecuteNext(readyFiberQueue)
      /\ context' = [context EXCEPT ![collector] = "await"]
      /\ Poll!AddEventAwaiter(collector, EventFD, "Readability")
      /\ Timers!AddItem(collector, -1)
      /\ UNCHANGED <<uncalled, collector, fiberPC, jobs, jobCount, mainPC, eventfd, fibers,
                     deadFiberQueue, buffer>>
  BY DEF CollectorAwait, Collecting, AwaitIOEvent, SaveContext, poolVars, awaitVars, heapVars, turnVars
<1>2. IsRunning /\ uncalled = <<>> /\ collector \in fibers /\ Awaiting = {}
  BY <1>1, RunningCollector
<1>3. /\ fiberPC \in [Client -> AA!FiberPCs] /\ context \in [Fiber -> Contexts]
      /\ collector \in Fiber /\ dueTime \in [Fiber -> Nat \cup {Timers!NotQueued}]
  BY <1>2, PoolFacts DEF ProgramInv, SchedInv, OwnTypesOK, DueTimesOK
<1>4. \A g \in Fiber \ {collector} : context'[g] = context[g]
  BY <1>1, <1>3
<1>5. /\ \A g \in Fiber \ {collector} : Suspended(g) => Suspended(g)'
      /\ loop' \in {"fiber", "reap"} /\ phase = "idle" /\ eventAwaiterQueue = <<>>
      /\ mainPC = "run" /\ ~Suspended(collector)
  BY <1>1, <1>2, <1>4, Switched DEF Suspended
<1>6. /\ Awaiting' = {collector} /\ phase' = "idle"
      /\ \A fd \in FD \ {EventFD} : Awaiters(fd)' = Awaiters(fd)
  <2>1. "Readability" \in Poll!Event
    BY DEF Poll!Event
  <2> QED
    BY <1>1, <1>2, <1>3, <2>1, PollAdd, ProgramAssumption DEF ProgramInv, SchedInv
<1>7. eventAwaiterQueue' = eventAwaiterQueue
  BY <1>1 DEF Poll!AddEventAwaiter, Poll!waitVars
<1>8. \A f \in Fiber : dueTime'[f] \in {Timers!NotQueued, Never}
  <2>1. Timers!DueTime(-1) = Never
    BY DEF Timers!DueTime
  <2> QED
    BY <1>1, <1>3, <2>1 DEF Timers!AddItem, ProgramInv, ProgramOK, QuietOK
<1>9. StartOK'
  BY <1>1, <1>2 DEF ProgramInv, ProgramOK, StartOK
<1>10. ClientsOK'
  BY <1>1, <1>3, <1>5, ProgramAssumption DEF ProgramInv, ProgramOK, ClientsOK, DeadSet
<1>11. CollectorOK'
  BY <1>1, <1>2 DEF ProgramInv, ProgramOK, CollectorOK, DeadSet, CollectorPCs
<1>12. AwaitsOK'
  BY <1>1, <1>5, <1>6, <1>7 DEF ProgramInv, ProgramOK, AwaitsOK
<1>13. QuietOK'
  BY <1>1, <1>5, <1>8 DEF ProgramInv, ProgramOK, QuietOK
<1> QED
  BY <1>9, <1>10, <1>11, <1>12, <1>13 DEF ProgramOK

(* The fiber a client is started in is a new one: none has died yet.       *)
LEMMA StartClientProgram ==
  ASSUME ProgramInv, StartClient
  PROVE  ProgramOK'
<1>1. /\ uncalled # <<>> /\ uncalled' = Tail(uncalled) /\ CallCoroutine /\ IsRunning
      /\ UNCHANGED <<collector, collectorPC, fiberPC, jobs, jobCount, mainPC, eventfd, runningFiber,
                     dueTime, buffer, loop, pollVars>>
  BY DEF StartClient, CallCoroutine, poolVars, awaitVars, timeVars, loopVars, turnVars
<1>2. /\ uncalled \in Seq(Client) /\ IsInjective(uncalled) /\ ToSet(uncalled) \cap fibers = {}
      /\ collector = NoFiber /\ deadFiberQueue = <<>>
  BY <1>1 DEF ProgramInv, ProgramOK, StartOK
<1>3. /\ Head(uncalled) \in ToSet(uncalled) /\ Tail(uncalled) \in Seq(Client)
      /\ IsInjective(Tail(uncalled)) /\ ToSet(Tail(uncalled)) = ToSet(uncalled) \ {Head(uncalled)}
      /\ ToSet(uncalled) \subseteq Client
  BY <1>1, <1>2, HeadTailQueue, InSeq
<1>4. /\ Head(uncalled) \notin fibers
      /\ readyFiberQueue' = Append(readyFiberQueue, Head(uncalled))
  BY StartClientStep
<1>5. PICK d \in Fiber :
        /\ readyFiberQueue' = Append(readyFiberQueue, d)
        /\ ReadySet' = ReadySet \cup {d} /\ DeadSet' = DeadSet \ {d}
        /\ fibers' = fibers \cup {d}
        /\ \A f \in Fiber \ {d} : context'[f] = context[f]
        /\ deadFiberQueue' = <<>>
  BY <1>1, <1>2, CalledFiber
<1>6. Head(uncalled) \in fibers'
  BY DEF StartClient
<1>7. d = Head(uncalled)
  BY <1>4, <1>5, <1>6
<1>8. readyFiberQueue' # <<>>
  <2>1. readyFiberQueue \in Seq(Fiber)
    BY SeqMonotonic DEF ProgramInv, SchedInv, OwnTypesOK
  <2> QED
    BY <1>5, <2>1, AppendQueue
<1>9. DeadSet = {} /\ DeadSet' = {}
  BY <1>2, <1>5, EmptyQueue DEF DeadSet
<1>10. Awaiting' = Awaiting /\ \A fd \in FD : Awaiters(fd)' = Awaiters(fd)
  BY <1>1, PollKept DEF AwaitersKept, ProgramInv, SchedInv
<1>11. loop = "fiber" /\ mainPC = "run"
  BY <1>1 DEF IsRunning, ProgramInv, ProgramOK, QuietOK
<1>12. StartOK'
  BY <1>1, <1>2, <1>3, <1>5, <1>7, <1>11 DEF StartOK
<1>13. ClientsOK'
  <2> SUFFICES ASSUME NEW f \in Client
               PROVE  /\ fiberPC'[f] # "dead" => f \in ToSet(uncalled') \cup (fibers' \ DeadSet')
                      /\ fiberPC'[f] = "suspended" => Suspended(f)'
    BY DEF ClientsOK
  <2>1. fiberPC'[f] # "dead" => f \in ToSet(uncalled') \cup (fibers' \ DeadSet')
    BY <1>1, <1>3, <1>5, <1>7, <1>9 DEF ProgramInv, ProgramOK, ClientsOK
  <2>2. fiberPC'[f] = "suspended" => Suspended(f)'
    BY <1>1, <1>4, <1>5, <1>7, ProgramAssumption
       DEF ProgramInv, ProgramOK, ClientsOK, Suspended, ReadySet
  <2> QED
    BY <2>1, <2>2
<1>14. CollectorOK'
  BY <1>1, <1>2 DEF ProgramInv, ProgramOK, CollectorOK
<1>15. AwaitsOK'
  BY <1>1, <1>10 DEF ProgramInv, ProgramOK, AwaitsOK, pollVars
<1>16. QuietOK'
  BY <1>1, <1>11 DEF ProgramInv, ProgramOK, QuietOK
<1> QED
  BY <1>12, <1>13, <1>14, <1>15, <1>16 DEF ProgramOK

(* The fiber callCoroutine takes for the collector is that of nobody: no   *)
(* client that has not ended has a fiber that is free or dead.             *)
LEMMA CountProgram ==
  ASSUME ProgramInv, NEW f \in Client, UnlockAndCount(f)
  PROVE  ProgramOK'
<1>1. /\ runningFiber = f /\ f \in fibers /\ f # collector /\ IsRunning
      /\ uncalled = <<>> /\ uncalled' = <<>>
      /\ fiberPC[f] = "unlock0" /\ fiberPC' = [fiberPC EXCEPT ![f] = "suspend"]
      /\ jobCount' = jobCount + 1 /\ UNCHANGED <<jobs, mainPC, eventfd>>
      /\ jobCount \in Nat /\ fiberPC \in [Client -> AA!FiberPCs]
      /\ collectorPC \notin {"resume", "unwatched"}
  BY RunningClient, PoolFacts DEF UnlockAndCount, Goes
<1>2. /\ loop = "fiber" /\ mainPC = "run" /\ phase = "idle"
  BY <1>1, RunningFiber DEF IsRunning, ProgramInv, ProgramOK, QuietOK
<1>3. CASE jobCount # 0
  <2>1. UNCHANGED <<vars, collector, collectorPC>>
    BY <1>1, <1>3 DEF UnlockAndCount
  <2>2. collectorPC \in CollectorPCs
    BY DEF ProgramInv, ProgramOK, CollectorOK
  <2> QED
    BY <1>1, <1>2, <2>1, <2>2, ProgramStays
<1>4. CASE jobCount = 0
  <2>1. /\ CallCoroutine /\ collector' = Last(readyFiberQueue') /\ collectorPC' = "start"
        /\ UNCHANGED <<runningFiber, dueTime, buffer, loop, pollVars>>
    BY <1>1, <1>4 DEF UnlockAndCount, CallCoroutine, timeVars, loopVars, turnVars
  <2>2. collector = NoFiber /\ collectorPC = "none"
    BY <1>1, <1>4, PoolFacts DEF ProgramInv, ProgramOK, CollectorOK
  <2>3. PICK c \in Fiber :
          /\ c \notin fibers \/ c \in DeadSet
          /\ c # runningFiber /\ c # NoFiber
          /\ ReadySet' = ReadySet \cup {c} /\ DeadSet' = DeadSet \ {c}
          /\ fibers' = fibers \cup {c}
          /\ \A g \in Fiber \ {c} : context'[g] = context[g]
          /\ Last(readyFiberQueue') = c
    BY <2>1, CalledFiber
  <2>4. c \in Client => fiberPC[c] = "dead"
    <3>1. ToSet(uncalled) = {}
      BY <1>1, EmptyQueue
    <3> QED
      BY <2>3, <3>1 DEF ProgramInv, ProgramOK, ClientsOK
  <2>5. Awaiting' = Awaiting /\ \A fd \in FD : Awaiters(fd)' = Awaiters(fd)
    BY <2>1, PollKept DEF AwaitersKept, ProgramInv, SchedInv
  <2>6. StartOK'
    <3>1. <<>> \in Seq(Client) /\ IsInjective(<<>>) /\ ToSet(<<>>) = {}
      BY EmptyQueue
    <3> QED
      BY <1>1, <3>1 DEF StartOK
  <2>7. ClientsOK'
    <3> SUFFICES ASSUME NEW g \in Client
                 PROVE  /\ fiberPC'[g] # "dead" => g \in ToSet(uncalled') \cup (fibers' \ DeadSet')
                        /\ fiberPC'[g] = "suspended" => Suspended(g)'
      BY DEF ClientsOK
    <3>1. CASE g = c
      BY <1>1, <2>3, <2>4, <3>1
    <3>2. CASE g # c
      <4>1. /\ fiberPC'[g] # "dead" => fiberPC[g] # "dead"
            /\ fiberPC'[g] = "suspended" => fiberPC[g] = "suspended"
            /\ g \in Fiber
        BY <1>1, ProgramAssumption
      <4>2. fiberPC'[g] # "dead" => g \in ToSet(uncalled') \cup (fibers' \ DeadSet')
        BY <1>1, <2>3, <4>1 DEF ProgramInv, ProgramOK, ClientsOK
      <4>3. fiberPC'[g] = "suspended" => Suspended(g)'
        BY <2>1, <2>3, <3>2, <4>1 DEF ProgramInv, ProgramOK, ClientsOK, Suspended, ReadySet
      <4> QED
        BY <4>2, <4>3
    <3> QED
      BY <3>1, <3>2
  <2>8. CollectorOK'
    BY <1>1, <2>1, <2>3, <2>4 DEF CollectorOK, CollectorPCs
  <2>9. AwaitsOK'
    BY <1>1, <2>1, <2>2, <2>5 DEF ProgramInv, ProgramOK, AwaitsOK, pollVars
  <2>10. QuietOK'
    BY <1>1, <1>2, <2>1 DEF ProgramInv, ProgramOK, QuietOK
  <2> QED
    BY <2>6, <2>7, <2>8, <2>9, <2>10 DEF ProgramOK
<1> QED
  BY <1>3, <1>4

(* Steps that leave the fibers where they are.                             *)
LEMMA FibersStay ==
  ASSUME ProgramInv,
         UNCHANGED <<fibers, deadFiberQueue, runningFiber, readyFiberQueue, context, buffer>>,
         UNCHANGED <<collector, uncalled, fiberPC, jobs, jobCount, mainPC, eventfd>>,
         loop' = loop \/ (loop \in {"timers", "due"} /\ loop' \in {"due", "top"}),
         collectorPC' \in CollectorPCs,
         collectorPC = "none" <=> collectorPC' = "none",
         collectorPC' = "unwatched" => jobs = <<>> /\ jobCount = 0,
         \A f \in Fiber : dueTime'[f] \in {Timers!NotQueued, Never},
         AwaitsOK'
  PROVE  ProgramOK'
<1>1. StartOK'
  BY DEF ProgramInv, ProgramOK, StartOK
<1>2. ClientsOK'
  BY DEF ProgramInv, ProgramOK, ClientsOK, Suspended, DeadSet
<1>3. CollectorOK'
  BY DEF ProgramInv, ProgramOK, CollectorOK, DeadSet
<1>4. QuietOK'
  BY DEF ProgramInv, ProgramOK, QuietOK
<1> QED
  BY <1>1, <1>2, <1>3, <1>4 DEF ProgramOK

(* What the collector does with the descriptor, and how it resumes.        *)
LEMMA WatchProgram ==
  ASSUME ProgramInv, CollectorWatch
  PROVE  ProgramOK'
<1>1. /\ runningFiber = collector /\ runningFiber # NoFiber
      /\ collectorPC = "start" /\ collectorPC' = "watched"
      /\ Poll!CreateWatcher(EventFD)
      /\ UNCHANGED <<fibers, deadFiberQueue, runningFiber, readyFiberQueue, context, buffer>>
      /\ UNCHANGED <<collector, uncalled, fiberPC, jobs, jobCount, mainPC, eventfd, loop, dueTime>>
  BY DEF CollectorWatch, Collecting, WatchIO, poolVars, awaitVars, fiberVars, heapVars, readyVars,
     stateVars, timeVars, loopVars, turnVars
<1>2. AwaitersKept /\ phase' = "idle" /\ Awaiting = {}
  BY <1>1, PollCreate, RunningCollector, ProgramAssumption DEF ProgramInv, SchedInv
<1>3. eventAwaiterQueue' = eventAwaiterQueue
  BY <1>1 DEF Poll!CreateWatcher, Poll!waitVars
<1>4. AwaitsOK'
  BY <1>1, <1>2, <1>3 DEF ProgramInv, ProgramOK, AwaitsOK, AwaitersKept
<1> QED
  BY <1>1, <1>4, FibersStay DEF ProgramInv, ProgramOK, QuietOK, CollectorPCs

LEMMA UnwatchProgram ==
  ASSUME ProgramInv, CollectorUnwatch
  PROVE  ProgramOK'
<1>1. /\ runningFiber = collector /\ runningFiber # NoFiber
      /\ collectorPC = "resume" /\ collectorPC' = "unwatched" /\ jobs = <<>> /\ jobCount = 0
      /\ Poll!DestroyWatcher(EventFD)
      /\ Timers!RemoveItems(ToSet(Poll!AwaitersOf(EventFD)))
      /\ UNCHANGED <<fibers, deadFiberQueue, runningFiber, context, buffer>>
      /\ UNCHANGED <<collector, uncalled, fiberPC, jobs, jobCount, mainPC, eventfd, loop>>
  BY DEF CollectorUnwatch, Collecting, UnwatchIO, Release, poolVars, awaitVars, heapVars,
     loopVars, turnVars
<1>2. UNCHANGED Pool!vars /\ readyFiberQueue' = readyFiberQueue
  <2>1. /\ Awaiting = {}
    BY <1>1, RunningCollector
  <2>2. Poll!AwaitersOf(EventFD) = <<>>
    BY <2>1, PollView, AwaitingIs, EmptyQueue, ProgramAssumption DEF Awaiters, ProgramInv, SchedInv
  <2>3. readyFiberQueue' = readyFiberQueue \o <<>> /\ readyFiberQueue \in Seq(fibers)
    BY <2>2 DEF CollectorUnwatch, UnwatchIO, Release, ProgramInv, SchedInv, OwnTypesOK
  <2> QED
    BY <2>3, JoinQueues, QuietSteps
<1>3. /\ Awaiting' = {} /\ phase' = "idle" /\ \A x \in FD : Awaiters(x)' \subseteq Awaiters(x)
      /\ UNCHANGED eventAwaiterQueue
  <2>1. Awaiting = {}
    BY <1>1, RunningCollector
  <2> QED
    BY <1>1, <2>1, PollDestroy, ProgramAssumption
       DEF ProgramInv, SchedInv, Poll!DestroyWatcher, Poll!waitVars
<1>4. AwaitsOK'
  BY <1>1, <1>3 DEF ProgramInv, ProgramOK, AwaitsOK
<1>5. \A f \in Fiber : dueTime'[f] \in {Timers!NotQueued, Never}
  BY <1>1 DEF Timers!RemoveItems, ProgramInv, ProgramOK, QuietOK
<1> QED
  BY <1>1, <1>2, <1>4, <1>5, FibersStay DEF CollectorPCs

LEMMA ResumeProgram ==
  ASSUME ProgramInv, Resume
  PROVE  ProgramOK'
<1>1. /\ runningFiber = collector /\ runningFiber # NoFiber
      /\ collectorPC = "resume" /\ collectorPC' = "resume" /\ jobs # <<>>
      /\ fiberPC' = [fiberPC EXCEPT ![Head(jobs)] = "body"]
      /\ readyFiberQueue' = Append(readyFiberQueue, Head(jobs))
      /\ UNCHANGED <<fibers, deadFiberQueue, runningFiber, context, buffer, loop, dueTime, pollVars>>
      /\ UNCHANGED <<collector, uncalled, mainPC, eventfd>>
  BY DEF Resume, Collecting, ResumeFiber, Enqueued, poolVars, heapVars, stateVars, timeVars,
     loopVars, turnVars
<1>2. PICK h : h = Head(jobs)
  OBVIOUS
<1>3. h \in Client /\ fiberPC[h] = "suspended" /\ h # collector
  <2>1. h \in Client /\ fiberPC[h] = "suspended"
    BY <1>1, <1>2, PoolFacts, HeadTailQueue
  <2> QED
    BY <2>1 DEF ProgramInv, ProgramOK, CollectorOK
<1>4. ReadySet' = ReadySet \cup {h}
  <2>1. readyFiberQueue \in Seq(Fiber) /\ h \in Fiber
    BY <1>3, SeqMonotonic, ProgramAssumption DEF ProgramInv, SchedInv, OwnTypesOK
  <2> QED
    BY <1>1, <1>2, <2>1, AppendQueue DEF ReadySet
<1>5. Awaiting' = Awaiting /\ \A fd \in FD : Awaiters(fd)' = Awaiters(fd)
  BY <1>1, PollKept DEF AwaitersKept, ProgramInv, SchedInv
<1>6. uncalled = <<>> /\ IsRunning /\ mainPC = "run"
  BY <1>1, RunningCollector
<1>7. fiberPC \in [Client -> AA!FiberPCs]
  BY PoolFacts
<1>8. StartOK'
  BY <1>1, <1>6 DEF ProgramInv, ProgramOK, StartOK
<1>9. ClientsOK'
  <2> SUFFICES ASSUME NEW g \in Client
               PROVE  /\ fiberPC'[g] # "dead" => g \in ToSet(uncalled') \cup (fibers' \ DeadSet')
                      /\ fiberPC'[g] = "suspended" => Suspended(g)'
    BY DEF ClientsOK
  <2>1. /\ fiberPC'[g] # "dead" => fiberPC[g] # "dead"
        /\ fiberPC'[g] = "suspended" => fiberPC[g] = "suspended" /\ g # h
    BY <1>1, <1>2, <1>3, <1>7
  <2>2. fiberPC'[g] # "dead" => g \in ToSet(uncalled') \cup (fibers' \ DeadSet')
    BY <1>1, <2>1 DEF ProgramInv, ProgramOK, ClientsOK, DeadSet
  <2>3. fiberPC'[g] = "suspended" => Suspended(g)'
    BY <1>1, <1>4, <2>1 DEF ProgramInv, ProgramOK, ClientsOK, Suspended, ReadySet
  <2> QED
    BY <2>2, <2>3
<1>10. CollectorOK'
  BY <1>1, <1>2, <1>3, <1>7 DEF ProgramInv, ProgramOK, CollectorOK, DeadSet
<1>11. AwaitsOK'
  BY <1>1, <1>5 DEF ProgramInv, ProgramOK, AwaitsOK, pollVars
<1>12. QuietOK'
  BY <1>1, <1>6 DEF ProgramInv, ProgramOK, QuietOK, IsRunning
<1> QED
  BY <1>8, <1>9, <1>10, <1>11, <1>12 DEF ProgramOK

(* epoll_wait reports the eventfd only when its counter is not 0.          *)
LEMMA EpollProgram ==
  ASSUME ProgramInv, EpollWait \/ Interrupt
  PROVE  ProgramOK'
<1>1. /\ UNCHANGED <<fibers, deadFiberQueue, runningFiber, readyFiberQueue, context, buffer>>
      /\ UNCHANGED <<collector, collectorPC, uncalled, fiberPC, jobs, jobCount, mainPC, eventfd>>
      /\ UNCHANGED <<loop, dueTime>>
  BY DEF EpollWait, Interrupt, FinishWait, InterruptWait, poolVars, awaitVars, fiberVars, heapVars,
     readyVars, stateVars, timeVars, loopVars, turnVars
<1>2. AwaitersKept /\ UNCHANGED eventAwaiterQueue
  BY PollQuiet DEF ProgramInv, SchedInv, EpollWait, Interrupt, FinishWait, InterruptWait,
     Poll!EpollWait, Poll!Interrupted
<1>3. phase' = "handling" /\ revents'[EventFD] # {} => eventfd > 0
  <2>1. CASE EpollWait
    <3>1. eventfd = 0 => revents'[EventFD] = {}
      BY <2>1 DEF EpollWait
    <3> QED
      BY <3>1, PoolFacts
  <2>2. CASE Interrupt
    BY <2>2 DEF Interrupt, InterruptWait, Poll!Interrupted
  <2> QED
    BY <2>1, <2>2
<1>4. AwaitsOK'
  BY <1>1, <1>2, <1>3 DEF ProgramInv, ProgramOK, AwaitsOK, AwaitersKept
<1> QED
  BY <1>1, <1>4, FibersStay DEF ProgramInv, ProgramOK, CollectorOK, QuietOK

(* The loop of run(), phase by phase.                                      *)
LEMMA DispatchProgram ==
  ASSUME ProgramInv, RunLoop, Dispatch
  PROVE  ProgramOK'
<1>1. /\ loop = "top" /\ phase = "idle"
      /\ UNCHANGED <<fibers, deadFiberQueue, context, buffer, dueTime, pollVars>>
      /\ UNCHANGED <<collector, uncalled, fiberPC, jobs, jobCount, mainPC, eventfd>>
      /\ readyFiberQueue \in Seq(fibers) /\ IsInjective(readyFiberQueue)
      /\ fibers \subseteq Fiber /\ NoFiber \notin Fiber
  BY PoolFacts DEF RunLoop, Dispatch, ProgramInv, SchedInv, LoopOK, QueuesOK, OwnTypesOK, heapVars,
     stateVars, timeVars, turnVars, poolVars, awaitVars
<1>2. collectorPC' = collectorPC
  BY <1>1 DEF RunLoop
<1>3. /\ ReadySet' \subseteq ReadySet /\ runningFiber' \in ReadySet \cup {NoFiber, runningFiber}
      /\ loop' = IF readyFiberQueue = <<>> THEN "reap" ELSE "fiber"
  <2>1. CASE readyFiberQueue = <<>>
    BY <1>1, <2>1 DEF Dispatch, readyVars, ReadySet
  <2>2. CASE readyFiberQueue # <<>>
    BY <1>1, <2>2, HeadTailQueue DEF Dispatch, ReadySet
  <2> QED
    BY <2>1, <2>2
<1>4. Awaiting' = Awaiting /\ \A fd \in FD : Awaiters(fd)' = Awaiters(fd)
  BY <1>1, PollKept DEF AwaitersKept, ProgramInv, SchedInv
<1>5. StartOK'
  BY <1>1, <1>3 DEF ProgramInv, ProgramOK, StartOK
<1>6. ClientsOK'
  BY <1>1, <1>3, ProgramAssumption
     DEF ProgramInv, ProgramOK, ClientsOK, Suspended, ReadySet, DeadSet
<1>7. CollectorOK'
  BY <1>1, <1>2 DEF ProgramInv, ProgramOK, CollectorOK, DeadSet
<1>8. AwaitsOK'
  BY <1>1, <1>2, <1>4 DEF ProgramInv, ProgramOK, AwaitsOK, pollVars
<1>9. QuietOK'
  BY <1>1, <1>3 DEF ProgramInv, ProgramOK, QuietOK
<1> QED
  BY <1>5, <1>6, <1>7, <1>8, <1>9 DEF ProgramOK

LEMMA DestroyProgram ==
  ASSUME ProgramInv, RunLoop, DestroyDeadFibers
  PROVE  ProgramOK'
<1>1. /\ loop = "reap" /\ loop' \in {"exited", "poll"} /\ phase = "idle" /\ readyFiberQueue = <<>>
      /\ fibers' = fibers \ DeadSet /\ deadFiberQueue' = <<>>
      /\ UNCHANGED <<runningFiber, readyFiberQueue, context, buffer, dueTime, pollVars>>
      /\ UNCHANGED <<collector, uncalled, fiberPC, jobs, jobCount, mainPC, eventfd>>
  BY DEF RunLoop, DestroyDeadFibers, ResetDeadQueue, ProgramInv, SchedInv, LoopOK, DeadSet, readyVars,
     stateVars, timeVars, turnVars, poolVars, awaitVars
<1>2. collectorPC' = collectorPC /\ uncalled = <<>> /\ mainPC = "run"
  BY <1>1 DEF RunLoop, ProgramInv, ProgramOK, StartOK, QuietOK
<1>3. DeadSet' = {} /\ ToSet(uncalled) = {}
  BY <1>1, <1>2, EmptyQueue DEF DeadSet
<1>4. Awaiting' = Awaiting /\ \A fd \in FD : Awaiters(fd)' = Awaiters(fd)
  BY <1>1, PollKept DEF AwaitersKept, ProgramInv, SchedInv
<1>5. StartOK'
  BY <1>1, <1>2 DEF ProgramInv, ProgramOK, StartOK
<1>6. ClientsOK'
  <2> SUFFICES ASSUME NEW g \in Client
               PROVE  /\ fiberPC'[g] # "dead" => g \in ToSet(uncalled') \cup (fibers' \ DeadSet')
                      /\ fiberPC'[g] = "suspended" => Suspended(g)'
    BY DEF ClientsOK
  <2>1. /\ fiberPC[g] # "dead" => g \in fibers \ DeadSet
        /\ fiberPC[g] = "suspended" => Suspended(g)
    BY <1>3 DEF ProgramInv, ProgramOK, ClientsOK
  <2>2. fiberPC[g] = "suspended" => fiberPC[g] # "dead"
    OBVIOUS
  <2>3. fiberPC'[g] # "dead" => g \in ToSet(uncalled') \cup (fibers' \ DeadSet')
    BY <1>1, <1>3, <2>1
  <2>4. fiberPC'[g] = "suspended" => Suspended(g)'
    BY <1>1, <2>1, <2>2 DEF Suspended
  <2> QED
    BY <2>3, <2>4
<1>7. CollectorOK'
  BY <1>1, <1>2, <1>3 DEF ProgramInv, ProgramOK, CollectorOK
<1>8. AwaitsOK'
  BY <1>1, <1>2, <1>4 DEF ProgramInv, ProgramOK, AwaitsOK, pollVars
<1>9. QuietOK'
  BY <1>1, <1>2 DEF ProgramInv, ProgramOK, QuietOK
<1> QED
  BY <1>5, <1>6, <1>7, <1>8, <1>9 DEF ProgramOK

LEMMA StartWaitProgram ==
  ASSUME ProgramInv, RunLoop, StartWait \/ EndOfTurn
  PROVE  ProgramOK'
<1>1. /\ UNCHANGED <<fibers, deadFiberQueue, runningFiber, readyFiberQueue, context, buffer>>
      /\ UNCHANGED <<collector, uncalled, fiberPC, jobs, jobCount, mainPC, eventfd>>
      /\ loop' = loop \/ (loop \in {"timers", "due"} /\ loop' \in {"due", "top"})
      /\ dueTime' = dueTime
  BY DEF RunLoop, StartWait, EndOfTurn, poolVars, awaitVars, fiberVars, heapVars, readyVars,
     stateVars, timeVars, turnVars
<1>2. AwaitersKept /\ UNCHANGED eventAwaiterQueue /\ phase' # "handling"
  <2>1. CASE StartWait
    BY <2>1, PollQuiet DEF StartWait, ProgramInv, SchedInv, Poll!FlushDirtyWatchers
  <2>2. CASE EndOfTurn
    BY <2>2, PollKept DEF EndOfTurn, ProgramInv, SchedInv, LoopOK, pollVars
  <2> QED
    BY <2>1, <2>2
<1>3. collectorPC' = collectorPC
  <2>1. CASE StartWait
    BY <2>1 DEF RunLoop, StartWait, Poll!FlushDirtyWatchers, Poll!Ready
  <2>2. CASE EndOfTurn
    BY <2>2 DEF RunLoop, EndOfTurn, ProgramInv, SchedInv, LoopOK
  <2> QED
    BY <2>1, <2>2
<1>4. AwaitsOK'
  BY <1>1, <1>2, <1>3 DEF ProgramInv, ProgramOK, AwaitsOK, AwaitersKept
<1> QED
  BY <1>1, <1>3, <1>4, FibersStay DEF ProgramInv, ProgramOK, CollectorOK, QuietOK

(* Only a report of the eventfd hands the collector over.                  *)
LEMMA HandleProgram ==
  ASSUME ProgramInv, RunLoop, NEW fd \in FD, HandleEvent(fd)
  PROVE  ProgramOK'
<1>1. /\ UNCHANGED <<fibers, deadFiberQueue, runningFiber, readyFiberQueue, context, buffer>>
      /\ UNCHANGED <<collector, uncalled, fiberPC, jobs, jobCount, mainPC, eventfd>>
      /\ UNCHANGED <<loop, dueTime>> /\ loop = "poll"
      /\ Poll!HandleError(fd) \/ Poll!HandleReadiness(fd)
  BY DEF RunLoop, HandleEvent, poolVars, awaitVars, fiberVars, heapVars, readyVars, stateVars,
     timeVars, loopVars, turnVars
<1>2. /\ phase = "handling" /\ phase' = "handling" /\ revents[fd] # {}
      /\ revents' = [revents EXCEPT ![fd] = {}]
  BY <1>1 DEF Poll!HandleError, Poll!HandleReadiness
<1>3. collectorPC' = collectorPC
  BY <1>2 DEF RunLoop
<1>4. /\ PollOK' /\ Awaiting' = Awaiting
      /\ \A x \in FD : Awaiters(x)' \subseteq Awaiters(x)
  BY <1>1, PollHandle DEF ProgramInv, SchedInv
<1>5. eventAwaiterQueue' # <<>> => eventfd > 0
  <2>1. CASE fd = EventFD
    BY <1>2, <2>1 DEF ProgramInv, ProgramOK, AwaitsOK
  <2>2. CASE fd # EventFD
    <3>1. PP!HandsOver(fd, PP!Concerned(fd))
      BY <1>1, SameSteps, MaxEventsOK, PP!HandleErrorLinks, PP!HandleReadinessLinks
         DEF PollOK, ProgramInv, SchedInv
    <3>2. PICK S : PP!HandsOver(fd, S)
      BY <3>1
    <3>3. S \subseteq Awaiters(fd) /\ ToSet(eventAwaiterQueue') = ToSet(eventAwaiterQueue) \cup S
      BY <3>2, SameAwaiters, SameSets DEF PP!HandsOver
    <3>4. Awaiters(fd) = {}
      BY <2>2 DEF ProgramInv, ProgramOK, AwaitsOK
    <3>5. eventAwaiterQueue' \in Seq(Fiber)
      BY <1>4 DEF PollOK, PP!Inv, PP!TypeOK
    <3>6. eventAwaiterQueue = <<>> => eventAwaiterQueue' = <<>>
      BY <3>3, <3>4, <3>5, EmptyQueue
    <3> QED
      BY <3>6 DEF ProgramInv, ProgramOK, AwaitsOK
  <2> QED
    BY <2>1, <2>2
<1>6. revents'[EventFD] # {} => revents[EventFD] # {}
  <2>1. revents \in [FD -> SUBSET Poll!Revent]
    BY PollView DEF ProgramInv, SchedInv, Poll!TypeOK
  <2> QED
    BY <1>2, <2>1, ProgramAssumption
<1>7. AwaitsOK'
  BY <1>1, <1>2, <1>3, <1>4, <1>5, <1>6 DEF ProgramInv, ProgramOK, AwaitsOK
<1> QED
  BY <1>1, <1>3, <1>7, FibersStay DEF ProgramInv, ProgramOK, CollectorOK, QuietOK

LEMMA WakeProgram ==
  ASSUME ProgramInv, RunLoop, WakeAwaiters
  PROVE  ProgramOK'
<1>1. /\ loop = "poll" /\ loop' = "timers" /\ Poll!EndWait /\ Release(eventAwaiterQueue)
      /\ phase = "handling" /\ phase' = "idle" /\ eventAwaiterQueue' = <<>>
      /\ UNCHANGED <<fibers, deadFiberQueue, runningFiber, context, buffer>>
      /\ UNCHANGED <<collector, uncalled, fiberPC, jobs, jobCount, mainPC, eventfd>>
  BY DEF RunLoop, WakeAwaiters, Poll!EndWait, poolVars, awaitVars, heapVars, stateVars, turnVars
<1>2. uncalled = <<>> /\ mainPC = "run"
  BY <1>1 DEF ProgramInv, ProgramOK, StartOK, QuietOK
<1>3. /\ eventAwaiterQueue \in Seq(Fiber) /\ IsInjective(eventAwaiterQueue)
      /\ ToSet(eventAwaiterQueue) \subseteq Awaiting /\ Awaiting \subseteq {collector}
  BY PollView, AwaitingIs DEF ProgramInv, SchedInv, ProgramOK, AwaitsOK
<1>4. ReadySet' = ReadySet \cup ToSet(eventAwaiterQueue)
  BY <1>1, <1>3, ReleaseSets DEF ProgramInv
<1>5. /\ Awaiting' = Awaiting \ ToSet(eventAwaiterQueue)
      /\ \A fd \in FD : Awaiters(fd)' = Awaiters(fd)
  BY <1>1, PollEnd DEF ProgramInv, SchedInv
<1>6. \/ collector \notin ToSet(eventAwaiterQueue) /\ collectorPC' = collectorPC
      \/ /\ collector \in ToSet(eventAwaiterQueue) /\ collectorPC' = "lock1"
         /\ collectorPC = "await" /\ Awaiting' = {}
  BY <1>1, <1>3, <1>5 DEF RunLoop, ProgramInv, ProgramOK, AwaitsOK
<1>7. \A f \in Fiber : dueTime'[f] \in {Timers!NotQueued, Never}
  BY <1>1 DEF Release, Timers!RemoveItems, ProgramInv, ProgramOK, QuietOK
<1>8. StartOK'
  BY <1>1, <1>2 DEF ProgramInv, ProgramOK, StartOK
<1>9. ClientsOK'
  <2> SUFFICES ASSUME NEW g \in Client
               PROVE  /\ fiberPC'[g] # "dead" => g \in ToSet(uncalled') \cup (fibers' \ DeadSet')
                      /\ fiberPC'[g] = "suspended" => Suspended(g)'
    BY DEF ClientsOK
  <2>1. fiberPC'[g] # "dead" => g \in ToSet(uncalled') \cup (fibers' \ DeadSet')
    BY <1>1 DEF ProgramInv, ProgramOK, ClientsOK, DeadSet
  <2>2. fiberPC'[g] = "suspended" => g \notin ToSet(eventAwaiterQueue)
    BY <1>1, <1>3 DEF ProgramInv, ProgramOK, CollectorOK
  <2>3. fiberPC'[g] = "suspended" => Suspended(g)'
    BY <1>1, <1>4, <2>2 DEF ProgramInv, ProgramOK, ClientsOK, Suspended, ReadySet
  <2> QED
    BY <2>1, <2>3
<1>10. CollectorOK'
  BY <1>1, <1>6 DEF ProgramInv, ProgramOK, CollectorOK, DeadSet, CollectorPCs
<1>11. AwaitsOK'
  BY <1>1, <1>3, <1>5, <1>6 DEF ProgramInv, ProgramOK, AwaitsOK
<1>12. QuietOK'
  BY <1>1, <1>2, <1>7 DEF ProgramInv, ProgramOK, QuietOK
<1> QED
  BY <1>8, <1>9, <1>10, <1>11, <1>12 DEF ProgramOK

(* Nothing in the timer is due: the collector waits without a timeout.     *)
LEMMA DueProgram ==
  ASSUME ProgramInv, RunLoop, RemoveDueItems
  PROVE  ProgramOK'
<1>1. PICK b \in Timers!DueBatches : buffer' = b /\ Timers!RemoveItems(ToSet(b))
  BY DEF RemoveDueItems
<1>2. /\ loop = "timers" /\ loop' = "due" /\ phase = "idle" /\ buffer = <<>>
      /\ UNCHANGED <<fibers, deadFiberQueue, runningFiber, readyFiberQueue, context, pollVars>>
      /\ UNCHANGED <<collector, uncalled, fiberPC, jobs, jobCount, mainPC, eventfd>>
  BY DEF RunLoop, RemoveDueItems, ProgramInv, SchedInv, LoopOK, ProgramOK, QuietOK, poolVars,
     awaitVars, fiberVars, heapVars, readyVars, stateVars
<1>3. collectorPC' = collectorPC
  BY <1>2 DEF RunLoop
<1>4. b = <<>>
  <2>1. b \in Seq(Timers!Queued)
    <3>1. Timers!Queued \subseteq fibers /\ IsFiniteSet(fibers) /\ DueTimesOK
      BY DEF ProgramInv, SchedInv, TimersOK, OwnTypesOK, Waiters
    <3> QED
      BY <3>1, FS_Subset, DueBatchSets
  <2>2. \A i \in Timers!Queued : ~(dueTime[i] <= now)
    BY ConstantsAssumption
       DEF ProgramInv, SchedInv, OwnTypesOK, ProgramOK, QuietOK, Timers!Queued, Timers!NotQueued
  <2>3. \A i \in DOMAIN b : b[i] \in Timers!Queued /\ dueTime[b[i]] <= now
    BY DEF Timers!DueBatches
  <2>4. DOMAIN b = {}
    BY <2>2, <2>3
  <2>5. ToSet(b) = {}
    BY <2>4 DEF ToSet
  <2> QED
    BY <2>1, <2>5, EmptyQueue
<1>5. \A f \in Fiber : dueTime'[f] \in {Timers!NotQueued, Never}
  BY <1>1 DEF Timers!RemoveItems, ProgramInv, ProgramOK, QuietOK
<1>6. Awaiting' = Awaiting /\ \A fd \in FD : Awaiters(fd)' = Awaiters(fd)
  BY <1>2, PollKept DEF AwaitersKept, ProgramInv, SchedInv
<1>7. AwaitsOK'
  BY <1>2, <1>3, <1>6 DEF ProgramInv, ProgramOK, AwaitsOK, pollVars
<1>8. buffer' = buffer
  BY <1>1, <1>2, <1>4
<1> QED
  BY <1>2, <1>3, <1>5, <1>7, <1>8, FibersStay DEF ProgramInv, ProgramOK, CollectorOK

LEMMA LoopProgram ==
  ASSUME ProgramInv, RunLoop
  PROVE  ProgramOK'
<1>1. ~WakeDueFiber
  BY DEF WakeDueFiber, ProgramInv, ProgramOK, QuietOK
<1> QED
  BY <1>1, DispatchProgram, DestroyProgram, StartWaitProgram, HandleProgram, WakeProgram, DueProgram
     DEF RunLoop, Loop

-----------------------------------------------------------------------------
(* ProgramInv is inductive.                                                *)
LEMMA ProgramNext == ASSUME ProgramInv, [PoolNext]_allVars PROVE ProgramInv'
<1>1. SchedInv' /\ AA!PoolInv'
  BY Kept
<1>2. ProgramOK'
  <2>1. ASSUME NEW f \in Client, UnlockAndCount(f) \/ Suspend(f) \/ EndFiber(f) PROVE ProgramOK'
    BY <2>1, CountProgram, SuspendProgram, EndProgram
  <2> QED
    BY <2>1, WorkerProgram, SubmitProgram, ShutdownProgram, CollectProgram, StartClientProgram,
       EndProgram, AwaitProgram, WatchProgram, UnwatchProgram, ResumeProgram, EpollProgram,
       LoopProgram
       DEF PoolNext, MainStep
<1> QED
  BY <1>1, <1>2 DEF ProgramInv

(* Before the first step: the clients are all to be called but the first.  *)
LEMMA FirstClients ==
  ASSUME NEW q \in [1..Cardinality(Client) -> Client], IsInjective(q)
  PROVE  /\ Head(q) \in Client /\ Tail(q) \in Seq(Client) /\ IsInjective(Tail(q))
         /\ ToSet(Tail(q)) = Client \ {Head(q)}
<1>1. Cardinality(Client) \in Nat /\ Cardinality(Client) # 0
  BY ProgramAssumption, FS_CardinalityType, FS_EmptySet
<1>2. q \in Seq(Client) /\ Len(q) = Cardinality(Client)
  BY <1>1, SeqDef, LenProperties
<1>3. q # <<>>
  BY <1>1, <1>2, EmptySeq
<1>4. ToSet(q) = Client
  BY <1>2, ProgramAssumption, QueueLength, InSeq, FS_Subset
<1> QED
  BY <1>2, <1>3, <1>4, HeadTailQueue

(* ProgramInv holds at first, in every step and so always.                 *)
LEMMA ProgramStarts == PoolInit => ProgramInv
<1> SUFFICES ASSUME PoolInit PROVE ProgramInv
  OBVIOUS
<1>1. /\ Init /\ collector = NoFiber /\ collectorPC = "none" /\ Pool!Init
      /\ \E q \in {q \in [1..Cardinality(Client) -> Client] : IsInjective(q)} :
           readyFiberQueue = <<Head(q)>> /\ uncalled = Tail(q)
  BY DEF PoolInit
<1>2. PICK q \in [1..Cardinality(Client) -> Client] :
        IsInjective(q) /\ readyFiberQueue = <<Head(q)>> /\ uncalled = Tail(q)
  BY <1>1
<1>3. SchedInv
  BY <1>1, InitSched
<1>4. AA!PoolInv
  <2>1. AA!Init
    BY <1>1 DEF Pool!Init, AA!Init, Pool!IsInjective, AA!IsInjective, Pool!Cardinality,
       AA!Cardinality, Pool!IsFiniteSet, AA!IsFiniteSet
  <2> QED
    BY <2>1, AssumptionsOK, AA!InitPool DEF AA!ThreadAssumption, AA!BoundAssumption
<1>5. /\ Head(q) \in Client /\ uncalled \in Seq(Client) /\ IsInjective(uncalled)
      /\ ToSet(uncalled) = Client \ {Head(q)}
  BY <1>2, FirstClients
<1>6. PICK f \in Fiber : fibers = {f} /\ readyFiberQueue = <<f>>
  BY <1>1 DEF Init
<1>7. f = Head(q)
  BY <1>2, <1>6
<1>8. /\ deadFiberQueue = <<>> /\ DeadSet = {} /\ loop = "top" /\ readyFiberQueue # <<>>
      /\ buffer = <<>> /\ phase = "idle" /\ eventAwaiterQueue = <<>> /\ mainPC = "run"
      /\ \A g \in Fiber : dueTime[g] = Timers!NotQueued
      /\ \A g \in Client : fiberPC[g] = "body"
  BY <1>1, <1>6, EmptyQueue DEF Init, Poll!Init, Pool!Init, DeadSet
<1>9. Awaiting = {} /\ \A fd \in FD : Awaiters(fd) = {}
  <2>1. PP!Init
    BY <1>1, SameStates DEF Init
  <2>2. \A fd \in FD : Awaiters(fd) = {}
    BY <2>1, MaxEventsOK, PP!InitLinks, SameAwaiters, SameSets, EmptyQueue
  <2> QED
    BY <1>8, <2>2, AwaitingIs, EmptyQueue
<1>10. StartOK
  BY <1>1, <1>5, <1>6, <1>7, <1>8 DEF StartOK
<1>11. ClientsOK
  BY <1>5, <1>6, <1>7, <1>8 DEF ClientsOK
<1>12. CollectorOK
  BY <1>1, ProgramAssumption, ConstantsAssumption DEF CollectorOK, CollectorPCs
<1>13. AwaitsOK
  BY <1>8, <1>9 DEF AwaitsOK
<1>14. QuietOK
  BY <1>8 DEF QuietOK
<1> QED
  BY <1>3, <1>4, <1>10, <1>11, <1>12, <1>13, <1>14 DEF ProgramInv, ProgramOK

LEMMA ProgramAlways == PoolSpec => []ProgramInv
<1>1. ProgramInv /\ [PoolNext]_allVars => ProgramInv'
  BY ProgramNext
<1> QED
  BY ProgramStarts, <1>1, PTL DEF PoolSpec

-----------------------------------------------------------------------------
(* The theorems.                                                           *)

(* A program that uses Async makes no step Scheduler does not allow, so    *)
(* all that is proved of Scheduler holds of it: Async.cxx has no need of   *)
(* more than callCoroutine, suspend, resume, watchIO and awaitIOEvent.     *)
THEOREM ProgramUsesScheduler == PoolSpec => Spec
<1>1. PoolInit => Init
  BY DEF PoolInit
<1>2. ProgramInv /\ [PoolNext]_allVars => [Next]_vars
  BY SchedulerSteps
<1> QED
  BY <1>1, <1>2, ProgramAlways, PTL DEF PoolSpec, Spec

(* Async on the scheduler is Async as its module says: the ready queue     *)
(* that module Async assumes is what run(), the poller and the fibers do.  *)
THEOREM AsyncImplemented == PoolSpec => ImplementsAsync
<1>1. PoolInit => Pool!Init
  BY DEF PoolInit
<1>2. ProgramInv /\ [PoolNext]_allVars => [Pool!Next]_(Pool!vars)
  BY AsyncSteps
<1> QED
  BY <1>1, <1>2, ProgramAlways, PTL DEF PoolSpec, ImplementsAsync, Pool!Spec

(* The fibers of finished jobs are suspended and in no ring when the       *)
(* collector resumes them, however early the workers are done.             *)
THEOREM JobsAreSuspendedCorrect == PoolSpec => []JobsAreSuspended
<1>1. ProgramInv => JobsAreSuspended
  BY PoolFacts DEF JobsAreSuspended, ProgramInv, ProgramOK, ClientsOK
<1> QED
  BY <1>1, ProgramAlways, PTL
=============================================================================
