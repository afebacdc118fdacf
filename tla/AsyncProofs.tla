----------------------------- MODULE AsyncProofs -----------------------------
(***************************************************************************)
(* Proofs about Async for any number of workers and finitely many clients. *)
(*                                                                         *)
(* The argument, first about the collector: jobQueue1 and the eventfd      *)
(* change only under mutex1; a worker puts its job in the queue before it  *)
(* writes, and the collector reads the counter before it empties the       *)
(* queue, without letting go of the mutex in between.  So a counter that   *)
(* is not 0 always means a job.  Then about the jobs: each is in one queue *)
(* or one hand at a time, from the call that links it to the collector     *)
(* that resumes its fiber.                                                 *)
(***************************************************************************)
EXTENDS Async, SequenceLemmas, FiniteSetTheorems

(* What the actions leave unchanged.                                       *)
USE DEF todoVars, doneVars, handVars, workerVars, callVars, readyVars,
        collectorVars, fiberVars, endVars, mainVars

(* As much of TypeOK as the argument needs.                                *)
QueueTypes ==
  /\ jobQueue0 \in Seq(Client \cup {NoFiber})
  /\ jobQueue1 \in Seq(Client \cup {NoFiber})
  /\ job \in [Worker -> Client \cup {NoFiber}]
  /\ workerPC \in [Worker -> WorkerPCs]
  /\ eventfd \in Nat
  /\ jobs \in Seq(Client \cup {NoFiber})

(* mutex1 is held exactly by who is in its critical section.               *)
Mutex1Held ==
  /\ \A w \in Worker : workerPC[w] \in {"write", "unlock1"} <=> mutex1 = w
  /\ collectorPC \in {"read", "split"} <=> mutex1 = MainThread

(* The collector is not preempted by another fiber on its way from the     *)
(* lock to the next wait.                                                  *)
CollectorRuns ==
  collectorPC \in {"read", "split", "resume"} => runningFiber = Collector

EventfdMeansJobs ==
  /\ eventfd > 0 => jobQueue1 # <<>>
  /\ \A w \in Worker : workerPC[w] \in {"write", "unlock1"} => jobQueue1 # <<>>

CollectorKnows ==
  /\ collectorPC \in {"lock1", "read"} => eventfd > 0
  /\ collectorPC = "split" => jobQueue1 # <<>> /\ eventfd = 0

Inv == QueueTypes /\ Mutex1Held /\ CollectorRuns /\ EventfdMeansJobs /\ CollectorKnows

-----------------------------------------------------------------------------
LEMMA InitInv == Init => Inv
<1> SUFFICES ASSUME Init PROVE Inv
  OBVIOUS
<1>1. QueueTypes
  BY EmptySeq DEF Init, QueueTypes, WorkerPCs
<1> QED
  BY <1>1, ThreadAssumption DEF Init, Inv, Mutex1Held, CollectorRuns,
     EventfdMeansJobs, CollectorKnows

(* The steps of a worker that touch neither jobQueue1, the eventfd nor     *)
(* mutex1.                                                                 *)
LEMMA WorkerLock0Inv ==
  ASSUME NEW w \in Worker, Inv,
         Lock0(w) \/ Wait(w) \/ Wakeup(w) \/ SpuriousWakeup(w) \/ TakeJob(w) \/ Quit(w) \/ RunTask(w)
  PROVE  Inv'
<1>1. /\ UNCHANGED <<jobQueue1, mutex1, eventfd, runningFiber, collectorPC, jobs>>
      /\ \A v \in Worker : workerPC[v] \in {"write", "unlock1"} => workerPC'[v] = workerPC[v]
      /\ \A v \in Worker : workerPC'[v] \in {"write", "unlock1"} => workerPC'[v] = workerPC[v]
      /\ workerPC' \in [Worker -> WorkerPCs]
  BY DEF Inv, QueueTypes, WorkerPCs, Goto, Lock0, Wait, Wakeup, SpuriousWakeup,
     TakeJob, TakeHead, Quit, RunTask
<1>2. /\ jobQueue0' \in Seq(Client \cup {NoFiber})
      /\ job' \in [Worker -> Client \cup {NoFiber}]
  <2>1. CASE TakeJob(w)
    <3>1. /\ Head(jobQueue0) \in Client \cup {NoFiber}
          /\ Tail(jobQueue0) \in Seq(Client \cup {NoFiber})
      BY <2>1, HeadTailProperties DEF TakeJob, TakeHead, Inv, QueueTypes
    <3> QED
      BY <2>1, <3>1 DEF TakeJob, TakeHead, Inv, QueueTypes
  <2>2. CASE ~TakeJob(w)
    BY <2>2 DEF Inv, QueueTypes, Lock0, Wait, Wakeup, SpuriousWakeup, Quit, RunTask
  <2> QED
    BY <2>1, <2>2
<1>3. QueueTypes'
  BY <1>1, <1>2 DEF Inv, QueueTypes
<1>4. Mutex1Held' /\ EventfdMeansJobs'
  BY <1>1 DEF Inv, Mutex1Held, EventfdMeansJobs
<1>5. CollectorRuns' /\ CollectorKnows'
  BY <1>1 DEF Inv, CollectorRuns, CollectorKnows
<1> QED
  BY <1>3, <1>4, <1>5 DEF Inv

LEMMA FinishJobInv ==
  ASSUME NEW w \in Worker, Inv, FinishJob(w)
  PROVE  Inv'
<1> USE DEF FinishJob, Goto, Lock1
<1>1. /\ jobQueue1' \in Seq(Client \cup {NoFiber})
      /\ jobQueue1' # <<>>
  <2>1. jobQueue1' = Append(jobQueue1, job[w])
    OBVIOUS
  <2>2. jobQueue1 \in Seq(Client \cup {NoFiber}) /\ job[w] \in Client \cup {NoFiber}
    BY DEF Inv, QueueTypes
  <2> HIDE DEF FinishJob
  <2> QED
    BY <2>1, <2>2, AppendProperties
<1>2. QueueTypes'
  BY <1>1 DEF Inv, QueueTypes, WorkerPCs
<1>3. Mutex1Held'
  BY ThreadAssumption DEF Inv, QueueTypes, Mutex1Held
<1>4. EventfdMeansJobs' /\ CollectorRuns' /\ CollectorKnows'
  BY <1>1 DEF Inv, QueueTypes, EventfdMeansJobs, CollectorRuns, CollectorKnows
<1> QED
  BY <1>2, <1>3, <1>4 DEF Inv

LEMMA WriteInv ==
  ASSUME NEW w \in Worker, Inv, Write(w)
  PROVE  Inv'
<1> USE DEF Write, Goto
<1>1. mutex1 = w /\ collectorPC \notin {"read", "split"}
  BY ThreadAssumption DEF Inv, Mutex1Held
<1>2. QueueTypes'
  BY DEF Inv, QueueTypes, WorkerPCs
<1>3. Mutex1Held'
  BY DEF Inv, QueueTypes, Mutex1Held
<1>4. EventfdMeansJobs'
  BY DEF Inv, QueueTypes, EventfdMeansJobs
<1>5. CollectorRuns' /\ CollectorKnows'
  BY <1>1 DEF Inv, QueueTypes, CollectorRuns, CollectorKnows
<1> QED
  BY <1>2, <1>3, <1>4, <1>5 DEF Inv

LEMMA Unlock1Inv ==
  ASSUME NEW w \in Worker, Inv, Unlock1(w)
  PROVE  Inv'
<1> USE DEF Unlock1, Goto
<1>1. mutex1 = w /\ collectorPC \notin {"read", "split"}
  BY ThreadAssumption DEF Inv, Mutex1Held
<1>2. QueueTypes'
  BY DEF Inv, QueueTypes, WorkerPCs
<1>3. Mutex1Held'
  BY <1>1, ThreadAssumption DEF Inv, QueueTypes, Mutex1Held
<1>4. EventfdMeansJobs' /\ CollectorRuns' /\ CollectorKnows'
  BY DEF Inv, QueueTypes, EventfdMeansJobs, CollectorRuns, CollectorKnows
<1> QED
  BY <1>2, <1>3, <1>4 DEF Inv

(* The steps that change nothing the invariant speaks of.                  *)
LEMMA QuietInv ==
  ASSUME Inv, UNCHANGED <<jobQueue0, jobQueue1, mutex1, eventfd, workerPC, job,
                          runningFiber, collectorPC, jobs>>
  PROVE  Inv'
BY DEF Inv, QueueTypes, Mutex1Held, CollectorRuns, EventfdMeansJobs, CollectorKnows

(* The steps of a fiber that is not in the critical section of mutex1.     *)
LEMMA FiberStepInv ==
  ASSUME Inv, UNCHANGED <<jobQueue1, mutex1, eventfd, workerPC, job>>,
         jobQueue0' \in Seq(Client \cup {NoFiber}), jobs' \in Seq(Client \cup {NoFiber}),
         collectorPC \notin {"read", "split"},
         collectorPC' \notin {"read", "split", "resume"},
         collectorPC' = "lock1" => eventfd > 0
  PROVE  Inv'
BY DEF Inv, QueueTypes, Mutex1Held, CollectorRuns, EventfdMeansJobs, CollectorKnows

LEMMA DispatchInv ==
  ASSUME Inv, Dispatch \/ Poll
  PROVE  Inv'
<1>1. collectorPC \notin {"read", "split", "resume"}
  BY ThreadAssumption DEF Dispatch, Poll, Idle, Inv, CollectorRuns
<1>2. collectorPC' = collectorPC \/ (collectorPC' = "lock1" /\ eventfd > 0)
  BY DEF Dispatch, Poll, IsReadable
<1>3. UNCHANGED <<jobQueue0, jobQueue1, mutex1, eventfd, workerPC, job, jobs>>
  BY DEF Dispatch, Poll
<1> QED
  BY <1>1, <1>2, <1>3, FiberStepInv DEF Inv, QueueTypes, CollectorKnows

LEMMA ClientInv ==
  ASSUME NEW f \in Client, Inv, ClientStep(f)
  PROVE  Inv'
<1>1. collectorPC \notin {"read", "split", "resume"}
  BY ThreadAssumption
  DEF ClientStep, AwaitTasks, Signal, UnlockAndCount, Suspend, EndFiber, Step, Inv, CollectorRuns
<1>2. collectorPC' = collectorPC \/ collectorPC' = "start"
  BY DEF ClientStep, AwaitTasks, Signal, UnlockAndCount, Suspend, EndFiber
<1>3. UNCHANGED <<jobQueue1, mutex1, eventfd, workerPC, job, jobs>>
  BY DEF ClientStep, AwaitTasks, Signal, UnlockAndCount, Suspend, EndFiber
<1>4. jobQueue0' \in Seq(Client \cup {NoFiber})
  <2>1. jobQueue0' = jobQueue0 \/ jobQueue0' = Append(jobQueue0, f)
    BY DEF ClientStep, AwaitTasks, Signal, UnlockAndCount, Suspend, EndFiber
  <2> QED
    BY <2>1, AppendProperties DEF Inv, QueueTypes
<1> QED
  BY <1>1, <1>2, <1>3, <1>4, FiberStepInv DEF Inv, QueueTypes, CollectorKnows

LEMMA CollectorInv ==
  ASSUME Inv, \/ StartCollector \/ CollectorLock1 \/ CollectorRead \/ CollectorSplit
              \/ ResumeFiber \/ CollectorEndTurn
  PROVE  Inv'
<1>1. CASE StartCollector
  <2>1. /\ collectorPC = "start" /\ collectorPC' = "await"
        /\ UNCHANGED <<jobQueue0, jobQueue1, mutex1, eventfd, workerPC, job, jobs>>
    BY <1>1 DEF StartCollector, Collecting
  <2> QED
    BY <2>1, FiberStepInv DEF Inv, QueueTypes
<1>2. CASE CollectorLock1
  <2> USE <1>2 DEF CollectorLock1, Collecting, Lock1
  <2>1. QueueTypes' /\ EventfdMeansJobs'
    BY DEF Inv, QueueTypes, EventfdMeansJobs
  <2>2. Mutex1Held'
    BY ThreadAssumption DEF Inv, Mutex1Held
  <2>3. CollectorRuns' /\ CollectorKnows'
    BY DEF Inv, CollectorRuns, CollectorKnows
  <2> QED
    BY <2>1, <2>2, <2>3 DEF Inv
<1>3. CASE CollectorRead
  <2> USE <1>3 DEF CollectorRead, Collecting
  <2>1. QueueTypes' /\ EventfdMeansJobs'
    BY DEF Inv, QueueTypes, EventfdMeansJobs
  <2>2. Mutex1Held'
    BY DEF Inv, Mutex1Held
  <2>3. CollectorRuns' /\ CollectorKnows'
    BY DEF Inv, CollectorRuns, CollectorKnows, EventfdMeansJobs
  <2> QED
    BY <2>1, <2>2, <2>3 DEF Inv
<1>4. CASE CollectorSplit
  <2> USE <1>4 DEF CollectorSplit, Collecting
  <2>1. mutex1 = MainThread /\ eventfd = 0
    BY DEF Inv, Mutex1Held, CollectorKnows
  <2>2. QueueTypes'
    BY EmptySeq DEF Inv, QueueTypes
  <2>3. Mutex1Held'
    BY <2>1, ThreadAssumption DEF Inv, Mutex1Held
  <2>4. EventfdMeansJobs'
    BY <2>1, ThreadAssumption DEF Inv, Mutex1Held, EventfdMeansJobs
  <2>5. CollectorRuns' /\ CollectorKnows'
    BY DEF Inv, CollectorRuns, CollectorKnows
  <2> QED
    BY <2>2, <2>3, <2>4, <2>5 DEF Inv
<1>5. CASE ResumeFiber
  <2>1. /\ collectorPC = "resume" /\ collectorPC' = "resume"
        /\ jobs # <<>> /\ jobs' = Tail(jobs)
        /\ UNCHANGED <<jobQueue0, jobQueue1, mutex1, eventfd, workerPC, job, runningFiber>>
    BY <1>5 DEF ResumeFiber, Collecting
  <2>2. jobs' \in Seq(Client \cup {NoFiber})
    BY <2>1, HeadTailProperties DEF Inv, QueueTypes
  <2> QED
    BY <2>1, <2>2 DEF Inv, QueueTypes, Mutex1Held, CollectorRuns, EventfdMeansJobs,
       CollectorKnows
<1>6. CASE CollectorEndTurn
  <2>1. /\ collectorPC = "resume" /\ collectorPC' \in {"await", "none"}
        /\ UNCHANGED <<jobQueue0, jobQueue1, mutex1, eventfd, workerPC, job, jobs>>
    BY <1>6 DEF CollectorEndTurn, Collecting, NextTurn
  <2> QED
    BY <2>1, FiberStepInv DEF Inv, QueueTypes
<1> QED
  BY <1>1, <1>2, <1>3, <1>4, <1>5, <1>6

-----------------------------------------------------------------------------
LEMMA NextInv == Inv /\ [Next]_vars => Inv'
<1> SUFFICES ASSUME Inv, [Next]_vars PROVE Inv'
  OBVIOUS
<1>1. ASSUME NEW w \in Worker, WorkerStep(w) \/ SpuriousWakeup(w) PROVE Inv'
  BY <1>1, WorkerLock0Inv, FinishJobInv, WriteInv, Unlock1Inv DEF WorkerStep
<1>2. CASE Dispatch \/ Poll
  BY <1>2, DispatchInv
<1>3. ASSUME NEW f \in Client, ClientStep(f) PROVE Inv'
  BY <1>3, ClientInv
<1>4. CASE \/ StartCollector \/ CollectorLock1 \/ CollectorRead \/ CollectorSplit
           \/ ResumeFiber \/ CollectorEndTurn
  BY <1>4, CollectorInv
<1>5. CASE \/ BeginShutdown \/ UnlockWorkIsDone \/ Broadcast \/ Join \/ Destroyed
           \/ UNCHANGED vars
  <2>1. UNCHANGED <<jobQueue0, jobQueue1, mutex1, eventfd, workerPC, job,
                    runningFiber, collectorPC, jobs>>
    BY <1>5 DEF BeginShutdown, UnlockWorkIsDone, Broadcast, Join, Destroyed, vars
  <2> QED
    BY <2>1, QuietInv
<1> QED
  BY <1>1, <1>2, <1>3, <1>4, <1>5 DEF Next, MainStep

LEMMA InvAlways == Spec => []Inv
<1> QED
  BY InitInv, NextInv, PTL DEF Spec

(* The collector never blocks in read() while it holds mutex1, which would *)
(* stop every thread of the pool and the scheduler with it.                *)
THEOREM ReadCorrect == Spec => []ReadNeverBlocks
<1>1. Inv => ReadNeverBlocks
  BY DEF Inv, CollectorKnows, ReadNeverBlocks
<1> QED
  BY <1>1, InvAlways, PTL

(* QUEUE_SPLIT is never made for the empty queue it would corrupt.         *)
THEOREM SplitCorrect == Spec => []SplitNonEmpty
<1>1. Inv => SplitNonEmpty
  BY DEF Inv, CollectorKnows, SplitNonEmpty
<1> QED
  BY <1>1, InvAlways, PTL

-----------------------------------------------------------------------------
(* The jobs.  A fiber in awaitTasks runs up to its suspension, and the     *)
(* collector splits and resumes only while it runs itself: then all fibers *)
(* whose jobs it has are suspended.                                        *)
Todo == ToSet(jobQueue0)
Done == ToSet(jobQueue1)
Back == ToSet(jobs)

(* Each job is in one place, and is there while its fiber is in the call.  *)
JobsApart ==
  /\ IsInjective(jobQueue0) /\ IsInjective(jobQueue1) /\ IsInjective(jobs)
  /\ Todo \cap Done = {} /\ Todo \cap Back = {} /\ Done \cap Back = {}
  /\ (Todo \cup Done \cup Back) \cap HeldJobs = {}
  /\ \A v, w \in Worker : job[v] = job[w] => v = w \/ job[v] = NoFiber
  /\ Todo \cup Done \cup Back \cup HeldJobs = InCall

HandsOK == \A w \in Worker : workerPC[w] = "run" <=> job[w] # NoFiber

CallerRuns ==
  \A f \in Client : fiberPC[f] \in {"signal", "unlock0", "suspend"} => runningFiber = f

BackWhileResuming == collectorPC # "resume" => jobs = <<>>

(* How much of a job is done says in which place it is.                    *)
WorkOK ==
  /\ \A w \in Worker : workerPC[w] = "run" => next[w] <= taskCount[job[w]] /\ executed[job[w]] = next[w]
  /\ \A f \in Todo : executed[f] = 0
  /\ \A f \in Done \cup Back : executed[f] = taskCount[f]

EndOK ==
  /\ workIsDone => mainPC # "run"
  /\ mainPC # "run" => collectorPC = "none" /\ \A f \in Client : fiberPC[f] = "dead"

PoolInv ==
  /\ Inv /\ TypeOK
  /\ JobsApart /\ HandsOK /\ CallerRuns /\ BackWhileResuming /\ WorkOK
  /\ CollectorServesJobs /\ EndOK

(* PoolInv in the parts a step disturbs.                                   *)
PoolTypes ==
  /\ jobQueue0 \in Seq(Client) /\ jobQueue1 \in Seq(Client)
  /\ mutex0 \in Thread /\ mutex1 \in Thread
  /\ sleepers \subseteq Worker /\ eventfd \in Nat
  /\ workerPC \in [Worker -> WorkerPCs]
  /\ job \in [Worker -> Client \cup {NoFiber}]
  /\ next \in [Worker -> Nat] /\ spurious \in 0..MaxSpurious

FiberTypes ==
  /\ runningFiber \in Client \cup {Collector, NoFiber}
  /\ readyFiberQueue \in Seq(Client \cup {Collector})
  /\ fiberPC \in [Client -> FiberPCs]
  /\ collectorPC \in CollectorPCs
  /\ jobs \in Seq(Client) /\ jobCount \in Nat

CallTypes ==
  /\ taskCount \in [Client -> Nat] /\ executed \in [Client -> Nat]
  /\ calls \in [Client -> 0..MaxCalls]

EndTypes == workIsDone \in BOOLEAN /\ mainPC \in MainPCs

LEMMA TypeParts == TypeOK <=> PoolTypes /\ FiberTypes /\ CallTypes /\ EndTypes
BY DEF TypeOK, PoolTypes, FiberTypes, CallTypes, EndTypes

LEMMA InitPool == Init => PoolInv
<1> SUFFICES ASSUME Init PROVE PoolInv
  OBVIOUS
<1>1. PoolTypes
  BY EmptyQueue, BoundAssumption DEF Init, PoolTypes, Thread, WorkerPCs
<1>2. FiberTypes
  <2>1. readyFiberQueue \in Seq(Client \cup {Collector})
    <3>1. Cardinality(Client) \in Nat
      BY BoundAssumption, FS_CardinalityType
    <3>2. readyFiberQueue \in [1..Cardinality(Client) -> Client \cup {Collector}]
      BY DEF Init
    <3> QED
      BY <3>1, <3>2, SeqDef
  <2> QED
    BY <2>1, EmptyQueue DEF Init, FiberTypes, FiberPCs, CollectorPCs
<1>3. CallTypes /\ EndTypes
  <2>1. CallTypes
    BY BoundAssumption DEF Init, CallTypes
  <2>2. workIsDone = FALSE /\ mainPC = "run"
    BY DEF Init
  <2> QED
    BY <2>1, <2>2 DEF EndTypes, MainPCs
<1>4. /\ Todo = {} /\ Done = {} /\ Back = {} /\ HeldJobs = {} /\ InCall = {}
      /\ IsInjective(jobQueue0) /\ IsInjective(jobQueue1) /\ IsInjective(jobs)
  BY EmptyQueue DEF Init, Todo, Done, Back, HeldJobs, InCall
<1>5. JobsApart
  BY <1>4 DEF Init, JobsApart
<1>6. HandsOK /\ CallerRuns /\ BackWhileResuming /\ EndOK
  BY DEF Init, HandsOK, CallerRuns, BackWhileResuming, EndOK
<1>7. WorkOK
  BY <1>4 DEF Init, WorkOK
<1>8. CollectorServesJobs
  <2>1. /\ jobCount = 0 /\ collectorPC = "none"
        /\ {f \in Client : fiberPC[f] \in {"suspend", "suspended"}} = {}
    BY DEF Init
  <2>2. Cardinality({}) = 0
    BY FS_EmptySet
  <2> QED
    BY <2>1, <2>2 DEF CollectorServesJobs
<1>9. Inv
  BY InitInv
<1> QED
  BY <1>1, <1>2, <1>3, <1>5, <1>6, <1>7, <1>8, <1>9, TypeParts DEF PoolInv

-----------------------------------------------------------------------------
(* Steps that move no job.                                                 *)

LEMMA JobsStay ==
  ASSUME PoolInv, UNCHANGED <<jobQueue0, jobQueue1, jobs, job>>, InCall' = InCall
  PROVE  JobsApart'
<1>1. Todo' = Todo /\ Done' = Done /\ Back' = Back /\ HeldJobs' = HeldJobs
  BY DEF Todo, Done, Back, HeldJobs
<1> QED
  BY <1>1 DEF PoolInv, JobsApart

LEMMA WorkStays ==
  ASSUME PoolInv, UNCHANGED <<jobQueue0, jobQueue1, jobs, job, next, taskCount, executed>>,
         \A w \in Worker : workerPC'[w] = "run" <=> workerPC[w] = "run"
  PROVE  WorkOK' /\ HandsOK'
<1>1. Todo' = Todo /\ Done' = Done /\ Back' = Back
  BY DEF Todo, Done, Back
<1> QED
  BY <1>1 DEF PoolInv, WorkOK, HandsOK

LEMMA FibersStay ==
  ASSUME PoolInv, UNCHANGED <<runningFiber, fiberPC, collectorPC, jobs, jobCount>>,
         UNCHANGED <<workIsDone, mainPC>>
  PROVE  /\ InCall' = InCall
         /\ CallerRuns' /\ BackWhileResuming' /\ CollectorServesJobs' /\ EndOK'
<1> USE DEF PoolInv
<1>1. InCall' = InCall
  BY DEF InCall
<1>2. CallerRuns'
  BY DEF CallerRuns
<1>3. BackWhileResuming'
  BY DEF BackWhileResuming
<1>4. CollectorServesJobs'
  BY DEF CollectorServesJobs
<1>5. EndOK'
  BY DEF EndOK
<1> QED
  BY <1>1, <1>2, <1>3, <1>4, <1>5

LEMMA PoolParts ==
  ASSUME Inv', PoolTypes' /\ FiberTypes' /\ CallTypes' /\ EndTypes',
         JobsApart', WorkOK' /\ HandsOK',
         CallerRuns' /\ BackWhileResuming' /\ CollectorServesJobs' /\ EndOK'
  PROVE  PoolInv'
<1>1. TypeOK'
  BY DEF TypeOK, PoolTypes, FiberTypes, CallTypes, EndTypes
<1> QED
  BY <1>1 DEF PoolInv

(* The mutexes, the condition variable and the eventfd.                    *)
LEMMA WorkerQuietPool ==
  ASSUME NEW w \in Worker, PoolInv, Inv',
         \/ Lock0(w) \/ Wait(w) \/ Wakeup(w) \/ SpuriousWakeup(w) \/ Quit(w)
         \/ Write(w) \/ Unlock1(w)
  PROVE  PoolInv'
<1> USE DEF Lock0, Wait, Wakeup, SpuriousWakeup, Quit, Write, Unlock1
<1>1. /\ UNCHANGED <<jobQueue0, jobQueue1, job, next, taskCount, executed, calls>>
      /\ UNCHANGED <<runningFiber, readyFiberQueue, fiberPC, collectorPC, jobs, jobCount>>
      /\ UNCHANGED <<workIsDone, mainPC>>
  OBVIOUS
<1>2. PoolTypes /\ FiberTypes /\ CallTypes /\ EndTypes
  BY TypeParts DEF PoolInv
<1>3. FiberTypes' /\ CallTypes' /\ EndTypes'
  BY <1>1, <1>2 DEF FiberTypes, CallTypes, EndTypes
<1>4. /\ mutex0' \in Thread /\ mutex1' \in Thread /\ sleepers' \subseteq Worker
      /\ eventfd' \in Nat /\ spurious' \in 0..MaxSpurious
  BY <1>2, BoundAssumption DEF PoolTypes, Thread
<1>5. /\ workerPC' \in [Worker -> WorkerPCs]
      /\ \A v \in Worker : workerPC'[v] = "run" <=> workerPC[v] = "run"
  BY <1>2 DEF PoolTypes, WorkerPCs, Goto
<1>6. PoolTypes'
  BY <1>1, <1>2, <1>4, <1>5 DEF PoolTypes
<1>7. WorkOK' /\ HandsOK'
  BY <1>1, <1>5, WorkStays
<1> QED
  BY <1>1, <1>3, <1>6, <1>7, FibersStay, JobsStay, PoolParts

-----------------------------------------------------------------------------
(* The steps of the workers that move a job or execute its tasks.          *)

(* The parts the workers leave alone.                                      *)
LEMMA WorkerLeaves ==
  ASSUME PoolInv, UNCHANGED mainVars
  PROVE  /\ InCall' = InCall /\ Back' = Back
         /\ FiberTypes' /\ EndTypes'
         /\ CallerRuns' /\ BackWhileResuming' /\ CollectorServesJobs' /\ EndOK'
<1>1. FiberTypes' /\ EndTypes' /\ Back' = Back
  BY TypeParts DEF PoolInv, FiberTypes, EndTypes, Back
<1> QED
  BY <1>1, FibersStay

LEMMA TakeJobPool ==
  ASSUME NEW w \in Worker, PoolInv, Inv', TakeJob(w)
  PROVE  PoolInv'
<1> DEFINE h == Head(jobQueue0)
<1>1. /\ workerPC[w] = "test" /\ workerPC' = [workerPC EXCEPT ![w] = "run"]
      /\ jobQueue0 # <<>> /\ jobQueue0' = Tail(jobQueue0)
      /\ job' = [job EXCEPT ![w] = h]
      /\ next' = [next EXCEPT ![w] = 0] /\ mutex0' = NoThread
      /\ UNCHANGED <<sleepers, jobQueue1, mutex1, eventfd, spurious, taskCount, executed, calls>>
      /\ UNCHANGED mainVars
  BY DEF TakeJob, TakeHead, Goto
<1>2. PoolTypes /\ CallTypes /\ JobsApart /\ HandsOK /\ WorkOK
  BY TypeParts DEF PoolInv
<1>3. /\ h \in Todo /\ h \in Client /\ jobQueue0' \in Seq(Client)
      /\ IsInjective(jobQueue0') /\ Todo' = Todo \ {h}
  BY <1>1, <1>2, HeadTailQueue, InSeq DEF PoolTypes, JobsApart, Todo
<1> HIDE DEF h
<1>4. job[w] = NoFiber /\ h # NoFiber /\ NoFiber \notin Client
  BY <1>1, <1>2, <1>3, ThreadAssumption DEF HandsOK
<1>5. HeldJobs' = HeldJobs \cup {h} /\ h \notin HeldJobs
  BY <1>1, <1>2, <1>3, <1>4 DEF PoolTypes, HeldJobs, JobsApart
<1>6. Done' = Done /\ InCall' = InCall /\ Back' = Back
  BY <1>1, WorkerLeaves DEF Done
<1>7. JobsApart'
  <2>1. \A v, x \in Worker : job'[v] = job'[x] => v = x \/ job'[v] = NoFiber
    BY <1>1, <1>2, <1>5 DEF PoolTypes, JobsApart, HeldJobs
  <2> QED
    BY <1>1, <1>2, <1>3, <1>5, <1>6, <2>1 DEF JobsApart
<1>8. HandsOK'
  BY <1>1, <1>2, <1>4 DEF PoolTypes, HandsOK
<1>9. WorkOK'
  <2>1. executed[h] = 0 /\ taskCount[h] \in Nat
    BY <1>2, <1>3 DEF WorkOK, CallTypes
  <2>2. ASSUME NEW v \in Worker, workerPC'[v] = "run"
        PROVE  next'[v] <= taskCount'[job'[v]] /\ executed'[job'[v]] = next'[v]
    BY <1>1, <1>2, <2>1, <2>2 DEF PoolTypes, WorkOK
  <2> QED
    BY <1>1, <1>2, <1>3, <1>6, <2>2 DEF WorkOK
<1>10. PoolTypes' /\ CallTypes'
  BY <1>1, <1>2, <1>3 DEF PoolTypes, CallTypes, WorkerPCs, Thread
<1> QED
  BY <1>1, <1>7, <1>8, <1>9, <1>10, WorkerLeaves, PoolParts

LEMMA RunTaskPool ==
  ASSUME NEW w \in Worker, PoolInv, Inv', RunTask(w)
  PROVE  PoolInv'
<1> DEFINE f == job[w]
<1>1. /\ workerPC[w] = "run" /\ next[w] < taskCount[f]
      /\ executed' = [executed EXCEPT ![f] = @ + 1]
      /\ next' = [next EXCEPT ![w] = @ + 1]
      /\ UNCHANGED <<jobQueue0, mutex0, sleepers, jobQueue1, mutex1, eventfd, workerPC, job,
                     spurious, taskCount, calls>>
      /\ UNCHANGED mainVars
  BY DEF RunTask, HasTask
<1>2. PoolTypes /\ CallTypes /\ JobsApart /\ HandsOK /\ WorkOK
  BY TypeParts DEF PoolInv
<1>3. f # NoFiber /\ f \in Client /\ f \in HeldJobs /\ f \notin Todo \cup Done \cup Back
  BY <1>1, <1>2 DEF HandsOK, PoolTypes, HeldJobs, JobsApart
<1> HIDE DEF f
<1>4. /\ next[w] \in Nat /\ executed[f] \in Nat /\ taskCount[f] \in Nat /\ executed[f] = next[w]
      /\ executed' \in [Client -> Nat] /\ next' \in [Worker -> Nat]
  BY <1>1, <1>2, <1>3 DEF PoolTypes, CallTypes, WorkOK, f
<1>5. InCall' = InCall /\ Todo' = Todo /\ Done' = Done /\ Back' = Back
  BY <1>1, WorkerLeaves DEF Todo, Done
<1>6. WorkOK'
  <2>1. ASSUME NEW v \in Worker, workerPC'[v] = "run"
        PROVE  next'[v] <= taskCount'[job'[v]] /\ executed'[job'[v]] = next'[v]
    <3>1. CASE v = w
      BY <1>1, <1>2, <1>3, <1>4, <3>1 DEF PoolTypes, CallTypes, f
    <3>2. CASE v # w
      <4>1. job[v] # f /\ workerPC[v] = "run" /\ next'[v] = next[v]
        BY <1>1, <1>2, <1>3, <2>1, <3>2 DEF JobsApart, PoolTypes, f
      <4>2. job[v] \in Client
        BY <1>2, <4>1 DEF HandsOK, PoolTypes
      <4> QED
        BY <1>1, <1>2, <4>1, <4>2 DEF CallTypes, WorkOK
    <3> QED
      BY <3>1, <3>2
  <2>2. \A g \in Todo \cup Done \cup Back : executed'[g] = executed[g]
    <3>1. Todo \cup Done \cup Back \subseteq Client
      BY <1>2 DEF JobsApart, InCall
    <3> QED
      BY <1>1, <1>2, <1>3, <3>1 DEF CallTypes
  <2> QED
    BY <1>1, <1>2, <1>5, <2>1, <2>2 DEF WorkOK
<1>7. HandsOK'
  BY <1>1, <1>2 DEF HandsOK
<1>8. PoolTypes' /\ CallTypes'
  BY <1>1, <1>2, <1>4 DEF PoolTypes, CallTypes
<1> QED
  BY <1>1, <1>5, <1>6, <1>7, <1>8, WorkerLeaves, JobsStay, PoolParts

LEMMA FinishJobPool ==
  ASSUME NEW w \in Worker, PoolInv, Inv', FinishJob(w)
  PROVE  PoolInv'
<1> DEFINE f == job[w]
<1>1. /\ workerPC[w] = "run" /\ workerPC' = [workerPC EXCEPT ![w] = "write"]
      /\ ~(next[w] < taskCount[f])
      /\ mutex1' = w
      /\ jobQueue1' = Append(jobQueue1, f)
      /\ job' = [job EXCEPT ![w] = NoFiber]
      /\ UNCHANGED <<jobQueue0, mutex0, sleepers, eventfd, next, spurious, taskCount, executed, calls>>
      /\ UNCHANGED mainVars
  BY DEF FinishJob, Lock1, HasTask, Goto
<1>2. PoolTypes /\ CallTypes /\ JobsApart /\ HandsOK /\ WorkOK
  BY TypeParts DEF PoolInv
<1>3. f # NoFiber /\ f \in Client /\ f \in HeldJobs /\ f \notin Todo \cup Done \cup Back
  BY <1>1, <1>2 DEF HandsOK, PoolTypes, HeldJobs, JobsApart
<1>4. HeldJobs' = HeldJobs \ {f}
  <2>1. ASSUME NEW x PROVE x \in HeldJobs' <=> x \in HeldJobs /\ x # f
    BY <1>1, <1>2, <1>3 DEF HeldJobs, PoolTypes, JobsApart
  <2> QED
    BY <2>1
<1> HIDE DEF f
<1>5. jobQueue1' \in Seq(Client) /\ IsInjective(jobQueue1') /\ Done' = Done \cup {f}
  BY <1>1, <1>2, <1>3, AppendQueue DEF PoolTypes, JobsApart, Done
<1>6. InCall' = InCall /\ Todo' = Todo /\ Back' = Back
  BY <1>1, WorkerLeaves DEF Todo
<1>7. JobsApart'
  <2>1. \A v, x \in Worker : job'[v] = job'[x] => v = x \/ job'[v] = NoFiber
    BY <1>1, <1>2 DEF PoolTypes, JobsApart
  <2> QED
    BY <1>1, <1>2, <1>3, <1>4, <1>5, <1>6, <2>1 DEF JobsApart, PoolInv
<1>8. HandsOK'
  BY <1>1, <1>2 DEF PoolTypes, HandsOK
<1>9. WorkOK'
  <2>1. executed[f] = taskCount[f]
    BY <1>1, <1>2, <1>3 DEF WorkOK, CallTypes, PoolTypes, f
  <2>2. ASSUME NEW v \in Worker, workerPC'[v] = "run"
        PROVE  next'[v] <= taskCount'[job'[v]] /\ executed'[job'[v]] = next'[v]
    BY <1>1, <1>2, <2>2 DEF PoolTypes, WorkOK
  <2> QED
    BY <1>1, <1>2, <1>5, <1>6, <2>1, <2>2 DEF WorkOK
<1>10. PoolTypes' /\ CallTypes'
  BY <1>1, <1>2, <1>5 DEF PoolTypes, CallTypes, WorkerPCs, Thread
<1> QED
  BY <1>1, <1>7, <1>8, <1>9, <1>10, WorkerLeaves, PoolParts

-----------------------------------------------------------------------------
(* The steps of the scheduler's thread.                                    *)

LEMMA ExecuteNextTypes ==
  ASSUME NEW S, NEW q \in Seq(S), ExecuteNext(q)
  PROVE  readyFiberQueue' \in Seq(S) /\ runningFiber' \in S \cup {NoFiber}
<1>1. CASE q = <<>>
  BY <1>1, EmptyQueue DEF ExecuteNext
<1>2. CASE q # <<>>
  BY <1>2, HeadTailQueue, InSeq DEF ExecuteNext
<1> QED
  BY <1>1, <1>2

(* Where the fibers are decides who waits for the collector.               *)
Counted == {f \in Client : fiberPC[f] \in {"suspend", "suspended"}}

LEMMA CountedIs ==
  /\ CollectorServesJobs <=> /\ jobCount = Cardinality(Counted)
                             /\ collectorPC # "none" <=> jobCount > 0 \/ collectorPC = "resume"
  /\ IsFiniteSet(Counted) /\ Cardinality(Counted) \in Nat /\ Counted \subseteq InCall
<1>1. IsFiniteSet(Counted)
  BY BoundAssumption, FS_Subset DEF Counted
<1> QED
  BY <1>1, FS_CardinalityType DEF Counted, CollectorServesJobs, InCall

LEMMA NoCaller ==
  ASSUME PoolInv, NEW f \in Client, f # runningFiber
  PROVE  fiberPC[f] \notin {"signal", "unlock0", "suspend"}
BY DEF PoolInv, CallerRuns

(* The steps in which no job moves: a fiber goes on or another one runs.   *)
LEMMA MainQuiet ==
  ASSUME PoolInv, Inv', mainPC = "run",
         UNCHANGED <<jobQueue0, jobQueue1, workerVars, callVars, jobs, jobCount, endVars>>,
         sleepers' \subseteq Worker, mutex0' \in Thread, mutex1' \in Thread, eventfd' \in Nat,
         FiberTypes', InCall' = InCall, Counted' = Counted,
         collectorPC' # "none" <=> jobCount > 0 \/ collectorPC' = "resume",
         CallerRuns', BackWhileResuming'
  PROVE  PoolInv'
<1>1. PoolTypes' /\ CallTypes' /\ EndTypes'
  BY TypeParts DEF PoolInv, PoolTypes, CallTypes, EndTypes
<1>2. JobsApart' /\ WorkOK' /\ HandsOK'
  BY JobsStay, WorkStays
<1>3. CollectorServesJobs'
  <2>1. jobCount' = Cardinality(Counted')
    BY CountedIs DEF PoolInv
  <2>2. CollectorServesJobs' <=>
          /\ jobCount' = Cardinality(Counted')
          /\ collectorPC' # "none" <=> jobCount' > 0 \/ collectorPC' = "resume"
    BY DEF CollectorServesJobs, Counted
  <2> QED
    BY <2>1, <2>2
<1>4. EndOK'
  BY DEF PoolInv, EndOK
<1> QED
  BY <1>1, <1>2, <1>3, <1>4, PoolParts

LEMMA DispatchPool ==
  ASSUME PoolInv, Inv', Dispatch \/ Poll
  PROVE  PoolInv'
<1>1. FiberTypes /\ PoolTypes /\ CollectorServesJobs /\ BackWhileResuming
  BY TypeParts DEF PoolInv
<1>2. /\ mainPC = "run" /\ runningFiber = NoFiber
      /\ UNCHANGED <<todoVars, doneVars, workerVars, callVars, fiberPC, jobs, jobCount, endVars>>
  BY DEF Dispatch, Poll, Idle
<1>3. InCall' = InCall /\ Counted' = Counted
  BY <1>2 DEF InCall, Counted
<1>4. CallerRuns'
  BY <1>2, NoCaller, ThreadAssumption DEF CallerRuns
<1>5. sleepers' \subseteq Worker /\ mutex0' \in Thread /\ mutex1' \in Thread /\ eventfd' \in Nat
  BY <1>1, <1>2 DEF PoolTypes
<1>6. CASE Dispatch
  <2>1. /\ readyFiberQueue' \in Seq(Client \cup {Collector})
        /\ runningFiber' \in Client \cup {Collector, NoFiber}
        /\ collectorPC' = collectorPC
    BY <1>1, <1>6, ExecuteNextTypes DEF Dispatch, FiberTypes
  <2>2. FiberTypes' /\ BackWhileResuming'
    BY <1>1, <1>2, <2>1 DEF FiberTypes, BackWhileResuming
  <2> QED
    BY <1>1, <1>2, <1>3, <1>4, <1>5, <2>1, <2>2, MainQuiet DEF CollectorServesJobs
<1>7. CASE Poll
  <2>1. /\ collectorPC = "await" /\ collectorPC' = "lock1"
        /\ readyFiberQueue' = <<Collector>> /\ runningFiber' = runningFiber
    BY <1>7 DEF Poll
  <2>2. FiberTypes' /\ BackWhileResuming'
    BY <1>1, <1>2, <2>1, OneInQueue DEF FiberTypes, BackWhileResuming, CollectorPCs
  <2> QED
    BY <1>1, <1>2, <1>3, <1>4, <1>5, <2>1, <2>2, MainQuiet DEF CollectorServesJobs
<1> QED
  BY <1>6, <1>7

(* Between two points of awaitTasks, or at the end of the coroutine.       *)
LEMMA ClientQuietPool ==
  ASSUME NEW f \in Client, PoolInv, Inv', Signal(f) \/ Suspend(f) \/ EndFiber(f)
  PROVE  PoolInv'
<1>1. FiberTypes /\ PoolTypes /\ CollectorServesJobs /\ BackWhileResuming
  BY TypeParts DEF PoolInv
<1>2. /\ mainPC = "run" /\ runningFiber = f
      /\ UNCHANGED <<jobQueue0, mutex0, doneVars, workerVars, callVars, collectorVars, endVars>>
      /\ fiberPC' \in [Client -> FiberPCs]
      /\ \A g \in Client : g # f => fiberPC'[g] = fiberPC[g]
      /\ \/ fiberPC[f] = "signal" /\ fiberPC'[f] = "unlock0"
            /\ UNCHANGED <<runningFiber, readyFiberQueue>>
         \/ fiberPC[f] = "suspend" /\ fiberPC'[f] = "suspended" /\ ExecuteNext(readyFiberQueue)
         \/ fiberPC[f] = "body" /\ fiberPC'[f] = "dead" /\ ExecuteNext(readyFiberQueue)
  BY <1>1 DEF Signal, Suspend, EndFiber, Step, FiberTypes, FiberPCs
<1>3. sleepers' \subseteq Worker
  BY <1>1 DEF Signal, Suspend, EndFiber, WakeOne, PoolTypes
<1>4. /\ readyFiberQueue' \in Seq(Client \cup {Collector})
      /\ runningFiber' \in Client \cup {Collector, NoFiber}
  BY <1>1, <1>2, ExecuteNextTypes DEF FiberTypes
<1>5. FiberTypes' /\ BackWhileResuming'
  BY <1>1, <1>2, <1>4 DEF FiberTypes, BackWhileResuming
<1>6. InCall' = InCall /\ Counted' = Counted
  BY <1>2 DEF InCall, Counted
<1>7. CallerRuns'
  <2>1. \A g \in Client : g # f => fiberPC'[g] \notin {"signal", "unlock0", "suspend"}
    BY <1>2, NoCaller
  <2> QED
    BY <1>2, <2>1 DEF CallerRuns
<1> QED
  BY <1>1, <1>2, <1>3, <1>5, <1>6, <1>7, MainQuiet DEF CollectorServesJobs, PoolTypes

(* The collector goes on, without a job in its hands.                      *)
LEMMA CollectorQuietPool ==
  ASSUME PoolInv, Inv', StartCollector \/ CollectorLock1 \/ CollectorRead \/ CollectorEndTurn
  PROVE  PoolInv'
<1>1. FiberTypes /\ PoolTypes /\ CollectorServesJobs /\ BackWhileResuming
  BY TypeParts DEF PoolInv
<1>2. /\ mainPC = "run" /\ runningFiber = Collector
      /\ UNCHANGED <<todoVars, jobQueue1, workerVars, callVars, fiberPC, jobs, jobCount, endVars>>
  BY DEF StartCollector, CollectorLock1, CollectorRead, CollectorEndTurn, Collecting
<1>3. InCall' = InCall /\ Counted' = Counted
  BY <1>2 DEF InCall, Counted
<1>4. CallerRuns'
  BY <1>2, NoCaller, ThreadAssumption DEF CallerRuns
<1>5. mutex1' \in Thread /\ eventfd' \in Nat
  BY <1>1 DEF StartCollector, CollectorLock1, CollectorRead, CollectorEndTurn, Lock1, PoolTypes, Thread
<1>6. /\ readyFiberQueue' \in Seq(Client \cup {Collector})
      /\ runningFiber' \in Client \cup {Collector, NoFiber}
  BY <1>1, ExecuteNextTypes
     DEF StartCollector, CollectorLock1, CollectorRead, CollectorEndTurn, FiberTypes
<1>7. /\ collectorPC' \in CollectorPCs /\ collectorPC' # "resume" /\ jobs = <<>>
      /\ collectorPC' # "none" <=> jobCount > 0
  BY <1>1 DEF StartCollector, CollectorLock1, CollectorRead, CollectorEndTurn, Collecting, NextTurn,
              CollectorPCs, CollectorServesJobs, BackWhileResuming, FiberTypes
<1>8. FiberTypes' /\ BackWhileResuming'
  BY <1>1, <1>2, <1>6, <1>7 DEF FiberTypes, BackWhileResuming
<1> QED
  BY <1>1, <1>2, <1>3, <1>4, <1>5, <1>7, <1>8, MainQuiet DEF PoolTypes

(* A new call: its job is in jobQueues_[0].                                *)
LEMMA AwaitTasksPool ==
  ASSUME NEW f \in Client, NEW n \in TaskCounts, PoolInv, Inv', AwaitTasks(f, n)
  PROVE  PoolInv'
<1>1. /\ mainPC = "run" /\ runningFiber = f /\ fiberPC[f] = "body"
      /\ fiberPC' = [fiberPC EXCEPT ![f] = "signal"]
      /\ calls[f] < MaxCalls /\ calls' = [calls EXCEPT ![f] = @ + 1]
      /\ mutex0' = MainThread /\ jobQueue0' = Append(jobQueue0, f)
      /\ taskCount' = [taskCount EXCEPT ![f] = n]
      /\ executed' = [executed EXCEPT ![f] = 0]
      /\ UNCHANGED <<sleepers, doneVars, workerVars, readyVars, collectorVars, endVars>>
  BY DEF AwaitTasks, Step
<1>2. /\ PoolTypes /\ FiberTypes /\ CallTypes /\ EndTypes
      /\ JobsApart /\ HandsOK /\ WorkOK /\ CallerRuns /\ BackWhileResuming /\ CollectorServesJobs
      /\ EndOK
  BY TypeParts DEF PoolInv
<1>3. f \notin InCall /\ InCall' = InCall \cup {f} /\ InCall \subseteq Client
  BY <1>1, <1>2 DEF InCall, FiberTypes
<1>4. f \notin Todo \cup Done \cup Back \cup HeldJobs
  BY <1>2, <1>3 DEF JobsApart
<1>5. jobQueue0' \in Seq(Client) /\ IsInjective(jobQueue0') /\ Todo' = Todo \cup {f}
  BY <1>1, <1>2, <1>4, AppendQueue DEF PoolTypes, JobsApart, Todo
<1>6. Done' = Done /\ Back' = Back /\ HeldJobs' = HeldJobs
  BY <1>1 DEF Done, Back, HeldJobs
<1>7. JobsApart'
  BY <1>1, <1>2, <1>3, <1>4, <1>5, <1>6 DEF JobsApart
<1>8. HandsOK'
  BY <1>1, <1>2 DEF HandsOK
<1>9. n \in Nat /\ taskCount' \in [Client -> Nat] /\ executed' \in [Client -> Nat]
  BY <1>1, <1>2, BoundAssumption DEF CallTypes
<1>10. WorkOK'
  <2>1. ASSUME NEW v \in Worker, workerPC'[v] = "run"
        PROVE  next'[v] <= taskCount'[job'[v]] /\ executed'[job'[v]] = next'[v]
    <3>1. job[v] \in HeldJobs /\ job[v] \in Client /\ job[v] # f
      BY <1>1, <1>2, <1>4, <2>1 DEF HandsOK, HeldJobs, PoolTypes
    <3> QED
      BY <1>1, <1>2, <2>1, <3>1 DEF WorkOK, CallTypes
  <2>2. \A g \in Todo \cup Done \cup Back :
          executed'[g] = executed[g] /\ taskCount'[g] = taskCount[g]
    BY <1>1, <1>2, <1>3, <1>4 DEF JobsApart, CallTypes
  <2>3. executed'[f] = 0
    BY <1>1, <1>2 DEF CallTypes
  <2> QED
    BY <1>2, <1>5, <1>6, <2>1, <2>2, <2>3 DEF WorkOK
<1>11. PoolTypes' /\ EndTypes'
  BY <1>1, <1>2, <1>5 DEF PoolTypes, EndTypes, Thread
<1>12. FiberTypes' /\ CallTypes'
  <2>1. calls' \in [Client -> 0..MaxCalls]
    BY <1>1, <1>2, BoundAssumption DEF CallTypes
  <2> QED
    BY <1>1, <1>2, <1>9, <2>1 DEF FiberTypes, CallTypes, FiberPCs
<1>13. CallerRuns' /\ BackWhileResuming' /\ EndOK'
  BY <1>1, <1>2 DEF CallerRuns, BackWhileResuming, EndOK, FiberTypes
<1>14. CollectorServesJobs'
  <2>1. Counted' = Counted
    BY <1>1, <1>2 DEF Counted, FiberTypes
  <2>2. jobCount' = Cardinality(Counted')
    BY <1>1, <1>2, <2>1, CountedIs
  <2> QED
    BY <1>1, <1>2, <2>2 DEF CollectorServesJobs, Counted
<1> QED
  BY <1>7, <1>8, <1>10, <1>11, <1>12, <1>13, <1>14, PoolParts

(* The first call that is counted starts the collector.                    *)
LEMMA CountPool ==
  ASSUME NEW f \in Client, PoolInv, Inv', UnlockAndCount(f)
  PROVE  PoolInv'
<1>1. /\ mainPC = "run" /\ runningFiber = f /\ fiberPC[f] = "unlock0"
      /\ fiberPC' = [fiberPC EXCEPT ![f] = "suspend"]
      /\ mutex0' = NoThread /\ jobCount' = jobCount + 1
      /\ UNCHANGED <<jobQueue0, sleepers, doneVars, workerVars, callVars, runningFiber, jobs, endVars>>
      /\ \/ /\ jobCount = 0 /\ collectorPC' = "start"
            /\ readyFiberQueue' = Append(readyFiberQueue, Collector)
         \/ jobCount # 0 /\ UNCHANGED <<collectorPC, readyFiberQueue>>
  BY DEF UnlockAndCount, Step
<1>2. /\ PoolTypes /\ FiberTypes /\ CallTypes /\ EndTypes
      /\ CallerRuns /\ BackWhileResuming /\ CollectorServesJobs /\ EndOK /\ Inv
  BY TypeParts DEF PoolInv
<1>3. collectorPC # "resume"
  BY <1>1, <1>2, ThreadAssumption DEF Inv, CollectorRuns
<1>4. readyFiberQueue' \in Seq(Client \cup {Collector})
  BY <1>1, <1>2, AppendQueue DEF FiberTypes
<1>5. FiberTypes' /\ PoolTypes' /\ CallTypes' /\ EndTypes'
  BY <1>1, <1>2, <1>4 DEF FiberTypes, PoolTypes, CallTypes, EndTypes, Thread, FiberPCs, CollectorPCs
<1>6. InCall' = InCall
  BY <1>1, <1>2 DEF InCall, FiberTypes
<1>7. JobsApart' /\ WorkOK' /\ HandsOK'
  BY <1>1, <1>6, JobsStay, WorkStays
<1>8. CallerRuns' /\ BackWhileResuming' /\ EndOK'
  BY <1>1, <1>2, <1>3 DEF CallerRuns, BackWhileResuming, EndOK, FiberTypes
<1>9. CollectorServesJobs'
  <2>1. f \notin Counted /\ Counted' = Counted \cup {f}
    BY <1>1, <1>2 DEF Counted, FiberTypes
  <2>2. Cardinality(Counted') = Cardinality(Counted) + 1
    BY <2>1, CountedIs, FS_AddElement
  <2>3. jobCount' = Cardinality(Counted') /\ jobCount' > 0
    BY <1>1, <1>2, <2>2, CountedIs DEF FiberTypes
  <2>4. collectorPC' # "none"
    BY <1>1, <1>2 DEF CollectorServesJobs, FiberTypes
  <2> QED
    BY <2>3, <2>4 DEF CollectorServesJobs, Counted
<1> QED
  BY <1>5, <1>7, <1>8, <1>9, PoolParts

(* The collector takes the whole of jobQueues_[1].                         *)
LEMMA SplitPool ==
  ASSUME PoolInv, Inv', CollectorSplit
  PROVE  PoolInv'
<1>1. /\ mainPC = "run" /\ runningFiber = Collector
      /\ collectorPC = "split" /\ collectorPC' = "resume"
      /\ jobs' = jobQueue1 /\ jobQueue1' = <<>> /\ mutex1' = NoThread
      /\ UNCHANGED <<todoVars, eventfd, workerVars, callVars, readyVars, fiberPC, jobCount, endVars>>
  BY DEF CollectorSplit, Collecting
<1>2. /\ PoolTypes /\ FiberTypes /\ CallTypes /\ EndTypes
      /\ JobsApart /\ HandsOK /\ WorkOK /\ CallerRuns /\ BackWhileResuming /\ CollectorServesJobs
      /\ EndOK
  BY TypeParts DEF PoolInv
<1>3. Back = {} /\ Back' = Done /\ Done' = {} /\ Todo' = Todo /\ HeldJobs' = HeldJobs
  BY <1>1, <1>2, EmptyQueue DEF BackWhileResuming, Back, Done, Todo, HeldJobs
<1>4. InCall' = InCall /\ IsInjective(jobQueue1') /\ jobQueue1' \in Seq(Client)
  BY <1>1, EmptyQueue DEF InCall
<1>5. JobsApart'
  BY <1>1, <1>2, <1>3, <1>4 DEF JobsApart
<1>6. WorkOK' /\ HandsOK'
  BY <1>1, <1>2, <1>3 DEF WorkOK, HandsOK
<1>7. PoolTypes' /\ FiberTypes' /\ CallTypes' /\ EndTypes'
  BY <1>1, <1>2, <1>4 DEF PoolTypes, FiberTypes, CallTypes, EndTypes, Thread, CollectorPCs
<1>8. CallerRuns' /\ BackWhileResuming' /\ EndOK' /\ CollectorServesJobs'
  BY <1>1, <1>2 DEF CallerRuns, BackWhileResuming, EndOK, CollectorServesJobs
<1> QED
  BY <1>5, <1>6, <1>7, <1>8, PoolParts

(* A call returns: its fiber had suspended itself, its job is done and in  *)
(* no other place any more.                                                *)
LEMMA ResumePool ==
  ASSUME PoolInv, Inv', ResumeFiber
  PROVE  /\ PoolInv'
         /\ \E h \in InCall : executed[h] = taskCount[h] /\ InCall' = InCall \ {h}
<1> DEFINE h == Head(jobs)
<1>1. /\ mainPC = "run" /\ runningFiber = Collector
      /\ collectorPC = "resume" /\ collectorPC' = "resume"
      /\ jobs # <<>> /\ jobs' = Tail(jobs)
      /\ fiberPC' = [fiberPC EXCEPT ![h] = "body"]
      /\ readyFiberQueue' = Append(readyFiberQueue, h)
      /\ jobCount' = jobCount - 1
      /\ UNCHANGED <<todoVars, doneVars, workerVars, callVars, runningFiber, endVars>>
  BY DEF ResumeFiber, Collecting
<1>2. /\ PoolTypes /\ FiberTypes /\ CallTypes /\ EndTypes
      /\ JobsApart /\ HandsOK /\ WorkOK /\ CallerRuns /\ BackWhileResuming /\ CollectorServesJobs
      /\ EndOK
  BY TypeParts DEF PoolInv
<1>3. /\ h \in Back /\ h \in Client /\ jobs' \in Seq(Client)
      /\ IsInjective(jobs') /\ Back' = Back \ {h}
  BY <1>1, <1>2, HeadTailQueue, InSeq DEF FiberTypes, JobsApart, Back
<1> HIDE DEF h
<1>4. h \in InCall /\ h \notin Todo \cup Done \cup HeldJobs /\ executed[h] = taskCount[h]
  BY <1>2, <1>3 DEF JobsApart, WorkOK
<1>5. fiberPC[h] = "suspended"
  <2>1. h # runningFiber
    BY <1>1, <1>3, ThreadAssumption
  <2> QED
    BY <1>3, <1>4, <2>1, NoCaller DEF InCall
<1>6. InCall' = InCall \ {h}
  BY <1>1, <1>2, <1>3 DEF InCall, FiberTypes
<1>7. Todo' = Todo /\ Done' = Done /\ HeldJobs' = HeldJobs
  BY <1>1 DEF Todo, Done, HeldJobs
<1>8. JobsApart'
  BY <1>1, <1>2, <1>3, <1>4, <1>6, <1>7 DEF JobsApart
<1>9. WorkOK' /\ HandsOK'
  BY <1>1, <1>2, <1>3, <1>7 DEF WorkOK, HandsOK
<1>10. CollectorServesJobs' /\ jobCount' \in Nat
  <2>1. h \in Counted /\ Counted' = Counted \ {h}
    BY <1>1, <1>2, <1>3, <1>5 DEF Counted, FiberTypes
  <2>2. Cardinality(Counted') = Cardinality(Counted) - 1 /\ IsFiniteSet(Counted')
    BY <2>1, CountedIs, FS_RemoveElement
  <2>3. Cardinality(Counted') \in Nat
    BY <2>2, FS_CardinalityType
  <2>4. jobCount' = Cardinality(Counted')
    BY <1>1, <1>2, <2>2, CountedIs
  <2> QED
    BY <1>1, <2>3, <2>4 DEF CollectorServesJobs, Counted
<1>11. PoolTypes' /\ CallTypes' /\ EndTypes'
  BY <1>1, <1>2 DEF PoolTypes, CallTypes, EndTypes
<1>12. FiberTypes'
  <2>1. readyFiberQueue' \in Seq(Client \cup {Collector})
    BY <1>1, <1>2, <1>3, AppendQueue DEF FiberTypes
  <2> QED
    BY <1>1, <1>2, <1>3, <1>10, <2>1 DEF FiberTypes, FiberPCs
<1>13. CallerRuns' /\ BackWhileResuming' /\ EndOK'
  BY <1>1, <1>2, <1>3 DEF CallerRuns, BackWhileResuming, EndOK, FiberTypes
<1>14. PoolInv'
  BY <1>8, <1>9, <1>10, <1>11, <1>12, <1>13, PoolParts
<1> QED
  BY <1>4, <1>6, <1>14

(* ~Async begins when every fiber has ended and the collector with them.   *)
LEMMA ShutdownPool ==
  ASSUME PoolInv, Inv', BeginShutdown \/ UnlockWorkIsDone \/ Broadcast \/ Join
  PROVE  PoolInv'
<1>1. /\ UNCHANGED <<jobQueue0, doneVars, workerVars, callVars, fiberVars>>
      /\ mutex0' \in {mutex0, MainThread, NoThread} /\ sleepers' \subseteq sleepers
      /\ mainPC' \in {"unlock0", "broadcast", "join", "destroyed"}
      /\ workIsDone' = workIsDone \/ workIsDone' = TRUE
      /\ mainPC = "run" => collectorPC = "none" /\ \A f \in Client : fiberPC[f] = "dead"
  BY DEF BeginShutdown, UnlockWorkIsDone, Broadcast, Join, WakeAll
<1>2. /\ PoolTypes /\ FiberTypes /\ CallTypes /\ EndTypes
      /\ CallerRuns /\ BackWhileResuming /\ CollectorServesJobs /\ EndOK
  BY TypeParts DEF PoolInv
<1>3. PoolTypes' /\ FiberTypes' /\ CallTypes'
  BY <1>1, <1>2 DEF PoolTypes, FiberTypes, CallTypes, Thread
<1>4. EndTypes'
  BY <1>1, <1>2 DEF EndTypes, MainPCs
<1>5. InCall' = InCall
  BY <1>1 DEF InCall
<1>6. JobsApart' /\ WorkOK' /\ HandsOK'
  BY <1>1, <1>5, JobsStay, WorkStays
<1>7. CallerRuns' /\ BackWhileResuming' /\ CollectorServesJobs'
  BY <1>1, <1>2 DEF CallerRuns, BackWhileResuming, CollectorServesJobs
<1>8. EndOK'
  BY <1>1, <1>2 DEF EndOK
<1> QED
  BY <1>3, <1>4, <1>6, <1>7, <1>8, PoolParts

LEMMA StillPool ==
  ASSUME PoolInv, Inv', UNCHANGED vars
  PROVE  PoolInv'
<1>1. PoolTypes' /\ FiberTypes' /\ CallTypes' /\ EndTypes'
  BY TypeParts DEF PoolInv, PoolTypes, FiberTypes, CallTypes, EndTypes, vars
<1> QED
  BY <1>1, FibersStay, JobsStay, WorkStays, PoolParts DEF vars

LEMMA PoolNext == PoolInv /\ [Next]_vars => PoolInv'
<1> SUFFICES ASSUME PoolInv, [Next]_vars PROVE PoolInv'
  OBVIOUS
<1>1. Inv'
  BY NextInv DEF PoolInv
<1>2. ASSUME NEW w \in Worker, WorkerStep(w) \/ SpuriousWakeup(w) PROVE PoolInv'
  BY <1>1, <1>2, WorkerQuietPool, TakeJobPool, RunTaskPool, FinishJobPool DEF WorkerStep
<1>3. ASSUME NEW f \in Client, ClientStep(f) PROVE PoolInv'
  BY <1>1, <1>3, AwaitTasksPool, ClientQuietPool, CountPool DEF ClientStep
<1>4. CASE \/ Dispatch \/ Poll
           \/ StartCollector \/ CollectorLock1 \/ CollectorRead \/ CollectorSplit
           \/ ResumeFiber \/ CollectorEndTurn
  BY <1>1, <1>4, DispatchPool, CollectorQuietPool, SplitPool, ResumePool
<1>5. CASE BeginShutdown \/ UnlockWorkIsDone \/ Broadcast \/ Join
  BY <1>1, <1>5, ShutdownPool
<1>6. CASE Destroyed \/ UNCHANGED vars
  BY <1>1, <1>6, StillPool DEF Destroyed
<1> QED
  BY <1>2, <1>3, <1>4, <1>5, <1>6 DEF Next, MainStep

LEMMA PoolAlways == Spec => []PoolInv
<1> QED
  BY InitPool, PoolNext, PTL DEF Spec

-----------------------------------------------------------------------------
(* A job is in one queue or hand exactly while its fiber is inside         *)
(* awaitTasks: no thread touches the stack of a fiber that went on.        *)
THEOREM NoDanglingJobCorrect == Spec => []NoDanglingJob
<1>1. ASSUME PoolInv
      PROVE  LET queued == jobQueue0 \o jobQueue1 \o jobs
             IN  IsInjective(queued) /\ ToSet(queued) = Todo \cup Done \cup Back
  <2>1. /\ jobQueue0 \in Seq(Client) /\ jobQueue1 \in Seq(Client) /\ jobs \in Seq(Client)
        /\ JobsApart
    BY <1>1 DEF PoolInv, TypeOK
  <2> DEFINE q == jobQueue0 \o jobQueue1
  <2>2. q \in Seq(Client) /\ IsInjective(q) /\ ToSet(q) = Todo \cup Done
    BY <2>1, ConcatQueue DEF JobsApart, Todo, Done
  <2> HIDE DEF q
  <2>3. IsInjective(q \o jobs) /\ ToSet(q \o jobs) = Todo \cup Done \cup Back
    BY <2>1, <2>2, ConcatQueue DEF JobsApart, Back
  <2> QED
    BY <2>3 DEF q
<1>2. PoolInv => NoDanglingJob
  BY <1>1 DEF PoolInv, JobsApart, NoDanglingJob
<1> QED
  BY <1>2, PoolAlways, PTL

(* jobCount_ counts the jobs whose fibers are not yet resumed, and there   *)
(* is one collector exactly while it has something to serve.               *)
THEOREM CollectorServesJobsCorrect == Spec => []CollectorServesJobs
<1> QED
  BY PoolAlways, PTL DEF PoolInv

(* ~Async finds the pool at rest: no job, no count in the eventfd and no   *)
(* worker that will still use mutex1 or the eventfd.                       *)
THEOREM ShutdownFindsNoWorkCorrect == Spec => []ShutdownFindsNoWork
<1>1. ASSUME PoolInv, workIsDone
      PROVE  /\ jobQueue0 = <<>> /\ jobQueue1 = <<>>
             /\ eventfd = 0 /\ mutex1 = NoThread
             /\ \A w \in Worker : workerPC[w] \in {"lock0", "test", "wait", "exited"}
  <2>1. collectorPC = "none" /\ InCall = {} /\ TypeOK
    BY <1>1 DEF PoolInv, EndOK, InCall
  <2>2. Todo = {} /\ Done = {} /\ HeldJobs = {}
    BY <1>1, <2>1 DEF PoolInv, JobsApart
  <2>3. jobQueue0 = <<>> /\ jobQueue1 = <<>>
    BY <2>1, <2>2, EmptyQueue DEF TypeOK, Todo, Done
  <2>4. /\ eventfd = 0 /\ \A w \in Worker : workerPC[w] \notin {"write", "unlock1"}
    BY <1>1, <2>1, <2>3 DEF PoolInv, Inv, EventfdMeansJobs, TypeOK
  <2>5. \A w \in Worker : workerPC[w] # "run"
    BY <1>1, <2>2 DEF PoolInv, HandsOK, HeldJobs
  <2>6. mutex1 = NoThread
    BY <1>1, <2>1, <2>4 DEF PoolInv, Inv, Mutex1Held, TypeOK, Thread
  <2> QED
    BY <2>1, <2>3, <2>4, <2>5, <2>6 DEF TypeOK, WorkerPCs
<1>2. PoolInv => ShutdownFindsNoWork
  BY <1>1 DEF ShutdownFindsNoWork
<1> QED
  BY <1>2, PoolAlways, PTL

-----------------------------------------------------------------------------
(* The pool implements TaskCall.                                           *)
Left == [f \in Client |-> taskCount[f] - executed[f]]

(* Every other step leaves alone who is called and what is left.           *)
LEMMA OtherStepsStutter ==
  ASSUME PoolInv, UNCHANGED <<taskCount, executed, fiberPC>>
  PROVE  UNCHANGED <<InCall, Left>>
BY DEF InCall, Left

LEMMA TaskCallStep ==
  ASSUME PoolInv, [Next]_vars
  PROVE  \/ \E f \in Client : \/ Calls!Execute(f) \/ Calls!Return(f)
                              \/ \E n \in TaskCounts : Calls!Call(f, n)
         \/ UNCHANGED <<InCall, Left>>
<1>1. ASSUME NEW w \in Worker, RunTask(w) PROVE \E f \in Client : Calls!Execute(f)
  <2> DEFINE f == job[w]
  <2>1. /\ workerPC[w] = "run" /\ next[w] < taskCount[f]
        /\ executed' = [executed EXCEPT ![f] = @ + 1] /\ UNCHANGED <<taskCount, fiberPC>>
    BY <1>1 DEF RunTask, HasTask
  <2>2. f \in HeldJobs /\ f \in InCall /\ f \in Client /\ executed[f] = next[w]
    BY <2>1 DEF PoolInv, HandsOK, HeldJobs, JobsApart, InCall, WorkOK
  <2> HIDE DEF f
  <2>3. executed \in [Client -> Nat] /\ taskCount \in [Client -> Nat]
    BY DEF PoolInv, TypeOK
  <2>4. taskCount[f] - executed[f] > 0
    BY <2>1, <2>2, <2>3 DEF PoolInv, TypeOK
  <2>5. Left[f] > 0 /\ Left'[f] = Left[f] - 1
    <3>1. executed'[f] = executed[f] + 1 /\ taskCount'[f] = taskCount[f]
      BY <2>1, <2>2, <2>3
    <3>2. taskCount[f] \in Nat /\ executed[f] \in Nat
      BY <2>2, <2>3
    <3>3. Left[f] = taskCount[f] - executed[f] /\ Left'[f] = taskCount'[f] - executed'[f]
      BY <2>2 DEF Left
    <3> QED
      BY <2>4, <3>1, <3>2, <3>3
  <2>6. \A g \in Client : g # f => Left'[g] = Left[g]
    BY <2>1, <2>2, <2>3 DEF Left
  <2>7. Left' = [Left EXCEPT ![f] = Left[f] - 1]
    BY <2>2, <2>5, <2>6 DEF Left
  <2>8. InCall' = InCall
    BY <2>1 DEF InCall
  <2> QED
    BY <2>2, <2>5, <2>7, <2>8 DEF Calls!Execute, Left
<1>2. ASSUME NEW f \in Client, NEW n \in TaskCounts, AwaitTasks(f, n) PROVE Calls!Call(f, n)
  <2>1. /\ fiberPC[f] = "body" /\ fiberPC' = [fiberPC EXCEPT ![f] = "signal"]
        /\ taskCount' = [taskCount EXCEPT ![f] = n] /\ executed' = [executed EXCEPT ![f] = 0]
    BY <1>2 DEF AwaitTasks, Step
  <2>2. /\ executed \in [Client -> Nat] /\ taskCount \in [Client -> Nat] /\ n \in Nat
        /\ fiberPC \in [Client -> FiberPCs]
    BY BoundAssumption DEF PoolInv, TypeOK
  <2>3. f \notin InCall /\ InCall' = InCall \cup {f}
    BY <2>1, <2>2 DEF InCall
  <2>4. Left'[f] = n
    <3>1. executed'[f] = 0 /\ taskCount'[f] = n
      BY <2>1, <2>2
    <3>2. Left'[f] = taskCount'[f] - executed'[f]
      BY DEF Left
    <3> QED
      BY <2>2, <3>1, <3>2
  <2>5. \A g \in Client : g # f => Left'[g] = Left[g]
    BY <2>1, <2>2 DEF Left
  <2>6. Left' = [Left EXCEPT ![f] = n]
    BY <2>4, <2>5 DEF Left
  <2> QED
    BY <2>3, <2>6 DEF Calls!Call, Left
<1>3. CASE ResumeFiber
  <2>1. PICK h \in InCall : executed[h] = taskCount[h] /\ InCall' = InCall \ {h}
    BY <1>3, NextInv, ResumePool DEF PoolInv
  <2>2. UNCHANGED <<taskCount, executed>>
    BY <1>3 DEF ResumeFiber
  <2>3. h \in Client /\ Left[h] = 0 /\ Left' = Left
    BY <2>1, <2>2 DEF InCall, Left, PoolInv, TypeOK
  <2> QED
    BY <2>1, <2>3 DEF Calls!Return, Left
<1>4. ASSUME NEW f \in Client, Signal(f) \/ UnlockAndCount(f) \/ Suspend(f) \/ EndFiber(f)
      PROVE  UNCHANGED <<InCall, Left>>
  <2>1. UNCHANGED <<taskCount, executed>> /\ InCall' = InCall
    BY <1>4 DEF Signal, UnlockAndCount, Suspend, EndFiber, Step, InCall, PoolInv, TypeOK
  <2> QED
    BY <2>1 DEF Left
<1>5. ASSUME NEW w \in Worker,
             \/ Lock0(w) \/ Wait(w) \/ Wakeup(w) \/ TakeJob(w) \/ Quit(w)
             \/ FinishJob(w) \/ Write(w) \/ Unlock1(w) \/ SpuriousWakeup(w)
      PROVE  UNCHANGED <<InCall, Left>>
  BY <1>5, OtherStepsStutter
     DEF Lock0, Wait, Wakeup, TakeJob, Quit, FinishJob, Write, Unlock1, SpuriousWakeup
<1>6. CASE \/ Dispatch \/ Poll \/ StartCollector \/ CollectorLock1 \/ CollectorRead
           \/ CollectorSplit \/ CollectorEndTurn
           \/ BeginShutdown \/ UnlockWorkIsDone \/ Broadcast \/ Join
           \/ Destroyed \/ UNCHANGED vars
  BY <1>6, OtherStepsStutter
     DEF Dispatch, Poll, StartCollector, CollectorLock1, CollectorRead, CollectorSplit,
         CollectorEndTurn, BeginShutdown, UnlockWorkIsDone, Broadcast, Join, Destroyed, vars
<1> QED
  BY <1>1, <1>2, <1>3, <1>4, <1>5, <1>6 DEF Next, MainStep, WorkerStep, ClientStep

(* awaitTasks executes its tasks, each once, before it returns, whichever  *)
(* threads take part.                                                      *)
THEOREM TaskCallImplemented == Spec => ImplementsTaskCall
<1>1. Init => Calls!Init
  BY DEF Init, Calls!Init, InCall
<1>2. PoolInv /\ [Next]_vars => [Calls!Next]_<<InCall, Left>>
  BY TaskCallStep DEF Calls!Next
<1>3. Spec => Calls!Spec
  BY <1>1, <1>2, PoolAlways, PTL DEF Spec, Calls!Spec, Left
<1> QED
  BY <1>3 DEF ImplementsTaskCall

=============================================================================
