--------------------------- MODULE AsyncScheduler ---------------------------
(***************************************************************************)
(* Async on the scheduler it is made for: its collector is a coroutine     *)
(* like any other, in a new fiber or one that was used before; suspending, *)
(* resuming and waiting are those of module Scheduler, and the eventfd is  *)
(* a descriptor of the poller.  Module Async, where all this is a ready    *)
(* queue, is what this module implements.                                  *)
(*                                                                         *)
(* The program: TaraMain starts the other coroutines and then does like    *)
(* them; each calls awaitTasks some times and ends.                        *)
(***************************************************************************)
EXTENDS Scheduler

CONSTANTS
  Worker, MainThread, NoThread, Client, Collector,    \* as in Async; the
  TaskCounts, MaxCalls, MaxSpurious,                  \* clients are fibers
  EventFD                                             \* fd_

ASSUME ProgramAssumption ==
  /\ Client \subseteq Fiber /\ Client # {} /\ IsFiniteSet(Client)
  /\ Collector \notin Fiber \cup {NoFiber}
  /\ EventFD \in FD /\ -1 \in Durations
  /\ MainThread \notin Worker /\ NoThread \notin Worker /\ MainThread # NoThread
  /\ TaskCounts \subseteq Nat /\ MaxCalls \in Nat /\ MaxSpurious \in Nat

VARIABLES
  jobQueue0, jobQueue1, mutex0, mutex1, sleepers, eventfd, workIsDone, jobCount,
  workerPC, job, next, spurious, fiberPC, collectorPC, jobs, taskCount, executed,
  calls, mainPC,        \* as in Async
  collector,            \* the fiber of the collector, or NoFiber
  uncalled              \* the clients TaraMain has still to start

(* A fiber of the scheduler as Async knows it.                             *)
Known(f) == IF f = collector /\ f # NoFiber THEN Collector ELSE f

(* The collector, before it waits and when it is done with the eventfd, is *)
(* where Async has it before the one step it makes of this.                *)
KnownPC ==
  CASE collectorPC = "watched" -> "start"
    [] collectorPC = "unwatched" -> "resume"
    [] OTHER -> collectorPC

Pool == INSTANCE Async WITH
  runningFiber <- Known(runningFiber),
  readyFiberQueue <-
    [i \in DOMAIN readyFiberQueue |-> Known(readyFiberQueue[i])] \o uncalled,
  collectorPC <- KnownPC

schedulerVars == <<vars, collector, collectorPC, uncalled>>
poolVars == <<jobQueue0, jobQueue1, mutex0, mutex1, sleepers, eventfd, workerPC, job,
              next, spurious, taskCount, executed, calls, workIsDone, mainPC>>
awaitVars == <<fiberPC, jobs, jobCount>>
allVars == <<schedulerVars, poolVars, awaitVars>>

PoolInit ==
  /\ Init
  /\ \E q \in {q \in [1..Cardinality(Client) -> Client] : IsInjective(q)} :
       readyFiberQueue = <<Head(q)>> /\ uncalled = Tail(q)
  /\ collector = NoFiber
  /\ collectorPC = "none"
  /\ Pool!Init

-----------------------------------------------------------------------------
(* The threads, and what the scheduler thread does to the pool alone.      *)

WorkerStep(w) == UNCHANGED schedulerVars /\ Pool!WorkerStep(w)

SpuriousWakeup(w) == UNCHANGED schedulerVars /\ Pool!SpuriousWakeup(w)

Submit ==
  /\ uncalled = <<>>
  /\ UNCHANGED schedulerVars
  /\ \E f \in Client : \/ \E n \in TaskCounts : Pool!AwaitTasks(f, n)
                       \/ Pool!Signal(f)

Shutdown ==
  /\ loop = "exited"
  /\ UNCHANGED schedulerVars
  /\ Pool!BeginShutdown \/ Pool!UnlockWorkIsDone \/ Pool!Broadcast \/ Pool!Join

Destroyed == UNCHANGED schedulerVars /\ Pool!Destroyed

-----------------------------------------------------------------------------
(* The coroutines of the clients.                                          *)

Goes(f, pc, nextPC) ==
  /\ runningFiber = f /\ uncalled = <<>> /\ Known(f) = f
  /\ fiberPC[f] = pc /\ fiberPC' = [fiberPC EXCEPT ![f] = nextPC]

StartClient ==
  /\ uncalled # <<>> /\ uncalled' = Tail(uncalled)
  /\ CallCoroutine
  /\ Head(uncalled) \in fibers'
  /\ UNCHANGED <<collector, collectorPC, poolVars, awaitVars>>

(* The rest of awaitTasks, once its job is in the queue.                   *)
UnlockAndCount(f) ==
  /\ Goes(f, "unlock0", "suspend")
  /\ mutex0' = NoThread
  /\ jobCount' = jobCount + 1
  /\ IF jobCount' = 1
       THEN /\ CallCoroutine
            /\ collector' = Last(readyFiberQueue')
            /\ collectorPC' = "start"
       ELSE UNCHANGED <<vars, collector, collectorPC>>
  /\ UNCHANGED <<jobQueue0, jobQueue1, mutex1, sleepers, eventfd, workerPC, job, next,
                 spurious, taskCount, executed, calls, workIsDone, mainPC, jobs, uncalled>>

(* Wrong: awaitTasks returns at once.                                      *)
SuspendNot(f) ==
  /\ Goes(f, "suspend", "body")
  /\ UNCHANGED <<schedulerVars, poolVars, jobs, jobCount>>

Suspend(f) ==
  /\ Goes(f, "suspend", "suspended")
  /\ SuspendCurrentFiber
  /\ UNCHANGED <<collector, collectorPC, uncalled, poolVars, jobs, jobCount>>

EndFiber(f) ==
  /\ Goes(f, "body", "dead")
  /\ KillCurrentFiber
  /\ UNCHANGED <<collector, collectorPC, uncalled, poolVars, jobs, jobCount>>

-----------------------------------------------------------------------------
(* The coroutine of the collector.                                         *)

Collecting(pc, nextPC) ==
  /\ runningFiber = collector /\ runningFiber # NoFiber
  /\ collectorPC = pc /\ collectorPC' = nextPC
  /\ UNCHANGED uncalled

CollectorWatch ==
  /\ Collecting("start", "watched")
  /\ WatchIO(EventFD)
  /\ UNCHANGED <<collector, poolVars, awaitVars>>

(* Without a job that is not yet resumed the coroutine leaves its loop.    *)
CollectorAwait ==
  /\ \/ Collecting("watched", "await")
     \/ Collecting("resume", "await") /\ jobs = <<>> /\ jobCount # 0
  /\ AwaitIOEvent(EventFD, "Readability", -1)
  /\ UNCHANGED <<collector, poolVars, awaitVars>>

(* awaitIOEvent returned; the mutex, the read and the split.               *)
Collect ==
  /\ runningFiber = collector
  /\ \/ Collecting("lock1", "read") \/ Collecting("read", "split")
     \/ Collecting("split", "resume")
  /\ UNCHANGED <<vars, collector>>
  /\ Pool!CollectorLock1 \/ Pool!CollectorRead \/ Pool!CollectorSplit

(* Wrong: the fiber is not made ready.                                     *)
ResumeNobody ==
  /\ Collecting("resume", "resume")
  /\ jobs # <<>> /\ jobs' = Tail(jobs)
  /\ jobCount' = jobCount - 1
  /\ fiberPC' = [fiberPC EXCEPT ![Head(jobs)] = "body"]
  /\ UNCHANGED <<vars, collector, poolVars>>

Resume ==
  /\ Collecting("resume", "resume")
  /\ jobs # <<>> /\ jobs' = Tail(jobs)
  /\ ResumeFiber(Head(jobs))
  /\ jobCount' = jobCount - 1
  /\ fiberPC' = [fiberPC EXCEPT ![Head(jobs)] = "body"]
  /\ UNCHANGED <<collector, poolVars>>

CollectorUnwatch ==
  /\ Collecting("resume", "unwatched")
  /\ jobs = <<>> /\ jobCount = 0
  /\ UnwatchIO(EventFD)
  /\ UNCHANGED <<collector, poolVars, awaitVars>>

CollectorEnd ==
  /\ Collecting("unwatched", "none")
  /\ KillCurrentFiber
  /\ collector' = NoFiber
  /\ UNCHANGED <<poolVars, awaitVars>>

-----------------------------------------------------------------------------
(* run().                                                                  *)

(* epoll_wait reports the eventfd as long as its counter is not 0.         *)
EpollWait ==
  /\ FinishWait
  /\ revents'[EventFD] = IF eventfd = 0 THEN {} ELSE interest[EventFD] \cap {"Readability"}
  /\ UNCHANGED <<collector, collectorPC, uncalled, poolVars, awaitVars>>

(* The collector's wait is over when run() makes its fiber ready.          *)
RunLoop ==
  /\ Loop
  /\ collectorPC' = IF phase = "handling" /\ phase' = "idle" /\ collector \in ToSet(eventAwaiterQueue)
                      THEN "lock1" ELSE collectorPC
  /\ UNCHANGED <<collector, uncalled, poolVars, awaitVars>>

Interrupt ==
  /\ InterruptWait
  /\ UNCHANGED <<collector, collectorPC, uncalled, poolVars, awaitVars>>

MainStep ==
  \/ Submit \/ Shutdown \/ StartClient
  \/ \E f \in Client : UnlockAndCount(f) \/ Suspend(f) \/ EndFiber(f)
  \/ CollectorWatch \/ CollectorAwait \/ Collect \/ Resume \/ CollectorUnwatch
  \/ CollectorEnd
  \/ RunLoop

PoolNext ==
  \/ \E w \in Worker : WorkerStep(w) \/ SpuriousWakeup(w)
  \/ MainStep \/ EpollWait \/ Interrupt
  \/ Destroyed

PoolSpec == PoolInit /\ [][PoolNext]_allVars

(* Fairness as in Async and Scheduler: every thread runs, and a readable   *)
(* eventfd ends some wait that no signal interrupts.                       *)
FairPoolSpec ==
  /\ PoolSpec
  /\ WF_allVars(MainStep) /\ SF_allVars(EpollWait)
  /\ \A w \in Worker : WF_allVars(WorkerStep(w))

-----------------------------------------------------------------------------
(* Properties.                                                             *)

(* On this scheduler Async behaves as module Async says.                   *)
ImplementsAsync == Pool!Spec

(* resumeFiber puts its fiber in the ready queue without a look at it: the *)
(* fiber of a finished job has always suspended itself by then, however    *)
(* early the worker was done, and is in no other ring.                     *)
JobsAreSuspended == \A f \in ToSet(jobs) : Suspended(f)

(* Every call of awaitTasks returns: the counter of the eventfd comes to   *)
(* the collector through epoll and run(), also when waits are interrupted. *)
CallsReturn == Pool!CallsReturn

(* When the last fiber has ended ~Async comes to its end: every worker     *)
(* notices workIsDone_, wherever it was when the destructor began.         *)
ShutdownEnds == Pool!ShutdownEnds

=============================================================================
