-------------------------------- MODULE Async --------------------------------
(***************************************************************************)
(* Source/Async.cxx: blocking work on a pool of worker threads.            *)
(*                                                                         *)
(* A fiber calls awaitTasks: it puts a job (which lives on its own stack)  *)
(* in jobQueue0 and suspends itself.  A worker takes the job, executes its *)
(* tasks, puts it in jobQueue1 and adds 1 to an eventfd.  As long as there *)
(* are jobs one more fiber of the scheduler, the collector, waits for the  *)
(* eventfd, takes all of jobQueue1 and resumes the fibers of its jobs.     *)
(*                                                                         *)
(* Threads interleave at every operation on shared state.  The scheduler   *)
(* thread runs one fiber at a time; of Source/Scheduler.cxx (module        *)
(* Scheduler) only the ready queue is kept, and of IOPoll only that the    *)
(* collector's wait ends when the eventfd is readable.  The mutexes, the   *)
(* condition variable and the eventfd are modelled from their use.         *)
(***************************************************************************)
EXTENDS Integers, FiniteSets, SequencesExt

CONSTANTS
  Worker,                   \* the threads of threads_ (4 of them)
  MainThread, NoThread,     \* the scheduler's thread; the owner of a free mutex
  Client,                   \* the fibers that call awaitTasks
  Collector, NoFiber,       \* the fiber awaitTasks starts; no fiber
  TaskCounts,               \* numbers of tasks given to awaitTasks
  MaxCalls,                 \* calls of each client: bound of the model
  MaxSpurious               \* spurious wakeups: bound of the model

ASSUME ThreadAssumption ==
  /\ MainThread \notin Worker /\ NoThread \notin Worker /\ MainThread # NoThread
  /\ Collector \notin Client /\ NoFiber \notin Client /\ Collector # NoFiber

ASSUME BoundAssumption ==
  /\ IsFiniteSet(Client)
  /\ TaskCounts \subseteq Nat /\ MaxCalls \in Nat /\ MaxSpurious \in Nat

VARIABLES
  jobQueue0,        \* jobQueues_[0]: jobs to do, named by their fibers
  jobQueue1,        \* jobQueues_[1]: jobs done
  mutex0, mutex1,   \* mutexes_: the threads that hold them
  sleepers,         \* the workers waiting in condition_
  eventfd,          \* the counter behind fd_
  workIsDone,       \* workIsDone_
  jobCount          \* jobCount_

VARIABLES
  workerPC,         \* where each worker is in doWork
  job,              \* the job it took, NoFiber for none
  next,             \* i: the task of that job it executes next
  spurious          \* spurious wakeups so far

VARIABLES
  runningFiber, readyFiberQueue,
  fiberPC,          \* where each client is: its own code, or awaitTasks
  collectorPC,      \* where the collector is, "none" when there is none
  jobs,             \* jobQueue: what the collector split off jobQueue1
  taskCount,        \* taskCount of the job of each client
  executed,         \* how many of its tasks were executed
  calls,            \* how many times each client called awaitTasks
  mainPC            \* the scheduler thread: in run(), or where in ~Async

todoVars == <<jobQueue0, mutex0, sleepers>>
doneVars == <<jobQueue1, mutex1, eventfd>>
handVars == <<job, next, spurious>>
callVars == <<taskCount, executed, calls>>
readyVars == <<runningFiber, readyFiberQueue>>
collectorVars == <<collectorPC, jobs, jobCount>>
endVars == <<workIsDone, mainPC>>
workerVars == <<workerPC, handVars>>
fiberVars == <<readyVars, fiberPC, collectorVars>>
mainVars == <<fiberVars, endVars>>
vars == <<todoVars, doneVars, workerVars, callVars, mainVars>>

-----------------------------------------------------------------------------
Thread == Worker \cup {MainThread, NoThread}

WorkerPCs == {"lock0", "test", "wait", "run", "write", "unlock1", "exited"}
FiberPCs == {"body", "signal", "unlock0", "suspend", "suspended", "dead"}
CollectorPCs == {"none", "start", "await", "lock1", "read", "split", "resume"}
MainPCs == {"run", "unlock0", "broadcast", "join", "destroyed"}

TypeOK ==
  /\ jobQueue0 \in Seq(Client) /\ jobQueue1 \in Seq(Client)
  /\ mutex0 \in Thread /\ mutex1 \in Thread
  /\ sleepers \subseteq Worker
  /\ eventfd \in Nat
  /\ workIsDone \in BOOLEAN
  /\ jobCount \in Nat
  /\ workerPC \in [Worker -> WorkerPCs]
  /\ job \in [Worker -> Client \cup {NoFiber}]
  /\ next \in [Worker -> Nat]
  /\ spurious \in 0..MaxSpurious
  /\ runningFiber \in Client \cup {Collector, NoFiber}
  /\ readyFiberQueue \in Seq(Client \cup {Collector})
  /\ fiberPC \in [Client -> FiberPCs]
  /\ collectorPC \in CollectorPCs
  /\ jobs \in Seq(Client)
  /\ taskCount \in [Client -> Nat]
  /\ executed \in [Client -> Nat]
  /\ calls \in [Client -> 0..MaxCalls]
  /\ mainPC \in MainPCs

(* The constructor ran, and the clients were called before run().          *)
Init ==
  /\ jobQueue0 = <<>> /\ jobQueue1 = <<>>
  /\ mutex0 = NoThread /\ mutex1 = NoThread
  /\ sleepers = {}
  /\ eventfd = 0
  /\ workIsDone = FALSE
  /\ jobCount = 0
  /\ workerPC = [w \in Worker |-> "lock0"]
  /\ job = [w \in Worker |-> NoFiber]
  /\ next = [w \in Worker |-> 0]
  /\ spurious = 0
  /\ runningFiber = NoFiber
  /\ readyFiberQueue \in {q \in [1..Cardinality(Client) -> Client] : IsInjective(q)}
  /\ fiberPC = [f \in Client |-> "body"]
  /\ collectorPC = "none"
  /\ jobs = <<>>
  /\ taskCount = [f \in Client |-> 0]
  /\ executed = [f \in Client |-> 0]
  /\ calls = [f \in Client |-> 0]
  /\ mainPC = "run"

-----------------------------------------------------------------------------
(* Small steps of the threads, and before each what a mistake would make   *)
(* of it: the mutants of this module.                                      *)

Lock1Open(t) == UNCHANGED mutex1
Lock1(t) == mutex1 = NoThread /\ mutex1' = t

(* pthread_cond_signal and pthread_cond_broadcast on condition_.  Wrong    *)
(* for the second: the first.                                              *)
WakeOne == \/ sleepers = {} /\ UNCHANGED sleepers
           \/ \E w \in sleepers : sleepers' = sleepers \ {w}
WakeAll == sleepers' = {}

(* The job at the head of jobQueues_[0] is taken out.                      *)
TakeHeadLinked(w) ==
  job' = [job EXCEPT ![w] = Head(jobQueue0)] /\ UNCHANGED jobQueue0
TakeHead(w) ==
  job' = [job EXCEPT ![w] = Head(jobQueue0)] /\ jobQueue0' = Tail(jobQueue0)

(* The condition of the loop over the tasks of a job.                      *)
HasTaskButOne(w) == next[w] + 1 < taskCount[job[w]]
HasTask(w) == next[w] < taskCount[job[w]]

(* awaitIOEvent on the eventfd, without a timeout, ends.                   *)
IsReadableOrLate == TRUE
IsReadable == eventfd > 0

(* The condition of the collector's loop.                                  *)
NextTurnNever(count) == "none"
NextTurn(count) == IF count # 0 THEN "await" ELSE "none"

-----------------------------------------------------------------------------
(* doWork.                                                                 *)

Goto(w, pc) == workerPC' = [workerPC EXCEPT ![w] = pc]

Lock0(w) ==
  /\ workerPC[w] = "lock0" /\ Goto(w, "test")
  /\ mutex0 = NoThread /\ mutex0' = w
  /\ UNCHANGED <<jobQueue0, sleepers, doneVars, handVars, callVars, mainVars>>

(* Wait for condition_: the worker sleeps and the mutex is free.           *)
Wait(w) ==
  /\ workerPC[w] = "test" /\ Goto(w, "wait")
  /\ ~workIsDone /\ jobQueue0 = <<>>
  /\ mutex0' = NoThread
  /\ sleepers' = sleepers \cup {w}
  /\ UNCHANGED <<jobQueue0, doneVars, handVars, callVars, mainVars>>

(* pthread_cond_wait returns, once it has the mutex again: after a signal, *)
(* or for no reason.                                                       *)
Wakeup(w) ==
  /\ workerPC[w] = "wait" /\ Goto(w, "lock0")
  /\ w \notin sleepers
  /\ UNCHANGED <<todoVars, doneVars, handVars, callVars, mainVars>>

SpuriousWakeup(w) ==
  /\ w \in sleepers /\ sleepers' = sleepers \ {w}
  /\ spurious < MaxSpurious /\ spurious' = spurious + 1
  /\ UNCHANGED <<jobQueue0, mutex0, doneVars, workerPC, job, next, callVars,
                 mainVars>>

TakeJob(w) ==
  /\ workerPC[w] = "test" /\ Goto(w, "run")
  /\ ~workIsDone /\ jobQueue0 # <<>>
  /\ TakeHead(w)
  /\ next' = [next EXCEPT ![w] = 0]
  /\ mutex0' = NoThread
  /\ UNCHANGED <<sleepers, doneVars, spurious, callVars, mainVars>>

Quit(w) ==
  /\ workerPC[w] = "test" /\ Goto(w, "exited")
  /\ workIsDone
  /\ mutex0' = NoThread
  /\ UNCHANGED <<jobQueue0, sleepers, doneVars, handVars, callVars, mainVars>>

RunTask(w) ==
  /\ workerPC[w] = "run" /\ HasTask(w)
  /\ executed' = [executed EXCEPT ![job[w]] = @ + 1]
  /\ next' = [next EXCEPT ![w] = @ + 1]
  /\ UNCHANGED <<todoVars, doneVars, workerPC, job, spurious, taskCount, calls,
                 mainVars>>

(* The mutex is taken and the job inserted: nothing else looks at the      *)
(* queue meanwhile.                                                        *)
FinishJob(w) ==
  /\ workerPC[w] = "run" /\ Goto(w, "write")
  /\ ~HasTask(w)
  /\ Lock1(w)
  /\ jobQueue1' = Append(jobQueue1, job[w])
  /\ job' = [job EXCEPT ![w] = NoFiber]
  /\ UNCHANGED <<todoVars, eventfd, next, spurious, callVars, mainVars>>

Write(w) ==
  /\ workerPC[w] = "write" /\ Goto(w, "unlock1")
  /\ eventfd' = eventfd + 1
  /\ UNCHANGED <<todoVars, jobQueue1, mutex1, handVars, callVars, mainVars>>

Unlock1(w) ==
  /\ workerPC[w] = "unlock1" /\ Goto(w, "lock0")
  /\ mutex1' = NoThread
  /\ UNCHANGED <<todoVars, jobQueue1, eventfd, handVars, callVars, mainVars>>

-----------------------------------------------------------------------------
(* The scheduler thread: fibers.                                           *)

(* The running fiber gave up the thread, q is the ready queue.             *)
ExecuteNext(q) ==
  IF q = <<>> THEN runningFiber' = NoFiber /\ readyFiberQueue' = q
              ELSE runningFiber' = Head(q) /\ readyFiberQueue' = Tail(q)

Idle == mainPC = "run" /\ runningFiber = NoFiber

Dispatch ==
  /\ Idle /\ readyFiberQueue # <<>>
  /\ ExecuteNext(readyFiberQueue)
  /\ UNCHANGED <<todoVars, doneVars, workerVars, callVars, fiberPC,
                 collectorVars, endVars>>

(* Nothing is ready: epoll_wait returns when the eventfd is readable.      *)
Poll ==
  /\ Idle /\ readyFiberQueue = <<>>
  /\ collectorPC = "await" /\ collectorPC' = "lock1"
  /\ IsReadable
  /\ readyFiberQueue' = <<Collector>>
  /\ UNCHANGED <<todoVars, doneVars, workerVars, callVars, runningFiber,
                 fiberPC, jobs, jobCount, endVars>>

(* The running fiber goes from one point of awaitTasks to another.         *)
Step(f, pc, nextPC) ==
  /\ mainPC = "run" /\ runningFiber = f
  /\ fiberPC[f] = pc /\ fiberPC' = [fiberPC EXCEPT ![f] = nextPC]

(* awaitTasks up to the insertion of the job.                              *)
AwaitTasks(f, n) ==
  /\ Step(f, "body", "signal")
  /\ calls[f] < MaxCalls /\ calls' = [calls EXCEPT ![f] = @ + 1]
  /\ mutex0 = NoThread /\ mutex0' = MainThread
  /\ jobQueue0' = Append(jobQueue0, f)
  /\ taskCount' = [taskCount EXCEPT ![f] = n]
  /\ executed' = [executed EXCEPT ![f] = 0]
  /\ UNCHANGED <<sleepers, doneVars, workerVars, readyVars, collectorVars, endVars>>

Signal(f) ==
  /\ Step(f, "signal", "unlock0")
  /\ WakeOne
  /\ UNCHANGED <<jobQueue0, mutex0, doneVars, workerVars, callVars, readyVars,
                 collectorVars, endVars>>

(* The mutex is free again.  The rest of awaitTasks only the scheduler     *)
(* thread sees: it counts the job and starts the collector for the first   *)
(* one.                                                                    *)
UnlockAndCount(f) ==
  /\ Step(f, "unlock0", "suspend")
  /\ mutex0' = NoThread
  /\ jobCount' = jobCount + 1
  /\ IF jobCount = 0
       THEN collectorPC' = "start" /\ readyFiberQueue' = Append(readyFiberQueue, Collector)
       ELSE UNCHANGED <<collectorPC, readyFiberQueue>>
  /\ UNCHANGED <<jobQueue0, sleepers, doneVars, workerVars, callVars, runningFiber,
                 jobs, endVars>>

Suspend(f) ==
  /\ Step(f, "suspend", "suspended")
  /\ ExecuteNext(readyFiberQueue)
  /\ UNCHANGED <<todoVars, doneVars, workerVars, callVars, collectorVars, endVars>>

EndFiber(f) ==
  /\ Step(f, "body", "dead")
  /\ ExecuteNext(readyFiberQueue)
  /\ UNCHANGED <<todoVars, doneVars, workerVars, callVars, collectorVars, endVars>>

-----------------------------------------------------------------------------
(* The collector: the coroutine awaitTasks passes to callCoroutine.        *)

Collecting(pc, nextPC) ==
  /\ mainPC = "run" /\ runningFiber = Collector
  /\ collectorPC = pc /\ collectorPC' = nextPC

(* watchIO and awaitIOEvent.                                               *)
StartCollector ==
  /\ Collecting("start", "await")
  /\ ExecuteNext(readyFiberQueue)
  /\ UNCHANGED <<todoVars, doneVars, workerVars, callVars, fiberPC, jobs,
                 jobCount, endVars>>

CollectorLock1 ==
  /\ Collecting("lock1", "read")
  /\ Lock1(MainThread)
  /\ UNCHANGED <<todoVars, jobQueue1, eventfd, workerVars, callVars, readyVars,
                 fiberPC, jobs, jobCount, endVars>>

(* fd_ is a blocking eventfd: the read waits until the counter is not 0.   *)
CollectorRead ==
  /\ Collecting("read", "split")
  /\ eventfd > 0 /\ eventfd' = 0
  /\ UNCHANGED <<todoVars, jobQueue1, mutex1, workerVars, callVars, readyVars,
                 fiberPC, jobs, jobCount, endVars>>

CollectorSplit ==
  /\ Collecting("split", "resume")
  /\ jobs' = jobQueue1 /\ jobQueue1' = <<>>
  /\ mutex1' = NoThread
  /\ UNCHANGED <<todoVars, eventfd, workerVars, callVars, readyVars, fiberPC,
                 jobCount, endVars>>

(* One turn of the loop over the jobs: the fiber is resumed.               *)
ResumeFiber ==
  /\ jobs # <<>> /\ jobs' = Tail(jobs)
  /\ Collecting("resume", "resume")
  /\ fiberPC' = [fiberPC EXCEPT ![Head(jobs)] = "body"]
  /\ readyFiberQueue' = Append(readyFiberQueue, Head(jobs))
  /\ jobCount' = jobCount - 1
  /\ UNCHANGED <<todoVars, doneVars, workerVars, callVars, runningFiber, endVars>>

(* The next turn of the outer loop, or unwatchIO and the end of the        *)
(* coroutine.                                                              *)
CollectorEndTurn ==
  /\ jobs = <<>>
  /\ Collecting("resume", NextTurn(jobCount))
  /\ ExecuteNext(readyFiberQueue)
  /\ UNCHANGED <<todoVars, doneVars, workerVars, callVars, fiberPC, jobs, jobCount,
                 endVars>>

-----------------------------------------------------------------------------
(* main() returns: ~Scheduler destroys async_.                             *)

(* run() returned because every fiber is dead.                             *)
BeginShutdown ==
  /\ mainPC = "run" /\ mainPC' = "unlock0"
  /\ collectorPC = "none" /\ \A f \in Client : fiberPC[f] = "dead"
  /\ mutex0 = NoThread /\ mutex0' = MainThread
  /\ workIsDone' = TRUE
  /\ UNCHANGED <<jobQueue0, sleepers, doneVars, workerVars, callVars, fiberVars>>

UnlockWorkIsDone ==
  /\ mainPC = "unlock0" /\ mainPC' = "broadcast"
  /\ mutex0' = NoThread
  /\ UNCHANGED <<jobQueue0, sleepers, doneVars, workerVars, callVars, fiberVars,
                 workIsDone>>

Broadcast ==
  /\ mainPC = "broadcast" /\ mainPC' = "join"
  /\ WakeAll
  /\ UNCHANGED <<jobQueue0, mutex0, doneVars, workerVars, callVars, fiberVars,
                 workIsDone>>

Join ==
  /\ mainPC = "join" /\ mainPC' = "destroyed"
  /\ \A w \in Worker : workerPC[w] = "exited"
  /\ UNCHANGED <<todoVars, doneVars, workerVars, callVars, fiberVars, workIsDone>>

Destroyed == mainPC = "destroyed" /\ UNCHANGED vars

-----------------------------------------------------------------------------
WorkerStep(w) ==
  \/ Lock0(w) \/ Wait(w) \/ Wakeup(w) \/ TakeJob(w) \/ Quit(w)
  \/ RunTask(w) \/ FinishJob(w) \/ Write(w) \/ Unlock1(w)

ClientStep(f) ==
  \/ \E n \in TaskCounts : AwaitTasks(f, n)
  \/ Signal(f) \/ UnlockAndCount(f) \/ Suspend(f) \/ EndFiber(f)

MainStep ==
  \/ Dispatch \/ Poll
  \/ \E f \in Client : ClientStep(f)
  \/ StartCollector \/ CollectorLock1 \/ CollectorRead \/ CollectorSplit
  \/ ResumeFiber \/ CollectorEndTurn
  \/ BeginShutdown \/ UnlockWorkIsDone \/ Broadcast \/ Join

Next ==
  \/ \E w \in Worker : WorkerStep(w) \/ SpuriousWakeup(w)
  \/ MainStep
  \/ Destroyed

Spec == Init /\ [][Next]_vars

-----------------------------------------------------------------------------
(* Properties.                                                             *)

(* The read of the eventfd never blocks.  It is made with mutex1 held: if  *)
(* it blocked no worker could ever write, and every thread would wait for  *)
(* ever.                                                                   *)
ReadNeverBlocks == collectorPC = "read" => eventfd > 0

(* QUEUE_SPLIT is made for a queue that is not empty (it corrupts an empty *)
(* one): an eventfd that is readable always means a finished job.          *)
SplitNonEmpty == collectorPC = "split" => jobQueue1 # <<>>

InCall == {f \in Client : fiberPC[f] \in {"signal", "unlock0", "suspend", "suspended"}}

(* The jobs the workers hold.                                              *)
HeldJobs == {job[w] : w \in Worker} \ {NoFiber}

(* A job lives on the stack of a fiber inside awaitTasks: it is in exactly *)
(* one queue or hand while its fiber is there, and in none before and      *)
(* after, so no thread touches the stack of a fiber that went on.          *)
NoDanglingJob ==
  LET queued == jobQueue0 \o jobQueue1 \o jobs
  IN /\ TypeOK
     /\ IsInjective(queued) /\ ToSet(queued) \cap HeldJobs = {}
     /\ \A v, w \in Worker : job[v] = job[w] => v = w \/ job[v] = NoFiber
     /\ ToSet(queued) \cup HeldJobs = InCall

(* jobCount_ counts the jobs whose fibers are not yet resumed, and there   *)
(* is a collector (and just one: createWatcher asserts it) exactly while   *)
(* there are any, or it is about to see that there are none.               *)
CollectorServesJobs ==
  /\ jobCount = Cardinality({f \in Client : fiberPC[f] \in {"suspend", "suspended"}})
  /\ collectorPC # "none" <=> jobCount > 0 \/ collectorPC = "resume"

(* ~Async finds the pool at rest: no job, no pending count in the eventfd, *)
(* no worker that will still use mutex1 or the eventfd.                    *)
ShutdownFindsNoWork ==
  workIsDone => /\ jobQueue0 = <<>> /\ jobQueue1 = <<>>
                /\ eventfd = 0 /\ mutex1 = NoThread
                /\ \A w \in Worker : workerPC[w] \in {"lock0", "test", "wait", "exited"}

Calls == INSTANCE TaskCall
           WITH called <- InCall, left <- [f \in Client |-> taskCount[f] - executed[f]]

(* awaitTasks executes its tasks, each once, before it returns.            *)
ImplementsTaskCall == Calls!Spec

(* Every call of awaitTasks returns: no wakeup of a worker is lost, no     *)
(* count in the eventfd is.                                                *)
CallsReturn ==
  \A f \in Client : fiberPC[f] = "suspended" ~> fiberPC[f] = "body"

(* ~Async comes to its end: every worker notices workIsDone_.              *)
ShutdownEnds == mainPC # "run" ~> mainPC = "destroyed"

=============================================================================
