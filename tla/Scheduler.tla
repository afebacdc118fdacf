------------------------------ MODULE Scheduler ------------------------------
(***************************************************************************)
(* Source/Scheduler.cxx: the fibers of one thread, the queues and timers   *)
(* they wait in, and the loop of Scheduler::run that wakes them.           *)
(*                                                                         *)
(* A fiber runs until it blocks, yields or ends; it then jumps straight to *)
(* the next ready fiber, and back into run() when none is ready.  One      *)
(* action below is everything that happens between two such jumps, or one  *)
(* phase of the loop body of run().  The poller is module IOPoll, used     *)
(* under the name Poll; the timer heap is TimerQueue, under the name       *)
(* Timers (module Timer shows that Source/Timer.cxx implements it).        *)
(*                                                                         *)
(* The queue item inside a fiber links it in at most one ring at a time,   *)
(* so rings are sequences here.  removeEventAwaiter on an item that is in  *)
(* no ring writes through stale pointers: the model stops there, with      *)
(* failure = "unlinked".                                                   *)
(***************************************************************************)
EXTENDS Integers, FiniteSets, SequencesExt

CONSTANTS
  Fiber, NoFiber,   \* fiber structures the heap can hold, and nullptr
  FD, NoFD,         \* descriptors, and the -1 of Fiber::fd
  MaxEvents,        \* length of the epoll_event array in waitForEvents (1024)
  BufferLength,     \* length of the TimerItem array in run (1024)
  Durations,        \* durations and timeouts in use; negative: forever
  MaxTime,          \* the clock stops here: bound of the model
  Never,            \* UINT64_MAX, the due time of "forever"
  Lag,              \* CLOCK_MONOTONIC_COARSE may lag behind epoll's clock
  SleepAfterIO      \* may a fiber sleep after it waited for a descriptor?

ASSUME ConstantsAssumption ==
  /\ NoFiber \notin Fiber /\ NoFD \notin FD
  /\ MaxEvents \in Nat \ {0} /\ BufferLength \in Nat \ {0}
  /\ Durations \subseteq Int /\ MaxTime \in Nat /\ Never \in Nat /\ Lag \in Nat
  /\ MaxTime < Never
  /\ \A d \in Durations : MaxTime + d < Never
  /\ SleepAfterIO \in BOOLEAN

VARIABLES
  fibers,           \* the Fiber structures that are allocated
  fiberCount,       \* fiberCount_
  runningFiber,     \* runningFiber_
  readyFiberQueue,  \* readyFiberQueue_
  deadFiberQueue,   \* deadFiberQueue_
  context,          \* Fiber::context: which wait saved it, "none": nullptr
  status,           \* Fiber::status
  fiberFD,          \* Fiber::fd
  dueTime,          \* the timer heap: due time of each item, or NotQueued
  now,              \* GetTime()
  loop,             \* where run() is
  deadline,         \* when the epoll_wait in progress times out
  buffer,           \* the due items run() has not yet looked at
  failure           \* why the process can not go on

VARIABLES watchers, eventFlags, pendingEventFlags, eventAwaiterQueues,
          dirtyWatcherQueue, interest, phase, revents, eventAwaiterQueue, aborted

Poll == INSTANCE IOPoll WITH Awaiter <- Fiber

Timers == INSTANCE TimerQueue WITH Item <- Fiber

heapVars == <<fibers, fiberCount, deadFiberQueue>>
readyVars == <<runningFiber, readyFiberQueue>>
stateVars == <<context, status, fiberFD>>
fiberVars == <<heapVars, readyVars, stateVars>>
timeVars == <<dueTime, now>>
turnVars == <<deadline, buffer, failure>>
loopVars == <<loop, turnVars>>
pollVars == <<watchers, eventFlags, pendingEventFlags, eventAwaiterQueues,
              dirtyWatcherQueue, interest, phase, revents, eventAwaiterQueue,
              aborted>>
vars == <<fiberVars, timeVars, loopVars, pollVars>>

-----------------------------------------------------------------------------
ETIME == 62
EBADF == 9

Contexts == {"none", "yield", "sleep", "await", "suspend"}
LoopStates == {"top", "fiber", "reap", "poll", "timers", "due", "exited"}
Failures == {"none", "noWatcher", "unlinked"}

TypeOK ==
  /\ fibers \subseteq Fiber
  /\ fiberCount \in Nat
  /\ runningFiber \in fibers \cup {NoFiber}
  /\ readyFiberQueue \in Seq(fibers)
  /\ deadFiberQueue \in Seq(fibers)
  /\ context \in [Fiber -> Contexts]
  /\ status \in [Fiber -> {0, 1, -ETIME, -EBADF}]
  /\ fiberFD \in [Fiber -> FD \cup {NoFD}]
  /\ dueTime \in [Fiber -> Nat \cup {Timers!NotQueued}]
  /\ now \in 0..MaxTime
  /\ loop \in LoopStates
  /\ deadline \in Nat
  /\ buffer \in Seq(fibers)
  /\ failure \in Failures
  /\ Poll!TypeOK

(* Main.cxx: main() has called callCoroutine for TaraMain and enters run().*)
Init ==
  /\ \E f \in Fiber : fibers = {f} /\ readyFiberQueue = <<f>>
  /\ fiberCount = 1
  /\ runningFiber = NoFiber
  /\ deadFiberQueue = <<>>
  /\ context = [f \in Fiber |-> "none"]
  /\ status = [f \in Fiber |-> 0]
  /\ fiberFD = [f \in Fiber |-> NoFD]
  /\ dueTime = [f \in Fiber |-> Timers!NotQueued]
  /\ now = 0
  /\ loop = "top"
  /\ deadline = Never
  /\ buffer = <<>>
  /\ failure = "none"
  /\ Poll!Init

-----------------------------------------------------------------------------
(* Small steps of the scheduler, and before each what a mistake would make *)
(* of it: the mutants of this module.                                      *)

(* The tail of every blocking call: execute() when no fiber is ready in q, *)
(* else executeFiber(the head of q).  Wrong: back to run() in any case.    *)
ExecuteNextInRun(q) ==
  runningFiber' = NoFiber /\ readyFiberQueue' = q /\ loop' = "reap"
ExecuteNext(q) ==
  \/ q = <<>> /\ runningFiber' = NoFiber /\ readyFiberQueue' = q /\ loop' = "reap"
  \/ q # <<>> /\ runningFiber' = Head(q) /\ readyFiberQueue' = Tail(q) /\ UNCHANGED loop

(* The ready queue with f in it.                                           *)
Enqueued(f) == Append(readyFiberQueue, f)

(* The context of a coroutine that ended goes.  Wrong: it stays.           *)
KeepContext == UNCHANGED context
ClearContext == context' = [context EXCEPT ![runningFiber] = "none"]

(* The dead fibers are freed and counted.  Wrong: not counted.             *)
UncountNone == UNCHANGED fiberCount
UncountDead == fiberCount' = fiberCount - Len(deadFiberQueue)

(* The dead queue is reset.  Wrong: it links the freed fibers.             *)
KeepDeadQueue == UNCHANGED deadFiberQueue
ResetDeadQueue == deadFiberQueue' = <<>>

(* A timed out fiber leaves its watcher.  Wrong: it stays linked there.    *)
StayInWatcher(f) == f \in ToSet(Poll!AwaitersOf(fiberFD[f])) /\ UNCHANGED pollVars
LeaveWatcher(f) == Poll!RemoveEventAwaiter(f, fiberFD[f])

(* The fibers of q, whose wait an event or a close ended, leave the timer  *)
(* and become ready.  Wrong: they stay in the timer; they are forgotten.   *)
ReleaseTimed(q) == readyFiberQueue' = readyFiberQueue \o q /\ UNCHANGED dueTime
ReleaseNot(q) == Timers!RemoveItems(ToSet(q)) /\ UNCHANGED readyFiberQueue
Release(q) ==
  Timers!RemoveItems(ToSet(q)) /\ readyFiberQueue' = readyFiberQueue \o q

-----------------------------------------------------------------------------
(* What the running fiber may do.                                          *)

IsRunning == loop = "fiber" /\ failure = "none"

SaveContext(wait) ==
  /\ context' = [context EXCEPT ![runningFiber] = wait]
  /\ status' = [status EXCEPT ![runningFiber] = 1]

(* callCoroutine takes a dead fiber, or makes one when there is none.      *)
ReuseFiber ==
  /\ deadFiberQueue # <<>> /\ deadFiberQueue' = Tail(deadFiberQueue)
  /\ readyFiberQueue' = Enqueued(Head(deadFiberQueue))
  /\ UNCHANGED <<fibers, fiberCount, stateVars>>

(* A region of memory with the Fiber at its end, and its constructor.      *)
NewFiber(f) ==
  /\ f \notin fibers /\ fibers' = fibers \cup {f}
  /\ context' = [context EXCEPT ![f] = "none"]
  /\ status' = [status EXCEPT ![f] = 0]
  /\ fiberFD' = [fiberFD EXCEPT ![f] = NoFD]

CreateFiber(f) ==
  /\ deadFiberQueue = <<>> /\ UNCHANGED deadFiberQueue
  /\ NewFiber(f)
  /\ readyFiberQueue' = Enqueued(f)
  /\ fiberCount' = fiberCount + 1

CallCoroutine ==
  /\ IsRunning
  /\ ReuseFiber \/ \E f \in Fiber : CreateFiber(f)
  /\ UNCHANGED <<runningFiber, timeVars, loopVars, pollVars>>

YieldCurrentFiber ==
  /\ IsRunning
  /\ readyFiberQueue # <<>>
  /\ SaveContext("yield")
  /\ ExecuteNext(Enqueued(runningFiber))
  /\ UNCHANGED <<heapVars, fiberFD, timeVars, turnVars, pollVars>>

SleepCurrentFiber(duration) ==
  /\ IsRunning
  /\ SleepAfterIO \/ fiberFD[runningFiber] = NoFD
  /\ SaveContext("sleep")
  /\ Timers!AddItem(runningFiber, duration)
  /\ ExecuteNext(readyFiberQueue)
  /\ UNCHANGED <<heapVars, fiberFD, now, turnVars, pollVars>>

(* The coroutine returned or called exitCurrentFiber; FiberStart ends it.  *)
KillCurrentFiber ==
  /\ IsRunning
  /\ ClearContext
  /\ status' = [status EXCEPT ![runningFiber] = 0]
  /\ deadFiberQueue' = Append(deadFiberQueue, runningFiber)
  /\ ExecuteNext(readyFiberQueue)
  /\ UNCHANGED <<fibers, fiberCount, fiberFD, timeVars, turnVars, pollVars>>

(* A descriptor was opened: Scheduler::watchIO.                            *)
WatchIO(fd) ==
  /\ IsRunning
  /\ Poll!CreateWatcher(fd)
  /\ UNCHANGED <<fiberVars, timeVars, loopVars>>

(* A descriptor is closed: whoever awaits it becomes ready with EBADF.     *)
UnwatchIO(fd) ==
  LET fiberQueue == Poll!AwaitersOf(fd) IN
  /\ IsRunning
  /\ Poll!DestroyWatcher(fd)
  /\ Release(fiberQueue)
  /\ status' = [f \in Fiber |-> IF f \in ToSet(fiberQueue) THEN -EBADF ELSE status[f]]
  /\ UNCHANGED <<heapVars, runningFiber, context, fiberFD, now, loopVars>>

AwaitIOEvent(fd, ioEvent, timeout) ==
  /\ IsRunning
  /\ SaveContext("await")
  /\ fiberFD' = [fiberFD EXCEPT ![runningFiber] = fd]
  /\ Poll!AddEventAwaiter(runningFiber, fd, ioEvent)
  /\ Timers!AddItem(runningFiber, timeout)
  /\ ExecuteNext(readyFiberQueue)
  /\ UNCHANGED <<heapVars, now, turnVars>>

(* Async::awaitTasks suspends its fiber, the fiber that collects finished  *)
(* jobs resumes it; only suspended fibers are resumed (module Async).      *)
SuspendCurrentFiber ==
  /\ IsRunning
  /\ SaveContext("suspend")
  /\ ExecuteNext(readyFiberQueue)
  /\ UNCHANGED <<heapVars, fiberFD, timeVars, turnVars, pollVars>>

Suspended(f) ==
  /\ f \in fibers /\ context[f] = "suspend"
  /\ f # runningFiber /\ f \notin ToSet(readyFiberQueue)

ResumeFiber(f) ==
  /\ IsRunning
  /\ Suspended(f)
  /\ readyFiberQueue' = Enqueued(f)
  /\ UNCHANGED <<heapVars, runningFiber, stateVars, timeVars, loopVars, pollVars>>

-----------------------------------------------------------------------------
(* The loop of run().                                                      *)

Dispatch ==
  /\ loop = "top"
  /\ IF readyFiberQueue = <<>>
       THEN loop' = "reap" /\ UNCHANGED readyVars
       ELSE /\ loop' = "fiber"
            /\ runningFiber' = Head(readyFiberQueue)
            /\ readyFiberQueue' = Tail(readyFiberQueue)
  /\ UNCHANGED <<heapVars, stateVars, timeVars, turnVars, pollVars>>

(* no_ready_fiber: the dead fibers are freed; run() returns with the last. *)
DestroyDeadFibers ==
  /\ loop = "reap"
  /\ fibers' = fibers \ ToSet(deadFiberQueue)
  /\ UncountDead
  /\ ResetDeadQueue
  /\ loop' = IF deadFiberQueue # <<>> /\ fiberCount' = 0 THEN "exited" ELSE "poll"
  /\ UNCHANGED <<readyVars, stateVars, timeVars, turnVars, pollVars>>

StartWait ==
  /\ loop = "poll"
  /\ Poll!FlushDirtyWatchers
  /\ deadline' = Timers!TimeoutAt
  /\ UNCHANGED <<fiberVars, timeVars, loop, buffer, failure>>

Expired == deadline # Never /\ now + Lag >= deadline

(* epoll_wait returns with events, or because its timeout expired.         *)
FinishWait ==
  /\ loop = "poll"
  /\ \E r \in Poll!Reports : (r # Poll!NothingReported \/ Expired) /\ Poll!EpollWait(r)
  /\ UNCHANGED <<fiberVars, timeVars, loopVars>>

InterruptWait ==
  /\ loop = "poll"
  /\ Poll!Interrupted
  /\ UNCHANGED <<fiberVars, timeVars, loopVars>>

HandleEvent(fd) ==
  /\ loop = "poll"
  /\ Poll!HandleError(fd) \/ Poll!HandleReadiness(fd)
  /\ UNCHANGED <<fiberVars, timeVars, loopVars>>

(* The fibers whose event came leave the timer and become ready.           *)
WakeAwaiters ==
  /\ loop = "poll" /\ loop' = "timers"
  /\ Poll!EndWait
  /\ Release(eventAwaiterQueue)
  /\ UNCHANGED <<heapVars, runningFiber, stateVars, now, turnVars>>

RemoveDueItems ==
  /\ loop = "timers" /\ loop' = "due"
  /\ \E b \in Timers!DueBatches : buffer' = b /\ Timers!RemoveItems(ToSet(b))
  /\ UNCHANGED <<fiberVars, now, deadline, failure, pollVars>>

(* One turn of the loop over the due items, from the last to the first.    *)
(* A fiber with a descriptor is taken for one whose I/O wait timed out.    *)
WakeSleeper(f) ==
  /\ fiberFD[f] = NoFD
  /\ readyFiberQueue' = <<f>> \o readyFiberQueue
  /\ UNCHANGED <<status, fiberFD, failure, pollVars>>

TimeOutAwaiter(f) ==
  /\ fiberFD[f] \in watchers
  /\ LeaveWatcher(f)
  /\ fiberFD' = [fiberFD EXCEPT ![f] = NoFD]
  /\ status' = [status EXCEPT ![f] = -ETIME]
  /\ readyFiberQueue' = <<f>> \o readyFiberQueue
  /\ UNCHANGED failure

(* No watcher: assert(watcherExists(fd)) in removeEventAwaiter fails.  A   *)
(* watcher, but the fiber's queue item is in none of its queues.           *)
FailToTimeOut(f) ==
  /\ fiberFD[f] # NoFD
  /\ \/ fiberFD[f] \notin watchers /\ failure' = "noWatcher"
     \/ /\ fiberFD[f] \in watchers /\ f \notin ToSet(Poll!AwaitersOf(fiberFD[f]))
        /\ failure' = "unlinked"
  /\ UNCHANGED <<readyFiberQueue, status, fiberFD, pollVars>>

WakeDueFiber ==
  /\ loop = "due" /\ failure = "none"
  /\ buffer # <<>> /\ buffer' = Front(buffer)
  /\ LET f == Last(buffer) IN
       WakeSleeper(f) \/ TimeOutAwaiter(f) \/ FailToTimeOut(f)
  /\ UNCHANGED <<heapVars, runningFiber, context, timeVars, loop, deadline>>

EndOfTurn ==
  /\ loop = "due" /\ loop' = "top"
  /\ failure = "none" /\ buffer = <<>>
  /\ UNCHANGED <<fiberVars, timeVars, turnVars, pollVars>>

-----------------------------------------------------------------------------
Tick ==
  /\ now < MaxTime /\ now' = now + 1
  /\ UNCHANGED <<fiberVars, dueTime, loopVars, pollVars>>

(* run() returned, or the process is beyond what the model describes.      *)
Stopped ==
  /\ loop = "exited" \/ failure # "none" \/ aborted
  /\ UNCHANGED vars

(* The ways a fiber gives up the thread.                                   *)
Switch ==
  \/ YieldCurrentFiber
  \/ \E d \in Durations : SleepCurrentFiber(d)
  \/ KillCurrentFiber
  \/ \E fd \in FD, e \in Poll!Event, t \in Durations : AwaitIOEvent(fd, e, t)
  \/ SuspendCurrentFiber

Loop ==
  \/ Dispatch
  \/ DestroyDeadFibers
  \/ StartWait
  \/ \E fd \in FD : HandleEvent(fd)
  \/ WakeAwaiters
  \/ RemoveDueItems
  \/ WakeDueFiber
  \/ EndOfTurn

Next ==
  \/ Switch
  \/ CallCoroutine
  \/ \E fd \in FD : WatchIO(fd) \/ UnwatchIO(fd)
  \/ \E f \in Fiber : ResumeFiber(f)
  \/ Loop
  \/ FinishWait
  \/ InterruptWait
  \/ Tick
  \/ Stopped

Spec == Init /\ [][Next]_vars

-----------------------------------------------------------------------------
(* Properties.                                                             *)

(* The fibers linked in the rings of the scheduler, and in the poller's.   *)
Placed == ToSet(readyFiberQueue \o deadFiberQueue)
Awaiting == ToSet(eventAwaiterQueue) \cup Poll!Waiting
Linked == Placed \cup Awaiting

Sleeping(f) == context[f] = "sleep" /\ (f \in Timers!Queued \/ f \in ToSet(buffer))

(* A fiber's one queue item is in at most one ring, never in one while the *)
(* fiber runs or sleeps, and no ring holds a freed fiber: closing,         *)
(* timeouts, events and the reuse of dead fibers never link an item twice. *)
LinkedOnce ==
  /\ IsInjective(readyFiberQueue \o deadFiberQueue)
  /\ Poll!AwaitersApart
  /\ Placed \cap Awaiting = {}
  /\ Linked \subseteq fibers \ {runningFiber}
  /\ \A f \in Linked : ~Sleeping(f)

(* No fiber is lost: it runs, or is linked in a ring, or sleeps, or is     *)
(* suspended until resumeFiber.                                            *)
NoFiberIsLost ==
  failure = "none" =>
    \A f \in fibers : \/ f = runningFiber \/ f \in Linked
                      \/ Sleeping(f) \/ Suspended(f)

(* The timer holds exactly the fibers that sleep or await an event and are *)
(* not yet woken: whatever ends a wait takes the item out once, so no item *)
(* is inserted while it is in the heap or removed while it is not.         *)
TimersMatchWaits ==
  failure = "none" =>
    Timers!Queued = {f \in fibers : /\ context[f] \in {"sleep", "await"}
                             /\ f # runningFiber
                             /\ f \notin ToSet(readyFiberQueue \o deadFiberQueue \o buffer)}

(* The timeout of an awaiter and the event or the close that ends its wait *)
(* exclude each other: an awaiter found due is still in a queue of the     *)
(* watcher that run() will take it out of.                                 *)
DueAwaitersAreLinked ==
  \A f \in ToSet(buffer) :
    context[f] = "await" =>
      fiberFD[f] \in watchers /\ f \in ToSet(Poll!AwaitersOf(fiberFD[f]))

(* assert(fiber->status != 0) in executeFiber holds for every fiber that   *)
(* will be resumed, and a fiber that starts anew has no context left from  *)
(* the coroutine it ran before.                                            *)
ReadyFibersCanRun ==
  \A f \in ToSet(readyFiberQueue) : context[f] = "none" <=> status[f] = 0

(* run() returns when the last fiber ended, and only then: fiberCount_     *)
(* counts the allocated fibers also when dead ones are used again.         *)
ExitsWithTheLastFiber ==
  /\ fiberCount = Cardinality(fibers)
  /\ loop = "exited" <=> fibers = {}

(* assert(watcherExists(fd)) in IOPoll::removeEventAwaiter holds when      *)
(* run() takes a fiber whose I/O wait timed out from its queue.            *)
AssertWatcherExists == failure # "noWatcher"

(* The life of a fiber, from where it is.                                  *)
State(f) ==
  CASE f \notin fibers -> "free"
    [] f = runningFiber -> "running"
    [] f \in ToSet(readyFiberQueue) -> "ready"
    [] f \in ToSet(deadFiberQueue) -> "dead"
    [] OTHER -> "blocked"

Life == INSTANCE FiberLife WITH state <- [f \in Fiber |-> State(f)]

(* The scheduler implements FiberLife.                                     *)
ImplementsFiberLife == Life!Spec

(* A ready fiber runs: yielding fibers and fibers put at the head of the   *)
(* ready queue by the timer do not overtake it for ever.                   *)
ReadyRuns == \A f \in Fiber : f \in ToSet(readyFiberQueue) ~> f = runningFiber

(* A sleeper or awaiter whose time comes is woken, as long as the fibers   *)
(* let the thread come back to the poller (they need not: two fibers that  *)
(* yield to each other keep it out for ever).                              *)
DueFibersWake ==
  []<>(loop = "poll") =>
    \A f \in Fiber :
      (f \in Timers!Queued /\ dueTime[f] <= MaxTime) ~> f \in ToSet(readyFiberQueue)

=============================================================================
