# Tara: specifications and proofs

Tara is a C++ coroutine runtime for Linux.  A program is a set of fibers on one
thread; a fiber that would block on a descriptor, sleep or wait for a worker
thread gives the thread to the next ready fiber.  This directory holds TLA+
modules translated from `src/Source`, the TLC runs that check them on small
instances, and TLAPS proofs of what was proved for every instance.

    tlc -config iopoll.cfg MCIOPoll.tla      # one run; see the table of runs
    tlapm IOPollProofs.tla                   # the proofs about one module

`PROJECT.json` maps every definition to the lines it stands for, and lists the
runs, the hazards each property is for, and one wrong variant of a definition
for each property that the property finds (the operators a comment calls wrong; most
are variants of a one-line helper, which stands before the helper).

## The system

| component | state | operations |
|---|---|---|
| Scheduler (`Scheduler.cxx`, `Main.cxx`) | ready queue, dead queue, running fiber, `fiberCount_`; in each `Fiber`: context, status, `fd`, one queue item, one timer item | callCoroutine, run, yield, sleep, exit/kill, watchIO, unwatchIO, awaitIOEvent, suspend, resume |
| IOPoll (`IOPoll.cxx`) | per descriptor a watcher with two awaiter queues, `eventFlags` (told to the kernel) and `pendingEventFlags` (wished); the dirty queue | createWatcher, destroyWatcher, addEventAwaiter, removeEventAwaiter(s), waitForEvents |
| Timer (`Timer.cxx`, `libuv/heap-inl.h`) | a binary heap of items by due time | addItem, removeItem, removeDueItems, calculateTimeout |
| Async (`Async.cxx`) | two job queues with a mutex each, a condition variable, an eventfd, `jobCount_`, `workIsDone_`, four threads | awaitTasks, the collector coroutine, doWork, the destructor |
| Runtime (`Runtime.cxx`) | none of its own; the kernel's descriptor table | Call, Yield, Sleep, Exit, Open, Pipe2, Socket, Close, Read ... SendTo, OpenAsync ... WriteAsync |
| intrusive queue (`libuv/queue.h`) | next/prev pointers inside the items | insert, remove, add, split |
| MemoryPool (`MemoryPool.cxx`) | free list, chunks | allocateBlock, freeBlock |
| RunFiber, Log, Error, Atomic, Utility | - | stack switch, logging, helpers |

How they interact.  Runtime calls the scheduler of its thread.  Scheduler owns
an IOPoll, a Timer and an Async and calls them directly; IOPoll hands the queue
items of awaiters back to `Scheduler::run`, which knows them to be fibers.  A
fiber that awaits a descriptor is in one awaiter queue *and* in the timer; run()
has to take it out of the other when one of them ends the wait.  Async calls back
into the scheduler (suspendCurrentFiber, callCoroutine, awaitIOEvent,
resumeFiber) from a coroutine, and shares jobs with its threads: a job lives on
the stack of the fiber that waits for it.

What is hard:

- one queue item and one timer item per fiber, moved between rings by events,
  timeouts, closes, deaths and reuse: an item linked twice, or removed when it is
  not linked, corrupts memory and is noticed much later;
- the kernel is told lazily what to watch, so what it holds, what it was told and
  what is wished are three things;
- the event, the timeout and the close of one wait can come in the same turn;
- what `Fiber::fd` says is not always true (see *Findings*);
- descriptor numbers are given out again while calls on the old file are pending;
- threads: a job can be finished before its fiber suspends; one counter of an
  eventfd stands for several jobs; a blocking read is made with a mutex held;
- the pointers of the heap and of the rings, and what is read from an item after it
  left its ring;
- memory that is used again while something still points to it: blocks of the pool,
  watchers known to the kernel, dead fibers;
- close() that is interrupted, and what the kernel did meanwhile.

What makes each component right: for the scheduler, every fiber is in exactly one
place, the timer holds exactly who waits with a timer, and ready and due fibers
run; for the poller, the kernel watches exactly what is waited for whenever the
thread blocks; for the timer, it is a queue of due times; for Async, each task is
executed once before its call returns, every call returns, and no thread touches
a job afterwards; for Runtime, the table of watchers follows the kernel's table
of descriptors, no close hits somebody else's file, and calls with a timeout return;
for queue.h, the pointers are the sequences they stand for; for MemoryPool, the free
list holds exactly the blocks that are not in use.

## The modules

    MCRuntime -> Runtime --------+
    MCAsyncScheduler ->          |
      AsyncScheduler --------> Scheduler -> IOPoll     (INSTANCE, as Poll)
            |                            -> TimerQueue (INSTANCE, as Timers)
            |                            -> FiberLife  (what Scheduler implements)
            +-> Async  (what AsyncScheduler implements)
    MCAsync        -> Async        -> TaskCall         (what Async implements)
    MCTimer        -> Timer        -> TimerQueue       (what Timer implements)
    MCWatcherRings -> WatcherRings -> IOPoll           (what WatcherRings implements)
                                   -> Queue -> Loops
    MCRings        -> Rings        -> Queue            (Timer uses Loops too)
    MCMemoryPool   -> MemoryPool

    RuntimeProofs ---------+--> SchedulerProofs -> IOPollProofs (INSTANCE, as PP)
    AsyncSchedulerProofs --+         (-> AsyncProofs, INSTANCE, as AA)
    TimerProofs -> Timer
    MemoryProofs -> MemoryPool, Rings, WatcherRings  (-> IOPollProofs, INSTANCE, as PP)
    every module of proofs -> SequenceLemmas

So there are two tall chains.  Runtime and AsyncScheduler rest on Scheduler, Scheduler on
IOPoll and TimerQueue, and these are what WatcherRings and Timer, the same code with its
pointers, implement.

**IOPoll** is `IOPoll.cxx`.  Variables have the names of the fields.  The ring of
awaiters of each event is a sequence, the dirty queue a set (the order of the
epoll_ctl calls does not matter), and a descriptor stands for its watcher.
CreateWatcher, DestroyWatcher, AddEventAwaiter and RemoveEventAwaiter are the
calls of these names; their guards are the assertions of the code.
DestroyWatcher includes the removeEventAwaiters that `Scheduler::unwatchIO` always
makes before.  waitForEvents is FlushDirtyWatchers (lines 139-165), EpollWait or
Interrupted (166-173), one HandleError or HandleReadiness for each reported
event, and EndWait.  External: what epoll_wait may report (`Reports`: level
triggered, errors always) and when epoll_ctl refuses (`CtlFails`).

**Queue** has an operator for each macro of `queue.h` that the sources use: from the
pointers of all nodes before it to the pointers after it, in the order the macro writes
them.  QUEUE_FOREACH, a loop of its callers, is **Loops**' `Repeat` of one turn (`Visit`), as
many times as there are nodes: a ring has no more, and turns after the last do nothing.
**Rings** makes every call of them that leaves each item in one ring at most, and
keeps beside the pointers the sequence that each ring is meant to be.  (MemoryProofs extends
Rings, WatcherRings and MemoryPool, so their Init, Next and Spec have names of their own:
RingInit, WatcherInit, PoolInit and so on.)

**WatcherRings** is `IOPoll.cxx` once more, on those macros: a watcher is a block of the
pool with three QUEUEs in it, `watchers` the vector that grows to powers of two, `dataPtr`
the `data.ptr` the kernel keeps, and the caller's queue a ring.  Blocks that are freed and
items that left become `Loose`.  `NextPowerOfTwo` is the least power of two that is not below
its argument; MCWatcherRings computes it by the shifts of the code as well, and TLC compares
the two for 1 to 1025 and at the largest power (FilledAssumption).  `poll` is what all this means, and `ImplementsIOPoll`
says that it behaves as module IOPoll does.

**MemoryPool** is `MemoryPool.cxx`: AllocateBlock (with increaseBlocks, increaseChunks and
expandChunkVector where there is no free block), FreeBlock and Destroy.  An address is a
chunk and an offset in it, and `prev` the first word of every block.

**TimerQueue** is what Timer promises: a due time per queued item.  **Timer** is
`Timer.cxx` on the pointers `left`, `right`, `parent`, `min` of `heap-inl.h`, with
the swap of a node and its parent, sift up and sift down as in the code; one step
is one call.  The loops of heap-inl.h that move a node are `Repeat` of one swap, as many times
as there are nodes (there are not more rows); that of removeDueItems is `Repeat` of TakeFirst,
as many times as the buffer has places.  `ImplementsTimerQueue` is the refinement; its mapping reads the due
times of the nodes reachable from the root.

**Scheduler** is `Scheduler.cxx`.  A fiber runs until it blocks, yields or ends and
then jumps to the next ready fiber, so an action is everything between two jumps:
SleepCurrentFiber, AwaitIOEvent and so on contain the tail every blocking call has
(ExecuteNext).  Each phase of the loop of run() is an action: Dispatch,
DestroyDeadFibers, StartWait ... WakeAwaiters, RemoveDueItems, WakeDueFiber for
each item of the buffer (from the last to the first, as in the code), EndOfTurn.
`context` keeps which wait saved the context, so that properties can tell waits
apart; the model stops (`failure`) where the code fails an assertion or unlinks
an item through stale pointers.

**FiberLife** is the abstract specification of the scheduler: free, ready, running,
blocked, dead; at most one fiber runs, a wait ends once, dead fibers are used again
before new ones are made, and only together freed.

**Runtime** adds the calls of `Runtime.cxx` to the actions of Scheduler: a call looks
whether its descriptor is watched (StartCall), tries (EndCall, Accept), waits
(Block) and tries again or fails (Resume).  Accept4 and Connect differ from the
rest as in the code.  Pipe2 is two Opens.  Worker threads take and release numbers
of the same table (WorkerOpen, WorkerClose: the tasks of OpenAsync and CloseAsync).
close() may be interrupted and is then called again (CloseAgain, WorkerCloseAgain); the
constant `InterruptedClose` says what the kernel leaves of the descriptor.

**Async** is `Async.cxx`: the actions of a worker (Lock0, Wait, TakeJob, RunTask,
FinishJob, Write, Unlock1, Quit), of a fiber inside awaitTasks (AwaitTasks, Signal,
UnlockAndCount, Suspend), of the collector and of the destructor, interleaved at every
operation on shared state.  Spurious wakeups are actions.  **TaskCall** is what awaitTasks promises.

**AsyncScheduler** puts Async on Scheduler: a client is a fiber, the collector a coroutine
in whatever fiber callCoroutine takes, suspending and resuming are those of Scheduler, and
the eventfd is a descriptor whose readability epoll reports.  The threads are those of
Async.  Its refinement mapping names the fiber that runs the collector (`Known`), and
takes the two points of the collector that Async passes in one step for the one before
(`KnownPC`).

## The runs

| run | instance | question |
|---|---|---|
| iopoll | 2 descriptors, 3 awaiters, batch of 2 | is the kernel's registration right whenever the thread blocks; is an epoll_ctl ever refused; is an event ever handled for an empty queue |
| sched_safety | 3 fibers, 1 descriptor, durations forever/0/1, clock to 1, buffer of 2 | is a fiber lost, linked twice, or in the timer when it should not; is a due item ever one whose wait was ended otherwise; does the scheduler implement FiberLife |
| sched_assert | 2 fibers, 1 descriptor | the finding |
| timer | 6 items, due times 0, 1, 2 and never, buffer of 2 | is the heap a heap after any calls, and does Timer implement TimerQueue |
| async_safety | 2 workers, 3 clients, 0 or 2 tasks, 2 calls each, 1 spurious wakeup | hand-over of jobs, the collector, the destructor; does Async implement TaskCall |
| async_sched | 2 clients and one more fiber, 2 workers, 2 calls each, 1 spurious wakeup, fair | does Async behave so on the real scheduler; is every resumed fiber suspended; does every call return through epoll and run(), and does the destructor end |
| rings | 3 heads, 4 items | are the pointers the sequences they stand for, forwards and backwards |
| pool | 3 chunks, pages of 8, blocks of 3, 4 and 8, chunk lengths of 1 and 2 | is a block ever handed out twice, lost, or outside its chunk; does the pool grow with its peak only |
| watcher_rings | 2 descriptors (0 and 4), 2 blocks, 3 awaiters, batch of 2 | does IOPoll on its pointers implement IOPoll; does an address of a watcher outlive it |
| runtime | 2 fibers, 2 descriptors, close() interrupted and the descriptor still open | do the watchers follow the kernel's table; what becomes of a call whose descriptor is closed; is a file closed that somebody else opened |
| close_retry | the same, but the interrupted close() freed the number | the second finding |
| runtime_live | 2 fibers, 1 descriptor, durations 0 and 1, clock to 1, fair | does a call with a timeout return; do due fibers wake; do ready fibers run |

The bounds.  Two awaiters on a descriptor are needed for a queue that does not
become empty when one leaves it, a third for its other queue; the batch of 1 in the
sched runs leaves events for the next wait.
Three fibers are one that closes, wakes or is woken and two that wait for the same
descriptor; two descriptors make batches and independent waits.  A timer buffer of
2 with three fibers is too small for all due items.  The clock has to reach a due
time after another turn of the loop: it goes to 1, with durations up to 1, and a fiber can
sleep or wait for a duration of 0 again and again.  Six items
are the smallest heap in which the last node replaces one in another branch and has
to move up.  Two workers contend for each mutex and can both finish before one
collection; in async_safety three clients let the collector take a batch of several while another
call starts; two calls each make jobCount_ return to 0 and start again.  Blocks of 3 in pages of 8 leave a remainder and more
blocks than were asked for, 4 and 8 fill a page; three chunks make the vector of chunks
grow twice.  Three rings and four items let a ring of several items be cut off or moved
behind another while a third is in use.  Descriptors 0 and 4 make `watchers_` grow to 1
and to 8 places; two blocks, because a freed one must be able to come back as the other
descriptor's watcher.  In async_sched two clients make the
same happen on the real scheduler, which has a fiber more than there are clients, so that the collector gets a new fiber or one that ended; its timers are not used
(awaitTasks waits for ever), so the clock stands still.  `Never` stands
for UINT64_MAX and is larger than any due time.  `Lag` = 1: CLOCK_MONOTONIC_COARSE
may be behind the clock epoll_wait measures its timeout with, so a wait can end one
tick early by the timer's clock.

The two symmetric identities (fibers, descriptors, items, clients, workers) are
symmetry sets in the safety runs only.  Deadlock is checked everywhere; a process that ended or stopped at a failed assertion steps to itself (`Stopped`,
`Destroyed`).

`SleepAfterIO` = FALSE in async_sched and the runtime runs keeps fibers from
sleeping after they waited for a descriptor: the finding ends such behaviours, and
what comes after is not described by the code.  The sched runs have TRUE and stop
there.

### Fairness

In Runtime (`FairRuntimeSpec`): the thread goes on with the loop of run(), the clock goes
on, and epoll_wait returns once its timeout expired.  The latter is strong fairness, since
a signal (EINTR) can interrupt the wait again and again; signals that never let it expire
are excluded.  A call that was begun goes on, and a coroutine that is in its own code again
and again gives up the thread in the end (strong fairness: what it does between the calls
is not our code; nothing works in a cooperative scheduler otherwise).  DueFibersWake and
QuietCallsReturn are stated for behaviours that come back to the poller again and again,
because two fibers that yield to each other keep the thread away from it in the code as
well.

In AsyncScheduler (`FairPoolSpec`): every thread goes on, tasks return, spurious wakeups are
bounded, and a wait in epoll that could report the eventfd ends so in the end (strong
fairness: signals may interrupt it many times).  The locks need no strong fairness: every
thread that holds one releases it by steps of its own, and a worker waits for a lock only
while there is somebody in it or work to do.

Nothing is assumed of events or of the success of system calls, so
QuietCallsReturn speaks of descriptors where no event comes any more: as long as events
come whose data others take, the wait begins anew with the whole timeout (`Read`,
`Runtime.cxx:134`) and a call may go on for ever.

## Findings

**A timer taken for an I/O timeout** (sched_assert).  `Fiber::fd` tells run() that a due timer item belongs to an I/O wait
(`Scheduler.cxx:138`).  It is set when the wait starts and reset only when it times
out, not when an event or a close ends it, and not when a dead fiber is used for a
new coroutine.  A fiber that awaits a descriptor, is woken by the close of the
descriptor and then sleeps is, when its sleep is over, taken for one whose I/O wait
timed out: `assert(watcherExists(fd))` in `IOPoll::removeEventAwaiter`
(`IOPoll.cxx:100`) fails.  The build does not define NDEBUG.  If the descriptor is
still watched, an item that is in no ring is removed instead (`failure =
"unlinked"`).  Run `sched_assert` shows the first.  The fiber of a collector leaves the
same behind: its `fd` is the eventfd, which it has unwatched, when the next coroutine is
started in it.

**close() again** (close_retry).  `Close` and the task of `CloseAsync` repeat close() after
EINTR (`Runtime.cxx:113`, 394).  On Linux, for which Tara is written (epoll, eventfd), the
number is free then.  A worker's retry can close a descriptor that a fiber opened and
watches in the meantime; the watcher stays, and `assert(watchers_[fd] == nullptr)`
(`IOPoll.cxx:59`) fails when the number is handed out again.  Run `runtime` shows that on a
kernel that keeps the descriptor open nothing of this happens, so the retry is what to
change, not the order of unwatchIO and close; theorem AssertHoldsUnlessFreed says the same for
any instance.  Run and theorem hold under the contract of WorkerClose: a program calls
CloseAsync once for each descriptor that OpenAsync returned, and for no other (`fd \in lent`).
The code does not test it; a CloseAsync of a watched descriptor would free its number under
the watcher as well.

## The proofs

All theorems are for any sets of descriptors, fibers, awaiters and workers, any
durations, sizes and `MaxEvents`, and rest on nothing but the named ASSUMEs of the modules.
Few of these say more than that a constant has its type: the pool has at least one worker, and
finitely many clients (`IsFiniteSet(Client)` in Async: `jobCount_` is a counter, and every client
is a fiber with a stack); the program of AsyncScheduler has at least one client, its clients are
fibers, and the names of the collector and of the main thread are none of a fiber or a worker;
queue heads and items are finitely many and apart (`NodeAssumption` in Rings: they lie in memory);
a due time of the clock and a duration is less than `Never` (`TimerAssumption`: the code would
need 584 million years of milliseconds to reach UINT64_MAX).
Conditions of a theorem stand in it.

A proof module extends the module it is about.  The theorems about a state hold because
of an inductive invariant that has one lemma for each action, and a lemma for each of its
parts that an action disturbs; those about steps (refinements, action properties) use the same
invariant.

**SequenceLemmas.**  A queue of this system is a sequence without repetitions, and what
matters is mostly the set of what is in it: what Append, Head and Tail, concatenation,
removal at a place and so on do to that set and to the absence of repetitions.

**IOPollProofs.**  TypeCorrect (TypeOK, which run `runtime` checks as part of
RuntimeTypeOK), PendingCorrect, CtlCorrect, KernelCorrect and EventsCorrect: the four
invariants of run iopoll.  None but TypeOK is inductive.
The inductive invariant `Inv` adds: the kernel's interest is `eventFlags` and no call
was refused (KernelInSync); a watcher whose two flags differ is in the dirty queue
(DifferenceIsDirty); nothing is left of a destroyed watcher (UnwatchedIsClean, which
makes CreateWatcher start from agreement); the dirty queue is empty while the thread
is blocked (FlushedWhileWaiting).  Then, blocked, all three of kernel, `eventFlags` and
`pendingEventFlags` agree and PendingIffAwaited gives KernelKnowsAwaiters; a reported
event has an awaiter because the registration had one when the wait began and the
loop touches each descriptor once.
AwaitersLinkedOnce (AwaitersApart: an awaiter is in one queue of one watcher, or in the
caller's, once) and HandledCorrect (the action property EventsReleaseTheirAwaiters: each event
of the loop over the events releases exactly those it concerns, an error everybody in both
queues and readiness the longest waiter for each event; nobody else stops waiting, and each is
handed to the caller once).  Their invariant, `LinksOK`, adds that the caller's queue is empty but
for the time of that loop; that an error handled with no flag asked for releases nobody is right
because of PendingIffAwaited: then nobody waits.

**SchedulerProofs.**  SchedulerTypeCorrect, LinkedOnceCorrect, NoFiberIsLostCorrect,
TimersMatchWaitsCorrect, DueAwaitersAreLinkedCorrect, ReadyFibersCanRunCorrect and
ExitsWithTheLastFiberCorrect are the invariants of run sched_safety.  `SchedInv` says for every
fiber that neither runs nor is ready (`Waiters`) where it is, given its `context`: dead fibers,
and no others, in the dead queue, those that await a descriptor in a queue of IOPoll
(WaitsOK); those that sleep or await in the timer unless run() has taken them out as due
(TimersOK); rings are free of repetitions and apart (QueuesOK); a fiber that is to run has its
status set (StatusOK); an awaiter is in the queues of the descriptor that `Fiber::fd` names
(FDsOK: why a due awaiter is found where run() looks); and which of the rings and buffers are
empty in each phase of run() (LoopOK).  The invariant of the poller is not proved again: PP is IOPollProofs
with fibers for awaiters, and each call the scheduler makes of the poller takes PP's invariant to
itself by the theorem of that module.
TimersMatchWaits is an equality only while nothing failed: at a failed assertion run() is in the
middle of waking a fiber.
AssertHoldsWithoutSleepers: where no fiber sleeps after it waited for a descriptor, the
assertion of the first finding holds.  So the stale `fd` of a sleeper is its only cause.

DrivesThePoller: whatever the scheduler does is, for its poller, a
behaviour of IOPoll (`Poll!Spec`), so that every theorem about IOPoll holds of a poller inside
Scheduler.  FibersLive: Scheduler implements FiberLife (ImplementsFiberLife, which run sched_safety
checks).  The mapping reads the state of a fiber off the rings; `StateIs` says what it is
under SchedInv, and each action is then one of Leave, Yield, Call, Wake ... of FiberLife, a
step of the loop without effect on fibers a stutter.

**RuntimeProofs.**  UsesTheScheduler: whatever Runtime does is a behaviour of Scheduler, so
the theorems of the two modules before hold here as well; the proof has to find a step of
Scheduler for every call, Block for one with the arguments the call was made with (CallsOK).
RuntimeTypeCorrect, WaitersMatchCallsCorrect and ClosedCallsFailCorrect are invariants of run
runtime, for any `InterruptedClose`.  WatchersMatchCorrect, LentStayOpenCorrect and
AssertHoldsUnlessFreed are for kernels on which an interrupted close() does not free the number:
the second finding shows that they fail otherwise, and AssertHoldsUnlessFreed that nothing else
makes the assertion of that finding fail, for programs that keep the contract of WorkerClose.
`RuntimeInv` is SchedInv, WaitersMatchCalls and ClosedCallsFail with: a close is made by the running
fiber to its end (CallsOK), and the watchers are the descriptors that are open and do not
block, except one that is being closed for the second time; a number lent to a worker or being
closed by one is open and blocks (FilesOK).

**AsyncProofs.**  ReadCorrect and SplitCorrect: the collector's read never blocks with
the mutex held, and it never splits an empty queue.  Their invariant `Inv` says
who holds mutexes_[1] (exactly who is in its critical section), that the collector is
not left between lock and unlock by another fiber, and that a counter that is not 0,
or a worker about to write, means that jobQueues_[1] is not empty.
NoDanglingJobCorrect, CollectorServesJobsCorrect and ShutdownFindsNoWorkCorrect rest on `PoolInv`:
the jobs are apart, in one of three queues or one worker's hand, and together those of the
calls that have linked theirs (JobsApart); a worker has a job exactly while it runs its tasks (HandsOK);
how many of its tasks are done says which of these places a job can be in (WorkOK); between
AwaitTasks and Suspend no other fiber runs (CallerRuns); the collector has jobs of its own only
while it resumes (BackWhileResuming); nobody calls once the destructor runs (EndOK).
TaskCallImplemented: Async implements TaskCall (ImplementsTaskCall), so every task is executed
once, between the call and its return.  WorkOK is what the refinement needs: a call
returns only from the collector's queue, and what is there has all its tasks done.

**AsyncSchedulerProofs.**  ProgramUsesScheduler: every step of the program that uses Async is a
step of Scheduler or leaves its state alone.  AsyncImplemented: it implements Async
(ImplementsAsync, which run async_sched checks), so the ready queue which that module takes for
granted is what run(), the poller and the fibers do, and with TaskCallImplemented a task is executed
once before its call returns on the real scheduler too.  JobsAreSuspendedCorrect: resumeFiber, which
does not look at its fiber, never puts one in the ready queue twice.
`ProgramInv` is SchedInv, PoolInv of what the mapping makes of the state, and `ProgramOK`.  Each
step is shown to be one of Scheduler and one of Async, or a stutter of it, and then the theorems of
those modules keep the first two; ProgramOK is what only the composition knows: TaraMain starts the
clients before anything else happens (StartOK); a client that has not ended has a fiber that is
not dead, suspended for Async exactly when it is for Scheduler (ClientsOK); the collector has a fiber
of its own, possibly one a client left (CollectorOK); nobody but the collector awaits a
descriptor, and it is handed over only when the counter is not 0 (AwaitsOK); no timer is ever
due, and nothing is ready while the thread polls (QuietOK: why a poll without a timeout
delays nobody).  `KnownQueue` is the ready queue with the fibers by the names Async has for them;
the lemmas on Renamed say that renaming goes with Append, Head and Tail.

**MemoryProofs, the pool.**  TypeCorrect, FreeListCorrect and FitCorrect, for any sizes of blocks,
chunks and pages and any number of chunks.  The inductive invariant is TypeOK and
FreeListIsFree with the facts that the chunk is at least as long as the blocks that were
asked for (SizesOK) and that the blocks in use are finitely many (for `peak`).  The
arithmetic is in a few lemmas: rounding up to a page makes nothing smaller (InitSizes),
multiples of the size of a block grow with the factor (Multiples), the number of blocks that
the loop of increaseBlocks cuts exists (BlockCountFacts: a least number of blocks that go
beyond the chunk, by well-founded induction), and blocks of different number are apart
(OffsetFacts).  FitCorrect follows from these; FreeListCorrect needs that a new chunk shares no
block with the others and that the list is empty only when every block is in use.
GrowthCorrect (GrowsWithThePeak): a pool that grows has all its blocks in use (FullWhenEmpty),
as many as the chunks before the last one hold, so `peak` was beyond them when the last one came.

**MemoryProofs, the rings.**  PointersFollowRings: RingsAreLinked is an invariant for any heads
and items, and KeptPointersTell: NeighboursTellTheRing.  The pointers of a ring are given by
places: place 0 is the head, place k its k-th item, and next and prev lead from a place to the one
after and before, modulo the length and one (`Woven`, equivalent to Linked).  A macro writes at
most four places, so each lemma (LinksOfTail, LinksOfRemove, LinksOfAdd, LinksOfSplit ...) says
which place of the new rings every node is in and compares the pointers there; that no node is in
two places (Apart) is why the pointers written belong to no other ring, and why what an item
outside of rings still points to does no harm.  That QUEUE_FOREACH returns the ring is an
induction over the turns of its loop, with the pigeonhole that a ring has no more items than
there are nodes.

**MemoryProofs, the watchers.**  WatchersStayLive: WatchersAreLive is an invariant, and
PointersImplementIOPoll: WatcherRings implements IOPoll (ImplementsIOPoll), for any descriptors,
awaiters and blocks.  Assumed: there are finitely many blocks and awaiters, the QUEUEs of
different blocks, the awaiters and the two heads are different nodes (MemoryAssumption), and
descriptors are numbers below 2 ^ 30 (DescriptorAssumption; the system gives out none beyond
fs.nr_open, and `uint32_t` would do up to 2 ^ 31).
WatchersAreLive is not inductive: it says nothing of what the pointers form.  `WatcherInv` says
that there are a set D of dirty watchers and a queue for each event of each watcher and for the
caller, such that the pointers form rings of exactly these (Shape: Woven, as above, the items
of the dirty queue being those of D, and the item of any other watcher an empty ring of its
own); that the vector leads to a watcher and its `fd` back (Seated), with a power of two of
places (VectorOK); that a registration leads to the watcher of its descriptor (KernelPoints);
and that `poll` is a function of all this (View).  Each macro step edits one ring or joins two
(RemovedShape, ForgetShape ...); what such an edit changes of View is the fields of one descriptor
(ViewChanged), or of those the kernel is told about, so that each action's step is that action
of IOPoll, or one its guards allow.  Two facts come from above: that a reported event has an
awaiter to hand out, so that QUEUE_HEAD of a watcher's queue is an item and not the head, and
that no epoll_ctl is refused, are invariants of IOPoll (PollOK, proved in IOPollProofs and used
of `poll`, because each step of WatcherRings is one of IOPoll).  After that, IOPollProofs holds
of `IOPoll.cxx` with its pointers too.

**TimerProofs.**  HeapIsHeap: IsHeap is an invariant; RootTellsTimeout: TimeoutIsRight is;
ImplementsQueue: Timer implements TimerQueue (ImplementsTimerQueue).  These are all properties of
run timer.  IsHeap is inductive as a statement about calls, but not as a statement about
the swaps of which a call is made.  `TimerInv` says that there is a sequence `at` of the nodes
such that the pointers are those of the complete tree with at[k] at position k (IsTree) and that no
node is due before the one at half its position (Ordered).  Following the binary digits of a
position finds at[k] (AtTree), heap_node_swap exchanges two places of the sequence, InsertNode
appends one, RemoveNode drops the last and may put it in the place of another.  In the loops
the order is broken at one position only: on the way up a node may be earlier than its parent
(LooseAbove), on the way down later than its children (LooseAt), and in both cases what is
below it is not before what is above it, so that a swap moves the broken position by one row
and repairs the one it leaves.  A position that is halved or doubled as often as there are nodes
has left the tree, so after that many turns nothing is broken.  When the last node takes the
place of one in another branch it moves down and then up: after the way down only it and its parent
can be out of order, which is what the way up starts from.
The order makes the root the earliest of all nodes (RootTellsTimeout); and the calls change the
set of nodes as the abstract queue does, removeDueItems in an order that is one of the batches
TimerQueue allows.

Only model-checked:

- liveness (ReadyRuns, DueFibersWake, QuietCallsReturn, CallsReturn, ShutdownEnds): the prover has no ENABLED, so fairness is out of its reach;
- NextPowerOfTwo by the shifts of the code, against the power of two it is to be: the module
  Bitwise, whose operators are recursive, cannot be used where theorems are.

## Not modelled

RunFiber (a stack switch in assembler: registers, no state of its own), Log, Error, Atomic
and Utility (formatting, output, an atomic read of the log level), what is on a fiber's stack, failures
of malloc and of system calls that abort, the data that is read and written.  That a woken
reader may find another file under its number (`Runtime.cxx:129`) is in the model, but
nothing in the repository says what should be, so no property is stated about it.

The pool takes part in WatcherRings as a set of blocks any of which may be handed out next;
module MemoryPool shows that what it hands out is never in use.  The scheduler's own queues
are sequences; LinkedOnce is what Rings needs of its callers.

## Plan

What is left: Runtime on AsyncScheduler, with OpenAsync and CloseAsync as calls of fibers
rather than of threads alone.
