---------------------------- MODULE RuntimeProofs ----------------------------
(***************************************************************************)
(* Proofs about Runtime for any fibers, descriptors, durations and bounds. *)
(*                                                                         *)
(* A step of the runtime is a step of the scheduler or leaves it alone, so *)
(* the scheduler's invariant of SchedulerProofs holds here too; the part   *)
(* added to it relates the calls the fibers make to the queues they wait   *)
(* in, and the watchers to the kernel's table of descriptors.              *)
(***************************************************************************)
EXTENDS Runtime, SchedulerProofs

-----------------------------------------------------------------------------
(* The inductive invariant.                                                *)

CallTypesOK ==
  /\ kind \in [FD -> Kinds]
  /\ lent \subseteq FD /\ closing \subseteq FD
  /\ pc \in [Fiber -> PCs]
  /\ call \in [Fiber -> [fd : FD \cup {NoFD}, event : Poll!Event,
                         timeout : Durations \cup {0}, again : Loops]]
  /\ doomed \subseteq fibers

(* A close is never left by its fiber; a call in progress has the          *)
(* arguments it was made with.                                             *)
CallsOK ==
  \A f \in Fiber :
    /\ pc[f] = "close" => f = runningFiber
    /\ pc[f] \in {"try", "await"} => call[f].timeout \in Durations

(* The descriptor whose close was interrupted and is tried again.          *)
BeingClosed(fd) == At("close") /\ call[runningFiber].fd = fd

(* Unless the kernel gives the number away while it is still being closed. *)
FilesOK ==
  InterruptedClose # "freed" =>
    /\ \A fd \in FD : fd \in watchers <=> kind[fd] = "nonblocking" /\ ~BeingClosed(fd)
    /\ \A fd \in FD : BeingClosed(fd) => kind[fd] = "nonblocking"
    /\ \A fd \in lent : kind[fd] = "blocking"
    /\ \A fd \in closing : kind[fd] = "blocking" /\ fd \notin lent

RuntimeInv ==
  /\ SchedInv /\ CallTypesOK /\ CallsOK /\ WaitersMatchCalls /\ ClosedCallsFail /\ FilesOK

LEMMA InitRuntime == RuntimeInit => RuntimeInv
<1> SUFFICES ASSUME RuntimeInit PROVE RuntimeInv
  OBVIOUS
<1>1. SchedInv
  BY InitSched DEF RuntimeInit
<1>2. CallTypesOK
  BY DEF RuntimeInit, CallTypesOK, Kinds, PCs, NoCall, Loops, Poll!Event
<1>3. CallsOK /\ ClosedCallsFail
  BY DEF RuntimeInit, CallsOK, ClosedCallsFail
<1>4. WaitersMatchCalls
  <2>1. \A fd \in FD, e \in Poll!Event : eventAwaiterQueues[fd][e] = <<>>
    BY DEF RuntimeInit, Init, Poll!Init, Poll!NoQueues
  <2> QED
    BY <2>1, EmptyQueue DEF WaitersMatchCalls
<1>5. FilesOK
  <2>1. watchers = {} /\ kind = [fd \in FD |-> "closed"] /\ lent = {} /\ closing = {}
    BY DEF RuntimeInit, Init, Poll!Init
  <2>2. \A fd \in FD : ~BeingClosed(fd)
    BY DEF RuntimeInit, Init, BeingClosed, At, IsRunning
  <2> QED
    BY <2>1, <2>2 DEF FilesOK
<1> QED
  BY <1>1, <1>2, <1>3, <1>4, <1>5 DEF RuntimeInv

-----------------------------------------------------------------------------
(* Every step is a step of the scheduler, or leaves its variables alone.   *)

LEMMA SchedulerSteps ==
  ASSUME RuntimeInv, [RuntimeNext]_allVars
  PROVE  [Next]_vars
<1>1. CASE Block
  <2> DEFINE c == call[runningFiber]
  <2>1. IsRunning /\ pc[runningFiber] = "try" /\ AwaitIOEvent(c.fd, c.event, c.timeout)
    BY <1>1 DEF Block, At
  <2>2. runningFiber \in Fiber
    BY <2>1, RunningFiber DEF RuntimeInv
  <2>3. c.event \in Poll!Event /\ c.timeout \in Durations
    BY <2>1, <2>2 DEF RuntimeInv, CallTypesOK, CallsOK
  <2>4. c.fd \in FD
    BY <2>1, PollView DEF AwaitIOEvent, Poll!AddEventAwaiter, RuntimeInv, SchedInv, Poll!TypeOK
  <2> QED
    BY <2>1, <2>3, <2>4 DEF Next, Switch
<1>2. ASSUME NEW fd \in FD, Open(fd) \/ Close(fd) \/ Accept(fd) PROVE Next
  BY <1>2 DEF Open, Close, Accept, Install, Next
<1>3. ASSUME NEW fd \in FD,
             \/ WorkerOpen(fd) \/ WorkerClose(fd) \/ WorkerCloseAgain(fd)
             \/ \E e \in Poll!Event, t \in Durations, again \in Loops : StartCall(fd, e, t, again)
      PROVE  UNCHANGED vars
  BY <1>3 DEF WorkerOpen, WorkerClose, WorkerCloseAgain, StartCall
<1>4. CASE EndCall \/ CloseAgain \/ Resume \/ UNCHANGED allVars
  BY <1>4 DEF EndCall, CloseAgain, Resume, allVars
<1>5. CASE OtherCall \/ SchedulerStep
  BY <1>5 DEF OtherCall, SchedulerStep, RunLoop, EpollWait, Next, Switch
<1> QED
  BY <1>1, <1>2, <1>3, <1>4, <1>5 DEF RuntimeNext

-----------------------------------------------------------------------------
(* What a step of the scheduler leaves as it was.                          *)

(* A ready fiber stays ready until it runs, with the status it woke with.  *)
LEMMA ReadyStays ==
  ASSUME SchedInv, [Next]_vars, NEW f \in ReadySet
  PROVE  f \in ReadySet' \cup {runningFiber'} /\ status'[f] = status[f]
<1>1. /\ f \in fibers /\ f \in Fiber /\ f # runningFiber /\ f \notin Waiters
      /\ readyFiberQueue \in Seq(fibers) /\ IsInjective(readyFiberQueue)
      /\ ToSet(readyFiberQueue) = ReadySet /\ fibers \subseteq Fiber
      /\ status \in [Fiber -> {0, 1, -ETIME, -EBADF}]
  BY DEF SchedInv, OwnTypesOK, QueuesOK, Waiters, ReadySet
<1>2. CASE Switch
  <2>1. ASSUME NEW q \in Seq(fibers), IsInjective(q), ReadySet \subseteq ToSet(q), ExecuteNext(q)
        PROVE  f \in ReadySet' \cup {runningFiber'}
    BY <2>1, ExecuteNextSets
  <2>2. CASE YieldCurrentFiber
    <3>1. /\ Enqueued(runningFiber) \in Seq(fibers) /\ IsInjective(Enqueued(runningFiber))
          /\ ToSet(Enqueued(runningFiber)) = ReadySet \cup {runningFiber}
          /\ ExecuteNext(Enqueued(runningFiber))
      BY <1>1, <2>2, RunningFiber, AppendQueue DEF YieldCurrentFiber, Enqueued
    <3> QED
      BY <1>1, <2>1, <2>2, <3>1 DEF YieldCurrentFiber, SaveContext
  <2>3. CASE ~YieldCurrentFiber
    <3>1. ExecuteNext(readyFiberQueue) /\ status'[f] = status[f]
      BY <1>1, <1>2, <2>3 DEF Switch, SleepCurrentFiber, KillCurrentFiber, AwaitIOEvent,
                              SuspendCurrentFiber, SaveContext
    <3> QED
      BY <1>1, <2>1, <3>1
  <2> QED
    BY <2>2, <2>3
<1>3. CASE CallCoroutine
  <2>1. ASSUME ReuseFiber PROVE f \in ReadySet' /\ status'[f] = status[f]
    <3>1. Head(deadFiberQueue) \in fibers
      BY <2>1, HeadTailQueue, InSeq DEF ReuseFiber, SchedInv, OwnTypesOK
    <3> QED
      BY <1>1, <2>1, <3>1, AppendQueue DEF ReuseFiber, Enqueued, ReadySet, stateVars
  <2>2. ASSUME NEW g \in Fiber, CreateFiber(g) PROVE f \in ReadySet' /\ status'[f] = status[f]
    <3>1. readyFiberQueue \in Seq(Fiber)
      BY <1>1, SeqOfItsSet
    <3>2. readyFiberQueue' = Append(readyFiberQueue, g) /\ f # g
      BY <1>1, <2>2 DEF CreateFiber, NewFiber, Enqueued
    <3> QED
      BY <1>1, <2>2, <3>1, <3>2, AppendQueue DEF CreateFiber, NewFiber, ReadySet
  <2> QED
    BY <1>3, <2>1, <2>2 DEF CallCoroutine
<1>4. ASSUME NEW fd \in FD, UnwatchIO(fd) PROVE f \in ReadySet' /\ status'[f] = status[f]
  <2> DEFINE q == Poll!AwaitersOf(fd)
  <2>1. /\ q \in Seq(Fiber) /\ IsInjective(q) /\ ToSet(q) \subseteq Awaiting
        /\ Release(q) /\ UNCHANGED fibers
        /\ status' = [g \in Fiber |-> IF g \in ToSet(q) THEN -EBADF ELSE status[g]]
    BY <1>4, PollView, AwaitingIs DEF SchedInv, Awaiters, UnwatchIO, heapVars
  <2> HIDE DEF q
  <2>2. ToSet(q) \subseteq Waiters /\ ReadySet' = ReadySet \cup ToSet(q)
    BY <2>1, ReleaseSets
  <2> QED
    BY <1>1, <2>1, <2>2
<1>5. ASSUME NEW g \in Fiber, ResumeFiber(g) PROVE f \in ReadySet' /\ status'[f] = status[f]
  BY <1>1, <1>5, AppendQueue DEF ResumeFiber, Suspended, Enqueued, ReadySet, stateVars
<1>6. CASE WakeAwaiters
  <2>1. /\ eventAwaiterQueue \in Seq(Fiber) /\ IsInjective(eventAwaiterQueue)
        /\ ToSet(eventAwaiterQueue) \subseteq Awaiting
        /\ Release(eventAwaiterQueue) /\ UNCHANGED <<fibers, status>>
    BY <1>6, PollView, AwaitingIs DEF SchedInv, WakeAwaiters, heapVars, stateVars
  <2> QED
    BY <2>1, ReleaseSets
<1>7. CASE WakeDueFiber
  <2>1. PICK g \in fibers : /\ g \in Waiters /\ UNCHANGED fibers
                            /\ WakeSleeper(g) \/ TimeOutAwaiter(g) \/ FailToTimeOut(g)
    BY <1>7, DueFiber
  <2>2. WakeSleeper(g) \/ TimeOutAwaiter(g) => ReadySet' = ReadySet \cup {g}
    BY <2>1, PushHead DEF WakeSleeper, TimeOutAwaiter
  <2> QED
    BY <1>1, <2>1, <2>2 DEF WakeSleeper, TimeOutAwaiter, FailToTimeOut, ReadySet
<1>8. CASE Dispatch
  <2>1. CASE readyFiberQueue = <<>>
    BY <1>1, <2>1, EmptyQueue
  <2>2. CASE readyFiberQueue # <<>>
    BY <1>1, <1>8, <2>2, HeadTailQueue DEF Dispatch, ReadySet, stateVars
  <2> QED
    BY <2>1, <2>2
<1>9. CASE \/ StartWait \/ (\E fd \in FD : HandleEvent(fd)) \/ RemoveDueItems \/ EndOfTurn
           \/ FinishWait \/ InterruptWait \/ Tick \/ Stopped \/ DestroyDeadFibers
           \/ (\E fd \in FD : WatchIO(fd)) \/ UNCHANGED vars
  <2>1. UNCHANGED <<readyFiberQueue, status>>
    BY <1>9 DEF StartWait, HandleEvent, RemoveDueItems, EndOfTurn, FinishWait, InterruptWait, Tick,
                Stopped, DestroyDeadFibers, WatchIO, vars, fiberVars, readyVars, stateVars
  <2> QED
    BY <2>1 DEF ReadySet
<1> QED
  BY <1>2, <1>3, <1>4, <1>5, <1>6, <1>7, <1>8, <1>9 DEF Next, Loop

EventAwaiters(fd, e) == ToSet(eventAwaiterQueues[fd][e])

(* Only awaitIOEvent puts a fiber in the queue of a watcher.               *)
LEMMA OnlyAwaitAdds ==
  ASSUME SchedInv,
         \/ \E fd \in FD : WatchIO(fd) \/ UnwatchIO(fd)
         \/ Loop \/ FinishWait \/ InterruptWait
         \/ UNCHANGED pollVars
  PROVE  \A fd \in FD, e \in Poll!Event : EventAwaiters(fd, e)' \subseteq EventAwaiters(fd, e)
<1>1. PP!QueuesCall \/ UNCHANGED eventAwaiterQueues
  <2> USE DEF PP!QueuesCall
  <2>1. ASSUME NEW fd \in FD, WatchIO(fd) \/ UnwatchIO(fd)
        PROVE  PP!CreateWatcher(fd) \/ PP!DestroyWatcher(fd)
    BY <2>1, SameSteps DEF WatchIO, UnwatchIO
  <2>2. ASSUME NEW fd \in FD, HandleEvent(fd)
        PROVE  PP!HandleError(fd) \/ PP!HandleReadiness(fd)
    BY <2>2, SameSteps DEF HandleEvent
  <2>3. CASE StartWait \/ WakeAwaiters \/ FinishWait \/ InterruptWait
    BY <2>3 DEF StartWait, WakeAwaiters, FinishWait, InterruptWait, Poll!FlushDirtyWatchers,
                Poll!EndWait, Poll!EpollWait, Poll!Interrupted, Poll!watcherVars
  <2>4. CASE Dispatch \/ DestroyDeadFibers \/ RemoveDueItems \/ EndOfTurn \/ UNCHANGED pollVars
    BY <2>4 DEF Dispatch, DestroyDeadFibers, RemoveDueItems, EndOfTurn, pollVars
  <2>5. CASE WakeDueFiber
    <3>1. PICK f \in fibers : /\ f \in Fiber
                              /\ WakeSleeper(f) \/ TimeOutAwaiter(f) \/ FailToTimeOut(f)
      BY <2>5, DueFiber
    <3>2. CASE TimeOutAwaiter(f)
      <4>1. fiberFD[f] \in FD /\ Poll!RemoveEventAwaiter(f, fiberFD[f])
        BY <3>2, PollView DEF SchedInv, Poll!TypeOK, TimeOutAwaiter, LeaveWatcher
      <4>2. PP!RemoveEventAwaiter(f, fiberFD[f])
        BY <3>1, <4>1, SameSteps
      <4> QED
        BY <3>1, <4>1, <4>2
    <3> QED
      BY <3>1, <3>2 DEF WakeSleeper, FailToTimeOut, pollVars
  <2> QED
    BY <2>1, <2>2, <2>3, <2>4, <2>5 DEF Loop
<1>2. PP!NobodyIsAdded
  <2>1. PP!Inv /\ PP!LinksOK
    BY DEF SchedInv, PollOK
  <2> QED
    BY ONLY <1>1, <2>1, MaxEventsOK, PP!QueuesShrink
<1> QED
  BY <1>2, SameSets, SameStates DEF EventAwaiters, PP!NobodyIsAdded

(* Who waits for an event of a descriptor is an awaiter of the descriptor. *)
LEMMA EventAwaitersAwait ==
  ASSUME SchedInv, NEW fd \in FD
  PROVE  /\ \A e \in Poll!Event : EventAwaiters(fd, e) \subseteq Awaiters(fd)
         /\ Awaiters(fd) = EventAwaiters(fd, "Readability") \cup EventAwaiters(fd, "Writability")
         /\ Awaiters(fd) \subseteq Awaiting /\ Awaiting \subseteq Waiters
<1> DEFINE r == eventAwaiterQueues[fd]["Readability"]
           w == eventAwaiterQueues[fd]["Writability"]
<1>1. r \in Seq(Fiber) /\ w \in Seq(Fiber)
  BY PollView DEF SchedInv, Poll!TypeOK, Poll!Queues, Poll!Event
<1> HIDE DEF r, w
<1>2. ToSet(r \o w) = ToSet(r) \cup ToSet(w)
  BY <1>1, ConcatQueue
<1>3. Awaiters(fd) = EventAwaiters(fd, "Readability") \cup EventAwaiters(fd, "Writability")
  BY <1>2 DEF Awaiters, Poll!AwaitersOf, EventAwaiters, r, w
<1> QED
  BY <1>3, AwaitingIs DEF SchedInv, QueuesOK, Poll!Event

(* watchIO and unwatchIO alone change which descriptors are watched.       *)
LEMMA WatchersStay ==
  ASSUME Loop \/ FinishWait \/ InterruptWait \/ Switch \/ UNCHANGED pollVars
  PROVE  watchers' = watchers
<1>1. CASE FinishWait \/ InterruptWait \/ UNCHANGED pollVars
  BY <1>1 DEF FinishWait, InterruptWait, Poll!EpollWait, Poll!Interrupted, Poll!watcherVars, pollVars
<1>2. CASE Switch
  BY <1>2 DEF Switch, YieldCurrentFiber, SleepCurrentFiber, KillCurrentFiber, AwaitIOEvent,
              SuspendCurrentFiber, Poll!AddEventAwaiter, pollVars
<1>3. CASE StartWait \/ WakeAwaiters \/ \E fd \in FD : HandleEvent(fd)
  BY <1>3 DEF StartWait, WakeAwaiters, HandleEvent, Poll!FlushDirtyWatchers, Poll!EndWait,
              Poll!HandleError, Poll!HandleReadiness, Poll!watcherVars
<1>4. CASE Dispatch \/ DestroyDeadFibers \/ RemoveDueItems \/ EndOfTurn
  BY <1>4 DEF Dispatch, DestroyDeadFibers, RemoveDueItems, EndOfTurn, pollVars
<1>5. CASE WakeDueFiber
  BY <1>5 DEF WakeDueFiber, WakeSleeper, TimeOutAwaiter, FailToTimeOut, LeaveWatcher,
              Poll!RemoveEventAwaiter, pollVars
<1> QED
  BY <1>1, <1>2, <1>3, <1>4, <1>5 DEF Loop

-----------------------------------------------------------------------------
(* The calls in progress.                                                  *)

(* Nothing is done to the calls of the fibers that do not run.             *)
OthersCalls == \A f \in Fiber \ {runningFiber} : pc'[f] = pc[f] /\ call'[f] = call[f]

NobodyStartsToWait ==
  \A fd \in FD, e \in Poll!Event : EventAwaiters(fd, e)' \subseteq EventAwaiters(fd, e)

LEMMA WaitersKept ==
  ASSUME RuntimeInv, OthersCalls, NobodyStartsToWait,
         \A fd \in FD, e \in Poll!Event : EventAwaiters(fd, e)' \cap doomed' \subseteq doomed
  PROVE  WaitersMatchCalls'
<1> SUFFICES ASSUME NEW fd \in FD, NEW e \in Poll!Event, NEW f \in EventAwaiters(fd, e)'
             PROVE  pc'[f] = "await" /\ call'[f].fd = fd /\ call'[f].event = e /\ f \notin doomed'
  BY DEF WaitersMatchCalls, EventAwaiters
<1>1. f \in EventAwaiters(fd, e)
  BY DEF NobodyStartsToWait
<1>2. f \in Fiber /\ f # runningFiber
  BY <1>1, EventAwaitersAwait DEF RuntimeInv, SchedInv, OwnTypesOK, Waiters
<1>3. pc[f] = "await" /\ call[f].fd = fd /\ call[f].event = e /\ f \notin doomed
  BY <1>1 DEF RuntimeInv, WaitersMatchCalls, EventAwaiters
<1> QED
  BY <1>1, <1>2, <1>3 DEF OthersCalls

(* Who was woken by a close stays so until it runs.                        *)
LEMMA DoomedKept ==
  ASSUME RuntimeInv, SchedInv', [Next]_vars, OthersCalls, doomed' \subseteq doomed,
         runningFiber \notin doomed' \/ UNCHANGED <<runningFiber, status, pc>>
  PROVE  ClosedCallsFail' /\ doomed' \subseteq fibers'
<1>1. ASSUME NEW f \in doomed'
      PROVE  /\ pc'[f] = "await" /\ status'[f] = -EBADF
             /\ f = runningFiber' \/ f \in ReadySet'
  <2>1. pc[f] = "await" /\ status[f] = -EBADF /\ (f = runningFiber \/ f \in ReadySet) /\ f \in Fiber
    BY <1>1 DEF RuntimeInv, ClosedCallsFail, CallTypesOK, ReadySet, SchedInv, OwnTypesOK
  <2>2. CASE f = runningFiber
    BY <1>1, <2>1, <2>2
  <2>3. CASE f # runningFiber
    <3>1. f \in ReadySet' \cup {runningFiber'} /\ status'[f] = status[f]
      BY <2>1, <2>3, ReadyStays DEF RuntimeInv
    <3> QED
      BY <2>1, <2>3, <3>1 DEF OthersCalls
  <2> QED
    BY <2>2, <2>3
<1>2. ClosedCallsFail'
  BY <1>1 DEF ClosedCallsFail, ReadySet
<1>3. doomed' \subseteq Fiber
  BY DEF RuntimeInv, CallTypesOK, SchedInv, OwnTypesOK
<1>4. ReadySet' \subseteq fibers' /\ runningFiber' \in fibers' \cup {NoFiber} /\ NoFiber \notin Fiber
  BY ConstantsAssumption DEF SchedInv, QueuesOK, OwnTypesOK
<1> QED
  BY <1>1, <1>2, <1>3, <1>4

LEMMA CallsKept ==
  ASSUME RuntimeInv, SchedInv', [Next]_vars, OthersCalls, doomed' \subseteq doomed,
         runningFiber \notin doomed' \/ UNCHANGED <<runningFiber, status, pc>>,
         NobodyStartsToWait
  PROVE  WaitersMatchCalls' /\ ClosedCallsFail' /\ doomed' \subseteq fibers'
<1> QED
  BY WaitersKept, DoomedKept

(* Who runs in its own code, or tries a system call, does not close and is *)
(* not woken by a close; nor is anybody while run() has the thread.        *)
LEMMA NobodyCloses ==
  ASSUME RuntimeInv,
         At("body") \/ At("try") \/ At("await") \/ loop # "fiber"
  PROVE  /\ \A f \in Fiber : pc[f] # "close"
         /\ ~At("await") => runningFiber \notin doomed
<1>1. CASE loop # "fiber"
  <2>1. runningFiber = NoFiber /\ NoFiber \notin Fiber /\ fibers \subseteq Fiber
    BY <1>1, ConstantsAssumption DEF RuntimeInv, SchedInv, LoopOK, OwnTypesOK
  <2> QED
    BY <2>1 DEF RuntimeInv, CallsOK, CallTypesOK
<1>2. CASE At("body") \/ At("try") \/ At("await")
  <2>1. IsRunning /\ runningFiber \in Fiber /\ pc[runningFiber] \in {"body", "try", "await"}
    BY <1>2, RunningFiber DEF At, RuntimeInv
  <2> QED
    BY <2>1 DEF RuntimeInv, CallsOK, ClosedCallsFail, At
<1> QED
  BY <1>1, <1>2

(* A queue of the poller that is unchanged has the fibers it had.          *)
LEMMA NobodyAdded ==
  ASSUME RuntimeInv,
         \/ \E fd \in FD : WatchIO(fd) \/ UnwatchIO(fd)
         \/ Loop \/ FinishWait \/ InterruptWait
         \/ UNCHANGED pollVars
  PROVE  NobodyStartsToWait
<1> QED
  BY OnlyAwaitAdds DEF RuntimeInv, NobodyStartsToWait

-----------------------------------------------------------------------------
(* The watchers and the descriptors.                                       *)

FileTypesOK ==
  kind \in [FD -> Kinds] /\ lent \subseteq FD /\ closing \subseteq FD

(* No close is tried again, before or after the step.                      *)
LEMMA FilesKept ==
  ASSUME RuntimeInv, SchedInv', UNCHANGED <<watchers, kind, lentVars>>,
         \A f \in Fiber : pc[f] # "close" /\ pc'[f] # "close"
  PROVE  FilesOK' /\ FileTypesOK'
<1>1. \A fd \in FD : ~BeingClosed(fd)
  BY RunningFiber DEF BeingClosed, At, RuntimeInv
<1>2. \A fd \in FD : ~BeingClosed(fd)'
  <2>1. loop' = "fiber" => runningFiber' \in Fiber
    BY DEF SchedInv, LoopOK, OwnTypesOK
  <2> QED
    BY <2>1 DEF BeingClosed, At, IsRunning
<1>3. FileTypesOK'
  BY DEF RuntimeInv, CallTypesOK, FileTypesOK, lentVars
<1> QED
  BY <1>1, <1>2, <1>3 DEF RuntimeInv, FilesOK, lentVars

(* What is closed again and what is running is the same as before.         *)
LEMMA FilesStay ==
  ASSUME RuntimeInv, UNCHANGED <<watchers, kind, lentVars, runningFiber, loop, failure, pc, call>>
  PROVE  FilesOK' /\ FileTypesOK'
<1>1. \A fd \in FD : BeingClosed(fd)' <=> BeingClosed(fd)
  BY DEF BeingClosed, At, IsRunning
<1> QED
  BY <1>1 DEF RuntimeInv, FilesOK, CallTypesOK, FileTypesOK, lentVars

LEMMA WorkerFiles ==
  ASSUME RuntimeInv, NEW x \in FD, WorkerOpen(x) \/ WorkerClose(x) \/ WorkerCloseAgain(x)
  PROVE  FilesOK' /\ FileTypesOK'
<1>1. \A fd \in FD : BeingClosed(fd)' <=> BeingClosed(fd)
  BY DEF WorkerOpen, WorkerClose, WorkerCloseAgain, vars, fiberVars, readyVars, loopVars, turnVars,
         callVars, BeingClosed, At, IsRunning
<1>2. watchers' = watchers
  BY DEF WorkerOpen, WorkerClose, WorkerCloseAgain, vars, pollVars
<1>3. kind \in [FD -> Kinds] /\ lent \subseteq FD /\ closing \subseteq FD
  BY DEF RuntimeInv, CallTypesOK
<1>4. CASE WorkerOpen(x)
  BY <1>1, <1>2, <1>3, <1>4
     DEF WorkerOpen, RuntimeInv, FilesOK, FileTypesOK, Kinds
<1>5. CASE WorkerClose(x)
  BY <1>1, <1>2, <1>3, <1>5
     DEF WorkerClose, RuntimeInv, FilesOK, FileTypesOK, Kinds, Freed, CloseInterrupted
<1>6. CASE WorkerCloseAgain(x)
  BY <1>1, <1>2, <1>3, <1>6
     DEF WorkerCloseAgain, RuntimeInv, FilesOK, FileTypesOK, Kinds, Freed, CloseInterrupted
<1> QED
  BY <1>4, <1>5, <1>6

(* A descriptor is opened, by a call that returns.                         *)
LEMMA InstallFiles ==
  ASSUME RuntimeInv, NEW x \in FD, At("body") \/ At("try"), Install(x), UNCHANGED lentVars,
         \A f \in Fiber : pc'[f] # "close"
  PROVE  FilesOK' /\ FileTypesOK'
<1>1. watchers' = watchers \cup {x} /\ UNCHANGED <<runningFiber, loop, failure>>
  BY DEF Install, WatchIO, Poll!CreateWatcher, fiberVars, readyVars, loopVars, turnVars
<1>2. runningFiber \in Fiber /\ \A f \in Fiber : pc[f] # "close"
  BY NobodyCloses, RunningFiber DEF At, RuntimeInv
<1>3. \A fd \in FD : ~BeingClosed(fd) /\ ~BeingClosed(fd)'
  BY <1>1, <1>2 DEF BeingClosed, At
<1>4. /\ kind[x] = "closed" /\ kind' = [kind EXCEPT ![x] = "nonblocking"]
      /\ UNCHANGED <<lent, closing>>
  BY DEF Install, lentVars
<1>5. FileTypesOK'
  BY <1>4 DEF RuntimeInv, CallTypesOK, FileTypesOK, Kinds
<1> QED
  BY <1>1, <1>3, <1>4, <1>5 DEF RuntimeInv, FilesOK, CallTypesOK

(* The descriptor is closed, or is still there and not watched.            *)
LEMMA CloseFiles ==
  ASSUME RuntimeInv, NEW x \in FD, Close(x)
  PROVE  FilesOK' /\ FileTypesOK'
<1>1. /\ watchers' = watchers \ {x} /\ x \in watchers
      /\ UNCHANGED <<runningFiber, loop, failure, lent, closing>>
  BY DEF Close, UnwatchIO, Poll!DestroyWatcher, loopVars, turnVars, lentVars
<1>2. /\ IsRunning /\ runningFiber \in Fiber /\ pc[runningFiber] = "body"
      /\ \A f \in Fiber : pc[f] # "close"
  BY NobodyCloses, RunningFiber DEF Close, At, RuntimeInv
<1>3. \A fd \in FD : ~BeingClosed(fd)
  BY <1>2 DEF BeingClosed, At
<1>4. /\ kind \in [FD -> Kinds] /\ lent \subseteq FD /\ closing \subseteq FD
      /\ pc \in [Fiber -> PCs] /\ call[runningFiber].fd \in FD \cup {NoFD}
      /\ call \in [Fiber -> [fd : FD \cup {NoFD}, event : Poll!Event,
                         timeout : Durations \cup {0}, again : Loops]]
  BY <1>2 DEF RuntimeInv, CallTypesOK
<1>5. CASE CloseEnds(x)
  <2>1. kind' = [kind EXCEPT ![x] = "closed"] /\ \A fd \in FD : ~BeingClosed(fd)'
    BY <1>1, <1>2, <1>5 DEF CloseEnds, Freed, BeingClosed, At
  <2> QED
    BY <1>1, <1>3, <1>4, <2>1 DEF RuntimeInv, FilesOK, FileTypesOK, Kinds
<1>6. CASE CloseInterrupted(x) /\ TryAgain(x)
  <2>1. \A fd \in FD : BeingClosed(fd)' <=> fd = x
    <3>1. pc'[runningFiber] = "close" /\ call'[runningFiber].fd = x
      BY <1>2, <1>4, <1>6 DEF TryAgain
    <3> QED
      BY <1>1, <1>2, <3>1 DEF BeingClosed, At, IsRunning
  <2>2. FileTypesOK'
    BY <1>1, <1>4, <1>6 DEF CloseInterrupted, Freed, FileTypesOK, Kinds
  <2>3. InterruptedClose # "freed" => UNCHANGED kind
    BY <1>6 DEF CloseInterrupted
  <2> QED
    BY <1>1, <1>3, <2>1, <2>2, <2>3 DEF RuntimeInv, FilesOK
<1> QED
  BY <1>5, <1>6 DEF Close

LEMMA CloseAgainFiles ==
  ASSUME RuntimeInv, CloseAgain
  PROVE  FilesOK' /\ FileTypesOK'
<1> DEFINE x == call[runningFiber].fd
<1>1. /\ IsRunning /\ runningFiber \in Fiber /\ pc[runningFiber] = "close"
      /\ UNCHANGED <<runningFiber, loop, failure, lent, closing, watchers>>
  BY RunningFiber DEF CloseAgain, At, RuntimeInv, vars, fiberVars, readyVars, loopVars, turnVars,
                      pollVars, lentVars
<1>2. /\ kind \in [FD -> Kinds] /\ lent \subseteq FD /\ closing \subseteq FD
      /\ pc \in [Fiber -> PCs]
  BY DEF RuntimeInv, CallTypesOK
<1>3. \A fd \in FD : BeingClosed(fd) <=> fd = x
  BY <1>1 DEF BeingClosed, At
<1>4. CASE Freed(x) /\ Return
  <2>1. kind' = [kind EXCEPT ![x] = "closed"] /\ \A fd \in FD : ~BeingClosed(fd)'
    BY <1>1, <1>2, <1>4 DEF Freed, Return, BeingClosed, At
  <2>2. FileTypesOK'
    BY <1>1, <1>2, <2>1 DEF FileTypesOK, Kinds
  <2> QED
    BY <1>1, <1>2, <1>3, <2>1, <2>2 DEF RuntimeInv, FilesOK, Kinds
<1>5. CASE CloseInterrupted(x) /\ UNCHANGED <<pc, call>>
  <2>1. \A fd \in FD : BeingClosed(fd)' <=> BeingClosed(fd)
    BY <1>1, <1>5 DEF BeingClosed, At, IsRunning
  <2>2. FileTypesOK' /\ (InterruptedClose # "freed" => UNCHANGED kind)
    BY <1>1, <1>2, <1>5 DEF CloseInterrupted, Freed, FileTypesOK, Kinds
  <2> QED
    BY <1>1, <2>1, <2>2 DEF RuntimeInv, FilesOK
<1> QED
  BY <1>4, <1>5 DEF CloseAgain

-----------------------------------------------------------------------------
(* Every step keeps the invariant.                                         *)

CallFieldsOK ==
  /\ pc \in [Fiber -> PCs]
  /\ call \in [Fiber -> [fd : FD \cup {NoFD}, event : Poll!Event,
                         timeout : Durations \cup {0}, again : Loops]]

LEMMA InvParts ==
  ASSUME SchedInv', FilesOK' /\ FileTypesOK', CallFieldsOK', CallsOK',
         WaitersMatchCalls' /\ ClosedCallsFail' /\ doomed' \subseteq fibers'
  PROVE  RuntimeInv'
<1> QED
  BY DEF RuntimeInv, CallTypesOK, FileTypesOK, CallFieldsOK

(* A fiber goes on with its call, which is none of the scheduler's steps.  *)
LEMMA CallStepInv ==
  ASSUME RuntimeInv, SchedInv', [Next]_vars,
         EndCall \/ Resume \/ (\E fd \in FD, e \in Poll!Event, t \in Durations, again \in Loops :
                                 StartCall(fd, e, t, again))
  PROVE  RuntimeInv'
<1>1. /\ At("body") \/ At("try") \/ At("await")
      /\ UNCHANGED vars /\ UNCHANGED <<kind, lentVars>>
      /\ IsRunning /\ runningFiber \in Fiber
  <2>1. /\ At("body") \/ At("try") \/ At("await")
        /\ UNCHANGED vars /\ UNCHANGED <<kind, lentVars>>
    BY DEF EndCall, Resume, StartCall
  <2> QED
    BY <2>1, RunningFiber DEF At, RuntimeInv
<1>2. /\ UNCHANGED <<watchers, runningFiber, status, loop, failure>> /\ UNCHANGED pollVars
  BY <1>1 DEF vars, pollVars, fiberVars, readyVars, stateVars, loopVars, turnVars
<1>3. pc \in [Fiber -> PCs] /\ CallFieldsOK
  BY DEF RuntimeInv, CallTypesOK, CallFieldsOK
<1>4. CallFieldsOK' /\ OthersCalls /\ \A f \in Fiber : pc'[f] # "close"
  <2>1. \A f \in Fiber : pc[f] # "close"
    BY <1>1, NobodyCloses
  <2>2. CASE EndCall
    BY <1>1, <1>3, <2>1, <2>2 DEF EndCall, Return, NoCall, CallFieldsOK, OthersCalls, PCs, Loops,
                                  Poll!Event
  <2>3. CASE Resume
    BY <1>1, <1>3, <2>1, <2>3 DEF Resume, Return, NoCall, CallFieldsOK, OthersCalls, PCs, Loops,
                                  Poll!Event
  <2>4. ASSUME NEW fd \in FD, NEW e \in Poll!Event, NEW t \in Durations, NEW again \in Loops,
               StartCall(fd, e, t, again)
        PROVE  CallFieldsOK' /\ OthersCalls /\ \A f \in Fiber : pc'[f] # "close"
    BY <1>1, <1>3, <2>1, <2>4 DEF StartCall, CallFieldsOK, OthersCalls, PCs
  <2> QED
    BY <2>2, <2>3, <2>4
<1>5. CallsOK'
  <2>1. ASSUME NEW f \in Fiber, pc'[f] \in {"try", "await"} PROVE call'[f].timeout \in Durations
    <3>1. pc[f] \in {"try", "await"} => call[f].timeout \in Durations
      BY DEF RuntimeInv, CallsOK
    <3>2. CASE f # runningFiber
      BY <1>4, <2>1, <3>1, <3>2 DEF OthersCalls
    <3>3. CASE f = runningFiber /\ EndCall
      BY <1>1, <1>3, <2>1, <3>3 DEF EndCall, Return
    <3>4. CASE f = runningFiber /\ Resume
      BY <1>1, <1>3, <2>1, <3>1, <3>4 DEF Resume, Return, At
    <3>5. ASSUME NEW fd \in FD, NEW e \in Poll!Event, NEW t \in Durations, NEW again \in Loops,
                 f = runningFiber, StartCall(fd, e, t, again)
          PROVE  call'[f].timeout \in Durations
      BY <1>1, <1>3, <3>5 DEF StartCall, CallFieldsOK
    <3> QED
      BY <3>2, <3>3, <3>4, <3>5
  <2> QED
    BY <1>4, <2>1 DEF CallsOK
<1>6. FilesOK' /\ FileTypesOK'
  BY <1>1, <1>2, <1>4, NobodyCloses, FilesKept
<1>7. doomed' \subseteq doomed /\ runningFiber \notin doomed'
  <2>1. CASE Resume
    BY <2>1 DEF Resume
  <2>2. CASE ~Resume
    BY <1>1, <2>2, NobodyCloses DEF EndCall, StartCall, At
  <2> QED
    BY <2>1, <2>2
<1>8. NobodyStartsToWait
  BY <1>2, NobodyAdded
<1> QED
  BY <1>4, <1>5, <1>6, <1>7, <1>8, CallsKept, InvParts

(* Steps of the scheduler in which no call is begun or ended.              *)
LEMMA SchedulerStepInv ==
  ASSUME RuntimeInv, SchedInv', [Next]_vars, OtherCall \/ SchedulerStep \/ UNCHANGED allVars
  PROVE  RuntimeInv'
<1>1. UNCHANGED <<kind, lentVars, callVars>>
  BY DEF OtherCall, SchedulerStep, RunLoop, EpollWait, allVars
<1>2. CallFieldsOK' /\ OthersCalls /\ doomed' \subseteq doomed
  BY <1>1 DEF callVars, RuntimeInv, CallTypesOK, CallFieldsOK, OthersCalls
<1>3. CASE OtherCall \/ RunLoop \/ EpollWait \/ InterruptWait
  <2>1. At("body") \/ loop # "fiber"
    BY <1>3 DEF OtherCall, RunLoop, EpollWait, Loop, FinishWait, InterruptWait, Dispatch,
                DestroyDeadFibers, StartWait, HandleEvent, WakeAwaiters, RemoveDueItems,
                WakeDueFiber, EndOfTurn
  <2>2. /\ \A f \in Fiber : pc[f] # "close" /\ pc'[f] # "close"
        /\ runningFiber \notin doomed'
    BY <1>1, <2>1, NobodyCloses DEF callVars, At, IsRunning
  <2>3. watchers' = watchers /\ NobodyStartsToWait
    <3>1. CASE OtherCall
      <4>1. UNCHANGED pollVars
        BY <3>1 DEF OtherCall, CallCoroutine, YieldCurrentFiber, SleepCurrentFiber, KillCurrentFiber
      <4> QED
        BY <4>1, NobodyAdded, WatchersStay
    <3>2. CASE RunLoop \/ EpollWait \/ InterruptWait
      BY <3>2, NobodyAdded, WatchersStay DEF RunLoop, EpollWait
    <3> QED
      BY <1>3, <3>1, <3>2
  <2>4. FilesOK' /\ FileTypesOK'
    BY <1>1, <2>2, <2>3, FilesKept
  <2>5. CallsOK'
    BY <1>1, <2>2 DEF callVars, RuntimeInv, CallsOK
  <2> QED
    BY <1>2, <2>2, <2>3, <2>4, <2>5, CallsKept, InvParts
<1>4. CASE Tick \/ Stopped \/ UNCHANGED allVars
  <2>1. UNCHANGED <<watchers, runningFiber, status, loop, failure, pollVars>>
    BY <1>4 DEF Tick, Stopped, allVars, vars, pollVars, fiberVars, readyVars, stateVars, loopVars,
                turnVars
  <2>2. FilesOK' /\ FileTypesOK'
    BY <1>1, <2>1, FilesStay DEF callVars
  <2>3. CallsOK'
    BY <1>1, <2>1 DEF callVars, RuntimeInv, CallsOK
  <2>4. NobodyStartsToWait
    BY <2>1, NobodyAdded
  <2> QED
    BY <1>1, <1>2, <2>1, <2>2, <2>3, <2>4, CallsKept, InvParts DEF callVars
<1> QED
  BY <1>3, <1>4 DEF SchedulerStep

(* The workers touch descriptors and nothing else.                         *)
LEMMA WorkerInv ==
  ASSUME RuntimeInv, SchedInv', [Next]_vars, NEW x \in FD,
         WorkerOpen(x) \/ WorkerClose(x) \/ WorkerCloseAgain(x)
  PROVE  RuntimeInv'
<1>1. UNCHANGED vars /\ UNCHANGED callVars
  BY DEF WorkerOpen, WorkerClose, WorkerCloseAgain
<1>2. UNCHANGED <<runningFiber, status, pc, call, doomed>> /\ UNCHANGED pollVars
  BY <1>1 DEF vars, fiberVars, readyVars, stateVars, callVars
<1>3. CallFieldsOK' /\ OthersCalls /\ CallsOK'
  BY <1>2 DEF RuntimeInv, CallTypesOK, CallFieldsOK, OthersCalls, CallsOK
<1>4. FilesOK' /\ FileTypesOK' /\ NobodyStartsToWait
  BY <1>2, WorkerFiles, NobodyAdded
<1> QED
  BY <1>2, <1>3, <1>4, CallsKept, InvParts

(* Open and Accept: the kernel hands out a descriptor.                     *)
LEMMA InstallInv ==
  ASSUME RuntimeInv, SchedInv', [Next]_vars, NEW x \in FD, Open(x) \/ Accept(x)
  PROVE  RuntimeInv'
<1>1. /\ At("body") \/ At("try")
      /\ Install(x) /\ UNCHANGED lentVars
      /\ IsRunning /\ runningFiber \in Fiber
  <2>1. (At("body") \/ At("try")) /\ Install(x) /\ UNCHANGED lentVars
    BY DEF Open, Accept
  <2> QED
    BY <2>1, RunningFiber DEF At, RuntimeInv
<1>2. NobodyStartsToWait
  BY <1>1, NobodyAdded DEF Install
<1>3. \A f \in Fiber : pc[f] # "close"
  BY <1>1, NobodyCloses
<1>4. /\ CallFieldsOK' /\ OthersCalls /\ CallsOK' /\ \A f \in Fiber : pc'[f] # "close"
      /\ doomed' = doomed
  <2>1. CASE Open(x)
    BY <1>3, <2>1 DEF Open, callVars, CallFieldsOK, OthersCalls, CallsOK, RuntimeInv, CallTypesOK
  <2>2. CASE Accept(x)
    <3>1. Return /\ doomed' = doomed
      BY <2>2 DEF Accept
    <3>2. CallFieldsOK' /\ OthersCalls /\ pc'[runningFiber] = "body"
      BY <1>1, <3>1 DEF Return, NoCall, CallFieldsOK, OthersCalls, PCs, Loops, Poll!Event,
                        RuntimeInv, CallTypesOK
    <3>3. CallsOK' /\ \A f \in Fiber : pc'[f] # "close"
      BY <1>3, <3>2 DEF OthersCalls, CallsOK, RuntimeInv
    <3> QED
      BY <3>1, <3>2, <3>3
  <2> QED
    BY <2>1, <2>2
<1>5. FilesOK' /\ FileTypesOK'
  BY <1>1, <1>4, InstallFiles
<1>6. runningFiber \notin doomed'
  BY <1>1, <1>4, NobodyCloses DEF At
<1> QED
  BY <1>2, <1>4, <1>5, <1>6, CallsKept, InvParts

LEMMA CloseAgainInv ==
  ASSUME RuntimeInv, SchedInv', [Next]_vars, CloseAgain
  PROVE  RuntimeInv'
<1>1. /\ IsRunning /\ runningFiber \in Fiber /\ pc[runningFiber] = "close"
      /\ UNCHANGED <<runningFiber, status, doomed>> /\ UNCHANGED pollVars
  BY RunningFiber DEF CloseAgain, At, RuntimeInv, vars, fiberVars, readyVars, stateVars
<1>2. CallFieldsOK' /\ OthersCalls /\ CallsOK'
  <2>1. Return \/ UNCHANGED <<pc, call>>
    BY DEF CloseAgain
  <2>2. CASE UNCHANGED <<pc, call>>
    BY <1>1, <2>2 DEF CallFieldsOK, OthersCalls, CallsOK, RuntimeInv, CallTypesOK
  <2>3. CASE Return
    <3>1. CallFieldsOK' /\ OthersCalls /\ pc'[runningFiber] = "body"
      BY <1>1, <2>3 DEF Return, NoCall, CallFieldsOK, OthersCalls, PCs, Loops, Poll!Event,
                        RuntimeInv, CallTypesOK
    <3> QED
      BY <1>1, <3>1 DEF OthersCalls, CallsOK, RuntimeInv
  <2> QED
    BY <2>1, <2>2, <2>3
<1>3. runningFiber \notin doomed'
  BY <1>1 DEF RuntimeInv, ClosedCallsFail
<1>4. NobodyStartsToWait /\ FilesOK' /\ FileTypesOK'
  BY <1>1, NobodyAdded, CloseAgainFiles
<1> QED
  BY <1>1, <1>2, <1>3, <1>4, CallsKept, InvParts

(* A call waits: its fiber joins the queue of what it waits for.           *)
LEMMA BlockedInv ==
  ASSUME RuntimeInv, SchedInv', [Next]_vars, Block
  PROVE  RuntimeInv'
<1> DEFINE r == runningFiber
           c == call[runningFiber]
<1>1. /\ At("try") /\ IsRunning /\ r \in Fiber /\ pc[r] = "try"
      /\ AwaitIOEvent(c.fd, c.event, c.timeout)
      /\ UNCHANGED <<kind, lentVars, call, doomed>>
      /\ pc' = [pc EXCEPT ![r] = "await"]
  BY RunningFiber DEF Block, At, RuntimeInv
<1>2. Poll!AddEventAwaiter(r, c.fd, c.event)
  BY <1>1 DEF AwaitIOEvent
<1>3. c.event \in Poll!Event /\ c.fd \in FD
  <2>1. c.fd \in watchers
    BY <1>2 DEF Poll!AddEventAwaiter
  <2> QED
    BY <1>1, <2>1, PollView DEF RuntimeInv, CallTypesOK, SchedInv, Poll!TypeOK
<1>4. \A f \in Fiber : pc[f] # "close"
  BY <1>1, NobodyCloses
<1>5. CallFieldsOK' /\ OthersCalls /\ CallsOK' /\ \A f \in Fiber : pc'[f] # "close"
  BY <1>1, <1>4 DEF RuntimeInv, CallTypesOK, CallFieldsOK, OthersCalls, CallsOK, PCs
<1>6. r \notin doomed' /\ doomed' = doomed
  BY <1>1 DEF RuntimeInv, ClosedCallsFail
<1>7. ClosedCallsFail' /\ doomed' \subseteq fibers'
  BY <1>5, <1>6, DoomedKept
<1>8. FilesOK' /\ FileTypesOK'
  <2>1. watchers' = watchers
    BY <1>2 DEF Poll!AddEventAwaiter
  <2> QED
    BY <1>1, <1>4, <1>5, <2>1, FilesKept
<1>9. WaitersMatchCalls'
  <2>1. ASSUME NEW fd \in FD, NEW e \in Poll!Event, NEW f \in EventAwaiters(fd, e)'
        PROVE  f \in EventAwaiters(fd, e) \/ (f = r /\ fd = c.fd /\ e = c.event)
    <3>1. eventAwaiterQueues \in [FD -> [Poll!Event -> Seq(Fiber)]]
      BY PollView DEF RuntimeInv, SchedInv, Poll!TypeOK, Poll!Queues
    <3>2. eventAwaiterQueues' = [eventAwaiterQueues EXCEPT ![c.fd][c.event] = Append(@, r)]
      BY <1>2 DEF Poll!AddEventAwaiter
    <3>3. CASE fd = c.fd /\ e = c.event
      <4> DEFINE q == eventAwaiterQueues[fd][e]
      <4>1. q \in Seq(Fiber) /\ eventAwaiterQueues'[fd][e] = Append(q, r)
        BY <1>3, <3>1, <3>2, <3>3
      <4> HIDE DEF q
      <4>2. ToSet(Append(q, r)) = ToSet(q) \cup {r}
        BY <1>1, <4>1, AppendQueue
      <4> QED
        BY <2>1, <3>3, <4>1, <4>2 DEF EventAwaiters, q
    <3>4. CASE ~(fd = c.fd /\ e = c.event)
      <4>1. eventAwaiterQueues'[fd][e] = eventAwaiterQueues[fd][e]
        BY <1>3, <3>1, <3>2, <3>4
      <4> QED
        BY <2>1, <4>1 DEF EventAwaiters
    <3> QED
      BY <3>3, <3>4
  <2>2. ASSUME NEW fd \in FD, NEW e \in Poll!Event, NEW f \in EventAwaiters(fd, e)'
        PROVE  pc'[f] = "await" /\ call'[f].fd = fd /\ call'[f].event = e /\ f \notin doomed'
    <3>1. CASE f = r
      <4>1. r \notin EventAwaiters(fd, e)
        BY EventAwaitersAwait DEF RuntimeInv, Waiters
      <4>2. fd = c.fd /\ e = c.event
        BY <2>1, <2>2, <3>1, <4>1
      <4> QED
        BY <1>1, <1>6, <3>1, <4>2 DEF RuntimeInv, CallTypesOK
    <3>2. CASE f # r
      <4>1. f \in EventAwaiters(fd, e) /\ f \in Fiber
        BY <2>1, <2>2, <3>2, EventAwaitersAwait DEF RuntimeInv, SchedInv, OwnTypesOK, Waiters
      <4> QED
        BY <1>5, <1>6, <3>2, <4>1 DEF RuntimeInv, WaitersMatchCalls, EventAwaiters, OthersCalls
    <3> QED
      BY <3>1, <3>2
  <2> QED
    BY <2>2 DEF WaitersMatchCalls, EventAwaiters
<1> QED
  BY <1>5, <1>7, <1>8, <1>9, InvParts

(* Close wakes whoever waits for the descriptor, with EBADF.               *)
LEMMA ClosedInv ==
  ASSUME RuntimeInv, SchedInv', [Next]_vars, NEW x \in FD, Close(x)
  PROVE  RuntimeInv'
<1> DEFINE q == Poll!AwaitersOf(x)
<1>1. /\ At("body") /\ IsRunning /\ runningFiber \in Fiber /\ UnwatchIO(x)
      /\ doomed' = doomed \cup Awaiters(x)
      /\ CloseEnds(x) \/ (CloseInterrupted(x) /\ TryAgain(x))
  BY RunningFiber DEF Close, At, RuntimeInv, Awaiters
<1>2. /\ Poll!DestroyWatcher(x) /\ Release(q) /\ UNCHANGED <<runningFiber, fibers>>
      /\ status' = [f \in Fiber |-> IF f \in Awaiters(x) THEN -EBADF ELSE status[f]]
  BY <1>1 DEF UnwatchIO, heapVars, Awaiters
<1>3. \A f \in Fiber : pc[f] # "close"
  BY <1>1, NobodyCloses
<1>4. CallFieldsOK' /\ OthersCalls /\ CallsOK'
  <2>1. CASE UNCHANGED <<pc, call>>
    BY <1>3, <2>1 DEF CallFieldsOK, OthersCalls, CallsOK, RuntimeInv, CallTypesOK
  <2>2. CASE TryAgain(x)
    <3>1. CallFieldsOK' /\ OthersCalls /\ pc'[runningFiber] = "close"
      BY <1>1, <2>2 DEF TryAgain, CallFieldsOK, OthersCalls, PCs, RuntimeInv, CallTypesOK
    <3> QED
      BY <1>2, <1>3, <3>1 DEF OthersCalls, CallsOK, RuntimeInv
  <2> QED
    BY <1>1, <2>1, <2>2 DEF CloseEnds
<1>5. FilesOK' /\ FileTypesOK'
  BY CloseFiles
<1>6. NobodyStartsToWait
  BY <1>1, NobodyAdded
<1>7. /\ q \in Seq(Fiber) /\ IsInjective(q) /\ ToSet(q) = Awaiters(x)
      /\ Awaiters(x) \subseteq Awaiting /\ Awaiters(x) \subseteq Fiber
      /\ runningFiber \notin Awaiters(x)
  <2>1. Awaiters(x) \subseteq Waiters /\ Awaiters(x) \subseteq Awaiting
    BY EventAwaitersAwait DEF RuntimeInv
  <2> QED
    BY <2>1, PollView DEF RuntimeInv, SchedInv, OwnTypesOK, Waiters, Awaiters
<1>8. \A f \in Awaiters(x) : pc[f] = "await"
  BY EventAwaitersAwait DEF RuntimeInv, WaitersMatchCalls, EventAwaiters, Poll!Event
<1>9. WaitersMatchCalls'
  <2>1. ASSUME NEW fd \in FD, NEW e \in Poll!Event, NEW f \in EventAwaiters(fd, e)', f \in doomed'
        PROVE  f \in doomed
    <3>1. fd # x
      <4>1. eventAwaiterQueues'[x] = PP!NoQueues
        BY <1>2, SchedInv' DEF Poll!DestroyWatcher, SchedInv, PollOK, PP!Inv, PP!UnwatchedIsClean
      <4>2. EventAwaiters(x, e)' = {}
        BY <4>1, EmptyQueue, SameStates DEF EventAwaiters, PP!NoQueues
      <4> QED
        BY <2>1, <4>2
    <3>2. f \in Awaiters(fd)
      BY <1>6, <2>1, EventAwaitersAwait DEF NobodyStartsToWait, RuntimeInv
    <3>3. f \notin Awaiters(x)
      BY <3>1, <3>2, PollView DEF RuntimeInv, SchedInv
    <3> QED
      BY <1>1, <2>1, <3>3
  <2> QED
    BY <1>4, <1>6, <2>1, WaitersKept
<1>10. ClosedCallsFail'
  <2>1. ReadySet' = ReadySet \cup Awaiters(x)
    BY <1>2, <1>7, ReleaseSets DEF RuntimeInv
  <2>2. ASSUME NEW f \in doomed'
        PROVE  /\ pc'[f] = "await" /\ status'[f] = -EBADF
               /\ f = runningFiber' \/ f \in ReadySet'
    <3>1. f \in Fiber /\ pc[f] = "await"
      BY <1>1, <1>7, <1>8, <2>2 DEF RuntimeInv, ClosedCallsFail, CallTypesOK, SchedInv, OwnTypesOK
    <3>2. f # runningFiber /\ pc'[f] = "await"
      BY <1>1, <1>4, <3>1 DEF At, OthersCalls
    <3>3. f \in Awaiters(x) \/ (status[f] = -EBADF /\ f \in ReadySet)
      BY <1>1, <2>2, <3>2 DEF RuntimeInv, ClosedCallsFail, ReadySet
    <3> QED
      BY <1>2, <2>1, <3>1, <3>2, <3>3
  <2> QED
    BY <2>2 DEF ClosedCallsFail, ReadySet
<1>11. doomed' \subseteq fibers'
  BY <1>1, <1>2, <1>7, EventAwaitersAwait DEF RuntimeInv, CallTypesOK, Waiters
<1> QED
  BY <1>4, <1>5, <1>9, <1>10, <1>11, InvParts

LEMMA RuntimeStep ==
  ASSUME RuntimeInv, [RuntimeNext]_allVars
  PROVE  RuntimeInv'
<1>1. [Next]_vars /\ SchedInv'
  BY SchedulerSteps, SchedNext DEF RuntimeInv
<1> QED
  BY <1>1, CallStepInv, SchedulerStepInv, WorkerInv, InstallInv, CloseAgainInv, BlockedInv, ClosedInv
     DEF RuntimeNext

LEMMA RuntimeAlways == RuntimeSpec => []RuntimeInv
<1>1. RuntimeInv /\ [RuntimeNext]_allVars => RuntimeInv'
  BY RuntimeStep
<1> QED
  BY <1>1, InitRuntime, PTL DEF RuntimeSpec

-----------------------------------------------------------------------------
(* The calls made on the scheduler are calls it allows: every theorem of   *)
(* SchedulerProofs holds of a program's runs too.                          *)
THEOREM UsesTheScheduler == RuntimeSpec => Spec
<1>1. RuntimeInit => Init
  BY DEF RuntimeInit
<1>2. RuntimeInv /\ [RuntimeNext]_allVars => [Next]_vars
  BY SchedulerSteps
<1> QED
  BY <1>1, <1>2, RuntimeAlways, PTL DEF RuntimeSpec, Spec

(* Every variable of the calls, the descriptors and the scheduler keeps    *)
(* its type.                                                               *)
THEOREM RuntimeTypeCorrect == RuntimeSpec => []RuntimeTypeOK
<1>1. RuntimeSpec => []TypeOK
  BY UsesTheScheduler, SchedulerTypeCorrect, PTL
<1>2. RuntimeInv /\ TypeOK => RuntimeTypeOK
  BY DEF RuntimeInv, CallTypesOK, RuntimeTypeOK
<1> QED
  BY <1>1, <1>2, RuntimeAlways, PTL

(* Whoever waits in a watcher's queue waits for the descriptor of its own  *)
(* call, and no wait goes on after a close of the descriptor, whatever     *)
(* other fibers, workers and the kernel did to the number.                 *)
THEOREM WaitersMatchCallsCorrect == RuntimeSpec => []WaitersMatchCalls
<1> QED
  BY RuntimeAlways, PTL DEF RuntimeInv

(* A call whose descriptor is closed while it waits fails with EBADF,      *)
(* however long its fiber is ready before it runs.                         *)
THEOREM ClosedCallsFailCorrect == RuntimeSpec => []ClosedCallsFail
<1> QED
  BY RuntimeAlways, PTL DEF RuntimeInv

(* Where the kernel does not give a number away while its close is still   *)
(* tried, the watchers are the open descriptors that do not block, and     *)
(* epoll holds no closed one.                                              *)
THEOREM WatchersMatchCorrect ==
  InterruptedClose # "freed" /\ RuntimeSpec => []WatchersMatchDescriptors
<1>1. InterruptedClose # "freed" /\ RuntimeInv => WatchersMatchDescriptors
  <2> SUFFICES ASSUME InterruptedClose # "freed", RuntimeInv, NEW fd \in FD
               PROVE  /\ fd \in watchers <=> kind[fd] = "nonblocking" /\ ~BeingClosed(fd)
                      /\ interest[fd] # {} => kind[fd] = "nonblocking"
    BY DEF WatchersMatchDescriptors, BeingClosed
  <2>1. fd \in watchers <=> kind[fd] = "nonblocking" /\ ~BeingClosed(fd)
    BY DEF RuntimeInv, FilesOK
  <2>2. fd \notin watchers => interest[fd] = {}
    BY DEF RuntimeInv, SchedInv, PollOK, PP!Inv, PP!KernelInSync, PP!UnwatchedIsClean
  <2> QED
    BY <2>1, <2>2
<1>2. CASE InterruptedClose # "freed"
  <2>1. RuntimeInv => WatchersMatchDescriptors
    BY <1>1, <1>2
  <2> QED
    BY <2>1, RuntimeAlways, PTL
<1>3. CASE ~(InterruptedClose # "freed")
  BY <1>3, PTL
<1> QED
  BY <1>2, <1>3

(* Under the same condition nobody closes a file that somebody else has    *)
(* open.                                                                   *)
THEOREM LentStayOpenCorrect ==
  InterruptedClose # "freed" /\ RuntimeSpec => []LentStayOpen
<1>1. InterruptedClose # "freed" /\ RuntimeInv => LentStayOpen
  BY DEF RuntimeInv, FilesOK, LentStayOpen
<1>2. CASE InterruptedClose # "freed"
  <2>1. RuntimeInv => LentStayOpen
    BY <1>1, <1>2
  <2> QED
    BY <2>1, RuntimeAlways, PTL
<1>3. CASE ~(InterruptedClose # "freed")
  BY <1>3, PTL
<1> QED
  BY <1>2, <1>3

(* And the assertion of createWatcher never fails: it does only where an   *)
(* interrupted close has freed the number (finding), as long as CloseAsync *)
(* is called for descriptors of OpenAsync only (WorkerClose).              *)
THEOREM AssertHoldsUnlessFreed ==
  InterruptedClose # "freed" /\ RuntimeSpec => []AssertSlotIsNull
<1>1. InterruptedClose # "freed" /\ RuntimeInv => AssertSlotIsNull
  <2>1. RuntimeInv => watchers \subseteq FD
    BY PollView DEF RuntimeInv, SchedInv, Poll!TypeOK
  <2> QED
    BY <2>1 DEF RuntimeInv, FilesOK, AssertSlotIsNull
<1>2. CASE InterruptedClose # "freed"
  <2>1. RuntimeInv => AssertSlotIsNull
    BY <1>1, <1>2
  <2> QED
    BY <2>1, RuntimeAlways, PTL
<1>3. CASE ~(InterruptedClose # "freed")
  BY <1>3, PTL
<1> QED
  BY <1>2, <1>3

=============================================================================
