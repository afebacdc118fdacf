------------------------------- MODULE Runtime -------------------------------
(***************************************************************************)
(* Source/Runtime.cxx: the calls a program makes, on top of Scheduler.     *)
(*                                                                         *)
(* Each I/O call looks whether its descriptor is watched, and then tries   *)
(* the system call until it does something else than to fail with          *)
(* EWOULDBLOCK or EINTR, waiting in between.  Other fibers run during the  *)
(* waits and can close the descriptor; the kernel then gives its number to *)
(* the next file that is opened, by a fiber or (OpenAsync) by a worker     *)
(* thread.  The data that is read or written is left out, and of the       *)
(* ...Async calls all but what their tasks do to the descriptors.          *)
(*                                                                         *)
(* ReadAsync and the like are made on descriptors of OpenAsync, the other  *)
(* calls (they return EBADF otherwise) on those of Open, Pipe2, Socket and *)
(* Accept4.                                                                *)
(*                                                                         *)
(* close() can fail with EINTR and is then called again.  What became of   *)
(* the descriptor meanwhile POSIX leaves open: Linux has freed its number, *)
(* other kernels keep it open.                                             *)
(***************************************************************************)
EXTENDS Scheduler

CONSTANT InterruptedClose   \* "never", or what it leaves: "open", "freed"

ASSUME InterruptedCloseAssumption == InterruptedClose \in {"never", "open", "freed"}

VARIABLES
  kind,     \* kernel: what each descriptor is open for
  lent,     \* what OpenAsync returned and CloseAsync was not called for
  closing,  \* what workers try to close again
  pc,       \* where each fiber is: its own code, or a call
  call,     \* the descriptor, event, timeout and kind of the I/O call it makes
  doomed    \* history: fibers whose descriptor was closed while they waited

callVars == <<pc, call, doomed>>
lentVars == <<lent, closing>>
allVars == <<vars, kind, lentVars, callVars>>

Kinds == {"closed", "nonblocking", "blocking"}
PCs == {"body", "try", "await", "close"}

(* Connect makes its system call once, the other calls until it succeeds.  *)
Loops == {"retry", "once"}

NoCall == [fd |-> NoFD, event |-> "Readability", timeout |-> 0, again |-> "retry"]

RuntimeTypeOK ==
  /\ TypeOK
  /\ kind \in [FD -> Kinds]
  /\ lent \subseteq FD /\ closing \subseteq FD
  /\ pc \in [Fiber -> PCs]
  /\ call \in [Fiber -> [fd : FD \cup {NoFD}, event : Poll!Event,
                         timeout : Durations \cup {0}, again : Loops]]
  /\ doomed \subseteq fibers

RuntimeInit ==
  /\ Init
  /\ kind = [fd \in FD |-> "closed"]
  /\ lent = {} /\ closing = {}
  /\ pc = [f \in Fiber |-> "body"]
  /\ call = [f \in Fiber |-> NoCall]
  /\ doomed = {}

At(p) == IsRunning /\ pc[runningFiber] = p

-----------------------------------------------------------------------------
(* Opening and closing.                                                    *)

(* The kernel hands out a descriptor, which is watched at once.  Wrong: it *)
(* is not watched.                                                         *)
InstallUnwatched(fd) ==
  kind[fd] = "closed" /\ kind' = [kind EXCEPT ![fd] = "nonblocking"] /\ UNCHANGED vars
Install(fd) ==
  kind[fd] = "closed" /\ kind' = [kind EXCEPT ![fd] = "nonblocking"] /\ WatchIO(fd)

(* Open and Socket, and each end of Pipe2.                                 *)
Open(fd) == At("body") /\ Install(fd) /\ UNCHANGED <<lentVars, callVars>>

(* The kernel's close: over, or interrupted.                               *)
Freed(fd) == kind' = [kind EXCEPT ![fd] = "closed"]
CloseInterrupted(fd) ==
  \/ InterruptedClose = "open" /\ UNCHANGED kind
  \/ InterruptedClose = "freed" /\ Freed(fd)

TryAgain(fd) ==
  /\ pc' = [pc EXCEPT ![runningFiber] = "close"]
  /\ call' = [call EXCEPT ![runningFiber].fd = fd]

(* The end of the loop.  Wrong: errno decides, an old EINTR in it.         *)
CloseEndsLater(fd) == Freed(fd) /\ TryAgain(fd)
CloseEnds(fd) == Freed(fd) /\ UNCHANGED <<pc, call>>

(* Wrong: the descriptor is closed but still watched.                      *)
CloseWatched(fd) ==
  /\ At("body")
  /\ fd \in watchers
  /\ Freed(fd)
  /\ doomed' = doomed \cup ToSet(Poll!AwaitersOf(fd))
  /\ UNCHANGED <<vars, lentVars, pc, call>>

(* Nothing of another fiber comes between unwatchIO and the end of close,  *)
(* and no thread can be given the number before close.                     *)
Close(fd) ==
  /\ At("body")
  /\ fd \in watchers
  /\ UnwatchIO(fd)
  /\ doomed' = doomed \cup ToSet(Poll!AwaitersOf(fd))
  /\ CloseEnds(fd) \/ (CloseInterrupted(fd) /\ TryAgain(fd))
  /\ UNCHANGED lentVars

(* The tasks of OpenAsync and CloseAsync, on a worker thread.  One worker  *)
(* at a time tries again for a number (bound of the model).                *)
WorkerOpen(fd) ==
  /\ kind[fd] = "closed"
  /\ kind' = [kind EXCEPT ![fd] = "blocking"]
  /\ lent' = lent \cup {fd}
  /\ UNCHANGED <<vars, closing, callVars>>

(* CloseAsync is called once for what OpenAsync returned, and for nothing  *)
(* else (fd \in lent): the contract of its callers.                        *)
WorkerClose(fd) ==
  /\ fd \in lent /\ lent' = lent \ {fd}
  /\ \/ Freed(fd) /\ UNCHANGED closing
     \/ fd \notin closing /\ CloseInterrupted(fd) /\ closing' = closing \cup {fd}
  /\ UNCHANGED <<vars, callVars>>

WorkerCloseAgain(fd) ==
  /\ fd \in closing
  /\ \/ Freed(fd) /\ closing' = closing \ {fd}
     \/ CloseInterrupted(fd) /\ UNCHANGED closing
  /\ UNCHANGED <<vars, lent, callVars>>

-----------------------------------------------------------------------------
(* Read, Write, Accept4, Connect, Recv, Send, RecvFrom, SendTo.            *)

Return ==
  /\ pc' = [pc EXCEPT ![runningFiber] = "body"]
  /\ call' = [call EXCEPT ![runningFiber] = NoCall]

(* Close was interrupted: it is called again.                              *)
CloseAgain ==
  /\ At("close")
  /\ \/ Freed(call[runningFiber].fd) /\ Return
     \/ CloseInterrupted(call[runningFiber].fd) /\ UNCHANGED <<pc, call>>
  /\ UNCHANGED <<vars, lentVars, doomed>>

(* A descriptor that is not watched: EBADF, and nothing happens.           *)
StartCall(fd, e, timeout, again) ==
  /\ At("body")
  /\ fd \in watchers
  /\ pc' = [pc EXCEPT ![runningFiber] = "try"]
  /\ call' = [call EXCEPT ![runningFiber] =
                [fd |-> fd, event |-> e, timeout |-> timeout, again |-> again]]
  /\ UNCHANGED <<vars, kind, lentVars, doomed>>

(* The system call succeeds or fails for good.                             *)
EndCall == At("try") /\ Return /\ UNCHANGED <<vars, kind, lentVars, doomed>>

(* Accept4 succeeds: fd is the connection's descriptor.                    *)
Accept(fd) ==
  /\ At("try")
  /\ call[runningFiber].event = "Readability"
  /\ call[runningFiber].again = "retry"
  /\ kind[call[runningFiber].fd] = "nonblocking"
  /\ Install(fd)
  /\ Return
  /\ UNCHANGED <<lentVars, doomed>>

(* EWOULDBLOCK (connect: EINPROGRESS); a blocking descriptor, which a call *)
(* may meet after its own was closed, never fails so.  Each wait has the   *)
(* whole timeout of the call.                                              *)
Block ==
  LET c == call[runningFiber] IN
  /\ At("try")
  /\ kind[c.fd] = "nonblocking"
  /\ AwaitIOEvent(c.fd, c.event, c.timeout)
  /\ pc' = [pc EXCEPT ![runningFiber] = "await"]
  /\ UNCHANGED <<kind, lentVars, call, doomed>>

(* What ends the loop of a call.  Wrong: a timeout does not.               *)
FailsBadFD == status[runningFiber] = -EBADF
Fails == status[runningFiber] < 0

(* awaitIOEvent returned.                                                  *)
Resume ==
  /\ At("await")
  /\ IF Fails \/ call[runningFiber].again = "once"
       THEN Return
       ELSE pc' = [pc EXCEPT ![runningFiber] = "try"] /\ UNCHANGED call
  /\ doomed' = doomed \ {runningFiber}
  /\ UNCHANGED <<vars, kind, lentVars>>

-----------------------------------------------------------------------------
(* Call, Yield, Sleep and Exit, and the loop of run().                     *)
OtherCall ==
  /\ At("body")
  /\ \/ CallCoroutine
     \/ YieldCurrentFiber
     \/ \E d \in Durations : SleepCurrentFiber(d)
     \/ KillCurrentFiber
  /\ UNCHANGED <<kind, lentVars, callVars>>

RunLoop == Loop /\ UNCHANGED <<kind, lentVars, callVars>>

EpollWait == FinishWait /\ UNCHANGED <<kind, lentVars, callVars>>

SchedulerStep ==
  \/ RunLoop
  \/ EpollWait
  \/ (InterruptWait \/ Tick \/ Stopped) /\ UNCHANGED <<kind, lentVars, callVars>>

RuntimeNext ==
  \/ \E fd \in FD : \/ Open(fd) \/ Close(fd) \/ WorkerOpen(fd) \/ WorkerClose(fd)
                    \/ WorkerCloseAgain(fd) \/ Accept(fd)
                    \/ \E e \in Poll!Event, t \in Durations, again \in Loops :
                         StartCall(fd, e, t, again)
  \/ EndCall \/ CloseAgain \/ Block \/ Resume
  \/ OtherCall
  \/ SchedulerStep

RuntimeSpec == RuntimeInit /\ [][RuntimeNext]_allVars

(* Fairness: as in Scheduler, the thread and the loop of run() go on and a *)
(* wait whose timeout expired ends some time; a call that was begun goes   *)
(* on; and a coroutine that comes back to its own code again and again     *)
(* does at some time give up the thread.  Nothing is assumed of events.    *)
GiveUpThread == OtherCall /\ runningFiber' # runningFiber

FairRuntimeSpec ==
  /\ RuntimeSpec
  /\ WF_allVars(RunLoop)
  /\ SF_allVars(EpollWait /\ Expired)
  /\ WF_allVars(Tick /\ UNCHANGED <<kind, lentVars, callVars>>)
  /\ WF_allVars(EndCall \/ CloseAgain \/ Block \/ Resume)
  /\ SF_allVars(GiveUpThread)

-----------------------------------------------------------------------------
(* Properties.                                                             *)

(* The table of watchers follows the kernel's table of descriptors: what   *)
(* awaitIOEvent is called for (a descriptor that would block) is watched,  *)
(* as addEventAwaiter asserts, what the kernel hands out as new is not, as *)
(* createWatcher asserts, and epoll holds no descriptor that was closed.   *)
(* In between is only the descriptor a Close is still trying to close.     *)
WatchersMatchDescriptors ==
  \A fd \in FD :
    /\ fd \in watchers <=>
         kind[fd] = "nonblocking" /\ ~(At("close") /\ call[runningFiber].fd = fd)
    /\ interest[fd] # {} => kind[fd] = "nonblocking"

(* No close is ever made of a file that somebody else has open: what       *)
(* OpenAsync returned stays open until CloseAsync is called for it,        *)
(* although other threads close and open files and try again.              *)
LentStayOpen == \A fd \in lent : kind[fd] = "blocking"

(* assert(watchers_[fd] == nullptr) in createWatcher holds for any number  *)
(* the kernel may hand out to the running fiber.                           *)
AssertSlotIsNull ==
  At("body") => \A fd \in watchers : kind[fd] # "closed"

(* A call is only ever begun for a watched descriptor, and whoever waits   *)
(* waits for the descriptor of its own call: no wait goes on after a close *)
(* of its descriptor, on the file that took over the number.               *)
WaitersMatchCalls ==
  \A fd \in FD, e \in Poll!Event :
    \A f \in ToSet(eventAwaiterQueues[fd][e]) :
      pc[f] = "await" /\ call[f].fd = fd /\ call[f].event = e /\ f \notin doomed

(* A call that waits while its descriptor is closed fails with EBADF: when *)
(* it goes on it returns, without another system call on the number.       *)
ClosedCallsFail ==
  \A f \in doomed :
    /\ pc[f] = "await" /\ status[f] = -EBADF
    /\ f = runningFiber \/ f \in ToSet(readyFiberQueue)

(* The clock of the model stops before the timeout of this fiber.          *)
BeyondTheClock(f) == f \in Timers!Queued /\ dueTime[f] \in MaxTime + 1 .. Never - 1

(* A call with a timeout on a descriptor where nothing happens any more    *)
(* returns, as long as the other fibers let the thread come back to the    *)
(* poller.  (While there are events that others use up, it need not: each  *)
(* wait has the whole timeout anew.)                                       *)
QuietCallsReturn ==
  []<>(loop = "poll") =>
    \A f \in Fiber, fd \in FD :
      <>[](revents[fd] = {}) =>
        (pc[f] = "await" /\ call[f].fd = fd /\ call[f].timeout >= 0)
          ~> (pc[f] = "body" \/ BeyondTheClock(f))

=============================================================================
