------------------------------- MODULE IOPoll -------------------------------
(***************************************************************************)
(* Source/IOPoll.cxx: the epoll front end of one scheduler.  A watcher     *)
(* exists for every descriptor the program opened; it holds one queue of   *)
(* awaiters (fibers) for readability and one for writability.  What the    *)
(* queues ask for (pendingEventFlags) is copied to the kernel lazily: a    *)
(* watcher whose wish changed is put on the dirty queue, and the next      *)
(* waitForEvents brings the kernel up to date with epoll_ctl before it     *)
(* blocks.                                                                 *)
(*                                                                         *)
(* The kernel's side of the epoll instance (the interest list, what        *)
(* epoll_wait may report) is external and modelled here from its use.      *)
(* One thread runs everything in this module, so waitForEvents is split    *)
(* only where the kernel acts (epoll_wait) and at each turn of its loop    *)
(* over the reported events.                                               *)
(***************************************************************************)
EXTENDS Naturals, FiniteSets, SequencesExt

CONSTANTS
  FD,         \* the file descriptors the program uses
  Awaiter,    \* the owners of queue items: fibers
  MaxEvents   \* length of the events array given to epoll_wait (1024)

ASSUME MaxEventsAssumption == MaxEvents \in Nat \ {0}

VARIABLES
  watchers,             \* the descriptors whose slot of watchers_ is not null
  eventFlags,           \* IOWatcher::eventFlags: what the kernel was last told
  pendingEventFlags,    \* IOWatcher::pendingEventFlags: what the queues ask for
  eventAwaiterQueues,   \* IOWatcher::eventAwaiterQueues
  dirtyWatcherQueue,    \* the watchers linked in dirtyWatcherQueue_
  interest,             \* kernel: the interest list, {} when not registered
  phase,                \* where waitForEvents is
  revents,              \* the events reported and not yet handled
  eventAwaiterQueue,    \* the caller's queue waitForEvents appends to
  aborted               \* an epoll_ctl failed: TARA_FATALITY_LOG, abort()

watcherVars == <<watchers, eventFlags, pendingEventFlags, eventAwaiterQueues,
                 dirtyWatcherQueue>>
waitVars == <<phase, revents, eventAwaiterQueue>>
vars == <<watcherVars, interest, waitVars, aborted>>

-----------------------------------------------------------------------------
Event == {"Readability", "Writability"}
Revent == Event \cup {"Error"}          \* "Error": EPOLLERR or EPOLLHUP
Phase == {"idle", "waiting", "handling"}

NoQueues == [e \in Event |-> <<>>]
NothingReported == [fd \in FD |-> {}]

Queues == [Event -> Seq(Awaiter)]

TypeOK ==
  /\ watchers \subseteq FD
  /\ eventFlags \in [FD -> SUBSET Event]
  /\ pendingEventFlags \in [FD -> SUBSET Event]
  /\ eventAwaiterQueues \in [FD -> Queues]
  /\ dirtyWatcherQueue \subseteq watchers
  /\ interest \in [FD -> SUBSET Event]
  /\ phase \in Phase
  /\ revents \in [FD -> SUBSET Revent]
  /\ eventAwaiterQueue \in Seq(Awaiter)
  /\ aborted \in BOOLEAN

Init ==
  /\ watchers = {}
  /\ eventFlags = [fd \in FD |-> {}]
  /\ pendingEventFlags = [fd \in FD |-> {}]
  /\ eventAwaiterQueues = [fd \in FD |-> NoQueues]
  /\ dirtyWatcherQueue = {}
  /\ interest = [fd \in FD |-> {}]
  /\ phase = "idle"
  /\ revents = NothingReported
  /\ eventAwaiterQueue = <<>>
  /\ aborted = FALSE

(* The awaiters of fd in the order removeEventAwaiters appends them. *)
AwaitersOf(fd) ==
  eventAwaiterQueues[fd]["Readability"] \o eventAwaiterQueues[fd]["Writability"]

Waiting == UNION {ToSet(AwaitersOf(fd)) : fd \in FD}

-----------------------------------------------------------------------------
(* Small steps, and before each what a mistake would make of it: the       *)
(* mutants of this module.                                                 *)

(* The watcher that is freed leaves the dirty queue.                       *)
LeaveDirtyQueue(fd) == dirtyWatcherQueue' = dirtyWatcherQueue \ {fd}

(* EPOLL_CTL_DEL, if the kernel was told of fd.  Wrong: left to close().   *)
StayRegistered(fd) == UNCHANGED <<interest, aborted>>
Unregister(fd) ==
  IF eventFlags[fd] = {} THEN UNCHANGED <<interest, aborted>>
  ELSE interest' = [interest EXCEPT ![fd] = {}] /\ aborted' = (interest[fd] = {})

(* Is e among the events fd asks for?  Wrong: any event will do.           *)
AsksForAny(fd, e) == pendingEventFlags[fd] # {}
AsksFor(fd, e) == e \in pendingEventFlags[fd]

(* The queues of q that are empty in q2.  Wrong: that is not looked at.    *)
EmptiedNever(q, q2) == {}
Emptied(q, q2) == {e \in Event : q[e] # <<>> /\ q2[e] = <<>>}

(* The dirty queue when queues of fd became empty.  Wrong: as before.      *)
DirtyBefore(fd, emptied) == dirtyWatcherQueue
DirtyNow(fd, emptied) ==
  IF emptied = {} THEN dirtyWatcherQueue ELSE dirtyWatcherQueue \cup {fd}

(* Whom an error releases.  Wrong: only the readers.                       *)
ReadersOf(fd) == eventAwaiterQueues[fd]["Readability"]
ReleasedByError(fd) == AwaitersOf(fd)

-----------------------------------------------------------------------------
(* Calls of the scheduler between two waits.                               *)

Ready == phase = "idle" /\ ~aborted

CreateWatcher(fd) ==
  /\ Ready
  /\ fd \notin watchers
  /\ watchers' = watchers \cup {fd}
  /\ eventFlags' = [eventFlags EXCEPT ![fd] = {}]
  /\ pendingEventFlags' = [pendingEventFlags EXCEPT ![fd] = {}]
  /\ eventAwaiterQueues' = [eventAwaiterQueues EXCEPT ![fd] = NoQueues]
  /\ UNCHANGED <<dirtyWatcherQueue, interest, waitVars, aborted>>

(* Scheduler::unwatchIO empties the queues with removeEventAwaiters first  *)
(* (the caller gets AwaitersOf(fd)); the fields of the freed block are     *)
(* reset here because nothing reads them before the constructor runs.      *)
DestroyWatcher(fd) ==
  /\ Ready
  /\ fd \in watchers
  /\ watchers' = watchers \ {fd}
  /\ LeaveDirtyQueue(fd)
  /\ Unregister(fd)
  /\ eventFlags' = [eventFlags EXCEPT ![fd] = {}]
  /\ pendingEventFlags' = [pendingEventFlags EXCEPT ![fd] = {}]
  /\ eventAwaiterQueues' = [eventAwaiterQueues EXCEPT ![fd] = NoQueues]
  /\ UNCHANGED waitVars

AddEventAwaiter(a, fd, e) ==
  /\ Ready
  /\ fd \in watchers
  /\ a \notin Waiting
  /\ eventAwaiterQueues' = [eventAwaiterQueues EXCEPT ![fd][e] = Append(@, a)]
  /\ pendingEventFlags' = [pendingEventFlags EXCEPT ![fd] = @ \cup {e}]
  /\ dirtyWatcherQueue' = IF AsksFor(fd, e) THEN dirtyWatcherQueue
                                            ELSE dirtyWatcherQueue \cup {fd}
  /\ UNCHANGED <<watchers, eventFlags, interest, waitVars, aborted>>

(* The queues of fd become q: one that became empty no longer asks for its *)
(* event.                                                                  *)
SetQueues(fd, q) ==
  LET emptied == Emptied(eventAwaiterQueues[fd], q) IN
  /\ eventAwaiterQueues' = [eventAwaiterQueues EXCEPT ![fd] = q]
  /\ pendingEventFlags' = [pendingEventFlags EXCEPT ![fd] = @ \ emptied]
  /\ dirtyWatcherQueue' = DirtyNow(fd, emptied)

(* The deadline of one awaiter passed.                                     *)
RemoveEventAwaiter(a, fd) ==
  /\ Ready
  /\ fd \in watchers
  /\ \E e \in Event : \E i \in DOMAIN eventAwaiterQueues[fd][e] :
       /\ eventAwaiterQueues[fd][e][i] = a
       /\ SetQueues(fd, [eventAwaiterQueues[fd] EXCEPT ![e] = RemoveAt(@, i)])
  /\ UNCHANGED <<watchers, eventFlags, interest, waitVars, aborted>>

-----------------------------------------------------------------------------
(* waitForEvents.                                                          *)

(* The epoll_ctl the kernel refuses: EPOLL_CTL_ADD of a descriptor that is *)
(* registered (EEXIST), EPOLL_CTL_MOD or EPOLL_CTL_DEL of one that is not  *)
(* (ENOENT).                                                               *)
CtlFails(fd) ==
  IF eventFlags[fd] = {} THEN interest[fd] # {} ELSE interest[fd] = {}

Stale == {fd \in dirtyWatcherQueue : eventFlags[fd] # pendingEventFlags[fd]}

(* Lines 139-165: the dirty watchers are brought to the kernel.            *)
FlushDirtyWatchers ==
  /\ Ready
  /\ phase' = "waiting"
  /\ dirtyWatcherQueue' = {}
  /\ eventFlags' = [fd \in FD |-> IF fd \in Stale THEN pendingEventFlags[fd]
                                                  ELSE eventFlags[fd]]
  /\ interest' = [fd \in FD |-> IF fd \in Stale THEN pendingEventFlags[fd]
                                                ELSE interest[fd]]
  /\ aborted' = (\E fd \in Stale : CtlFails(fd))
  /\ UNCHANGED <<watchers, pendingEventFlags, eventAwaiterQueues, revents,
                 eventAwaiterQueue>>

(* What one epoll_wait can report: for a registered descriptor, events it  *)
(* is registered for and, always, errors and hang-ups; level triggered, at *)
(* most MaxEvents descriptors, none when the timeout expired.              *)
Reports ==
  {r \in [FD -> SUBSET Revent] :
     /\ \A fd \in FD : r[fd] \subseteq
          (IF interest[fd] = {} THEN {} ELSE interest[fd] \cup {"Error"})
     /\ Cardinality({fd \in FD : r[fd] # {}}) <= MaxEvents}

EpollWait(r) ==
  /\ phase = "waiting" /\ ~aborted
  /\ phase' = "handling"
  /\ revents' = r
  /\ UNCHANGED <<watcherVars, interest, eventAwaiterQueue, aborted>>

(* epoll_wait returned EINTR: waitForEvents returns false.                 *)
Interrupted ==
  /\ phase = "waiting" /\ ~aborted
  /\ phase' = "idle"
  /\ UNCHANGED <<watcherVars, interest, revents, eventAwaiterQueue, aborted>>

(* EPOLLERR or EPOLLHUP: removeEventAwaiters releases every awaiter.       *)
HandleError(fd) ==
  /\ phase = "handling"
  /\ "Error" \in revents[fd]
  /\ IF pendingEventFlags[fd] = {}
       THEN UNCHANGED <<watcherVars, eventAwaiterQueue>>
       ELSE /\ eventAwaiterQueue' = eventAwaiterQueue \o ReleasedByError(fd)
            /\ eventAwaiterQueues' = [eventAwaiterQueues EXCEPT ![fd] = NoQueues]
            /\ pendingEventFlags' = [pendingEventFlags EXCEPT ![fd] = {}]
            /\ dirtyWatcherQueue' = dirtyWatcherQueue \cup {fd}
            /\ UNCHANGED <<watchers, eventFlags>>
  /\ revents' = [revents EXCEPT ![fd] = {}]
  /\ UNCHANGED <<interest, phase, aborted>>

(* EPOLLIN and EPOLLOUT each release the first awaiter of their queue.     *)
HandleReadiness(fd) ==
  LET q == eventAwaiterQueues[fd]
      first(e) == IF e \in revents[fd] THEN <<Head(q[e])>> ELSE <<>>
  IN
  /\ phase = "handling"
  /\ revents[fd] # {} /\ "Error" \notin revents[fd]
  /\ eventAwaiterQueue' =
       eventAwaiterQueue \o first("Readability") \o first("Writability")
  /\ SetQueues(fd, [e \in Event |-> IF e \in revents[fd] THEN Tail(q[e])
                                                          ELSE q[e]])
  /\ revents' = [revents EXCEPT ![fd] = {}]
  /\ UNCHANGED <<watchers, eventFlags, interest, phase, aborted>>

(* Every event is handled: the caller takes the released awaiters.         *)
EndWait ==
  /\ phase = "handling"
  /\ revents = NothingReported
  /\ phase' = "idle"
  /\ eventAwaiterQueue' = <<>>
  /\ UNCHANGED <<watcherVars, interest, revents, aborted>>

-----------------------------------------------------------------------------
Next ==
  \/ \E fd \in FD : \/ CreateWatcher(fd)
                    \/ DestroyWatcher(fd)
                    \/ \E a \in Awaiter : \/ \E e \in Event : AddEventAwaiter(a, fd, e)
                                          \/ RemoveEventAwaiter(a, fd)
                    \/ HandleError(fd)
                    \/ HandleReadiness(fd)
  \/ FlushDirtyWatchers
  \/ \E r \in Reports : EpollWait(r)
  \/ Interrupted
  \/ EndWait

Spec == Init /\ [][Next]_vars

-----------------------------------------------------------------------------
(* Properties.                                                             *)

(* A watcher asks for an event exactly when somebody waits for it: the     *)
(* flag addEventAwaiter sets and removeEventAwaiter(s) clears never drifts *)
(* from the queues, whichever way awaiters come and go.                    *)
PendingIffAwaited ==
  \A fd \in FD, e \in Event :
    e \in pendingEventFlags[fd] <=> eventAwaiterQueues[fd][e] # <<>>

(* The kernel never refuses an epoll_ctl, so waitForEvents and             *)
(* destroyWatcher never reach the abort() of xepoll_ctl: eventFlags is     *)
(* always what the kernel holds, also when a descriptor is watched again.  *)
CtlNeverFails == ~aborted

(* While the thread is blocked in epoll_wait the kernel is registered for  *)
(* exactly the events the queues wait for: no wakeup is lost because a     *)
(* watcher was not marked dirty, none is reported that nobody asked for.   *)
KernelKnowsAwaiters ==
  phase = "waiting" /\ ~aborted =>
    \A fd \in FD, e \in Event :
      e \in interest[fd] <=> eventAwaiterQueues[fd][e] # <<>>

(* QUEUE_HEAD is taken without a test when an event is handled: the queue  *)
(* of every reported, not yet handled event holds an awaiter.              *)
EventsHaveAwaiters ==
  phase = "handling" =>
    \A fd \in FD, e \in Event :
      e \in revents[fd] => eventAwaiterQueues[fd][e] # <<>>

(* An awaiter's one queue item is in at most one queue.                    *)
AwaitersApart ==
  /\ IsInjective(eventAwaiterQueue)
  /\ \A fd \in FD :
       /\ IsInjective(AwaitersOf(fd))
       /\ ToSet(AwaitersOf(fd)) \cap ToSet(eventAwaiterQueue) = {}
  /\ \A fd1, fd2 \in FD :
       fd1 # fd2 => ToSet(AwaitersOf(fd1)) \cap ToSet(AwaitersOf(fd2)) = {}

(* Whom the events reported for fd concern: everybody who waits on fd when *)
(* it failed, else whoever waits longest for each of the events.           *)
Concerned(fd) ==
  IF "Error" \in revents[fd]
  THEN ToSet(AwaitersOf(fd))
  ELSE {Head(eventAwaiterQueues[fd][e]) : e \in revents[fd]}

(* The loop of waitForEvents over the events releases exactly the awaiters *)
(* they concern: an error releases everybody of both queues, readiness the *)
(* longest waiter for each event; nobody else stops waiting, and each of   *)
(* them is handed to the caller once, after those already handed over.     *)
EventsReleaseTheirAwaiters ==
  [][phase = "handling" /\ phase' = "handling" =>
       LET handled == {fd \in FD : revents'[fd] # revents[fd]}
           released == UNION {Concerned(fd) : fd \in handled}
       IN  /\ \A fd \in handled : revents'[fd] = {}
           /\ Waiting' = Waiting \ released
           /\ released \cap ToSet(eventAwaiterQueue) = {}
           /\ ToSet(eventAwaiterQueue') = ToSet(eventAwaiterQueue) \cup released
           /\ IsInjective(eventAwaiterQueue')]_vars

=============================================================================
