---------------------------- MODULE IOPollProofs ----------------------------
(***************************************************************************)
(* Proofs about IOPoll for any descriptors, awaiters and MaxEvents.        *)
(*                                                                         *)
(* The argument: what a watcher asks for (pendingEventFlags) is exactly    *)
(* what its queues wait for; what the kernel holds is eventFlags; and a    *)
(* watcher whose two flags differ is on the dirty queue, so that after     *)
(* waitForEvents went over the dirty queue all three agree.                *)
(***************************************************************************)
EXTENDS IOPoll, SequenceLemmas

(* The kernel holds what eventFlags says, and was told so without error.   *)
KernelInSync == ~aborted /\ interest = eventFlags

(* Whoever differs from what the kernel was told is on the dirty queue.    *)
DifferenceIsDirty ==
  \A fd \in FD : eventFlags[fd] # pendingEventFlags[fd] => fd \in dirtyWatcherQueue

(* No trace is left of a watcher that was destroyed.                       *)
UnwatchedIsClean ==
  \A fd \in FD \ watchers :
    /\ eventFlags[fd] = {} /\ pendingEventFlags[fd] = {}
    /\ eventAwaiterQueues[fd] = NoQueues

FlushedWhileWaiting == phase = "waiting" => dirtyWatcherQueue = {}

Inv ==
  /\ TypeOK
  /\ PendingIffAwaited
  /\ KernelInSync
  /\ DifferenceIsDirty
  /\ UnwatchedIsClean
  /\ FlushedWhileWaiting
  /\ EventsHaveAwaiters

-----------------------------------------------------------------------------
LEMMA InitInv == Init => Inv
<1> SUFFICES ASSUME Init PROVE Inv
  OBVIOUS
<1>1. NoQueues \in Queues
  BY DEF NoQueues, Queues
<1>2. NothingReported \in [FD -> SUBSET Revent]
  BY DEF NothingReported
<1>3. TypeOK
  BY <1>1, <1>2, EmptySeq DEF Init, TypeOK, Phase
<1>4. PendingIffAwaited
  BY DEF Init, PendingIffAwaited, NoQueues
<1> QED
  BY <1>3, <1>4 DEF Init, Inv, KernelInSync, DifferenceIsDirty, UnwatchedIsClean,
     FlushedWhileWaiting, EventsHaveAwaiters

LEMMA CreateWatcherInv ==
  ASSUME NEW fd \in FD, Inv, CreateWatcher(fd)
  PROVE  Inv'
<1> USE DEF Inv, CreateWatcher, Ready
<1>1. NoQueues \in Queues
  BY DEF NoQueues, Queues
<1>2. TypeOK'
  BY <1>1 DEF TypeOK, waitVars
<1>3. PendingIffAwaited'
  BY DEF PendingIffAwaited, NoQueues, TypeOK
<1>4. KernelInSync' /\ DifferenceIsDirty' /\ UnwatchedIsClean'
  BY DEF KernelInSync, DifferenceIsDirty, UnwatchedIsClean, TypeOK
<1>5. FlushedWhileWaiting' /\ EventsHaveAwaiters'
  BY DEF FlushedWhileWaiting, EventsHaveAwaiters, waitVars
<1> QED
  BY <1>2, <1>3, <1>4, <1>5

LEMMA DestroyWatcherInv ==
  ASSUME NEW fd \in FD, Inv, DestroyWatcher(fd)
  PROVE  Inv'
<1> USE DEF Inv, DestroyWatcher, LeaveDirtyQueue, Unregister, Ready
<1>1. NoQueues \in Queues
  BY DEF NoQueues, Queues
<1>2. TypeOK'
  BY <1>1 DEF TypeOK, waitVars
<1>3. PendingIffAwaited'
  BY DEF PendingIffAwaited, NoQueues, TypeOK
<1>4. KernelInSync'
  BY DEF KernelInSync, TypeOK
<1>5. DifferenceIsDirty' /\ UnwatchedIsClean'
  BY DEF DifferenceIsDirty, UnwatchedIsClean, TypeOK
<1>6. FlushedWhileWaiting' /\ EventsHaveAwaiters'
  BY DEF FlushedWhileWaiting, EventsHaveAwaiters, waitVars
<1> QED
  BY <1>2, <1>3, <1>4, <1>5, <1>6

LEMMA AddEventAwaiterInv ==
  ASSUME NEW a \in Awaiter, NEW fd \in FD, NEW e \in Event, Inv,
         AddEventAwaiter(a, fd, e)
  PROVE  Inv'
<1> USE DEF Inv, AddEventAwaiter, AsksFor, Ready
<1>1. /\ eventAwaiterQueues[fd] \in [Event -> Seq(Awaiter)]
      /\ eventAwaiterQueues[fd][e] \in Seq(Awaiter)
  BY DEF TypeOK, Queues
<1>2. /\ Append(eventAwaiterQueues[fd][e], a) \in Seq(Awaiter)
      /\ Append(eventAwaiterQueues[fd][e], a) # <<>>
  BY <1>1, AppendProperties
<1>3. TypeOK'
  BY <1>1, <1>2 DEF TypeOK, Queues, waitVars
<1>4. PendingIffAwaited'
  BY <1>1, <1>2 DEF PendingIffAwaited, TypeOK, Queues
<1>5. KernelInSync' /\ DifferenceIsDirty' /\ UnwatchedIsClean'
  BY DEF KernelInSync, DifferenceIsDirty, UnwatchedIsClean, TypeOK
<1>6. FlushedWhileWaiting' /\ EventsHaveAwaiters'
  BY DEF FlushedWhileWaiting, EventsHaveAwaiters, waitVars
<1> QED
  BY <1>3, <1>4, <1>5, <1>6

(* Awaiters leave the queues of fd: what every caller of SetQueues needs.  *)
LEMMA SetQueuesLemma ==
  ASSUME NEW fd \in FD, NEW q \in Queues, Inv, fd \in watchers,
         \A e \in Event : q[e] # <<>> => eventAwaiterQueues[fd][e] # <<>>,
         SetQueues(fd, q), UNCHANGED <<watchers, eventFlags, interest, aborted>>
  PROVE  /\ eventAwaiterQueues' \in [FD -> Queues]
         /\ pendingEventFlags' \in [FD -> SUBSET Event]
         /\ dirtyWatcherQueue' \subseteq watchers'
         /\ PendingIffAwaited'
         /\ KernelInSync'
         /\ DifferenceIsDirty'
         /\ UnwatchedIsClean'
<1> USE DEF Inv, SetQueues, Emptied, DirtyNow
<1>1. /\ eventAwaiterQueues' \in [FD -> Queues]
      /\ pendingEventFlags' \in [FD -> SUBSET Event]
      /\ dirtyWatcherQueue' \subseteq watchers'
  BY DEF TypeOK
<1>2. PendingIffAwaited'
  BY DEF PendingIffAwaited, TypeOK
<1>3. KernelInSync'
  BY DEF KernelInSync
<1>4. DifferenceIsDirty'
  BY DEF DifferenceIsDirty, TypeOK
<1>5. UnwatchedIsClean'
  BY DEF UnwatchedIsClean, TypeOK
<1> QED
  BY <1>1, <1>2, <1>3, <1>4, <1>5

LEMMA RemoveEventAwaiterInv ==
  ASSUME NEW a \in Awaiter, NEW fd \in FD, Inv, RemoveEventAwaiter(a, fd)
  PROVE  Inv'
<1>0. PICK e \in Event : \E i \in DOMAIN eventAwaiterQueues[fd][e] :
        SetQueues(fd, [eventAwaiterQueues[fd] EXCEPT ![e] = RemoveAt(@, i)])
  BY DEF RemoveEventAwaiter
<1>1. PICK i \in DOMAIN eventAwaiterQueues[fd][e] :
        SetQueues(fd, [eventAwaiterQueues[fd] EXCEPT ![e] = RemoveAt(@, i)])
  BY <1>0
<1> DEFINE old == eventAwaiterQueues[fd]
           q == [old EXCEPT ![e] = RemoveAt(@, i)]
<1>2. old \in [Event -> Seq(Awaiter)]
  BY DEF Inv, TypeOK, Queues
<1>3. old[e] \in Seq(Awaiter) /\ i \in 1..Len(old[e])
  BY <1>1, <1>2, LenProperties
<1>4. RemoveAt(old[e], i) \in Seq(Awaiter)
  BY <1>3, RemoveFromQueue
<1>5. q \in Queues
  BY <1>2, <1>4 DEF Queues
<1>6. old[e] # <<>>
  BY <1>3, EmptySeq
<1>7. \A d \in Event : q[d] # <<>> => old[d] # <<>>
  BY <1>2, <1>6
<1>8. /\ fd \in watchers
      /\ UNCHANGED <<watchers, eventFlags, interest, aborted>>
      /\ UNCHANGED waitVars
      /\ phase = "idle"
  BY DEF RemoveEventAwaiter, Ready
<1> HIDE DEF q
<1>9. /\ eventAwaiterQueues' \in [FD -> Queues]
      /\ pendingEventFlags' \in [FD -> SUBSET Event]
      /\ dirtyWatcherQueue' \subseteq watchers'
      /\ PendingIffAwaited' /\ KernelInSync' /\ DifferenceIsDirty' /\ UnwatchedIsClean'
  BY <1>1, <1>5, <1>7, <1>8, SetQueuesLemma DEF q
<1>10. TypeOK'
  BY <1>8, <1>9 DEF Inv, TypeOK, waitVars
<1>11. FlushedWhileWaiting' /\ EventsHaveAwaiters'
  BY <1>8 DEF FlushedWhileWaiting, EventsHaveAwaiters, waitVars
<1> QED
  BY <1>9, <1>10, <1>11 DEF Inv

LEMMA FlushDirtyWatchersInv ==
  ASSUME Inv, FlushDirtyWatchers
  PROVE  Inv'
<1> USE DEF Inv, FlushDirtyWatchers, Ready
<1>1. TypeOK'
  BY DEF TypeOK, Phase, Stale
<1>2. PendingIffAwaited'
  BY DEF PendingIffAwaited
<1>3. \A fd \in FD : eventFlags'[fd] = pendingEventFlags'[fd]
  BY DEF DifferenceIsDirty, TypeOK, Stale
<1>4. KernelInSync'
  <2>1. \A fd \in Stale : ~CtlFails(fd)
    BY DEF KernelInSync, CtlFails
  <2> QED
    BY <2>1 DEF KernelInSync, TypeOK
<1>5. DifferenceIsDirty' /\ UnwatchedIsClean'
  BY <1>3 DEF DifferenceIsDirty, UnwatchedIsClean, TypeOK
<1>6. FlushedWhileWaiting' /\ EventsHaveAwaiters'
  BY DEF FlushedWhileWaiting, EventsHaveAwaiters
<1> QED
  BY <1>1, <1>2, <1>4, <1>5, <1>6

LEMMA EpollWaitInv ==
  ASSUME NEW r \in Reports, Inv, EpollWait(r)
  PROVE  Inv'
<1> USE DEF Inv, EpollWait
<1>1. TypeOK'
  BY DEF TypeOK, Phase, Reports, watcherVars
<1>2. PendingIffAwaited' /\ KernelInSync' /\ DifferenceIsDirty' /\ UnwatchedIsClean'
  BY DEF PendingIffAwaited, KernelInSync, DifferenceIsDirty, UnwatchedIsClean, watcherVars
<1>3. FlushedWhileWaiting'
  BY DEF FlushedWhileWaiting
<1>4. \A fd \in FD : pendingEventFlags[fd] = interest[fd]
  BY DEF FlushedWhileWaiting, DifferenceIsDirty, KernelInSync
<1>5. ASSUME NEW fd \in FD, NEW e \in Event, e \in r[fd]
      PROVE  eventAwaiterQueues[fd][e] # <<>>
  <2>1. e \in interest[fd]
    BY <1>5 DEF Reports, Event
  <2> QED
    BY <2>1, <1>4 DEF PendingIffAwaited
<1>6. EventsHaveAwaiters'
  BY <1>5 DEF EventsHaveAwaiters, watcherVars
<1> QED
  BY <1>1, <1>2, <1>3, <1>6

LEMMA InterruptedInv ==
  ASSUME Inv, Interrupted
  PROVE  Inv'
<1> USE DEF Inv, Interrupted
<1>1. TypeOK'
  BY DEF TypeOK, Phase, watcherVars
<1>2. PendingIffAwaited' /\ KernelInSync' /\ DifferenceIsDirty' /\ UnwatchedIsClean'
  BY DEF PendingIffAwaited, KernelInSync, DifferenceIsDirty, UnwatchedIsClean, watcherVars
<1>3. FlushedWhileWaiting' /\ EventsHaveAwaiters'
  BY DEF FlushedWhileWaiting, EventsHaveAwaiters
<1> QED
  BY <1>1, <1>2, <1>3

LEMMA EndWaitInv ==
  ASSUME Inv, EndWait
  PROVE  Inv'
<1> USE DEF Inv, EndWait
<1>1. TypeOK'
  BY EmptySeq DEF TypeOK, Phase, watcherVars
<1>2. PendingIffAwaited' /\ KernelInSync' /\ DifferenceIsDirty' /\ UnwatchedIsClean'
  BY DEF PendingIffAwaited, KernelInSync, DifferenceIsDirty, UnwatchedIsClean, watcherVars
<1>3. FlushedWhileWaiting' /\ EventsHaveAwaiters'
  BY DEF FlushedWhileWaiting, EventsHaveAwaiters
<1> QED
  BY <1>1, <1>2, <1>3

LEMMA AwaitersOfType ==
  ASSUME NEW fd \in FD, TypeOK
  PROVE  AwaitersOf(fd) \in Seq(Awaiter)
<1>1. /\ eventAwaiterQueues[fd]["Readability"] \in Seq(Awaiter)
      /\ eventAwaiterQueues[fd]["Writability"] \in Seq(Awaiter)
  BY DEF TypeOK, Queues, Event
<1> QED
  BY <1>1, ConcatProperties DEF AwaitersOf

LEMMA HandleErrorInv ==
  ASSUME NEW fd \in FD, Inv, HandleError(fd)
  PROVE  Inv'
<1>1. NoQueues \in Queues
  BY EmptySeq DEF NoQueues, Queues
<1>2. revents' \in [FD -> SUBSET Revent]
  BY DEF HandleError, ReleasedByError, Inv, TypeOK
<1>3. CASE pendingEventFlags[fd] = {}
  <2>1. UNCHANGED <<watcherVars, eventAwaiterQueue, interest, phase, aborted>>
    BY <1>3 DEF HandleError
  <2>2. TypeOK'
    BY <1>2, <2>1 DEF Inv, TypeOK, watcherVars
  <2>3. PendingIffAwaited' /\ KernelInSync' /\ DifferenceIsDirty' /\ UnwatchedIsClean'
    BY <2>1 DEF Inv, PendingIffAwaited, KernelInSync, DifferenceIsDirty,
                UnwatchedIsClean, watcherVars
  <2>4. FlushedWhileWaiting'
    BY <2>1 DEF Inv, FlushedWhileWaiting, watcherVars
  <2>5. EventsHaveAwaiters'
    BY <2>1 DEF Inv, EventsHaveAwaiters, watcherVars, HandleError, TypeOK
  <2> QED
    BY <2>2, <2>3, <2>4, <2>5 DEF Inv
<1>4. CASE pendingEventFlags[fd] # {}
  <2>1. fd \in watchers
    BY <1>4 DEF Inv, UnwatchedIsClean
  <2>2. AwaitersOf(fd) \in Seq(Awaiter)
    BY AwaitersOfType DEF Inv
  <2>3. /\ eventAwaiterQueue \in Seq(Awaiter)
        /\ eventAwaiterQueue' = eventAwaiterQueue \o AwaitersOf(fd)
        /\ eventAwaiterQueues' = [eventAwaiterQueues EXCEPT ![fd] = NoQueues]
        /\ pendingEventFlags' = [pendingEventFlags EXCEPT ![fd] = {}]
        /\ dirtyWatcherQueue' = dirtyWatcherQueue \cup {fd}
        /\ UNCHANGED <<watchers, eventFlags, interest, phase, aborted>>
    BY <1>4 DEF HandleError, ReleasedByError, Inv, TypeOK
  <2>4. eventAwaiterQueue' \in Seq(Awaiter)
    BY <2>2, <2>3, ConcatProperties
  <2>5. TypeOK'
    BY <1>1, <1>2, <2>1, <2>3, <2>4 DEF Inv, TypeOK
  <2>6. PendingIffAwaited'
    BY <1>4 DEF HandleError, ReleasedByError, Inv, TypeOK, PendingIffAwaited, NoQueues
  <2>7. KernelInSync' /\ DifferenceIsDirty' /\ UnwatchedIsClean'
    BY <1>4 DEF HandleError, ReleasedByError, Inv, TypeOK, KernelInSync, DifferenceIsDirty,
                UnwatchedIsClean
  <2>8. FlushedWhileWaiting'
    BY <1>4 DEF HandleError, ReleasedByError, FlushedWhileWaiting
  <2>9. EventsHaveAwaiters'
    BY <1>4 DEF HandleError, ReleasedByError, Inv, TypeOK, EventsHaveAwaiters
  <2> QED
    BY <2>5, <2>6, <2>7, <2>8, <2>9 DEF Inv
<1> QED
  BY <1>3, <1>4

LEMMA HandleReadinessInv ==
  ASSUME NEW fd \in FD, Inv, HandleReadiness(fd)
  PROVE  Inv'
<1> DEFINE old == eventAwaiterQueues[fd]
           q == [e \in Event |-> IF e \in revents[fd] THEN Tail(old[e]) ELSE old[e]]
           first(e) == IF e \in revents[fd] THEN <<Head(old[e])>> ELSE <<>>
<1>1. old \in [Event -> Seq(Awaiter)]
  BY DEF Inv, TypeOK, Queues
<1>2. phase = "handling"
  BY DEF HandleReadiness
<1>3. ASSUME NEW e \in Event, e \in revents[fd]
      PROVE  /\ old[e] # <<>>
             /\ Head(old[e]) \in Awaiter
             /\ Tail(old[e]) \in Seq(Awaiter)
  <2>1. old[e] # <<>>
    BY <1>2, <1>3 DEF Inv, EventsHaveAwaiters
  <2> QED
    BY <1>1, <2>1, HeadTailProperties
<1>4. q \in Queues
  BY <1>1, <1>3 DEF Queues
<1>5. \A e \in Event : q[e] # <<>> => old[e] # <<>>
  BY <1>3
<1>6. ASSUME NEW e \in Event
      PROVE  first(e) \in Seq(Awaiter)
  BY <1>3, EmptySeq
<1>7. PICK e \in Event : e \in revents[fd]
  BY DEF HandleReadiness, Inv, TypeOK, Revent
<1>8. fd \in watchers
  BY <1>3, <1>7 DEF Inv, UnwatchedIsClean, NoQueues
<1>9. /\ SetQueues(fd, q)
      /\ UNCHANGED <<watchers, eventFlags, interest, aborted>>
      /\ UNCHANGED phase
      /\ revents' = [revents EXCEPT ![fd] = {}]
      /\ eventAwaiterQueue' =
           eventAwaiterQueue \o first("Readability") \o first("Writability")
  BY DEF HandleReadiness
<1>10. eventAwaiterQueue' \in Seq(Awaiter)
  <2>1. eventAwaiterQueue \in Seq(Awaiter)
    BY DEF Inv, TypeOK
  <2>2. first("Readability") \in Seq(Awaiter) /\ first("Writability") \in Seq(Awaiter)
    BY <1>6 DEF Event
  <2> HIDE DEF first
  <2>3. eventAwaiterQueue \o first("Readability") \in Seq(Awaiter)
    BY <2>1, <2>2, ConcatProperties
  <2> QED
    BY <1>9, <2>2, <2>3, ConcatProperties
<1> HIDE DEF q, first
<1>11. /\ eventAwaiterQueues' \in [FD -> Queues]
       /\ pendingEventFlags' \in [FD -> SUBSET Event]
       /\ dirtyWatcherQueue' \subseteq watchers'
       /\ PendingIffAwaited' /\ KernelInSync' /\ DifferenceIsDirty' /\ UnwatchedIsClean'
  BY <1>4, <1>5, <1>8, <1>9, SetQueuesLemma
<1>12. TypeOK'
  BY <1>9, <1>10, <1>11 DEF Inv, TypeOK
<1>13. FlushedWhileWaiting'
  BY <1>2, <1>9 DEF FlushedWhileWaiting
<1>14. EventsHaveAwaiters'
  BY <1>9 DEF Inv, TypeOK, EventsHaveAwaiters, SetQueues
<1> QED
  BY <1>11, <1>12, <1>13, <1>14 DEF Inv

-----------------------------------------------------------------------------
LEMMA NextInv == Inv /\ [Next]_vars => Inv'
<1> SUFFICES ASSUME Inv, [Next]_vars PROVE Inv'
  OBVIOUS
<1>1. ASSUME NEW fd \in FD, CreateWatcher(fd) PROVE Inv'
  BY <1>1, CreateWatcherInv
<1>2. ASSUME NEW fd \in FD, DestroyWatcher(fd) PROVE Inv'
  BY <1>2, DestroyWatcherInv
<1>3. ASSUME NEW fd \in FD, NEW a \in Awaiter, NEW e \in Event, AddEventAwaiter(a, fd, e)
      PROVE  Inv'
  BY <1>3, AddEventAwaiterInv
<1>4. ASSUME NEW fd \in FD, NEW a \in Awaiter, RemoveEventAwaiter(a, fd) PROVE Inv'
  BY <1>4, RemoveEventAwaiterInv
<1>5. ASSUME NEW fd \in FD, HandleError(fd) PROVE Inv'
  BY <1>5, HandleErrorInv
<1>6. ASSUME NEW fd \in FD, HandleReadiness(fd) PROVE Inv'
  BY <1>6, HandleReadinessInv
<1>7. CASE FlushDirtyWatchers
  BY <1>7, FlushDirtyWatchersInv
<1>8. ASSUME NEW r \in Reports, EpollWait(r) PROVE Inv'
  BY <1>8, EpollWaitInv
<1>9. CASE Interrupted
  BY <1>9, InterruptedInv
<1>10. CASE EndWait
  BY <1>10, EndWaitInv
<1>11. CASE UNCHANGED vars
  <2> USE <1>11 DEF Inv, vars, watcherVars, waitVars
  <2>1. TypeOK' /\ PendingIffAwaited' /\ KernelInSync' /\ DifferenceIsDirty'
    BY DEF TypeOK, PendingIffAwaited, KernelInSync, DifferenceIsDirty
  <2>2. UnwatchedIsClean' /\ FlushedWhileWaiting' /\ EventsHaveAwaiters'
    BY DEF UnwatchedIsClean, FlushedWhileWaiting, EventsHaveAwaiters
  <2> QED
    BY <2>1, <2>2
<1> QED
  BY <1>1, <1>2, <1>3, <1>4, <1>5, <1>6, <1>7, <1>8, <1>9, <1>10, <1>11 DEF Next

LEMMA InvConsequences == Inv => /\ TypeOK /\ PendingIffAwaited /\ CtlNeverFails
                                /\ KernelKnowsAwaiters /\ EventsHaveAwaiters
<1> SUFFICES ASSUME Inv
             PROVE  CtlNeverFails /\ KernelKnowsAwaiters
  BY DEF Inv
<1>1. CtlNeverFails
  BY DEF Inv, KernelInSync, CtlNeverFails
<1>2. ASSUME phase = "waiting", NEW fd \in FD
      PROVE  interest[fd] = pendingEventFlags[fd]
  BY <1>2 DEF Inv, KernelInSync, FlushedWhileWaiting, DifferenceIsDirty
<1>3. KernelKnowsAwaiters
  BY <1>2 DEF Inv, PendingIffAwaited, KernelKnowsAwaiters
<1> QED
  BY <1>1, <1>3

LEMMA InvAlways == Spec => []Inv
<1> QED
  BY InitInv, NextInv, PTL DEF Spec

(* Every variable keeps its type; the dirty queue links only watchers that *)
(* exist: destroyWatcher unlinks the watcher it frees.                     *)
THEOREM TypeCorrect == Spec => []TypeOK
<1> QED
  BY InvAlways, InvConsequences, PTL

(* A watcher asks for an event exactly when somebody waits for it.         *)
THEOREM PendingCorrect == Spec => []PendingIffAwaited
<1> QED
  BY InvAlways, InvConsequences, PTL

(* No epoll_ctl is refused: xepoll_ctl never aborts the process.           *)
THEOREM CtlCorrect == Spec => []CtlNeverFails
<1> QED
  BY InvAlways, InvConsequences, PTL

(* A thread blocked in epoll_wait is registered for exactly the events its *)
(* fibers wait for: lazy registration loses no wakeup.                     *)
THEOREM KernelCorrect == Spec => []KernelKnowsAwaiters
<1> QED
  BY InvAlways, InvConsequences, PTL

(* waitForEvents never takes the head of an empty awaiter queue.           *)
THEOREM EventsCorrect == Spec => []EventsHaveAwaiters
<1> QED
  BY InvAlways, InvConsequences, PTL

-----------------------------------------------------------------------------
(* The queues of the watchers and of the caller as sets of awaiters.       *)

HandedWhileHandling == phase # "handling" => eventAwaiterQueue = <<>>

OthersKeep(fd) ==
  \A x \in FD \ {fd} : ToSet(AwaitersOf(x))' = ToSet(AwaitersOf(x))

(* The awaiters S of fd go to the caller.                                  *)
HandsOver(fd, S) ==
  /\ S \subseteq ToSet(AwaitersOf(fd))
  /\ ToSet(AwaitersOf(fd))' = ToSet(AwaitersOf(fd)) \ S
  /\ ToSet(eventAwaiterQueue)' = ToSet(eventAwaiterQueue) \cup S
  /\ OthersKeep(fd)

LinksOK == AwaitersApart /\ HandedWhileHandling

(* What EventsReleaseTheirAwaiters says of one step.                       *)
HandledStep ==
  phase = "handling" /\ phase' = "handling" =>
    LET handled == {fd \in FD : revents'[fd] # revents[fd]}
        released == UNION {Concerned(fd) : fd \in handled}
    IN  /\ \A fd \in handled : revents'[fd] = {}
        /\ Waiting' = Waiting \ released
        /\ released \cap ToSet(eventAwaiterQueue) = {}
        /\ ToSet(eventAwaiterQueue') = ToSet(eventAwaiterQueue) \cup released
        /\ IsInjective(eventAwaiterQueue')

LEMMA AwaitersOfQueues ==
  ASSUME NEW q \in Queues
  PROVE  LET r == q["Readability"]
             w == q["Writability"]
         IN  /\ r \in Seq(Awaiter) /\ w \in Seq(Awaiter)
             /\ ToSet(r \o w) = ToSet(r) \cup ToSet(w)
             /\ IsInjective(r \o w) <=> /\ IsInjective(r) /\ IsInjective(w)
                                        /\ ToSet(r) \cap ToSet(w) = {}
<1> DEFINE r == q["Readability"]
           w == q["Writability"]
<1>1. r \in Seq(Awaiter) /\ w \in Seq(Awaiter)
  BY DEF Queues, Event
<1> HIDE DEF r, w
<1>2. /\ ToSet(r \o w) = ToSet(r) \cup ToSet(w)
      /\ IsInjective(r \o w) <=> /\ IsInjective(r) /\ IsInjective(w)
                                 /\ ToSet(r) \cap ToSet(w) = {}
  BY <1>1, ConcatQueue
<1> QED
  BY <1>1, <1>2 DEF r, w

LEMMA InitLinks == Init => LinksOK /\ \A fd \in FD : AwaitersOf(fd) = <<>>
<1> SUFFICES ASSUME Init
             PROVE  LinksOK /\ \A fd \in FD : AwaitersOf(fd) = <<>>
  OBVIOUS
<1>1. <<>> \o <<>> = <<>>
  BY EmptySeq, ConcatEmptySeq
<1>2. \A fd \in FD : AwaitersOf(fd) = <<>>
  BY <1>1 DEF Init, AwaitersOf, NoQueues, Event
<1> QED
  BY <1>2, EmptyQueue DEF Init, LinksOK, AwaitersApart, HandedWhileHandling

(* A step that leaves the queues of the watchers and of the caller alone.  *)
LEMMA QuietLinks ==
  ASSUME LinksOK, phase' = "handling" \/ phase # "handling",
         UNCHANGED <<eventAwaiterQueues, eventAwaiterQueue>>
  PROVE  LinksOK' /\ \A fd \in FD : AwaitersOf(fd)' = AwaitersOf(fd)
<1>1. \A fd \in FD : AwaitersOf(fd)' = AwaitersOf(fd)
  BY DEF AwaitersOf
<1>2. AwaitersApart'
  BY <1>1 DEF LinksOK, AwaitersApart
<1> QED
  BY <1>1, <1>2 DEF LinksOK, HandedWhileHandling

(* A watcher is made or freed: fd has no awaiters then.                    *)
LEMMA ResetLinks ==
  ASSUME NEW fd \in FD, TypeOK, LinksOK, phase = "idle", phase' = "idle",
         eventAwaiterQueues' = [eventAwaiterQueues EXCEPT ![fd] = NoQueues],
         UNCHANGED eventAwaiterQueue
  PROVE  /\ LinksOK'
         /\ AwaitersOf(fd)' = <<>>
         /\ \A x \in FD \ {fd} : AwaitersOf(x)' = AwaitersOf(x)
<1>1. \A x \in FD \ {fd} : AwaitersOf(x)' = AwaitersOf(x)
  BY DEF AwaitersOf, TypeOK
<1>2. AwaitersOf(fd)' = <<>>
  <2>1. <<>> \o <<>> = <<>>
    BY EmptySeq, ConcatEmptySeq
  <2> QED
    BY <2>1 DEF AwaitersOf, TypeOK, NoQueues, Event
<1>3. AwaitersApart'
  BY <1>1, <1>2, EmptyQueue DEF LinksOK, AwaitersApart
<1> QED
  BY <1>1, <1>2, <1>3 DEF LinksOK, HandedWhileHandling

LEMMA AddLinks ==
  ASSUME NEW a \in Awaiter, NEW fd \in FD, NEW e \in Event, TypeOK, LinksOK,
         AddEventAwaiter(a, fd, e)
  PROVE  /\ LinksOK'
         /\ ToSet(AwaitersOf(fd))' = ToSet(AwaitersOf(fd)) \cup {a}
         /\ OthersKeep(fd)
         /\ UNCHANGED eventAwaiterQueue
<1> DEFINE old == eventAwaiterQueues[fd]
           q == [old EXCEPT ![e] = Append(@, a)]
<1>1. old \in Queues /\ old \in [Event -> Seq(Awaiter)]
  BY DEF TypeOK, Queues
<1>2. /\ Append(old[e], a) \in Seq(Awaiter)
      /\ ToSet(Append(old[e], a)) = ToSet(old[e]) \cup {a}
      /\ IsInjective(Append(old[e], a)) <=> IsInjective(old[e]) /\ a \notin ToSet(old[e])
  BY <1>1, AppendQueue
<1>3. q \in Queues
  BY <1>1, <1>2 DEF Queues
<1>4. /\ eventAwaiterQueues' = [eventAwaiterQueues EXCEPT ![fd] = q]
      /\ UNCHANGED waitVars /\ phase = "idle"
      /\ a \notin ToSet(AwaitersOf(fd))
      /\ \A x \in FD : a \notin ToSet(AwaitersOf(x))
  BY DEF AddEventAwaiter, Ready, Waiting
<1>5. \A x \in FD \ {fd} : AwaitersOf(x)' = AwaitersOf(x)
  BY <1>4 DEF AwaitersOf, TypeOK
<1>6. AwaitersOf(fd)' = q["Readability"] \o q["Writability"]
  BY <1>4 DEF AwaitersOf, TypeOK
<1>7. /\ \A d \in Event : q[d] = IF d = e THEN Append(old[e], a) ELSE old[d]
      /\ e = "Readability" \/ e = "Writability"
  BY <1>1 DEF Event
<1>8. IsInjective(AwaitersOf(fd)) /\ AwaitersOf(fd) = old["Readability"] \o old["Writability"]
  BY DEF LinksOK, AwaitersApart, AwaitersOf
<1> HIDE DEF q, old
<1>9. ToSet(AwaitersOf(fd))' = ToSet(AwaitersOf(fd)) \cup {a}
  BY <1>1, <1>2, <1>3, <1>6, <1>7, <1>8, AwaitersOfQueues DEF Event
<1>10. IsInjective(AwaitersOf(fd))'
  <2> DEFINE r == old["Readability"]
             w == old["Writability"]
  <2>1. /\ IsInjective(r) /\ IsInjective(w) /\ ToSet(r) \cap ToSet(w) = {}
        /\ a \notin ToSet(r) /\ a \notin ToSet(w)
    BY <1>1, <1>4, <1>8, AwaitersOfQueues
  <2>2. /\ IsInjective(q["Readability"]) /\ IsInjective(q["Writability"])
        /\ ToSet(q["Readability"]) \cap ToSet(q["Writability"]) = {}
    BY <2>1, <1>2, <1>7 DEF Event
  <2> QED
    BY <2>2, <1>3, <1>6, AwaitersOfQueues
<1>11. eventAwaiterQueue = <<>> /\ eventAwaiterQueue' = <<>> /\ phase' = "idle"
  BY <1>4 DEF LinksOK, HandedWhileHandling, waitVars
<1>12. AwaitersApart'
  BY <1>4, <1>5, <1>9, <1>10, <1>11, EmptyQueue DEF LinksOK, AwaitersApart
<1> QED
  BY <1>5, <1>9, <1>11, <1>12 DEF LinksOK, HandedWhileHandling, OthersKeep

LEMMA RemoveLinks ==
  ASSUME NEW a \in Awaiter, NEW fd \in FD, TypeOK, LinksOK,
         RemoveEventAwaiter(a, fd)
  PROVE  /\ LinksOK'
         /\ a \in ToSet(AwaitersOf(fd))
         /\ ToSet(AwaitersOf(fd))' = ToSet(AwaitersOf(fd)) \ {a}
         /\ OthersKeep(fd)
         /\ UNCHANGED eventAwaiterQueue
<1> DEFINE old == eventAwaiterQueues[fd]
<1>1. PICK e \in Event : \E i \in DOMAIN old[e] :
        old[e][i] = a /\ SetQueues(fd, [old EXCEPT ![e] = RemoveAt(@, i)])
  BY DEF RemoveEventAwaiter
<1>2. PICK i \in DOMAIN old[e] :
        old[e][i] = a /\ SetQueues(fd, [old EXCEPT ![e] = RemoveAt(@, i)])
  BY <1>1
<1> DEFINE q == [old EXCEPT ![e] = RemoveAt(@, i)]
<1>3. old \in Queues /\ old \in [Event -> Seq(Awaiter)]
  BY DEF TypeOK, Queues
<1>4. i \in 1..Len(old[e]) /\ a \in ToSet(old[e])
  BY <1>2, <1>3, InSeq
<1>5. /\ RemoveAt(old[e], i) \in Seq(Awaiter)
      /\ IsInjective(old[e]) => /\ IsInjective(RemoveAt(old[e], i))
                                /\ ToSet(RemoveAt(old[e], i)) = ToSet(old[e]) \ {a}
  BY <1>2, <1>3, <1>4, RemoveFromQueue
<1>6. q \in Queues
  BY <1>3, <1>5 DEF Queues
<1>7. /\ eventAwaiterQueues' = [eventAwaiterQueues EXCEPT ![fd] = q]
      /\ UNCHANGED waitVars /\ phase = "idle"
  BY <1>2 DEF RemoveEventAwaiter, Ready, SetQueues
<1>8. \A x \in FD \ {fd} : AwaitersOf(x)' = AwaitersOf(x)
  BY <1>7 DEF AwaitersOf, TypeOK
<1>9. AwaitersOf(fd)' = q["Readability"] \o q["Writability"]
  BY <1>7 DEF AwaitersOf, TypeOK
<1>10. /\ \A d \in Event : q[d] = IF d = e THEN RemoveAt(old[e], i) ELSE old[d]
       /\ e = "Readability" \/ e = "Writability"
  BY <1>3 DEF Event
<1>11. IsInjective(AwaitersOf(fd)) /\ AwaitersOf(fd) = old["Readability"] \o old["Writability"]
  BY DEF LinksOK, AwaitersApart, AwaitersOf
<1> HIDE DEF q, old
<1> DEFINE r == old["Readability"]
           w == old["Writability"]
<1>12. /\ IsInjective(r) /\ IsInjective(w) /\ ToSet(r) \cap ToSet(w) = {}
       /\ ToSet(AwaitersOf(fd)) = ToSet(r) \cup ToSet(w)
  BY <1>3, <1>11, AwaitersOfQueues
<1>13. /\ IsInjective(q["Readability"]) /\ IsInjective(q["Writability"])
       /\ ToSet(q["Readability"]) = ToSet(r) \ {a}
       /\ ToSet(q["Writability"]) = ToSet(w) \ {a}
  BY <1>4, <1>5, <1>10, <1>12 DEF Event
<1>14. /\ ToSet(AwaitersOf(fd))' = ToSet(AwaitersOf(fd)) \ {a}
       /\ IsInjective(AwaitersOf(fd))'
       /\ a \in ToSet(AwaitersOf(fd))
  BY <1>4, <1>6, <1>9, <1>10, <1>12, <1>13, AwaitersOfQueues
<1>15. eventAwaiterQueue = <<>> /\ eventAwaiterQueue' = <<>> /\ phase' = "idle"
  BY <1>7 DEF LinksOK, HandedWhileHandling, waitVars
<1>16. AwaitersApart'
  BY <1>8, <1>14, <1>15, EmptyQueue DEF LinksOK, AwaitersApart
<1> QED
  BY <1>8, <1>14, <1>15, <1>16 DEF LinksOK, HandedWhileHandling, OthersKeep

(* Once HandsOver is known, the links are right again.                     *)
LEMMA HandsOverLinks ==
  ASSUME NEW fd \in FD, NEW S, LinksOK, HandsOver(fd, S), phase' = "handling",
         IsInjective(eventAwaiterQueue'), IsInjective(AwaitersOf(fd))',
         \A x \in FD \ {fd} : AwaitersOf(x)' = AwaitersOf(x)
  PROVE  LinksOK'
<1>1. AwaitersApart'
  BY DEF LinksOK, AwaitersApart, HandsOver, OthersKeep
<1> QED
  BY <1>1 DEF LinksOK, HandedWhileHandling

LEMMA HandleErrorLinks ==
  ASSUME NEW fd \in FD, Inv, LinksOK, HandleError(fd)
  PROVE  LinksOK' /\ HandsOver(fd, Concerned(fd))
<1>0. Concerned(fd) = ToSet(AwaitersOf(fd))
  BY DEF HandleError, Concerned
<1>1. CASE pendingEventFlags[fd] = {}
  <2>1. UNCHANGED <<eventAwaiterQueues, eventAwaiterQueue>> /\ phase' = "handling"
    BY <1>1 DEF HandleError, watcherVars
  <2>2. LinksOK' /\ \A x \in FD : AwaitersOf(x)' = AwaitersOf(x)
    BY <2>1, QuietLinks
  <2>3. AwaitersOf(fd) = <<>>
    <3>1. \A e \in Event : eventAwaiterQueues[fd][e] = <<>>
      BY <1>1 DEF Inv, PendingIffAwaited
    <3>2. <<>> \o <<>> = <<>>
      BY EmptySeq, ConcatEmptySeq
    <3> QED
      BY <3>1, <3>2 DEF AwaitersOf, Event
  <2>4. HandsOver(fd, {})
    BY <2>1, <2>2 DEF HandsOver, OthersKeep
  <2> QED
    BY <1>0, <2>2, <2>3, <2>4, EmptyQueue
<1>2. CASE pendingEventFlags[fd] # {}
  <2>1. /\ eventAwaiterQueue' = eventAwaiterQueue \o AwaitersOf(fd)
        /\ eventAwaiterQueues' = [eventAwaiterQueues EXCEPT ![fd] = NoQueues]
        /\ phase' = "handling"
    BY <1>2 DEF HandleError, ReleasedByError
  <2>2. AwaitersOf(fd) \in Seq(Awaiter) /\ eventAwaiterQueue \in Seq(Awaiter)
    BY AwaitersOfType DEF Inv, TypeOK
  <2>3. /\ ToSet(eventAwaiterQueue') = ToSet(eventAwaiterQueue) \cup ToSet(AwaitersOf(fd))
        /\ IsInjective(eventAwaiterQueue')
    BY <2>1, <2>2, ConcatQueue DEF LinksOK, AwaitersApart
  <2>4. \A x \in FD \ {fd} : AwaitersOf(x)' = AwaitersOf(x)
    BY <2>1 DEF AwaitersOf, Inv, TypeOK
  <2>5. AwaitersOf(fd)' = <<>>
    <3>1. <<>> \o <<>> = <<>>
      BY EmptySeq, ConcatEmptySeq
    <3> QED
      BY <2>1, <3>1 DEF AwaitersOf, Inv, TypeOK, NoQueues, Event
  <2>6. HandsOver(fd, ToSet(AwaitersOf(fd)))
    BY <2>3, <2>4, <2>5, EmptyQueue DEF HandsOver, OthersKeep
  <2> QED
    BY <1>0, <2>1, <2>3, <2>4, <2>5, <2>6, HandsOverLinks, EmptyQueue
<1> QED
  BY <1>1, <1>2

LEMMA HandleReadinessLinks ==
  ASSUME NEW fd \in FD, Inv, LinksOK, HandleReadiness(fd)
  PROVE  LinksOK' /\ HandsOver(fd, Concerned(fd))
<1> DEFINE old == eventAwaiterQueues[fd]
           q == [e \in Event |-> IF e \in revents[fd] THEN Tail(old[e]) ELSE old[e]]
           first(e) == IF e \in revents[fd] THEN <<Head(old[e])>> ELSE <<>>
           r == old["Readability"]
           w == old["Writability"]
           fr == first("Readability")
           fw == first("Writability")
<1>1. old \in Queues /\ old \in [Event -> Seq(Awaiter)] /\ phase = "handling"
  BY DEF Inv, TypeOK, Queues, HandleReadiness
<1>2. /\ IsInjective(r) /\ IsInjective(w) /\ ToSet(r) \cap ToSet(w) = {}
      /\ ToSet(AwaitersOf(fd)) = ToSet(r) \cup ToSet(w)
  BY <1>1, AwaitersOfQueues DEF LinksOK, AwaitersApart, AwaitersOf
<1>3. ASSUME NEW e \in Event, IsInjective(old[e])
      PROVE  /\ first(e) \in Seq(Awaiter) /\ q[e] \in Seq(Awaiter)
             /\ IsInjective(first(e)) /\ IsInjective(q[e])
             /\ ToSet(first(e)) \subseteq ToSet(old[e])
             /\ ToSet(q[e]) = ToSet(old[e]) \ ToSet(first(e))
  <2>1. CASE e \in revents[fd]
    <3>1. old[e] # <<>> /\ old[e] \in Seq(Awaiter)
      BY <1>1, <2>1 DEF Inv, EventsHaveAwaiters
    <3>2. Head(old[e]) \in ToSet(old[e]) /\ Head(old[e]) \in Awaiter
      BY <3>1, HeadTailQueue, HeadTailProperties
    <3> QED
      BY <1>3, <2>1, <3>1, <3>2, HeadTailQueue, OneInQueue
  <2>2. CASE e \notin revents[fd]
    BY <1>1, <1>3, <2>2, EmptyQueue
  <2> QED
    BY <2>1, <2>2
<1>4. /\ fr \in Seq(Awaiter) /\ fw \in Seq(Awaiter)
      /\ IsInjective(fr) /\ IsInjective(fw)
      /\ ToSet(fr) \subseteq ToSet(r) /\ ToSet(fw) \subseteq ToSet(w)
      /\ IsInjective(q["Readability"]) /\ IsInjective(q["Writability"])
      /\ ToSet(q["Readability"]) = ToSet(r) \ ToSet(fr)
      /\ ToSet(q["Writability"]) = ToSet(w) \ ToSet(fw)
  BY <1>2, <1>3 DEF Event
<1>5. q \in Queues
  BY <1>2, <1>3 DEF Queues, Event
<1>6. /\ eventAwaiterQueue' = eventAwaiterQueue \o fr \o fw
      /\ eventAwaiterQueues' = [eventAwaiterQueues EXCEPT ![fd] = q]
      /\ phase' = "handling"
  BY DEF HandleReadiness, SetQueues
<1>7. \A x \in FD \ {fd} : AwaitersOf(x)' = AwaitersOf(x)
  BY <1>6 DEF AwaitersOf, Inv, TypeOK
<1>8. AwaitersOf(fd)' = q["Readability"] \o q["Writability"]
  BY <1>6 DEF AwaitersOf, Inv, TypeOK
<1>9. /\ eventAwaiterQueue \in Seq(Awaiter) /\ IsInjective(eventAwaiterQueue)
      /\ ToSet(AwaitersOf(fd)) \cap ToSet(eventAwaiterQueue) = {}
  BY DEF Inv, TypeOK, LinksOK, AwaitersApart
<1>14. ToSet(fr) \cup ToSet(fw) = Concerned(fd)
  <2>1. revents[fd] \subseteq Event /\ "Error" \notin revents[fd]
    BY DEF Inv, TypeOK, Revent, HandleReadiness
  <2>2. \A e \in Event : ToSet(first(e)) = IF e \in revents[fd] THEN {Head(old[e])} ELSE {}
    BY EmptyQueue, OneInQueue
  <2>3. Concerned(fd) = {Head(old[e]) : e \in revents[fd]}
    BY <2>1 DEF Concerned
  <2> QED
    BY <2>1, <2>2, <2>3 DEF Event
<1> HIDE DEF q, first, r, w, fr, fw
<1> DEFINE u == eventAwaiterQueue \o fr
<1>10. /\ u \in Seq(Awaiter) /\ IsInjective(u)
       /\ ToSet(u) = ToSet(eventAwaiterQueue) \cup ToSet(fr)
       /\ ToSet(u) \cap ToSet(fw) = {}
       /\ eventAwaiterQueue' = u \o fw
  BY <1>2, <1>4, <1>6, <1>9, ConcatQueue
<1> HIDE DEF u
<1>11. /\ ToSet(eventAwaiterQueue') = ToSet(eventAwaiterQueue) \cup (ToSet(fr) \cup ToSet(fw))
       /\ IsInjective(eventAwaiterQueue')
  BY <1>4, <1>10, ConcatQueue
<1>12. /\ IsInjective(AwaitersOf(fd))'
       /\ ToSet(AwaitersOf(fd))' = ToSet(AwaitersOf(fd)) \ (ToSet(fr) \cup ToSet(fw))
  BY <1>2, <1>4, <1>5, <1>8, AwaitersOfQueues
<1>13. HandsOver(fd, ToSet(fr) \cup ToSet(fw))
  BY <1>2, <1>4, <1>7, <1>11, <1>12 DEF HandsOver, OthersKeep
<1> QED
  BY <1>6, <1>7, <1>11, <1>12, <1>13, <1>14, HandsOverLinks

LEMMA EndWaitLinks ==
  ASSUME LinksOK, EndWait
  PROVE  /\ LinksOK' /\ eventAwaiterQueue' = <<>>
         /\ \A fd \in FD : AwaitersOf(fd)' = AwaitersOf(fd)
<1>1. \A fd \in FD : AwaitersOf(fd)' = AwaitersOf(fd)
  BY DEF EndWait, watcherVars, AwaitersOf
<1>2. eventAwaiterQueue' = <<>>
  BY DEF EndWait
<1> QED
  BY <1>1, <1>2, EmptyQueue DEF LinksOK, AwaitersApart, HandedWhileHandling

LEMMA NextLinks ==
  ASSUME Inv, LinksOK, [Next]_vars
  PROVE  LinksOK' /\ HandledStep
<1>1. TypeOK
  BY DEF Inv
<1>2. ASSUME NEW fd \in FD, CreateWatcher(fd) \/ DestroyWatcher(fd)
      PROVE  LinksOK' /\ HandledStep
  <2>1. /\ phase = "idle" /\ phase' = "idle" /\ UNCHANGED eventAwaiterQueue
        /\ eventAwaiterQueues' = [eventAwaiterQueues EXCEPT ![fd] = NoQueues]
    BY <1>2 DEF CreateWatcher, DestroyWatcher, Ready, waitVars
  <2> QED
    BY <1>1, <2>1, ResetLinks DEF HandledStep
<1>3. ASSUME NEW fd \in FD, NEW a \in Awaiter, NEW e \in Event, AddEventAwaiter(a, fd, e)
      PROVE  LinksOK' /\ HandledStep
  BY <1>1, <1>3, AddLinks DEF HandledStep, AddEventAwaiter, Ready
<1>4. ASSUME NEW fd \in FD, NEW a \in Awaiter, RemoveEventAwaiter(a, fd)
      PROVE  LinksOK' /\ HandledStep
  BY <1>1, <1>4, RemoveLinks DEF HandledStep, RemoveEventAwaiter, Ready
<1>5. ASSUME NEW fd \in FD, HandleError(fd) \/ HandleReadiness(fd)
      PROVE  LinksOK' /\ HandledStep
  <2> DEFINE S == Concerned(fd)
             handled == {x \in FD : revents'[x] # revents[x]}
             released == UNION {Concerned(x) : x \in handled}
  <2>1. LinksOK' /\ HandsOver(fd, S)
    BY <1>5, HandleErrorLinks, HandleReadinessLinks
  <2>2. /\ revents[fd] # {} /\ revents' = [revents EXCEPT ![fd] = {}]
        /\ revents \in [FD -> SUBSET Revent]
    BY <1>1, <1>5 DEF HandleError, HandleReadiness, TypeOK
  <2>3. handled = {fd}
    BY <2>2
  <2>4. released = S /\ revents'[fd] = {}
    BY <2>2, <2>3
  <2> HIDE DEF S, handled, released
  <2>5. \A x \in FD \ {fd} : ToSet(AwaitersOf(x)) \cap ToSet(AwaitersOf(fd)) = {}
    BY DEF LinksOK, AwaitersApart
  <2>6. Waiting' = Waiting \ S
    <3>1. S \subseteq Waiting /\ S \cap Waiting' = {}
      BY <2>1, <2>5 DEF Waiting, HandsOver, OthersKeep
    <3>2. Waiting \ S \subseteq Waiting' /\ Waiting' \subseteq Waiting
      BY <2>1 DEF Waiting, HandsOver, OthersKeep
    <3> QED
      BY <3>1, <3>2
  <2>7. /\ S \cap ToSet(eventAwaiterQueue) = {}
        /\ ToSet(eventAwaiterQueue') = ToSet(eventAwaiterQueue) \cup S
        /\ IsInjective(eventAwaiterQueue')
    BY <2>1 DEF HandsOver, LinksOK, AwaitersApart
  <2>8. /\ \A x \in handled : revents'[x] = {}
        /\ Waiting' = Waiting \ released
        /\ released \cap ToSet(eventAwaiterQueue) = {}
        /\ ToSet(eventAwaiterQueue') = ToSet(eventAwaiterQueue) \cup released
    BY <2>3, <2>4, <2>6, <2>7
  <2> QED
    BY <2>1, <2>7, <2>8 DEF HandledStep, handled, released
<1>6. CASE FlushDirtyWatchers \/ (\E r \in Reports : EpollWait(r)) \/ Interrupted \/ UNCHANGED vars
  <2>1. UNCHANGED <<eventAwaiterQueues, eventAwaiterQueue>>
    BY <1>6 DEF FlushDirtyWatchers, EpollWait, Interrupted, vars, watcherVars, waitVars
  <2>2. /\ phase' = "handling" \/ phase # "handling"
        /\ (phase = "handling" /\ phase' = "handling") => UNCHANGED revents
    BY <1>6 DEF FlushDirtyWatchers, EpollWait, Interrupted, Ready, vars, waitVars
  <2>3. LinksOK' /\ \A fd \in FD : AwaitersOf(fd)' = AwaitersOf(fd)
    BY <2>1, <2>2, QuietLinks
  <2>4. Waiting' = Waiting
    BY <2>3 DEF Waiting
  <2> QED
    BY <2>1, <2>2, <2>3, <2>4 DEF HandledStep, LinksOK, AwaitersApart
<1>7. CASE EndWait
  BY <1>7, EndWaitLinks DEF HandledStep, EndWait
<1> QED
  BY <1>2, <1>3, <1>4, <1>5, <1>6, <1>7 DEF Next

(* The calls that change the queues of the watchers, addEventAwaiter aside. *)
QueuesCall ==
  \E fd \in FD :
    \/ CreateWatcher(fd) \/ DestroyWatcher(fd)
    \/ \E a \in Awaiter : RemoveEventAwaiter(a, fd)
    \/ HandleError(fd) \/ HandleReadiness(fd)

NobodyIsAdded ==
  \A fd \in FD, e \in Event :
    ToSet(eventAwaiterQueues'[fd][e]) \subseteq ToSet(eventAwaiterQueues[fd][e])

(* They put no awaiter in a queue.                                         *)
LEMMA QueuesShrink ==
  ASSUME Inv, LinksOK, QueuesCall \/ UNCHANGED eventAwaiterQueues
  PROVE  NobodyIsAdded
<1> USE DEF QueuesCall, NobodyIsAdded
<1>1. CASE UNCHANGED eventAwaiterQueues
  BY <1>1
<1>2. ASSUME NEW fd \in FD, NEW q \in [Event -> Seq(Awaiter)],
             \A e \in Event : ToSet(q[e]) \subseteq ToSet(eventAwaiterQueues[fd][e]),
             eventAwaiterQueues' = [eventAwaiterQueues EXCEPT ![fd] = q]
      PROVE  \A x \in FD, e \in Event :
               ToSet(eventAwaiterQueues'[x][e]) \subseteq ToSet(eventAwaiterQueues[x][e])
  BY <1>2 DEF Inv, TypeOK
<1>3. /\ NoQueues \in [Event -> Seq(Awaiter)]
      /\ \A fd \in FD, e \in Event : ToSet(NoQueues[e]) \subseteq ToSet(eventAwaiterQueues[fd][e])
  BY EmptyQueue DEF NoQueues
<1>4. ASSUME NEW fd \in FD,
             CreateWatcher(fd) \/ DestroyWatcher(fd) \/ HandleError(fd)
      PROVE  \A x \in FD, e \in Event :
               ToSet(eventAwaiterQueues'[x][e]) \subseteq ToSet(eventAwaiterQueues[x][e])
  <2>1. CASE eventAwaiterQueues' = [eventAwaiterQueues EXCEPT ![fd] = NoQueues]
    BY <1>2, <1>3, <2>1
  <2>2. CASE UNCHANGED eventAwaiterQueues
    BY <2>2
  <2> QED
    BY <1>4, <2>1, <2>2 DEF CreateWatcher, DestroyWatcher, HandleError, watcherVars
<1>5. \A fd \in FD, e \in Event :
        /\ eventAwaiterQueues[fd] \in [Event -> Seq(Awaiter)]
        /\ eventAwaiterQueues[fd][e] \in Seq(Awaiter) /\ IsInjective(eventAwaiterQueues[fd][e])
  <2>1. ASSUME NEW fd \in FD PROVE eventAwaiterQueues[fd] \in Queues
    BY DEF Inv, TypeOK
  <2>2. ASSUME NEW fd \in FD PROVE IsInjective(AwaitersOf(fd))
    BY DEF LinksOK, AwaitersApart
  <2> QED
    BY <2>1, <2>2, AwaitersOfQueues DEF AwaitersOf, Queues, Event
<1>6. ASSUME NEW fd \in FD, NEW a \in Awaiter, RemoveEventAwaiter(a, fd)
      PROVE  \A x \in FD, e \in Event :
               ToSet(eventAwaiterQueues'[x][e]) \subseteq ToSet(eventAwaiterQueues[x][e])
  <2> DEFINE old == eventAwaiterQueues[fd]
  <2>0. PICK e \in Event : \E i \in DOMAIN old[e] :
          eventAwaiterQueues' =
            [eventAwaiterQueues EXCEPT ![fd] = [old EXCEPT ![e] = RemoveAt(@, i)]]
    BY <1>6 DEF RemoveEventAwaiter, SetQueues
  <2>1. PICK i \in DOMAIN old[e] :
          eventAwaiterQueues' =
            [eventAwaiterQueues EXCEPT ![fd] = [old EXCEPT ![e] = RemoveAt(@, i)]]
    BY <2>0
  <2> DEFINE q == [old EXCEPT ![e] = RemoveAt(@, i)]
  <2>2. i \in 1..Len(old[e])
    BY <1>5, InSeq
  <2>3. /\ RemoveAt(old[e], i) \in Seq(Awaiter)
        /\ ToSet(RemoveAt(old[e], i)) \subseteq ToSet(old[e])
    BY <1>5, <2>2, RemoveFromQueue
  <2>4. /\ q \in [Event -> Seq(Awaiter)]
        /\ \A d \in Event : ToSet(q[d]) \subseteq ToSet(old[d])
    BY <1>5, <2>3
  <2> HIDE DEF q
  <2> QED
    BY <1>2, <2>1, <2>4 DEF q
<1>7. ASSUME NEW fd \in FD, HandleReadiness(fd)
      PROVE  \A x \in FD, e \in Event :
               ToSet(eventAwaiterQueues'[x][e]) \subseteq ToSet(eventAwaiterQueues[x][e])
  <2> DEFINE old == eventAwaiterQueues[fd]
             q == [e \in Event |-> IF e \in revents[fd] THEN Tail(old[e]) ELSE old[e]]
  <2>1. eventAwaiterQueues' = [eventAwaiterQueues EXCEPT ![fd] = q] /\ phase = "handling"
    BY <1>7 DEF HandleReadiness, SetQueues
  <2>2. ASSUME NEW e \in Event, e \in revents[fd]
        PROVE  Tail(old[e]) \in Seq(Awaiter) /\ ToSet(Tail(old[e])) \subseteq ToSet(old[e])
    <3>1. old[e] # <<>> /\ old[e] \in Seq(Awaiter) /\ IsInjective(old[e])
      BY <1>5, <2>1, <2>2 DEF Inv, EventsHaveAwaiters
    <3> QED
      BY <3>1, HeadTailQueue
  <2>3. /\ q \in [Event -> Seq(Awaiter)]
        /\ \A d \in Event : ToSet(q[d]) \subseteq ToSet(old[d])
    BY <1>5, <2>2
  <2> HIDE DEF q
  <2> QED
    BY <1>2, <2>1, <2>3 DEF q
<1> QED
  BY <1>1, <1>4, <1>6, <1>7

LEMMA LinksAlways == Spec => [](Inv /\ LinksOK)
<1>1. Init => Inv /\ LinksOK
  BY InitInv, InitLinks
<1>2. Inv /\ LinksOK /\ [Next]_vars => (Inv /\ LinksOK)'
  BY NextInv, NextLinks
<1> QED
  BY <1>1, <1>2, PTL DEF Spec

(* An awaiter's queue item is in at most one queue, of a watcher or of the *)
(* caller of waitForEvents, and there once.                                *)
THEOREM AwaitersLinkedOnce == Spec => []AwaitersApart
<1> QED
  BY LinksAlways, PTL DEF LinksOK

(* The loop of waitForEvents over the events: each event releases exactly  *)
(* the awaiters it concerns (an error all of both queues, readiness the    *)
(* longest waiter for each event), and each goes to the caller once.       *)
THEOREM HandledCorrect == Spec => EventsReleaseTheirAwaiters
<1>1. Inv /\ LinksOK /\ [Next]_vars => [HandledStep]_vars
  BY NextLinks
<1> QED
  BY <1>1, LinksAlways, PTL DEF Spec, EventsReleaseTheirAwaiters, HandledStep

=============================================================================
