--------------------------- MODULE SchedulerProofs ---------------------------
(***************************************************************************)
(* Proofs about Scheduler for any fibers, descriptors, durations and       *)
(* bounds.                                                                 *)
(*                                                                         *)
(* The poller's part of the invariant is the one proved in IOPollProofs:   *)
(* PP is that module with fibers for awaiters, and a step of the scheduler *)
(* is a step of the poller or leaves its variables alone.  The scheduler's *)
(* own part says for every fiber in which ring or set it is, given what it *)
(* waits for.                                                              *)
(*                                                                         *)
(* From the invariant follows what Scheduler implements: it drives its     *)
(* poller as IOPoll says the poller is driven, and the life of its fibers  *)
(* is the one of FiberLife.                                                *)
(***************************************************************************)
EXTENDS Scheduler, SequenceLemmas

PP == INSTANCE IOPollProofs WITH Awaiter <- Fiber

(* The rings and the buffer as sets of fibers.                             *)
ReadySet == ToSet(readyFiberQueue)
DeadSet == ToSet(deadFiberQueue)
DueSet == ToSet(buffer)

Awaiters(fd) == ToSet(Poll!AwaitersOf(fd))

PollOK == PP!Inv /\ PP!LinksOK

-----------------------------------------------------------------------------
(* Steps of the poller: what is proved of them in IOPollProofs.            *)

LEMMA MaxEventsOK == MaxEvents \in Nat \ {0}
<1> QED
  BY ConstantsAssumption

LEMMA SameStates ==
  /\ Poll!TypeOK <=> PP!TypeOK
  /\ Poll!Init <=> PP!Init
  /\ Poll!Event = PP!Event
  /\ \A fd : Poll!AwaitersOf(fd) = PP!AwaitersOf(fd)
  /\ Poll!Waiting = PP!Waiting
  /\ Poll!AwaitersApart <=> PP!AwaitersApart
<1> USE DEF Poll!AwaitersOf, PP!AwaitersOf, Poll!ToSet, PP!ToSet,
            Poll!IsInjective, PP!IsInjective
<1>1. Poll!TypeOK <=> PP!TypeOK
  BY DEF Poll!TypeOK, PP!TypeOK, Poll!Event, PP!Event, Poll!Queues, PP!Queues,
         Poll!Phase, PP!Phase, Poll!Revent, PP!Revent
<1>2. Poll!Init <=> PP!Init
  BY DEF Poll!Init, PP!Init, Poll!NoQueues, PP!NoQueues, Poll!Event, PP!Event,
         Poll!NothingReported, PP!NothingReported
<1>3. Poll!Event = PP!Event
  BY DEF Poll!Event, PP!Event
<1>4. Poll!Waiting = PP!Waiting
  BY DEF Poll!Waiting, PP!Waiting
<1>5. Poll!AwaitersApart <=> PP!AwaitersApart
  BY DEF Poll!AwaitersApart, PP!AwaitersApart
<1> QED
  BY <1>1, <1>2, <1>3, <1>4, <1>5

LEMMA SameAwaiters ==
  \A fd : /\ Awaiters(fd) = PP!ToSet(PP!AwaitersOf(fd))
          /\ Poll!AwaitersOf(fd) = PP!AwaitersOf(fd)
          /\ Awaiters(fd)' = PP!ToSet(PP!AwaitersOf(fd)')
          /\ Poll!AwaitersOf(fd)' = PP!AwaitersOf(fd)'
<1> QED
  BY DEF Awaiters, Poll!AwaitersOf, PP!AwaitersOf, PP!ToSet, ToSet

LEMMA SameSteps ==
  /\ \A fd \in FD : Poll!CreateWatcher(fd) => PP!CreateWatcher(fd)
  /\ \A fd \in FD : Poll!DestroyWatcher(fd) => PP!DestroyWatcher(fd)
  /\ \A f \in Fiber, fd \in FD, e \in PP!Event :
       Poll!AddEventAwaiter(f, fd, e) => PP!AddEventAwaiter(f, fd, e)
  /\ \A f \in Fiber, fd \in FD : Poll!RemoveEventAwaiter(f, fd) => PP!RemoveEventAwaiter(f, fd)
  /\ Poll!FlushDirtyWatchers => PP!FlushDirtyWatchers
  /\ \A r \in Poll!Reports : Poll!EpollWait(r) => r \in PP!Reports /\ PP!EpollWait(r)
  /\ Poll!Interrupted => PP!Interrupted
  /\ \A fd \in FD : Poll!HandleError(fd) => PP!HandleError(fd)
  /\ \A fd \in FD : Poll!HandleReadiness(fd) => PP!HandleReadiness(fd)
  /\ Poll!EndWait => PP!EndWait
<1> USE DEF Poll!Ready, PP!Ready, Poll!NoQueues, PP!NoQueues, Poll!Event, PP!Event,
            Poll!waitVars, PP!waitVars, Poll!watcherVars, PP!watcherVars
<1>1. ASSUME NEW fd \in FD, Poll!CreateWatcher(fd) PROVE PP!CreateWatcher(fd)
  BY <1>1 DEF Poll!CreateWatcher, PP!CreateWatcher
<1>2. ASSUME NEW fd \in FD, Poll!DestroyWatcher(fd) PROVE PP!DestroyWatcher(fd)
  BY <1>2 DEF Poll!DestroyWatcher, PP!DestroyWatcher, Poll!LeaveDirtyQueue,
              PP!LeaveDirtyQueue, Poll!Unregister, PP!Unregister
<1>3. ASSUME NEW f \in Fiber, NEW fd \in FD, NEW e \in PP!Event,
             Poll!AddEventAwaiter(f, fd, e)
      PROVE  PP!AddEventAwaiter(f, fd, e)
  BY <1>3 DEF Poll!AddEventAwaiter, PP!AddEventAwaiter, Poll!AsksFor, PP!AsksFor,
              Poll!Waiting, PP!Waiting, Poll!AwaitersOf, PP!AwaitersOf, Poll!ToSet, PP!ToSet
<1>4. ASSUME NEW f \in Fiber, NEW fd \in FD, Poll!RemoveEventAwaiter(f, fd)
      PROVE  PP!RemoveEventAwaiter(f, fd)
  BY <1>4, Zenon DEF Poll!RemoveAt, PP!RemoveAt, Poll!RemoveEventAwaiter, PP!RemoveEventAwaiter, Poll!SetQueues, PP!SetQueues,
              Poll!Emptied, PP!Emptied, Poll!DirtyNow, PP!DirtyNow
<1>5. ASSUME Poll!FlushDirtyWatchers PROVE PP!FlushDirtyWatchers
  BY <1>5 DEF Poll!FlushDirtyWatchers, PP!FlushDirtyWatchers, Poll!Stale, PP!Stale,
              Poll!CtlFails, PP!CtlFails
<1>6. ASSUME NEW r \in Poll!Reports, Poll!EpollWait(r) PROVE r \in PP!Reports /\ PP!EpollWait(r)
  BY <1>6, Zenon DEF Poll!EpollWait, PP!EpollWait, Poll!Reports, PP!Reports, Poll!Revent, PP!Revent, Poll!Cardinality, PP!Cardinality, Poll!IsFiniteSet, PP!IsFiniteSet
<1>7. ASSUME Poll!Interrupted PROVE PP!Interrupted
  BY <1>7 DEF Poll!Interrupted, PP!Interrupted
<1>8. ASSUME NEW fd \in FD, Poll!HandleError(fd) PROVE PP!HandleError(fd)
  BY <1>8 DEF Poll!HandleError, PP!HandleError, Poll!ReleasedByError, PP!ReleasedByError,
              Poll!AwaitersOf, PP!AwaitersOf
<1>9. ASSUME NEW fd \in FD, Poll!HandleReadiness(fd) PROVE PP!HandleReadiness(fd)
  BY <1>9 DEF Poll!HandleReadiness, PP!HandleReadiness, Poll!SetQueues, PP!SetQueues,
              Poll!Emptied, PP!Emptied, Poll!DirtyNow, PP!DirtyNow
<1>10. ASSUME Poll!EndWait PROVE PP!EndWait
  BY <1>10 DEF Poll!EndWait, PP!EndWait, Poll!NothingReported, PP!NothingReported
<1> QED
  BY <1>1, <1>2, <1>3, <1>4, <1>5, <1>6, <1>7, <1>8, <1>9, <1>10

LEMMA SameSets ==
  \A s : /\ Poll!ToSet(s) = ToSet(s) /\ PP!ToSet(s) = ToSet(s)
         /\ PP!IsInjective(s) <=> IsInjective(s)
<1> QED
  BY DEF Poll!ToSet, PP!ToSet, PP!IsInjective, IsInjective, ToSet

LEMMA AwaitingIs ==
  /\ Awaiting = ToSet(eventAwaiterQueue) \cup UNION {Awaiters(fd) : fd \in FD}
  /\ Awaiting' = ToSet(eventAwaiterQueue') \cup UNION {Awaiters(fd)' : fd \in FD}
<1> QED
  BY SameSets DEF Awaiting, Awaiters, Poll!Waiting

LEMMA PollView ==
  ASSUME PollOK
  PROVE  /\ Poll!TypeOK /\ Poll!AwaitersApart /\ ~aborted
         /\ \A fd \in FD : Poll!AwaitersOf(fd) \in Seq(Fiber) /\ IsInjective(Poll!AwaitersOf(fd))
         /\ eventAwaiterQueue \in Seq(Fiber) /\ IsInjective(eventAwaiterQueue)
         /\ \A fd \in FD : Awaiters(fd) \cap ToSet(eventAwaiterQueue) = {}
         /\ \A fd \in FD, x \in FD : fd # x => Awaiters(fd) \cap Awaiters(x) = {}
         /\ \A fd \in FD \ watchers : Awaiters(fd) = {}
         /\ phase # "handling" => eventAwaiterQueue = <<>>
<1>1. Poll!TypeOK /\ Poll!AwaitersApart /\ ~aborted
  BY SameStates DEF PollOK, PP!Inv, PP!LinksOK, PP!KernelInSync
<1>2. /\ \A fd \in FD : IsInjective(Poll!AwaitersOf(fd))
      /\ IsInjective(eventAwaiterQueue)
      /\ \A fd \in FD : Awaiters(fd) \cap ToSet(eventAwaiterQueue) = {}
      /\ \A fd \in FD, x \in FD : fd # x => Awaiters(fd) \cap Awaiters(x) = {}
  BY SameStates, SameSets DEF PollOK, PP!LinksOK, PP!AwaitersApart, Awaiters
<1>3. \A fd \in FD : Poll!AwaitersOf(fd) \in Seq(Fiber)
  BY SameStates, MaxEventsOK, PP!AwaitersOfType DEF PollOK, PP!Inv
<1>4. \A fd \in FD \ watchers : Awaiters(fd) = {}
  <2>1. <<>> \o <<>> = <<>>
    BY EmptySeq, ConcatEmptySeq
  <2> QED
    BY <2>1, EmptyQueue DEF PollOK, PP!Inv, PP!UnwatchedIsClean, PP!NoQueues, PP!Event,
                            Awaiters, Poll!AwaitersOf
<1>5. phase # "handling" => eventAwaiterQueue = <<>>
  BY DEF PollOK, PP!LinksOK, PP!HandedWhileHandling
<1> QED
  BY <1>1, <1>2, <1>3, <1>4, <1>5 DEF Poll!TypeOK

(* A step of Poll takes PollOK to PollOK.                                  *)
LEMMA PollNextOK ==
  ASSUME PollOK, [PP!Next]_PP!vars
  PROVE  PollOK'
<1>1. PP!Inv' /\ PP!LinksOK'
  BY MaxEventsOK, PP!NextInv, PP!NextLinks DEF PollOK
<1> QED
  BY <1>1 DEF PollOK

AwaitersKept == Awaiting' = Awaiting /\ \A fd \in FD : Awaiters(fd)' = Awaiters(fd)

LEMMA PollKept ==
  ASSUME PollOK, UNCHANGED pollVars
  PROVE  PollOK' /\ AwaitersKept
<1>1. UNCHANGED PP!vars
  BY DEF pollVars, PP!vars, PP!watcherVars, PP!waitVars
<1>2. \A fd \in FD : Awaiters(fd)' = Awaiters(fd)
  BY DEF pollVars, Awaiters, Poll!AwaitersOf
<1>3. Awaiting' = Awaiting
  BY <1>2, AwaitingIs DEF pollVars
<1> QED
  BY <1>1, <1>2, <1>3, PollNextOK DEF AwaitersKept

LEMMA PollCreate ==
  ASSUME PollOK, NEW fd \in FD, Poll!CreateWatcher(fd)
  PROVE  PollOK' /\ AwaitersKept /\ phase = "idle" /\ phase' = "idle"
<1>1. PP!CreateWatcher(fd) /\ fd \notin watchers
  BY SameSteps DEF Poll!CreateWatcher
<1>2. PollOK'
  BY <1>1, PollNextOK DEF PP!Next
<1>3. /\ phase = "idle" /\ phase' = "idle" /\ UNCHANGED eventAwaiterQueue
      /\ eventAwaiterQueues' = [eventAwaiterQueues EXCEPT ![fd] = PP!NoQueues]
  BY <1>1 DEF PP!CreateWatcher, PP!Ready, PP!waitVars
<1>4. /\ PP!AwaitersOf(fd)' = <<>>
      /\ \A x \in FD \ {fd} : PP!AwaitersOf(x)' = PP!AwaitersOf(x)
  BY <1>3, MaxEventsOK, PP!ResetLinks DEF PollOK, PP!Inv
<1>5. \A x \in FD : Awaiters(x)' = Awaiters(x)
  BY <1>1, <1>4, SameAwaiters, PollView, EmptyQueue DEF Awaiters
<1> QED
  BY <1>2, <1>3, <1>5, AwaitingIs DEF AwaitersKept

LEMMA PollDestroy ==
  ASSUME PollOK, NEW fd \in FD, Poll!DestroyWatcher(fd)
  PROVE  /\ PollOK' /\ phase = "idle" /\ phase' = "idle"
         /\ Awaiting' = Awaiting \ Awaiters(fd)
         /\ \A x \in FD : Awaiters(x)' \subseteq Awaiters(x)
<1>1. PP!DestroyWatcher(fd)
  BY SameSteps
<1>2. PollOK'
  BY <1>1, PollNextOK DEF PP!Next
<1>3. /\ phase = "idle" /\ phase' = "idle" /\ UNCHANGED eventAwaiterQueue
      /\ eventAwaiterQueues' = [eventAwaiterQueues EXCEPT ![fd] = PP!NoQueues]
  BY <1>1 DEF PP!DestroyWatcher, PP!Ready, PP!waitVars
<1>4. /\ PP!AwaitersOf(fd)' = <<>>
      /\ \A x \in FD \ {fd} : PP!AwaitersOf(x)' = PP!AwaitersOf(x)
  BY <1>3, MaxEventsOK, PP!ResetLinks DEF PollOK, PP!Inv
<1>5. Awaiters(fd)' = {} /\ \A x \in FD \ {fd} : Awaiters(x)' = Awaiters(x)
  BY <1>4, SameAwaiters, EmptyQueue DEF Awaiters
<1>6. eventAwaiterQueue = <<>> /\ eventAwaiterQueue' = <<>>
  BY <1>3, PollView
<1>7. Awaiting' = Awaiting \ Awaiters(fd)
  <2>1. \A x \in FD \ {fd} : Awaiters(x) \cap Awaiters(fd) = {}
    BY PollView
  <2>2. Awaiting = UNION {Awaiters(x) : x \in FD} /\ Awaiting' = UNION {Awaiters(x)' : x \in FD}
    BY <1>6, AwaitingIs, EmptyQueue
  <2>3. \A f : f \in Awaiting' <=> f \in Awaiting /\ f \notin Awaiters(fd)
    BY <1>5, <2>1, <2>2
  <2> QED
    BY <2>3
<1> QED
  BY <1>2, <1>3, <1>5, <1>7

LEMMA PollAdd ==
  ASSUME PollOK, NEW f \in Fiber, NEW fd \in FD, NEW e \in Poll!Event,
         Poll!AddEventAwaiter(f, fd, e)
  PROVE  /\ PollOK' /\ phase = "idle" /\ phase' = "idle"
         /\ Awaiting' = Awaiting \cup {f}
         /\ Awaiters(fd)' = Awaiters(fd) \cup {f}
         /\ \A x \in FD \ {fd} : Awaiters(x)' = Awaiters(x)
<1>1. PP!AddEventAwaiter(f, fd, e) /\ e \in PP!Event
  BY SameSteps, SameStates
<1>2. PollOK'
  BY <1>1, PollNextOK DEF PP!Next
<1>3. phase = "idle" /\ phase' = "idle"
  BY <1>1 DEF PP!AddEventAwaiter, PP!Ready, PP!waitVars
<1>4. /\ PP!ToSet(PP!AwaitersOf(fd))' = PP!ToSet(PP!AwaitersOf(fd)) \cup {f}
      /\ PP!OthersKeep(fd)
      /\ UNCHANGED eventAwaiterQueue
  BY <1>1, MaxEventsOK, PP!AddLinks DEF PollOK, PP!Inv
<1>5. Awaiters(fd)' = Awaiters(fd) \cup {f}
  BY <1>4, SameAwaiters
<1>6. \A x \in FD \ {fd} : Awaiters(x)' = Awaiters(x)
  BY <1>4, SameAwaiters DEF PP!OthersKeep
<1>7. \A g : g \in Awaiting' <=> g \in Awaiting \/ g = f
  BY <1>4, <1>5, <1>6, AwaitingIs
<1> QED
  BY <1>2, <1>3, <1>5, <1>6, <1>7

LEMMA PollRemove ==
  ASSUME PollOK, NEW f \in Fiber, NEW fd \in FD, Poll!RemoveEventAwaiter(f, fd)
  PROVE  /\ PollOK' /\ phase = "idle" /\ phase' = "idle"
         /\ f \in Awaiters(fd)
         /\ Awaiting' = Awaiting \ {f}
         /\ \A x \in FD : Awaiters(x)' = Awaiters(x) \ {f}
         /\ watchers' = watchers
<1>1. PP!RemoveEventAwaiter(f, fd)
  BY SameSteps
<1>2. PollOK'
  BY <1>1, PollNextOK DEF PP!Next
<1>3. phase = "idle" /\ phase' = "idle" /\ watchers' = watchers
  BY <1>1 DEF PP!RemoveEventAwaiter, PP!Ready, PP!waitVars
<1>4. /\ f \in PP!ToSet(PP!AwaitersOf(fd))
      /\ PP!ToSet(PP!AwaitersOf(fd))' = PP!ToSet(PP!AwaitersOf(fd)) \ {f}
      /\ PP!OthersKeep(fd)
      /\ UNCHANGED eventAwaiterQueue
  BY <1>1, MaxEventsOK, PP!RemoveLinks DEF PollOK, PP!Inv
<1>5. f \in Awaiters(fd) /\ Awaiters(fd)' = Awaiters(fd) \ {f}
  BY <1>4, SameAwaiters
<1>6. \A x \in FD \ {fd} : Awaiters(x)' = Awaiters(x)
  BY <1>4, SameAwaiters DEF PP!OthersKeep
<1>7. /\ \A x \in FD \ {fd} : f \notin Awaiters(x)
      /\ f \notin ToSet(eventAwaiterQueue)
  BY <1>5, PollView
<1>8. \A g : g \in Awaiting' <=> g \in Awaiting /\ g # f
  BY <1>4, <1>5, <1>6, <1>7, AwaitingIs
<1> QED
  BY <1>2, <1>3, <1>5, <1>6, <1>7, <1>8

(* Steps that only talk to the kernel.                                     *)
LEMMA PollQuiet ==
  ASSUME PollOK,
         \/ Poll!FlushDirtyWatchers
         \/ \E r \in Poll!Reports : Poll!EpollWait(r)
         \/ Poll!Interrupted
  PROVE  PollOK' /\ AwaitersKept
<1>1. PP!FlushDirtyWatchers \/ (\E r \in PP!Reports : PP!EpollWait(r)) \/ PP!Interrupted
  BY SameSteps
<1>2. PollOK'
  BY <1>1, PollNextOK DEF PP!Next
<1>3. UNCHANGED <<eventAwaiterQueues, eventAwaiterQueue>>
  BY <1>1 DEF PP!FlushDirtyWatchers, PP!EpollWait, PP!Interrupted, PP!watcherVars
<1>4. \A fd \in FD : Awaiters(fd)' = Awaiters(fd)
  BY <1>3 DEF Awaiters, Poll!AwaitersOf
<1>5. Awaiting' = Awaiting
  BY <1>3, <1>4, AwaitingIs
<1> QED
  BY <1>2, <1>4, <1>5 DEF AwaitersKept

LEMMA PollHandle ==
  ASSUME PollOK, NEW fd \in FD, Poll!HandleError(fd) \/ Poll!HandleReadiness(fd)
  PROVE  /\ PollOK' /\ Awaiting' = Awaiting
         /\ \A x \in FD : Awaiters(x)' \subseteq Awaiters(x)
<1>1. PP!HandleError(fd) \/ PP!HandleReadiness(fd)
  BY SameSteps
<1>2. PollOK'
  BY <1>1, PollNextOK DEF PP!Next
<1>3. PP!HandsOver(fd, PP!Concerned(fd))
  BY <1>1, MaxEventsOK, PP!HandleErrorLinks, PP!HandleReadinessLinks DEF PollOK
<1>4. PICK S : PP!HandsOver(fd, S)
  BY <1>3
<1>5. /\ S \subseteq Awaiters(fd) /\ Awaiters(fd)' = Awaiters(fd) \ S
      /\ ToSet(eventAwaiterQueue') = ToSet(eventAwaiterQueue) \cup S
  BY <1>4, SameAwaiters, SameSets DEF PP!HandsOver
<1>6. \A x \in FD \ {fd} : Awaiters(x)' = Awaiters(x)
  BY <1>4, SameAwaiters DEF PP!HandsOver, PP!OthersKeep
<1>7. \A g : g \in Awaiting' <=> g \in Awaiting
  BY <1>5, <1>6, AwaitingIs
<1> QED
  BY <1>2, <1>5, <1>6, <1>7

LEMMA PollEnd ==
  ASSUME PollOK, Poll!EndWait
  PROVE  /\ PollOK' /\ phase' = "idle"
         /\ Awaiting' = Awaiting \ ToSet(eventAwaiterQueue)
         /\ \A fd \in FD : Awaiters(fd)' = Awaiters(fd)
<1>1. PP!EndWait
  BY SameSteps
<1>2. PollOK'
  BY <1>1, PollNextOK DEF PP!Next
<1>3. phase' = "idle" /\ eventAwaiterQueue' = <<>> /\ UNCHANGED eventAwaiterQueues
  BY <1>1 DEF PP!EndWait, PP!watcherVars
<1>4. \A fd \in FD : Awaiters(fd)' = Awaiters(fd)
  BY <1>3 DEF Awaiters, Poll!AwaitersOf
<1>5. \A fd \in FD : Awaiters(fd) \cap ToSet(eventAwaiterQueue) = {}
  BY PollView
<1>6. \A g : g \in Awaiting' <=> g \in Awaiting /\ g \notin ToSet(eventAwaiterQueue)
  BY <1>3, <1>4, <1>5, AwaitingIs, EmptyQueue
<1> QED
  BY <1>2, <1>3, <1>4, <1>6

-----------------------------------------------------------------------------
(* The timer.                                                              *)

DueTimesOK == dueTime \in [Fiber -> Nat \cup {Timers!NotQueued}]

LEMMA AddItemSets ==
  ASSUME DueTimesOK, now \in 0..MaxTime, NEW f \in Fiber, NEW d \in Durations,
         Timers!AddItem(f, d)
  PROVE  DueTimesOK' /\ Timers!Queued' = Timers!Queued \cup {f}
<1>1. Timers!DueTime(d) \in Nat
  BY ConstantsAssumption DEF Timers!DueTime
<1>2. dueTime' = [dueTime EXCEPT ![f] = Timers!DueTime(d)]
  BY DEF Timers!AddItem
<1> QED
  BY <1>1, <1>2 DEF DueTimesOK, Timers!Queued, Timers!NotQueued

LEMMA RemoveItemsSets ==
  ASSUME DueTimesOK, NEW S, Timers!RemoveItems(S)
  PROVE  DueTimesOK' /\ Timers!Queued' = Timers!Queued \ S
<1> QED
  BY DEF Timers!RemoveItems, DueTimesOK, Timers!Queued, Timers!NotQueued

LEMMA LeastNatural ==
  ASSUME NEW T \in SUBSET Nat, T # {}
  PROVE  \E m \in T : \A n \in T : m <= n
<1>1. PICK m \in T : \A n \in T : ~(<<n, m>> \in OpToRel(<, Nat))
  <2>1. IsWellFoundedOn(OpToRel(<, Nat), Nat)
    BY NatLessThanWellFounded
  <2> QED
    BY <2>1, WFMin
<1>2. ASSUME NEW n \in T, n < m PROVE FALSE
  <2>1. n \in Nat /\ m \in Nat
    OBVIOUS
  <2>2. <<n, m>> \in OpToRel(<, Nat)
    BY <2>1, <1>2, Zenon DEF OpToRel
  <2> QED
    BY <1>1, <2>2
<1>3. \A n \in T : m <= n
  BY <1>2
<1> QED
  BY <1>3

LEMMA TimeoutAtType ==
  ASSUME DueTimesOK, now \in 0..MaxTime
  PROVE  Timers!TimeoutAt \in Nat
<1>1. CASE \A i \in Timers!Queued : dueTime[i] = Never
  BY <1>1, ConstantsAssumption DEF Timers!TimeoutAt
<1>2. CASE ~(\A i \in Timers!Queued : dueTime[i] = Never)
  <2>1. Timers!Queued # {} /\ \A i \in Timers!Queued : i \in Fiber /\ dueTime[i] \in Nat
    BY <1>2 DEF DueTimesOK, Timers!Queued
  <2> DEFINE T == {dueTime[i] : i \in Timers!Queued}
  <2>2. T \in SUBSET Nat /\ T # {}
    BY <2>1
  <2>3. \E m \in T : \A n \in T : m <= n
    BY <2>2, LeastNatural
  <2>4. \E i \in Timers!Queued : \A j \in Timers!Queued : dueTime[i] <= dueTime[j]
    BY <2>3
  <2> DEFINE i == CHOOSE i \in Timers!Queued : \A j \in Timers!Queued : dueTime[i] <= dueTime[j]
  <2>5. dueTime[i] \in Nat
    BY <2>1, <2>4
  <2> HIDE DEF i
  <2>6. now \in Nat
    BY ConstantsAssumption
  <2> QED
    BY <1>2, <2>5, <2>6 DEF Timers!TimeoutAt, i
<1> QED
  BY <1>1, <1>2

LEMMA DueBatchSets ==
  ASSUME DueTimesOK, IsFiniteSet(Timers!Queued), NEW b \in Timers!DueBatches
  PROVE  b \in Seq(Timers!Queued) /\ IsInjective(b)
<1> DEFINE due == {i \in Timers!Queued : dueTime[i] <= now}
           n == IF Timers!Cardinality(due) < BufferLength THEN Timers!Cardinality(due) ELSE BufferLength
<1>1. n \in Nat
  <2>1. IsFiniteSet(due)
    BY FS_Subset
  <2>2. Timers!Cardinality(due) = Cardinality(due)
    BY DEF Timers!Cardinality, Cardinality
  <2>3. Timers!Cardinality(due) \in Nat
    BY <2>1, <2>2, FS_CardinalityType
  <2> HIDE DEF due
  <2> QED
    BY <2>3, ConstantsAssumption
<1>2. b \in [1..n -> due] /\ \A j, k \in 1..n : j < k => b[j] # b[k]
  BY DEF Timers!DueBatches
<1> HIDE DEF n
<1>3. b \in [1..n -> Timers!Queued]
  BY <1>2
<1>4. b \in Seq(Timers!Queued)
  BY <1>1, <1>3, SeqDef
<1>5. IsInjective(b)
  BY <1>1, <1>2 DEF IsInjective
<1> QED
  BY <1>4, <1>5

-----------------------------------------------------------------------------
(* The inductive invariant.                                                *)

(* The fibers that are neither running nor ready: blocked or dead.         *)
Waiters == fibers \ ({runningFiber} \cup ReadySet)

OwnTypesOK ==
  /\ fibers \subseteq Fiber /\ IsFiniteSet(fibers)
  /\ runningFiber \in fibers \cup {NoFiber}
  /\ readyFiberQueue \in Seq(fibers)
  /\ deadFiberQueue \in Seq(fibers)
  /\ buffer \in Seq(fibers)
  /\ context \in [Fiber -> Contexts]
  /\ status \in [Fiber -> {0, 1, -ETIME, -EBADF}]
  /\ fiberFD \in [Fiber -> FD \cup {NoFD}]
  /\ DueTimesOK
  /\ now \in 0..MaxTime
  /\ loop \in LoopStates
  /\ deadline \in Nat
  /\ failure \in Failures

(* Where run() is and what is then empty.                                  *)
LoopOK ==
  /\ loop = "fiber" <=> runningFiber # NoFiber
  /\ loop # "poll" => phase = "idle"
  /\ loop = "reap" => readyFiberQueue = <<>>
  /\ loop # "due" => buffer = <<>> /\ failure = "none"

(* Each fiber is in the rings at most once, and not while it runs.         *)
QueuesOK ==
  /\ IsInjective(readyFiberQueue) /\ IsInjective(deadFiberQueue) /\ IsInjective(buffer)
  /\ ReadySet \subseteq fibers \ {runningFiber}
  /\ DeadSet \cup Awaiting \cup DueSet \subseteq Waiters

(* What a fiber waits for says in which ring it is.                        *)
WaitsOK ==
  \A f \in Waiters :
    /\ context[f] = "none" <=> f \in DeadSet
    /\ context[f] = "await" <=> f \in Awaiting
    /\ context[f] # "yield"
    /\ f \in DueSet => context[f] \in {"sleep", "await"}

StatusOK == \A f \in fibers \ {runningFiber} : context[f] = "none" <=> status[f] = 0

FDsOK == \A fd \in FD : \A f \in Awaiters(fd) : fiberFD[f] = fd

TimersOK ==
  LET timed == {f \in Waiters \ DueSet : context[f] \in {"sleep", "await"}}
  IN  Timers!Queued \subseteq timed /\ (failure = "none" => Timers!Queued = timed)

(* Without sleeps after I/O no sleeper is taken for an awaiter.            *)
SleepersOK ==
  ~SleepAfterIO =>
    failure = "none" /\ \A f \in fibers : context[f] = "sleep" => fiberFD[f] = NoFD

CountOK == ExitsWithTheLastFiber

SchedInv ==
  /\ OwnTypesOK /\ PollOK /\ LoopOK /\ QueuesOK /\ WaitsOK /\ StatusOK
  /\ FDsOK /\ TimersOK /\ SleepersOK /\ CountOK

LEMMA InitSched == Init => SchedInv
<1> SUFFICES ASSUME Init PROVE SchedInv
  OBVIOUS
<1>1. PICK f \in Fiber : fibers = {f} /\ readyFiberQueue = <<f>>
  BY DEF Init
<1>2. /\ readyFiberQueue \in Seq(fibers) /\ ReadySet = {f} /\ IsInjective(readyFiberQueue)
      /\ IsFiniteSet(fibers) /\ Cardinality(fibers) = 1
  BY <1>1, OneInQueue, FS_Singleton DEF ReadySet
<1>3. /\ deadFiberQueue \in Seq(fibers) /\ DeadSet = {} /\ IsInjective(deadFiberQueue)
      /\ buffer \in Seq(fibers) /\ DueSet = {} /\ IsInjective(buffer)
  BY EmptyQueue DEF Init, DeadSet, DueSet
<1>4. PP!Init
  BY SameStates DEF Init
<1>5. PollOK
  BY <1>4, MaxEventsOK, PP!InitInv, PP!InitLinks DEF PollOK
<1>6. \A fd \in FD : Awaiters(fd) = {}
  BY <1>4, MaxEventsOK, PP!InitLinks, SameAwaiters, SameSets, EmptyQueue
<1>7. eventAwaiterQueue = <<>> /\ phase = "idle"
  BY <1>4 DEF PP!Init
<1>8. Awaiting = {}
  BY <1>6, <1>7, AwaitingIs, EmptyQueue
<1>9. Waiters = {}
  BY <1>1, <1>2 DEF Waiters
<1>10. OwnTypesOK
  BY <1>1, <1>2, <1>3, ConstantsAssumption
     DEF Init, OwnTypesOK, DueTimesOK, Contexts, LoopStates, Failures
<1>11. LoopOK
  BY <1>7 DEF Init, LoopOK
<1>12. QueuesOK
  BY <1>2, <1>3, <1>8, <1>1, ConstantsAssumption DEF QueuesOK, Init
<1>13. WaitsOK /\ StatusOK /\ FDsOK /\ SleepersOK
  BY <1>6, <1>9 DEF Init, WaitsOK, StatusOK, FDsOK, SleepersOK
<1>14. TimersOK
  BY <1>9 DEF Init, TimersOK, Timers!Queued
<1>15. CountOK
  BY <1>1, <1>2 DEF Init, CountOK, ExitsWithTheLastFiber
<1> QED
  BY <1>5, <1>10, <1>11, <1>12, <1>13, <1>14, <1>15 DEF SchedInv

-----------------------------------------------------------------------------
(* Steps in which the running fiber gives up the thread.                   *)

LEMMA ExecuteNextSets ==
  ASSUME NEW q \in Seq(fibers), IsInjective(q), ExecuteNext(q)
  PROVE  /\ readyFiberQueue' \in Seq(fibers) /\ IsInjective(readyFiberQueue')
         /\ \/ /\ runningFiber' = NoFiber /\ loop' = "reap"
               /\ ToSet(q) = {} /\ readyFiberQueue' = <<>> /\ ReadySet' = {}
            \/ /\ runningFiber' \in ToSet(q) /\ loop' = loop
               /\ ReadySet' = ToSet(q) \ {runningFiber'}
<1>1. CASE q = <<>>
  BY <1>1, EmptyQueue DEF ExecuteNext, ReadySet
<1>2. CASE q # <<>>
  BY <1>2, HeadTailQueue DEF ExecuteNext, ReadySet
<1> QED
  BY <1>1, <1>2

(* The running fiber is known, linked nowhere, and the loop is idle.       *)
LEMMA RunningFiber ==
  ASSUME SchedInv, IsRunning
  PROVE  /\ runningFiber \in fibers /\ runningFiber \in Fiber /\ runningFiber # NoFiber
         /\ fibers \subseteq Fiber
         /\ buffer = <<>> /\ DueSet = {} /\ failure = "none" /\ phase = "idle"
         /\ runningFiber \notin ReadySet \cup DeadSet \cup Awaiting \cup Timers!Queued
         /\ eventAwaiterQueue = <<>>
         /\ readyFiberQueue \in Seq(fibers) /\ IsInjective(readyFiberQueue)
         /\ deadFiberQueue \in Seq(fibers) /\ IsInjective(deadFiberQueue)
<1>1. /\ runningFiber \in fibers /\ runningFiber \in Fiber /\ runningFiber # NoFiber
      /\ fibers \subseteq Fiber
      /\ buffer = <<>> /\ failure = "none" /\ phase = "idle"
      /\ readyFiberQueue \in Seq(fibers) /\ IsInjective(readyFiberQueue)
      /\ deadFiberQueue \in Seq(fibers) /\ IsInjective(deadFiberQueue)
  BY ConstantsAssumption DEF SchedInv, IsRunning, LoopOK, OwnTypesOK, QueuesOK
<1>2. DueSet = {}
  BY <1>1, EmptyQueue DEF DueSet
<1>3. runningFiber \notin ReadySet \cup DeadSet \cup Awaiting \cup Timers!Queued
  BY <1>1 DEF SchedInv, QueuesOK, TimersOK, Waiters
<1>4. eventAwaiterQueue = <<>>
  BY <1>1, PollView DEF SchedInv
<1> QED
  BY <1>1, <1>2, <1>3, <1>4

(* What the five of them have in common: the fiber goes to at most one     *)
(* place, the next one of q runs or, without one, the loop.                *)
LEMMA SwitchOK ==
  ASSUME SchedInv, IsRunning, NEW q \in Seq(fibers), IsInjective(q), ExecuteNext(q),
         ToSet(q) \subseteq ReadySet \cup {runningFiber}, ReadySet \subseteq ToSet(q),
         UNCHANGED <<fibers, fiberCount, failure, buffer>>, phase' = "idle",
         IsInjective(deadFiberQueue'),
         DeadSet' \cup Awaiting' \subseteq (Waiters \cup {runningFiber}) \ ToSet(q)
  PROVE  /\ LoopOK' /\ QueuesOK' /\ CountOK'
         /\ Waiters' = (Waiters \cup {runningFiber}) \ ToSet(q)
         /\ DueSet' = {}
         /\ readyFiberQueue' \in Seq(fibers')
         /\ runningFiber' \in fibers' \cup {NoFiber} /\ loop' \in LoopStates
<1>1. /\ readyFiberQueue' \in Seq(fibers) /\ IsInjective(readyFiberQueue')
      /\ \/ /\ runningFiber' = NoFiber /\ loop' = "reap"
            /\ ToSet(q) = {} /\ readyFiberQueue' = <<>> /\ ReadySet' = {}
         \/ /\ runningFiber' \in ToSet(q) /\ loop' = loop
            /\ ReadySet' = ToSet(q) \ {runningFiber'}
  BY ExecuteNextSets
<1>2. /\ runningFiber \in fibers /\ runningFiber # NoFiber /\ loop = "fiber"
      /\ buffer = <<>> /\ buffer' = <<>> /\ failure' = "none" /\ DueSet' = {}
      /\ IsInjective(buffer')
      /\ ReadySet \subseteq fibers /\ NoFiber \notin fibers
  BY RunningFiber, EmptyQueue, ConstantsAssumption
     DEF IsRunning, DueSet, SchedInv, QueuesOK, OwnTypesOK
<1>3. Waiters' = (Waiters \cup {runningFiber}) \ ToSet(q)
  BY <1>1, <1>2 DEF Waiters
<1>4. runningFiber' \in fibers' \cup {NoFiber} /\ loop' \in LoopStates
  BY <1>1, <1>2 DEF LoopStates
<1>5. LoopOK'
  BY <1>1, <1>2 DEF LoopOK
<1>6. QueuesOK'
  BY <1>1, <1>2, <1>3 DEF QueuesOK
<1>7. CountOK'
  BY <1>1, <1>2 DEF SchedInv, CountOK, ExitsWithTheLastFiber
<1> QED
  BY <1>1, <1>2, <1>3, <1>4, <1>5, <1>6, <1>7

LEMMA YieldInv == ASSUME SchedInv, YieldCurrentFiber PROVE SchedInv'
<1> DEFINE q == Enqueued(runningFiber)
<1> USE DEF YieldCurrentFiber
<1>1. /\ q \in Seq(fibers) /\ IsInjective(q) /\ ToSet(q) = ReadySet \cup {runningFiber}
      /\ IsRunning /\ UNCHANGED <<fibers, fiberCount, deadFiberQueue, failure, buffer>>
  BY RunningFiber, AppendQueue DEF Enqueued, ReadySet, heapVars, turnVars
<1>2. PollOK' /\ AwaitersKept /\ phase' = "idle" /\ DeadSet' = DeadSet /\ DueSet' = DueSet
  BY <1>1, PollKept, RunningFiber DEF SchedInv, pollVars, DeadSet, DueSet
<1>3. DeadSet' \cup Awaiting' \subseteq (Waiters \cup {runningFiber}) \ ToSet(q)
  BY <1>1, <1>2, RunningFiber DEF SchedInv, QueuesOK, Waiters, AwaitersKept
<1> HIDE DEF q
<1>4. ExecuteNext(q) /\ SaveContext("yield") /\ UNCHANGED <<fiberFD, timeVars, deadline>>
  BY DEF q, turnVars
<1> HIDE DEF YieldCurrentFiber
<1>5. /\ LoopOK' /\ QueuesOK' /\ CountOK'
      /\ Waiters' = Waiters \ {runningFiber} /\ DueSet' = {}
      /\ readyFiberQueue' \in Seq(fibers')
      /\ runningFiber' \in fibers' \cup {NoFiber} /\ loop' \in LoopStates
  BY <1>1, <1>2, <1>3, <1>4, SwitchOK, RunningFiber DEF SchedInv, QueuesOK, Waiters
<1>6. OwnTypesOK'
  BY <1>1, <1>4, <1>5 DEF SchedInv, OwnTypesOK, DueTimesOK, SaveContext, Contexts, timeVars
<1>7. WaitsOK'
  BY <1>2, <1>4, <1>5, RunningFiber DEF SchedInv, WaitsOK, SaveContext, AwaitersKept, OwnTypesOK
<1>8. StatusOK'
  BY <1>1, <1>4, RunningFiber DEF SchedInv, StatusOK, SaveContext, OwnTypesOK
<1>9. FDsOK'
  BY <1>2, <1>4 DEF SchedInv, FDsOK, AwaitersKept
<1>10. TimersOK'
  BY <1>1, <1>2, <1>4, <1>5, RunningFiber
     DEF SchedInv, TimersOK, SaveContext, OwnTypesOK, timeVars, Timers!Queued, Waiters
<1>11. SleepersOK'
  BY <1>1, <1>4 DEF SchedInv, SleepersOK, SaveContext, OwnTypesOK
<1> QED
  BY <1>2, <1>5, <1>6, <1>7, <1>8, <1>9, <1>10, <1>11 DEF SchedInv

(* A fiber that blocks outside every ring: it sleeps, or is suspended.     *)
LEMMA BlockInv ==
  ASSUME SchedInv, IsRunning, NEW wait \in {"sleep", "suspend"}, SaveContext(wait),
         ExecuteNext(readyFiberQueue), DueTimesOK',
         Timers!Queued' = IF wait = "sleep" THEN Timers!Queued \cup {runningFiber}
                                            ELSE Timers!Queued,
         wait = "sleep" => SleepAfterIO \/ fiberFD[runningFiber] = NoFD,
         UNCHANGED <<heapVars, fiberFD, now, turnVars, pollVars>>
  PROVE  SchedInv'
<1>1. /\ readyFiberQueue \in Seq(fibers) /\ IsInjective(readyFiberQueue)
      /\ ToSet(readyFiberQueue) = ReadySet
      /\ UNCHANGED <<fibers, fiberCount, deadFiberQueue, deadline, failure, buffer>>
  BY RunningFiber DEF ReadySet, heapVars, turnVars
<1>2. PollOK' /\ AwaitersKept /\ phase' = "idle" /\ DeadSet' = DeadSet /\ DueSet' = DueSet
  BY <1>1, PollKept, RunningFiber DEF SchedInv, pollVars, DeadSet, DueSet
<1>3. DeadSet' \cup Awaiting' \subseteq (Waiters \cup {runningFiber}) \ ReadySet
  BY <1>1, <1>2, RunningFiber DEF SchedInv, QueuesOK, Waiters, AwaitersKept
<1>4. /\ LoopOK' /\ QueuesOK' /\ CountOK'
      /\ Waiters' = Waiters \cup {runningFiber} /\ DueSet' = {}
      /\ readyFiberQueue' \in Seq(fibers')
      /\ runningFiber' \in fibers' \cup {NoFiber} /\ loop' \in LoopStates
  BY <1>1, <1>2, <1>3, SwitchOK, RunningFiber DEF SchedInv, QueuesOK, Waiters
<1>5. OwnTypesOK'
  BY <1>1, <1>4 DEF SchedInv, OwnTypesOK, SaveContext, Contexts
<1>6. WaitsOK'
  BY <1>2, <1>4, RunningFiber DEF SchedInv, WaitsOK, SaveContext, AwaitersKept, OwnTypesOK
<1>7. StatusOK'
  BY <1>1, <1>4, RunningFiber DEF SchedInv, StatusOK, SaveContext, OwnTypesOK
<1>8. FDsOK'
  BY <1>2 DEF SchedInv, FDsOK, AwaitersKept
<1>9. TimersOK'
  BY <1>1, <1>4, RunningFiber
     DEF SchedInv, TimersOK, SaveContext, OwnTypesOK, Waiters
<1>10. SleepersOK'
  BY <1>1, RunningFiber DEF SchedInv, SleepersOK, SaveContext, OwnTypesOK
<1> QED
  BY <1>2, <1>4, <1>5, <1>6, <1>7, <1>8, <1>9, <1>10 DEF SchedInv

LEMMA SleepInv ==
  ASSUME SchedInv, NEW d \in Durations, SleepCurrentFiber(d) PROVE SchedInv'
<1>1. /\ IsRunning /\ SaveContext("sleep") /\ ExecuteNext(readyFiberQueue)
      /\ SleepAfterIO \/ fiberFD[runningFiber] = NoFD
      /\ Timers!AddItem(runningFiber, d)
      /\ UNCHANGED <<heapVars, fiberFD, now, turnVars, pollVars>>
  BY DEF SleepCurrentFiber
<1>2. DueTimesOK' /\ Timers!Queued' = Timers!Queued \cup {runningFiber}
  BY <1>1, RunningFiber, AddItemSets DEF SchedInv, OwnTypesOK
<1> QED
  BY <1>1, <1>2, BlockInv

LEMMA SuspendInv == ASSUME SchedInv, SuspendCurrentFiber PROVE SchedInv'
<1>1. /\ IsRunning /\ SaveContext("suspend") /\ ExecuteNext(readyFiberQueue)
      /\ UNCHANGED <<heapVars, fiberFD, now, turnVars, pollVars, dueTime>>
  BY DEF SuspendCurrentFiber, timeVars
<1>2. DueTimesOK' /\ Timers!Queued' = Timers!Queued
  BY <1>1 DEF SchedInv, OwnTypesOK, DueTimesOK, Timers!Queued
<1> QED
  BY <1>1, <1>2, BlockInv

LEMMA KillInv == ASSUME SchedInv, KillCurrentFiber PROVE SchedInv'
<1>1. /\ IsRunning /\ ExecuteNext(readyFiberQueue)
      /\ context' = [context EXCEPT ![runningFiber] = "none"]
      /\ status' = [status EXCEPT ![runningFiber] = 0]
      /\ deadFiberQueue' = Append(deadFiberQueue, runningFiber)
      /\ UNCHANGED <<fibers, fiberCount, fiberFD, dueTime, now, deadline, buffer, failure, pollVars>>
  BY DEF KillCurrentFiber, ClearContext, timeVars, turnVars
<1>2. /\ readyFiberQueue \in Seq(fibers) /\ IsInjective(readyFiberQueue)
      /\ ToSet(readyFiberQueue) = ReadySet
  BY <1>1, RunningFiber DEF ReadySet
<1>3. /\ deadFiberQueue' \in Seq(fibers) /\ IsInjective(deadFiberQueue')
      /\ DeadSet' = DeadSet \cup {runningFiber}
  BY <1>1, RunningFiber, AppendQueue DEF DeadSet
<1>4. PollOK' /\ AwaitersKept /\ phase' = "idle" /\ DueSet' = DueSet
  BY <1>1, PollKept, RunningFiber DEF SchedInv, pollVars, DueSet
<1>5. DeadSet' \cup Awaiting' \subseteq (Waiters \cup {runningFiber}) \ ReadySet
  BY <1>1, <1>3, <1>4, RunningFiber DEF SchedInv, QueuesOK, Waiters, AwaitersKept
<1>6. /\ LoopOK' /\ QueuesOK' /\ CountOK'
      /\ Waiters' = Waiters \cup {runningFiber} /\ DueSet' = {}
      /\ readyFiberQueue' \in Seq(fibers')
      /\ runningFiber' \in fibers' \cup {NoFiber} /\ loop' \in LoopStates
  BY <1>1, <1>2, <1>3, <1>4, <1>5, SwitchOK, RunningFiber DEF SchedInv, QueuesOK, Waiters
<1>7. OwnTypesOK'
  BY <1>1, <1>3, <1>6 DEF SchedInv, OwnTypesOK, DueTimesOK, Contexts
<1>8. WaitsOK'
  BY <1>1, <1>3, <1>4, <1>6, RunningFiber DEF SchedInv, WaitsOK, AwaitersKept, OwnTypesOK
<1>9. StatusOK'
  BY <1>1, <1>6, RunningFiber DEF SchedInv, StatusOK, OwnTypesOK
<1>10. FDsOK'
  BY <1>1, <1>4 DEF SchedInv, FDsOK, AwaitersKept
<1>11. TimersOK'
  BY <1>1, <1>6, RunningFiber DEF SchedInv, TimersOK, OwnTypesOK, Waiters, Timers!Queued
<1>12. SleepersOK'
  BY <1>1, RunningFiber DEF SchedInv, SleepersOK, OwnTypesOK
<1> QED
  BY <1>4, <1>6, <1>7, <1>8, <1>9, <1>10, <1>11, <1>12 DEF SchedInv

LEMMA AwaitInv ==
  ASSUME SchedInv, NEW fd \in FD, NEW e \in Poll!Event, NEW d \in Durations,
         AwaitIOEvent(fd, e, d)
  PROVE  SchedInv'
<1>1. /\ IsRunning /\ ExecuteNext(readyFiberQueue) /\ SaveContext("await")
      /\ fiberFD' = [fiberFD EXCEPT ![runningFiber] = fd]
      /\ Poll!AddEventAwaiter(runningFiber, fd, e)
      /\ Timers!AddItem(runningFiber, d)
      /\ UNCHANGED <<fibers, fiberCount, deadFiberQueue, now, deadline, buffer, failure>>
  BY DEF AwaitIOEvent, heapVars, turnVars
<1>2. /\ readyFiberQueue \in Seq(fibers) /\ IsInjective(readyFiberQueue)
      /\ ToSet(readyFiberQueue) = ReadySet /\ DeadSet' = DeadSet /\ DueSet' = DueSet
      /\ runningFiber \in Fiber
  BY <1>1, RunningFiber DEF ReadySet, DeadSet, DueSet
<1>3. DueTimesOK' /\ Timers!Queued' = Timers!Queued \cup {runningFiber}
  BY <1>1, RunningFiber, AddItemSets DEF SchedInv, OwnTypesOK
<1>4. /\ PollOK' /\ phase' = "idle"
      /\ Awaiting' = Awaiting \cup {runningFiber}
      /\ Awaiters(fd)' = Awaiters(fd) \cup {runningFiber}
      /\ \A x \in FD \ {fd} : Awaiters(x)' = Awaiters(x)
  BY <1>1, <1>2, PollAdd DEF SchedInv
<1>5. DeadSet' \cup Awaiting' \subseteq (Waiters \cup {runningFiber}) \ ReadySet
  BY <1>1, <1>2, <1>4, RunningFiber DEF SchedInv, QueuesOK, Waiters
<1>6. /\ LoopOK' /\ QueuesOK' /\ CountOK'
      /\ Waiters' = Waiters \cup {runningFiber} /\ DueSet' = {}
      /\ readyFiberQueue' \in Seq(fibers')
      /\ runningFiber' \in fibers' \cup {NoFiber} /\ loop' \in LoopStates
  BY <1>1, <1>2, <1>4, <1>5, SwitchOK, RunningFiber DEF SchedInv, QueuesOK, Waiters
<1>7. OwnTypesOK'
  BY <1>1, <1>3, <1>6 DEF SchedInv, OwnTypesOK, SaveContext, Contexts
<1>8. WaitsOK'
  BY <1>1, <1>2, <1>4, <1>6, RunningFiber DEF SchedInv, WaitsOK, SaveContext, OwnTypesOK
<1>9. StatusOK'
  BY <1>1, <1>6, RunningFiber DEF SchedInv, StatusOK, SaveContext, OwnTypesOK
<1>10. FDsOK'
  <2>1. runningFiber \notin Awaiting /\ \A x \in FD : Awaiters(x) \subseteq Awaiting
    BY <1>1, RunningFiber, AwaitingIs
  <2> QED
    BY <1>1, <1>4, <2>1, RunningFiber DEF SchedInv, FDsOK, OwnTypesOK
<1>11. TimersOK'
  BY <1>1, <1>3, <1>6, RunningFiber DEF SchedInv, TimersOK, OwnTypesOK, Waiters, SaveContext
<1>12. SleepersOK'
  BY <1>1, RunningFiber DEF SchedInv, SleepersOK, OwnTypesOK, SaveContext
<1> QED
  BY <1>4, <1>6, <1>7, <1>8, <1>9, <1>10, <1>11, <1>12 DEF SchedInv

-----------------------------------------------------------------------------
(* Steps that make blocked or dead fibers ready.                           *)

LEMMA WakeInv ==
  ASSUME SchedInv, NEW W \in SUBSET Waiters,
         OwnTypesOK', PollOK', LoopOK', loop' = "exited" <=> loop = "exited",
         UNCHANGED <<fibers, fiberCount, runningFiber, context, failure>>,
         IsInjective(readyFiberQueue'), ReadySet' = ReadySet \cup W,
         IsInjective(deadFiberQueue'), DeadSet' = DeadSet \ W,
         IsInjective(buffer'), DueSet' = DueSet \ W,
         Awaiting' = Awaiting \ W,
         \A fd \in FD : Awaiters(fd)' \subseteq Awaiters(fd),
         Timers!Queued' = Timers!Queued \ W,
         \A f \in fibers : /\ fiberFD'[f] = fiberFD[f] \/ (f \in W /\ fiberFD'[f] = NoFD)
                           /\ status'[f] = status[f] \/ (context[f] = "await" /\ status'[f] # 0)
  PROVE  SchedInv'
<1>1. Waiters' = Waiters \ W
  BY DEF Waiters
<1>2. QueuesOK'
  BY <1>1 DEF SchedInv, QueuesOK, Waiters
<1>3. WaitsOK'
  BY <1>1 DEF SchedInv, WaitsOK
<1>4. StatusOK'
  BY DEF SchedInv, StatusOK
<1>5. FDsOK'
  <2>1. ASSUME NEW fd \in FD, NEW f \in Awaiters(fd)' PROVE fiberFD'[f] = fd
    <3>1. f \in Awaiting' /\ f \in Awaiters(fd)
      BY AwaitingIs
    <3>2. f \notin W /\ f \in fibers
      BY <3>1 DEF SchedInv, QueuesOK, Waiters
    <3>3. fiberFD'[f] = fiberFD[f]
      BY <3>2
    <3> QED
      BY <3>1, <3>3 DEF SchedInv, FDsOK
  <2> QED
    BY <2>1 DEF FDsOK
<1>6. TimersOK'
  BY <1>1 DEF SchedInv, TimersOK
<1>7. SleepersOK'
  BY DEF SchedInv, SleepersOK
<1>8. CountOK'
  BY DEF SchedInv, CountOK, ExitsWithTheLastFiber
<1> QED
  BY <1>2, <1>3, <1>4, <1>5, <1>6, <1>7, <1>8 DEF SchedInv

LEMMA ReuseInv ==
  ASSUME SchedInv, IsRunning, ReuseFiber,
         UNCHANGED <<runningFiber, timeVars, loopVars, pollVars>>
  PROVE  SchedInv'
<1> DEFINE f == Head(deadFiberQueue)
<1>1. /\ deadFiberQueue # <<>> /\ deadFiberQueue' = Tail(deadFiberQueue)
      /\ readyFiberQueue' = Append(readyFiberQueue, f)
      /\ UNCHANGED <<fibers, fiberCount, context, status, fiberFD, runningFiber, dueTime,
                     now, loop, deadline, buffer, failure, pollVars>>
  BY DEF ReuseFiber, Enqueued, stateVars, timeVars, loopVars, turnVars
<1>2. /\ f \in DeadSet /\ deadFiberQueue' \in Seq(fibers) /\ IsInjective(deadFiberQueue')
      /\ DeadSet' = DeadSet \ {f}
  BY <1>1, RunningFiber, HeadTailQueue DEF DeadSet
<1>3. f \in Waiters
  BY <1>2 DEF SchedInv, QueuesOK
<1> HIDE DEF f
<1>4. /\ f \in fibers /\ f \notin ReadySet \cup Awaiting \cup DueSet
      /\ f \notin Timers!Queued
  BY <1>2, <1>3, RunningFiber DEF SchedInv, WaitsOK, TimersOK, Waiters
<1>5. /\ readyFiberQueue' \in Seq(fibers) /\ IsInjective(readyFiberQueue')
      /\ ReadySet' = ReadySet \cup {f}
  BY <1>1, <1>4, RunningFiber, AppendQueue DEF ReadySet
<1>6. PollOK' /\ AwaitersKept
  BY <1>1, PollKept DEF SchedInv
<1>7. DueSet' = DueSet \ {f} /\ Timers!Queued' = Timers!Queued \ {f}
  BY <1>1, <1>4 DEF DueSet, Timers!Queued
<1>8. Awaiting' = Awaiting \ {f} /\ \A fd \in FD : Awaiters(fd)' \subseteq Awaiters(fd)
  BY <1>4, <1>6 DEF AwaitersKept
<1>9. OwnTypesOK' /\ LoopOK' /\ IsInjective(buffer')
  BY <1>1, <1>2, <1>5, RunningFiber, PollKept
     DEF SchedInv, OwnTypesOK, LoopOK, QueuesOK, DueTimesOK, IsRunning, pollVars
<1> QED
  BY <1>1, <1>2, <1>3, <1>5, <1>6, <1>7, <1>8, <1>9, WakeInv DEF IsRunning

LEMMA ResumeInv == ASSUME SchedInv, NEW f \in Fiber, ResumeFiber(f) PROVE SchedInv'
<1>1. /\ IsRunning /\ f \in fibers /\ context[f] = "suspend"
      /\ f # runningFiber /\ f \notin ReadySet
      /\ readyFiberQueue' = Append(readyFiberQueue, f)
      /\ UNCHANGED <<fibers, fiberCount, deadFiberQueue, context, status, fiberFD,
                     runningFiber, dueTime, now, loop, deadline, buffer, failure, pollVars>>
  BY DEF ResumeFiber, Suspended, ReadySet, Enqueued, heapVars, stateVars, timeVars, loopVars,
         turnVars
<1>2. f \in Waiters
  BY <1>1 DEF Waiters
<1>3. f \notin DeadSet \cup Awaiting \cup DueSet \cup Timers!Queued
  BY <1>1, <1>2, RunningFiber DEF SchedInv, WaitsOK, TimersOK
<1>4. /\ readyFiberQueue' \in Seq(fibers) /\ IsInjective(readyFiberQueue')
      /\ ReadySet' = ReadySet \cup {f}
  BY <1>1, RunningFiber, AppendQueue DEF ReadySet
<1>5. PollOK' /\ AwaitersKept
  BY <1>1, PollKept DEF SchedInv
<1>6. /\ DeadSet' = DeadSet \ {f} /\ DueSet' = DueSet \ {f}
      /\ Timers!Queued' = Timers!Queued \ {f}
  BY <1>1, <1>3 DEF DeadSet, DueSet, Timers!Queued
<1>7. Awaiting' = Awaiting \ {f} /\ \A fd \in FD : Awaiters(fd)' \subseteq Awaiters(fd)
  BY <1>3, <1>5 DEF AwaitersKept
<1>8. OwnTypesOK' /\ LoopOK' /\ IsInjective(buffer') /\ IsInjective(deadFiberQueue')
  BY <1>1, <1>4 DEF SchedInv, OwnTypesOK, LoopOK, QueuesOK, DueTimesOK, IsRunning, pollVars
<1> QED
  BY <1>1, <1>2, <1>4, <1>5, <1>6, <1>7, <1>8, WakeInv DEF IsRunning

(* What Release does with fibers that wait for an event.                   *)
LEMMA ReleaseSets ==
  ASSUME SchedInv, NEW q \in Seq(Fiber), IsInjective(q), ToSet(q) \subseteq Awaiting, Release(q),
         UNCHANGED fibers
  PROVE  /\ ToSet(q) \subseteq Waiters
         /\ \A f \in ToSet(q) : context[f] = "await" /\ f \notin DeadSet
         /\ readyFiberQueue' \in Seq(fibers) /\ IsInjective(readyFiberQueue')
         /\ ReadySet' = ReadySet \cup ToSet(q)
         /\ DueTimesOK' /\ Timers!Queued' = Timers!Queued \ ToSet(q)
<1>1. ToSet(q) \subseteq Waiters /\ Waiters \subseteq fibers /\ Waiters \cap ReadySet = {}
  BY DEF SchedInv, QueuesOK, Waiters
<1>2. \A f \in ToSet(q) : context[f] = "await" /\ f \notin DeadSet
  BY <1>1 DEF SchedInv, WaitsOK
<1>3. q \in Seq(fibers)
  BY <1>1, SeqOfItsSet
<1>4. /\ readyFiberQueue' = readyFiberQueue \o q /\ Timers!RemoveItems(ToSet(q))
      /\ readyFiberQueue \in Seq(fibers) /\ IsInjective(readyFiberQueue)
      /\ ToSet(readyFiberQueue) = ReadySet
  BY DEF Release, SchedInv, OwnTypesOK, QueuesOK, ReadySet
<1>5. /\ readyFiberQueue' \in Seq(fibers) /\ IsInjective(readyFiberQueue')
      /\ ToSet(readyFiberQueue') = ToSet(readyFiberQueue) \cup ToSet(q)
  BY <1>1, <1>3, <1>4, ConcatQueue
<1>6. DueTimesOK' /\ Timers!Queued' = Timers!Queued \ ToSet(q)
  BY <1>4, RemoveItemsSets DEF SchedInv, OwnTypesOK
<1> QED
  BY <1>1, <1>2, <1>4, <1>5, <1>6 DEF ReadySet

LEMMA UnwatchInv == ASSUME SchedInv, NEW fd \in FD, UnwatchIO(fd) PROVE SchedInv'
<1> DEFINE q == Poll!AwaitersOf(fd)
<1>1. /\ IsRunning /\ Poll!DestroyWatcher(fd) /\ Release(q)
      /\ status' = [f \in Fiber |-> IF f \in ToSet(q) THEN -EBADF ELSE status[f]]
      /\ UNCHANGED <<fibers, fiberCount, deadFiberQueue, context, fiberFD, runningFiber,
                     now, loop, deadline, buffer, failure>>
  BY DEF UnwatchIO, heapVars, loopVars, turnVars
<1>2. q \in Seq(Fiber) /\ IsInjective(q) /\ ToSet(q) = Awaiters(fd) /\ ToSet(q) \subseteq Awaiting
  BY PollView, AwaitingIs DEF SchedInv, Awaiters
<1> HIDE DEF q
<1>3. /\ ToSet(q) \subseteq Waiters /\ \A f \in ToSet(q) : context[f] = "await" /\ f \notin DeadSet
      /\ readyFiberQueue' \in Seq(fibers) /\ IsInjective(readyFiberQueue')
      /\ ReadySet' = ReadySet \cup ToSet(q)
      /\ DueTimesOK' /\ Timers!Queued' = Timers!Queued \ ToSet(q)
  BY <1>1, <1>2, ReleaseSets
<1>4. /\ PollOK' /\ phase' = "idle" /\ Awaiting' = Awaiting \ ToSet(q)
      /\ \A x \in FD : Awaiters(x)' \subseteq Awaiters(x)
  BY <1>1, <1>2, PollDestroy DEF SchedInv
<1>5. DeadSet' = DeadSet \ ToSet(q) /\ DueSet' = DueSet \ ToSet(q)
  BY <1>1, <1>3, RunningFiber DEF DeadSet, DueSet
<1>6. status' \in [Fiber -> {0, 1, -ETIME, -EBADF}]
  BY <1>1 DEF SchedInv, OwnTypesOK
<1>7. /\ OwnTypesOK' /\ LoopOK' /\ IsInjective(buffer') /\ IsInjective(deadFiberQueue')
  BY <1>1, <1>3, <1>4, <1>6, RunningFiber DEF SchedInv, OwnTypesOK, LoopOK, QueuesOK, IsRunning
<1>8. \A f \in fibers : status'[f] = status[f] \/ (context[f] = "await" /\ status'[f] # 0)
  BY <1>1, <1>3, RunningFiber DEF EBADF
<1> QED
  BY <1>1, <1>3, <1>4, <1>5, <1>7, <1>8, WakeInv DEF IsRunning

LEMMA WakeAwaitersInv == ASSUME SchedInv, WakeAwaiters PROVE SchedInv'
<1> DEFINE q == eventAwaiterQueue
<1>1. /\ loop = "poll" /\ loop' = "timers" /\ Poll!EndWait /\ Release(q)
      /\ UNCHANGED <<fibers, fiberCount, deadFiberQueue, context, status, fiberFD, runningFiber,
                     now, deadline, buffer, failure>>
  BY DEF WakeAwaiters, heapVars, stateVars, turnVars
<1>2. q \in Seq(Fiber) /\ IsInjective(q) /\ ToSet(q) \subseteq Awaiting
  BY PollView, AwaitingIs DEF SchedInv
<1>3. /\ PollOK' /\ phase' = "idle" /\ Awaiting' = Awaiting \ ToSet(q)
      /\ \A x \in FD : Awaiters(x)' \subseteq Awaiters(x)
  BY <1>1, PollEnd DEF SchedInv
<1> HIDE DEF q
<1>4. /\ ToSet(q) \subseteq Waiters /\ \A f \in ToSet(q) : context[f] = "await" /\ f \notin DeadSet
      /\ readyFiberQueue' \in Seq(fibers) /\ IsInjective(readyFiberQueue')
      /\ ReadySet' = ReadySet \cup ToSet(q)
      /\ DueTimesOK' /\ Timers!Queued' = Timers!Queued \ ToSet(q)
  BY <1>1, <1>2, ReleaseSets
<1>5. /\ buffer = <<>> /\ failure = "none" /\ runningFiber = NoFiber
  BY <1>1 DEF SchedInv, LoopOK
<1>6. DeadSet' = DeadSet \ ToSet(q) /\ DueSet' = DueSet \ ToSet(q)
  BY <1>1, <1>4, <1>5, EmptyQueue DEF DeadSet, DueSet
<1>7. OwnTypesOK' /\ LoopOK' /\ IsInjective(buffer') /\ IsInjective(deadFiberQueue')
  BY <1>1, <1>3, <1>4, <1>5 DEF SchedInv, OwnTypesOK, LoopOK, QueuesOK, LoopStates
<1> QED
  BY <1>1, <1>3, <1>4, <1>6, <1>7, WakeInv

(* A due fiber is in no ring of the scheduler and no longer in the timer.  *)
LEMMA DueFiber ==
  ASSUME SchedInv, WakeDueFiber
  PROVE  \E f \in fibers :
           /\ f \in DueSet /\ f \in Waiters /\ f \notin DeadSet \cup Timers!Queued
           /\ context[f] \in {"sleep", "await"} /\ (context[f] = "await" <=> f \in Awaiting)
           /\ f \in Fiber
           /\ buffer' \in Seq(fibers) /\ IsInjective(buffer') /\ DueSet' = DueSet \ {f}
           /\ phase = "idle" /\ loop = "due" /\ failure = "none"
           /\ WakeSleeper(f) \/ TimeOutAwaiter(f) \/ FailToTimeOut(f)
           /\ UNCHANGED <<fibers, fiberCount, deadFiberQueue, runningFiber, context, dueTime,
                          now, loop, deadline>>
<1> DEFINE f == Last(buffer)
<1>1. /\ buffer # <<>> /\ buffer' = Front(buffer) /\ loop = "due" /\ failure = "none"
      /\ WakeSleeper(f) \/ TimeOutAwaiter(f) \/ FailToTimeOut(f)
      /\ UNCHANGED <<fibers, fiberCount, deadFiberQueue, runningFiber, context, dueTime, now,
                     loop, deadline>>
  BY DEF WakeDueFiber, heapVars, timeVars
<1>2. /\ f \in DueSet /\ buffer' \in Seq(fibers) /\ IsInjective(buffer') /\ DueSet' = DueSet \ {f}
  BY <1>1, FrontLastQueue DEF SchedInv, OwnTypesOK, QueuesOK, DueSet
<1> HIDE DEF f
<1>3. /\ f \in Waiters /\ f \in fibers /\ f \in Fiber
      /\ context[f] \in {"sleep", "await"} /\ (context[f] = "await" <=> f \in Awaiting)
      /\ f \notin DeadSet
  BY <1>2 DEF SchedInv, QueuesOK, WaitsOK, Waiters, OwnTypesOK
<1>4. f \notin Timers!Queued /\ phase = "idle"
  BY <1>1, <1>2 DEF SchedInv, TimersOK, LoopOK
<1> QED
  BY <1>1, <1>2, <1>3, <1>4

(* An awaiter in the buffer is still in the queue of a watcher.            *)
LEMMA DueAwaiter ==
  ASSUME SchedInv, loop = "due", NEW f \in Awaiting
  PROVE  /\ fiberFD[f] \in FD /\ fiberFD[f] # NoFD
         /\ f \in Awaiters(fiberFD[f]) /\ fiberFD[f] \in watchers
<1>1. eventAwaiterQueue = <<>>
  BY PollView DEF SchedInv, LoopOK
<1>2. PICK fd \in FD : f \in Awaiters(fd)
  BY <1>1, AwaitingIs, EmptyQueue
<1>3. fd \in watchers
  BY <1>2, PollView DEF SchedInv
<1> QED
  BY <1>2, <1>3, ConstantsAssumption DEF SchedInv, FDsOK

LEMMA PushHead ==
  ASSUME SchedInv, NEW f \in Waiters, readyFiberQueue' = <<f>> \o readyFiberQueue, UNCHANGED fibers
  PROVE  /\ readyFiberQueue' \in Seq(fibers) /\ IsInjective(readyFiberQueue')
         /\ ReadySet' = ReadySet \cup {f}
<1>1. /\ f \in fibers /\ f \notin ReadySet
      /\ readyFiberQueue \in Seq(fibers) /\ IsInjective(readyFiberQueue)
  BY DEF SchedInv, OwnTypesOK, QueuesOK, Waiters
<1> DEFINE q == <<f>>
<1>2. q \in Seq(fibers) /\ IsInjective(q) /\ ToSet(q) = {f}
  BY <1>1, OneInQueue
<1>3. readyFiberQueue' = q \o readyFiberQueue
  OBVIOUS
<1> HIDE DEF q
<1>4. /\ q \o readyFiberQueue \in Seq(fibers)
      /\ ToSet(q \o readyFiberQueue) = ToSet(q) \cup ToSet(readyFiberQueue)
      /\ IsInjective(q \o readyFiberQueue)
  <2>1. ToSet(q) \cap ToSet(readyFiberQueue) = {}
    BY <1>1, <1>2 DEF ReadySet
  <2> QED
    BY <1>1, <1>2, <2>1, ConcatQueue
<1> QED
  BY <1>2, <1>3, <1>4 DEF ReadySet

LEMMA WakeDueInv == ASSUME SchedInv, WakeDueFiber PROVE SchedInv'
<1>1. PICK f \in fibers :
           /\ f \in DueSet /\ f \in Waiters /\ f \notin DeadSet \cup Timers!Queued
           /\ context[f] \in {"sleep", "await"} /\ (context[f] = "await" <=> f \in Awaiting)
           /\ f \in Fiber
           /\ buffer' \in Seq(fibers) /\ IsInjective(buffer') /\ DueSet' = DueSet \ {f}
           /\ phase = "idle" /\ loop = "due" /\ failure = "none"
           /\ WakeSleeper(f) \/ TimeOutAwaiter(f) \/ FailToTimeOut(f)
           /\ UNCHANGED <<fibers, fiberCount, deadFiberQueue, runningFiber, context, dueTime,
                          now, loop, deadline>>
  BY DueFiber
<1>2. /\ DeadSet' = DeadSet /\ DeadSet = DeadSet \ {f} /\ IsInjective(deadFiberQueue')
      /\ Timers!Queued' = Timers!Queued /\ Timers!Queued = Timers!Queued \ {f}
  BY <1>1 DEF SchedInv, QueuesOK, DeadSet, Timers!Queued
<1>3. CASE WakeSleeper(f)
  <2>1. /\ fiberFD[f] = NoFD /\ readyFiberQueue' = <<f>> \o readyFiberQueue
        /\ UNCHANGED <<status, fiberFD, failure, pollVars>>
    BY <1>3 DEF WakeSleeper
  <2>2. f \notin Awaiting
    BY <1>1, <2>1, DueAwaiter
  <2>3. PollOK' /\ AwaitersKept /\ phase' = "idle"
    BY <1>1, <2>1, PollKept DEF SchedInv, pollVars
  <2>4. Awaiting' = Awaiting \ {f} /\ \A fd \in FD : Awaiters(fd)' \subseteq Awaiters(fd)
    BY <2>2, <2>3 DEF AwaitersKept
  <2>5. /\ readyFiberQueue' \in Seq(fibers) /\ IsInjective(readyFiberQueue')
        /\ ReadySet' = ReadySet \cup {f}
    BY <1>1, <2>1, PushHead
  <2>6. OwnTypesOK' /\ LoopOK'
    BY <1>1, <2>1, <2>3, <2>5 DEF SchedInv, OwnTypesOK, DueTimesOK, LoopOK
  <2> QED
    BY <1>1, <1>2, <2>1, <2>3, <2>4, <2>5, <2>6, WakeInv
<1>4. CASE TimeOutAwaiter(f)
  <2> DEFINE fd == fiberFD[f]
  <2>1. /\ Poll!RemoveEventAwaiter(f, fd) /\ fd \in watchers
        /\ fiberFD' = [fiberFD EXCEPT ![f] = NoFD] /\ status' = [status EXCEPT ![f] = -ETIME]
        /\ readyFiberQueue' = <<f>> \o readyFiberQueue /\ UNCHANGED failure
    BY <1>4 DEF TimeOutAwaiter, LeaveWatcher
  <2>2. fd \in FD
    BY <2>1, PollView DEF SchedInv, Poll!TypeOK
  <2> HIDE DEF fd
  <2>3. /\ PollOK' /\ phase' = "idle" /\ f \in Awaiters(fd) /\ Awaiting' = Awaiting \ {f}
        /\ \A x \in FD : Awaiters(x)' \subseteq Awaiters(x)
    BY <1>1, <2>1, <2>2, PollRemove DEF SchedInv
  <2>4. context[f] = "await"
    BY <1>1, <2>2, <2>3, AwaitingIs
  <2>5. /\ readyFiberQueue' \in Seq(fibers) /\ IsInjective(readyFiberQueue')
        /\ ReadySet' = ReadySet \cup {f}
    BY <1>1, <2>1, PushHead
  <2>6. OwnTypesOK' /\ LoopOK'
    BY <1>1, <2>1, <2>3, <2>5 DEF SchedInv, OwnTypesOK, DueTimesOK, LoopOK
  <2>7. \A g \in fibers : /\ fiberFD'[g] = fiberFD[g] \/ (g \in {f} /\ fiberFD'[g] = NoFD)
                          /\ status'[g] = status[g] \/ (context[g] = "await" /\ status'[g] # 0)
    BY <2>1, <2>4 DEF SchedInv, OwnTypesOK, ETIME
  <2> QED
    BY <1>1, <1>2, <2>1, <2>3, <2>5, <2>6, <2>7, WakeInv
<1>5. CASE FailToTimeOut(f)
  <2>1. /\ fiberFD[f] # NoFD /\ failure' \in {"noWatcher", "unlinked"}
        /\ fiberFD[f] \notin watchers \/ f \notin Awaiters(fiberFD[f])
        /\ UNCHANGED <<readyFiberQueue, status, fiberFD, pollVars>>
    BY <1>5 DEF FailToTimeOut, Awaiters
  <2>2. f \notin Awaiting /\ context[f] = "sleep"
    BY <1>1, <2>1, DueAwaiter
  <2>3. PollOK' /\ AwaitersKept /\ phase' = "idle"
    BY <1>1, <2>1, PollKept DEF SchedInv, pollVars
  <2>4. ReadySet' = ReadySet /\ Waiters' = Waiters
    BY <1>1, <2>1 DEF ReadySet, Waiters
  <2>5. OwnTypesOK' /\ LoopOK'
    BY <1>1, <2>1, <2>3 DEF SchedInv, OwnTypesOK, DueTimesOK, LoopOK, Failures
  <2>6. QueuesOK' /\ WaitsOK' /\ StatusOK' /\ FDsOK'
    BY <1>1, <1>2, <2>1, <2>3, <2>4
       DEF SchedInv, QueuesOK, WaitsOK, StatusOK, FDsOK, AwaitersKept
  <2>7. SleepAfterIO /\ SleepersOK'
    BY <1>1, <2>1, <2>2 DEF SchedInv, SleepersOK
  <2>8. TimersOK'
    BY <1>1, <1>2, <2>1, <2>4 DEF SchedInv, TimersOK
  <2>9. CountOK'
    BY <1>1 DEF SchedInv, CountOK, ExitsWithTheLastFiber
  <2> QED
    BY <2>3, <2>5, <2>6, <2>7, <2>8, <2>9 DEF SchedInv
<1> QED
  BY <1>1, <1>3, <1>4, <1>5

-----------------------------------------------------------------------------
(* Steps that leave every fiber where it is.                               *)

LEMMA StillInv ==
  ASSUME SchedInv, UNCHANGED <<fiberVars, dueTime, buffer, failure>>,
         now' \in 0..MaxTime, deadline' \in Nat, loop' \in LoopStates,
         PollOK', LoopOK', loop' = "exited" <=> loop = "exited",
         Awaiting' = Awaiting, \A fd \in FD : Awaiters(fd)' \subseteq Awaiters(fd)
  PROVE  SchedInv'
<1> DEFINE W == {}
<1>1. UNCHANGED <<fibers, fiberCount, deadFiberQueue, runningFiber, readyFiberQueue, context,
                  status, fiberFD>>
  BY DEF fiberVars, heapVars, readyVars, stateVars
<1>2. OwnTypesOK'
  BY <1>1 DEF SchedInv, OwnTypesOK, DueTimesOK
<1>3. /\ IsInjective(readyFiberQueue') /\ IsInjective(deadFiberQueue') /\ IsInjective(buffer')
      /\ ReadySet' = ReadySet \cup W /\ DeadSet' = DeadSet \ W /\ DueSet' = DueSet \ W
      /\ Awaiting' = Awaiting \ W /\ Timers!Queued' = Timers!Queued \ W
      /\ W \in SUBSET Waiters
  BY <1>1 DEF SchedInv, QueuesOK, ReadySet, DeadSet, DueSet, Timers!Queued
<1> HIDE DEF W
<1> QED
  BY <1>1, <1>2, <1>3, WakeInv

LEMMA WatchInv == ASSUME SchedInv, NEW fd \in FD, WatchIO(fd) PROVE SchedInv'
<1>1. /\ IsRunning /\ Poll!CreateWatcher(fd)
      /\ UNCHANGED <<fiberVars, dueTime, now, loop, deadline, buffer, failure, runningFiber,
                     readyFiberQueue>>
  BY DEF WatchIO, timeVars, loopVars, turnVars, fiberVars, readyVars
<1>2. /\ PollOK' /\ phase' = "idle" /\ Awaiting' = Awaiting
      /\ \A x \in FD : Awaiters(x)' \subseteq Awaiters(x)
  BY <1>1, PollCreate DEF SchedInv, AwaitersKept
<1>3. LoopOK'
  BY <1>1, <1>2 DEF SchedInv, LoopOK
<1> QED
  BY <1>1, <1>2, <1>3, StillInv DEF SchedInv, OwnTypesOK

LEMMA StartWaitInv == ASSUME SchedInv, StartWait PROVE SchedInv'
<1>1. /\ loop = "poll" /\ Poll!FlushDirtyWatchers /\ deadline' = Timers!TimeoutAt
      /\ UNCHANGED <<fiberVars, dueTime, now, loop, buffer, failure, runningFiber, readyFiberQueue>>
  BY DEF StartWait, timeVars, fiberVars, readyVars
<1>2. /\ PollOK' /\ Awaiting' = Awaiting
      /\ \A x \in FD : Awaiters(x)' \subseteq Awaiters(x)
  BY <1>1, PollQuiet DEF SchedInv, AwaitersKept
<1>3. LoopOK' /\ deadline' \in Nat
  BY <1>1, TimeoutAtType DEF SchedInv, LoopOK, OwnTypesOK
<1> QED
  BY <1>1, <1>2, <1>3, StillInv DEF SchedInv, OwnTypesOK

LEMMA PollStepInv ==
  ASSUME SchedInv, FinishWait \/ InterruptWait \/ \E fd \in FD : HandleEvent(fd)
  PROVE  SchedInv'
<1>1. /\ loop = "poll"
      /\ \/ \E r \in Poll!Reports : Poll!EpollWait(r)
         \/ Poll!Interrupted
         \/ \E fd \in FD : Poll!HandleError(fd) \/ Poll!HandleReadiness(fd)
      /\ UNCHANGED <<fiberVars, dueTime, now, loop, deadline, buffer, failure, runningFiber,
                     readyFiberQueue>>
  BY DEF FinishWait, InterruptWait, HandleEvent, timeVars, loopVars, turnVars, fiberVars, readyVars
<1>2. /\ PollOK' /\ Awaiting' = Awaiting
      /\ \A x \in FD : Awaiters(x)' \subseteq Awaiters(x)
  BY <1>1, PollQuiet, PollHandle DEF SchedInv, AwaitersKept
<1>3. LoopOK'
  BY <1>1 DEF SchedInv, LoopOK
<1> QED
  BY <1>1, <1>2, <1>3, StillInv DEF SchedInv, OwnTypesOK

LEMMA IdleInv == ASSUME SchedInv, EndOfTurn \/ Tick \/ UNCHANGED vars PROVE SchedInv'
<1>1. /\ UNCHANGED <<fiberVars, dueTime, deadline, buffer, failure, runningFiber, readyFiberQueue,
                     pollVars, phase>>
      /\ loop' = loop \/ (loop = "due" /\ loop' = "top" /\ buffer = <<>> /\ failure = "none")
      /\ now' = now \/ (now < MaxTime /\ now' = now + 1)
  BY DEF EndOfTurn, Tick, vars, timeVars, loopVars, turnVars, fiberVars, readyVars, pollVars
<1>2. /\ PollOK' /\ Awaiting' = Awaiting
      /\ \A x \in FD : Awaiters(x)' \subseteq Awaiters(x)
  BY <1>1, PollKept DEF SchedInv, AwaitersKept
<1>3. LoopOK'
  BY <1>1 DEF SchedInv, LoopOK
<1>4. now' \in 0..MaxTime /\ loop' \in LoopStates /\ deadline' \in Nat
  BY <1>1, ConstantsAssumption DEF SchedInv, OwnTypesOK, LoopStates
<1> QED
  BY <1>1, <1>2, <1>3, <1>4, StillInv

-----------------------------------------------------------------------------
(* The other steps of run(), and the creation of a fiber.                  *)

LEMMA DispatchInv == ASSUME SchedInv, Dispatch PROVE SchedInv'
<1>1. /\ loop = "top"
      /\ UNCHANGED <<fibers, fiberCount, deadFiberQueue, context, status, fiberFD, dueTime, now,
                     deadline, buffer, failure, pollVars, phase>>
  BY DEF Dispatch, heapVars, stateVars, timeVars, turnVars, pollVars
<1>2. /\ PollOK' /\ Awaiting' = Awaiting /\ \A x \in FD : Awaiters(x)' = Awaiters(x)
  BY <1>1, PollKept DEF SchedInv, AwaitersKept
<1>3. /\ runningFiber = NoFiber /\ NoFiber \notin fibers /\ phase = "idle" /\ failure = "none"
  BY <1>1, ConstantsAssumption DEF SchedInv, LoopOK, OwnTypesOK
<1>4. CASE readyFiberQueue = <<>>
  <2>1. loop' = "reap" /\ UNCHANGED <<readyFiberQueue, runningFiber>>
    BY <1>4 DEF Dispatch, readyVars
  <2>2. LoopOK'
    BY <1>1, <1>4, <2>1 DEF SchedInv, LoopOK
  <2>3. UNCHANGED fiberVars
    BY <1>1, <2>1 DEF fiberVars, heapVars, readyVars, stateVars
  <2> QED
    BY <1>1, <1>2, <2>1, <2>2, <2>3, StillInv DEF SchedInv, OwnTypesOK, LoopStates
<1>5. CASE readyFiberQueue # <<>>
  <2> DEFINE f == Head(readyFiberQueue)
  <2>1. loop' = "fiber" /\ runningFiber' = f /\ readyFiberQueue' = Tail(readyFiberQueue)
    BY <1>5 DEF Dispatch
  <2>2. /\ f \in ReadySet /\ f \in fibers /\ f # NoFiber
        /\ readyFiberQueue' \in Seq(fibers) /\ IsInjective(readyFiberQueue')
        /\ ReadySet' = ReadySet \ {f}
    BY <1>3, <1>5, <2>1, HeadTailQueue DEF SchedInv, OwnTypesOK, QueuesOK, ReadySet
  <2> HIDE DEF f
  <2>3. /\ Waiters' = Waiters /\ DueSet' = DueSet /\ DeadSet' = DeadSet
        /\ Timers!Queued' = Timers!Queued
    BY <1>1, <1>3, <2>1, <2>2 DEF Waiters, DueSet, DeadSet, Timers!Queued
  <2>4. OwnTypesOK' /\ LoopOK'
    BY <1>1, <1>3, <2>1, <2>2 DEF SchedInv, OwnTypesOK, DueTimesOK, LoopStates, LoopOK
  <2>5. QueuesOK' /\ WaitsOK' /\ TimersOK'
    BY <1>1, <1>2, <2>1, <2>2, <2>3 DEF SchedInv, QueuesOK, WaitsOK, TimersOK
  <2>6. StatusOK' /\ FDsOK' /\ SleepersOK'
    BY <1>1, <1>2, <1>3 DEF SchedInv, StatusOK, FDsOK, SleepersOK
  <2>7. CountOK'
    BY <1>1, <2>1, <2>2 DEF SchedInv, CountOK, ExitsWithTheLastFiber
  <2> QED
    BY <1>2, <2>4, <2>5, <2>6, <2>7 DEF SchedInv
<1> QED
  BY <1>4, <1>5

LEMMA DestroyDeadInv == ASSUME SchedInv, DestroyDeadFibers PROVE SchedInv'
<1>1. /\ loop = "reap" /\ fibers' = fibers \ DeadSet
      /\ fiberCount' = fiberCount - Len(deadFiberQueue) /\ deadFiberQueue' = <<>>
      /\ loop' = IF deadFiberQueue # <<>> /\ fiberCount' = 0 THEN "exited" ELSE "poll"
      /\ UNCHANGED <<runningFiber, readyFiberQueue, context, status, fiberFD, dueTime, now,
                     deadline, buffer, failure, pollVars, phase>>
  BY DEF DestroyDeadFibers, DeadSet, UncountDead, ResetDeadQueue, readyVars, stateVars, timeVars,
         turnVars, pollVars
<1>2. /\ PollOK' /\ Awaiting' = Awaiting /\ \A x \in FD : Awaiters(x)' = Awaiters(x)
  BY <1>1, PollKept DEF SchedInv, AwaitersKept
<1>3. /\ runningFiber = NoFiber /\ NoFiber \notin fibers /\ readyFiberQueue = <<>>
      /\ buffer = <<>> /\ failure = "none" /\ phase = "idle" /\ ReadySet = {} /\ DueSet = {}
  BY <1>1, EmptyQueue, ConstantsAssumption DEF SchedInv, LoopOK, OwnTypesOK, ReadySet, DueSet
<1>4. /\ Waiters = fibers /\ Waiters' = fibers \ DeadSet /\ ReadySet' = {} /\ DueSet' = {}
      /\ DeadSet' = {} /\ DeadSet \subseteq fibers /\ Timers!Queued' = Timers!Queued
  BY <1>1, <1>3, EmptyQueue DEF SchedInv, QueuesOK, Waiters, ReadySet, DueSet, DeadSet, Timers!Queued
<1>5. /\ IsFiniteSet(fibers') /\ Cardinality(fibers') \in Nat
      /\ Cardinality(fibers') = Cardinality(fibers) - Cardinality(DeadSet)
      /\ Cardinality(fibers') = 0 <=> fibers' = {}
  <2>1. IsFiniteSet(fibers)
    BY DEF SchedInv, OwnTypesOK
  <2>2. /\ IsFiniteSet(fibers \ DeadSet)
        /\ Cardinality(fibers \ DeadSet) = Cardinality(fibers) - Cardinality(fibers \cap DeadSet)
    BY <2>1, FS_Difference
  <2>3. fibers \cap DeadSet = DeadSet
    BY <1>4
  <2> QED
    BY <1>1, <2>2, <2>3, FS_CardinalityType, FS_EmptySet
<1>6. Cardinality(DeadSet) = Len(deadFiberQueue)
  BY QueueLength DEF SchedInv, OwnTypesOK, QueuesOK, DeadSet
<1>7. fiberCount' = Cardinality(fibers')
  BY <1>1, <1>5, <1>6 DEF SchedInv, CountOK, ExitsWithTheLastFiber
<1>8. CountOK'
  <2>1. CASE deadFiberQueue = <<>>
    <3>1. DeadSet = {} /\ fibers # {}
      BY <1>1, <2>1, EmptyQueue DEF DeadSet, SchedInv, CountOK, ExitsWithTheLastFiber
    <3> QED
      BY <1>1, <1>7, <2>1, <3>1 DEF CountOK, ExitsWithTheLastFiber
  <2>2. CASE deadFiberQueue # <<>>
    BY <1>1, <1>5, <1>7, <2>2 DEF CountOK, ExitsWithTheLastFiber
  <2> QED
    BY <2>1, <2>2
<1>9. /\ readyFiberQueue' \in Seq(fibers') /\ deadFiberQueue' \in Seq(fibers')
      /\ buffer' \in Seq(fibers')
      /\ IsInjective(readyFiberQueue') /\ IsInjective(deadFiberQueue') /\ IsInjective(buffer')
  BY <1>1, <1>3, EmptyQueue
<1>10. OwnTypesOK' /\ LoopOK'
  BY <1>1, <1>3, <1>5, <1>9 DEF SchedInv, OwnTypesOK, DueTimesOK, LoopStates, LoopOK
<1>11. \A f \in fibers : context[f] = "none" <=> f \in DeadSet
  BY <1>4 DEF SchedInv, WaitsOK
<1>12. QueuesOK'
  <2>1. Awaiting \subseteq fibers \ DeadSet
    BY <1>4 DEF SchedInv, QueuesOK, WaitsOK
  <2> QED
    BY <1>2, <1>4, <1>9, <2>1 DEF QueuesOK
<1>13. WaitsOK' /\ TimersOK'
  BY <1>1, <1>2, <1>3, <1>4, <1>11 DEF SchedInv, WaitsOK, TimersOK
<1>14. StatusOK' /\ FDsOK' /\ SleepersOK'
  BY <1>1, <1>2 DEF SchedInv, StatusOK, FDsOK, SleepersOK
<1> QED
  BY <1>2, <1>8, <1>10, <1>12, <1>13, <1>14 DEF SchedInv

LEMMA RemoveDueInv == ASSUME SchedInv, RemoveDueItems PROVE SchedInv'
<1>1. PICK b \in Timers!DueBatches : buffer' = b /\ Timers!RemoveItems(ToSet(b))
  BY DEF RemoveDueItems
<1>2. /\ loop = "timers" /\ loop' = "due"
      /\ UNCHANGED <<fibers, fiberCount, deadFiberQueue, runningFiber, readyFiberQueue, context,
                     status, fiberFD, now, deadline, failure, pollVars, phase>>
  BY DEF RemoveDueItems, fiberVars, heapVars, readyVars, stateVars, pollVars
<1>3. failure = "none" /\ DueSet = {} /\ phase = "idle" /\ runningFiber = NoFiber
  BY <1>2, EmptyQueue DEF SchedInv, LoopOK, DueSet
<1>4. Timers!Queued = {f \in Waiters : context[f] \in {"sleep", "await"}}
  BY <1>3 DEF SchedInv, TimersOK
<1>5. IsFiniteSet(Timers!Queued)
  BY <1>4, FS_Subset DEF SchedInv, OwnTypesOK, Waiters
<1>6. /\ buffer' \in Seq(Timers!Queued) /\ IsInjective(buffer') /\ DueSet' \subseteq Timers!Queued
  BY <1>1, <1>5, DueBatchSets, InSeq DEF SchedInv, OwnTypesOK, DueSet
<1>7. buffer' \in Seq(fibers)
  BY <1>4, <1>6, SeqOfItsSet DEF DueSet, Waiters
<1>8. DueTimesOK' /\ Timers!Queued' = Timers!Queued \ DueSet'
  BY <1>1, RemoveItemsSets DEF SchedInv, OwnTypesOK, DueSet
<1>9. /\ PollOK' /\ Awaiting' = Awaiting /\ \A x \in FD : Awaiters(x)' = Awaiters(x)
  BY <1>2, PollKept DEF SchedInv, AwaitersKept
<1>10. /\ ReadySet' = ReadySet /\ Waiters' = Waiters /\ DeadSet' = DeadSet
  BY <1>2 DEF ReadySet, Waiters, DeadSet
<1>11. OwnTypesOK' /\ LoopOK'
  BY <1>2, <1>3, <1>7, <1>8 DEF SchedInv, OwnTypesOK, LoopStates, LoopOK
<1>12. QueuesOK' /\ WaitsOK' /\ TimersOK'
  BY <1>2, <1>4, <1>6, <1>8, <1>9, <1>10 DEF SchedInv, QueuesOK, WaitsOK, TimersOK
<1>13. StatusOK' /\ FDsOK' /\ SleepersOK' /\ CountOK'
  BY <1>2, <1>9 DEF SchedInv, StatusOK, FDsOK, SleepersOK, CountOK, ExitsWithTheLastFiber
<1> QED
  BY <1>9, <1>11, <1>12, <1>13 DEF SchedInv

LEMMA CreateInv ==
  ASSUME SchedInv, IsRunning, NEW f \in Fiber, CreateFiber(f),
         UNCHANGED <<runningFiber, timeVars, loopVars, pollVars>>
  PROVE  SchedInv'
<1>1. /\ deadFiberQueue = <<>> /\ deadFiberQueue' = <<>>
      /\ f \notin fibers /\ fibers' = fibers \cup {f}
      /\ context' = [context EXCEPT ![f] = "none"] /\ status' = [status EXCEPT ![f] = 0]
      /\ fiberFD' = [fiberFD EXCEPT ![f] = NoFD]
      /\ readyFiberQueue' = Append(readyFiberQueue, f) /\ fiberCount' = fiberCount + 1
      /\ UNCHANGED <<runningFiber, dueTime, now, loop, deadline, buffer, failure, pollVars, phase>>
  BY DEF CreateFiber, NewFiber, Enqueued, timeVars, loopVars, turnVars, pollVars
<1>2. /\ PollOK' /\ Awaiting' = Awaiting /\ \A x \in FD : Awaiters(x)' = Awaiters(x)
  BY <1>1, PollKept DEF SchedInv, AwaitersKept
<1>3. /\ runningFiber \in fibers /\ buffer = <<>> /\ DueSet = {} /\ DueSet' = {}
      /\ DeadSet = {} /\ DeadSet' = {} /\ ReadySet \subseteq fibers
      /\ Timers!Queued' = Timers!Queued /\ f \notin Awaiting
  BY <1>1, RunningFiber, EmptyQueue
     DEF SchedInv, DueSet, DeadSet, Timers!Queued, QueuesOK, Waiters
<1>4. readyFiberQueue \in Seq(fibers') /\ IsInjective(readyFiberQueue) /\ f \in fibers'
  BY <1>1, <1>3, SeqOfItsSet DEF SchedInv, OwnTypesOK, QueuesOK, ReadySet
<1>5. /\ readyFiberQueue' \in Seq(fibers') /\ IsInjective(readyFiberQueue')
      /\ ReadySet' = ReadySet \cup {f}
  BY <1>1, <1>3, <1>4, AppendQueue DEF ReadySet
<1>6. Waiters' = Waiters
  BY <1>1, <1>3, <1>5 DEF Waiters
<1>7. IsFiniteSet(fibers') /\ fiberCount' = Cardinality(fibers')
  BY <1>1, FS_AddElement DEF SchedInv, OwnTypesOK, CountOK, ExitsWithTheLastFiber
<1>8. OwnTypesOK' /\ LoopOK'
  BY <1>1, <1>3, <1>5, <1>7, EmptyQueue
     DEF SchedInv, OwnTypesOK, DueTimesOK, Contexts, LoopOK, IsRunning
<1>9. QueuesOK'
  BY <1>1, <1>2, <1>3, <1>5, <1>6 DEF SchedInv, QueuesOK
<1>10. WaitsOK' /\ TimersOK'
  <2>1. \A g \in Waiters : g # f /\ context'[g] = context[g]
    BY <1>1 DEF Waiters, SchedInv, OwnTypesOK
  <2> QED
    BY <1>1, <1>2, <1>3, <1>6, <2>1 DEF SchedInv, WaitsOK, TimersOK
<1>11. StatusOK' /\ SleepersOK'
  BY <1>1 DEF SchedInv, OwnTypesOK, StatusOK, SleepersOK
<1>12. FDsOK'
  <2>1. \A x \in FD : Awaiters(x) \subseteq Awaiting
    BY AwaitingIs
  <2> QED
    BY <1>1, <1>2, <1>3, <2>1 DEF SchedInv, OwnTypesOK, FDsOK
<1>13. CountOK'
  BY <1>1, <1>7 DEF IsRunning, CountOK, ExitsWithTheLastFiber
<1> QED
  BY <1>2, <1>8, <1>9, <1>10, <1>11, <1>12, <1>13 DEF SchedInv

-----------------------------------------------------------------------------
LEMMA SchedNext == ASSUME SchedInv, [Next]_vars PROVE SchedInv'
<1>1. CASE Switch
  <2>1. ASSUME NEW fd \in FD, NEW e \in Poll!Event, NEW d \in Durations, AwaitIOEvent(fd, e, d)
        PROVE  SchedInv'
    BY <2>1, AwaitInv
  <2> QED
    BY <1>1, <2>1, YieldInv, SleepInv, KillInv, SuspendInv DEF Switch
<1>2. CASE CallCoroutine
  BY <1>2, ReuseInv, CreateInv DEF CallCoroutine
<1>3. CASE \E fd \in FD : WatchIO(fd) \/ UnwatchIO(fd)
  BY <1>3, WatchInv, UnwatchInv
<1>4. CASE \E f \in Fiber : ResumeFiber(f)
  BY <1>4, ResumeInv
<1>5. CASE Loop
  BY <1>5, DispatchInv, DestroyDeadInv, StartWaitInv, PollStepInv, WakeAwaitersInv, RemoveDueInv,
     WakeDueInv, IdleInv DEF Loop
<1>6. CASE FinishWait \/ InterruptWait \/ Tick \/ Stopped \/ UNCHANGED vars
  BY <1>6, PollStepInv, IdleInv DEF Stopped
<1> QED
  BY <1>1, <1>2, <1>3, <1>4, <1>5, <1>6 DEF Next

LEMMA SchedAlways == Spec => []SchedInv
<1>1. SchedInv /\ [Next]_vars => SchedInv'
  BY SchedNext
<1> QED
  BY <1>1, InitSched, PTL DEF Spec

-----------------------------------------------------------------------------
(* What the invariant says of the properties the runs check.               *)

(* Every variable of the scheduler and the poller keeps its type.          *)
THEOREM SchedulerTypeCorrect == Spec => []TypeOK
<1>1. ASSUME SchedInv PROVE TypeOK
  <2>1. fiberCount \in Nat
    BY <1>1, FS_CardinalityType DEF SchedInv, OwnTypesOK, CountOK, ExitsWithTheLastFiber
  <2>2. Poll!TypeOK
    BY <1>1, PollView DEF SchedInv
  <2> QED
    BY <1>1, <2>1, <2>2 DEF SchedInv, OwnTypesOK, DueTimesOK, TypeOK
<1>2. SchedInv => TypeOK
  BY <1>1
<1> QED
  BY <1>2, SchedAlways, PTL

(* Closing, timeouts, events and the reuse of dead fibers never link the   *)
(* queue item of a fiber in two rings, or in one while it runs or sleeps.  *)
THEOREM LinkedOnceCorrect == Spec => []LinkedOnce
<1>1. ASSUME SchedInv PROVE LinkedOnce
  <2>1. /\ readyFiberQueue \in Seq(fibers) /\ deadFiberQueue \in Seq(fibers)
        /\ IsInjective(readyFiberQueue) /\ IsInjective(deadFiberQueue)
        /\ ReadySet \cap DeadSet = {}
        /\ ReadySet \subseteq fibers \ {runningFiber} /\ Waiters \subseteq fibers \ {runningFiber}
        /\ DeadSet \cup Awaiting \subseteq Waiters /\ Waiters \cap ReadySet = {}
    BY <1>1 DEF SchedInv, OwnTypesOK, QueuesOK, Waiters
  <2>2. Placed = ReadySet \cup DeadSet /\ IsInjective(readyFiberQueue \o deadFiberQueue)
    BY <2>1, ConcatQueue DEF Placed, ReadySet, DeadSet
  <2>3. Poll!AwaitersApart
    BY <1>1, PollView DEF SchedInv
  <2>4. \A f \in DeadSet \cup Awaiting : context[f] # "sleep"
    BY <1>1, <2>1 DEF SchedInv, WaitsOK
  <2>5. DeadSet \cap Awaiting = {}
    BY <1>1, <2>1 DEF SchedInv, WaitsOK
  <2>6. \A f \in ReadySet : ~Sleeping(f)
    BY <1>1, <2>1 DEF SchedInv, TimersOK, QueuesOK, Sleeping, DueSet
  <2> QED
    BY <2>1, <2>2, <2>3, <2>4, <2>5, <2>6 DEF LinkedOnce, Linked, Sleeping
<1>2. SchedInv => LinkedOnce
  BY <1>1
<1> QED
  BY <1>2, SchedAlways, PTL

(* Every allocated fiber runs, is linked in a ring, sleeps or is suspended *)
(* until resumeFiber: none drops out of all of them.                       *)
THEOREM NoFiberIsLostCorrect == Spec => []NoFiberIsLost
<1>1. ASSUME SchedInv, failure = "none", NEW f \in fibers, f # runningFiber
      PROVE  f \in Linked \/ Sleeping(f) \/ Suspended(f)
  <2>1. Placed = ReadySet \cup DeadSet
    BY <1>1, ConcatQueue DEF SchedInv, OwnTypesOK, Placed, ReadySet, DeadSet
  <2>2. CASE f \in ReadySet
    BY <2>1, <2>2 DEF Linked
  <2>3. CASE f \notin ReadySet
    <3>1. f \in Waiters /\ context[f] \in {"none", "sleep", "await", "suspend"}
      BY <1>1, <2>3 DEF SchedInv, OwnTypesOK, WaitsOK, Waiters, Contexts
    <3>2. context[f] = "sleep" => Sleeping(f)
      BY <1>1, <3>1 DEF SchedInv, TimersOK, Sleeping, DueSet
    <3>3. context[f] = "suspend" => Suspended(f)
      BY <1>1, <2>3 DEF Suspended, ReadySet
    <3>4. context[f] \in {"none", "await"} => f \in Linked
      BY <1>1, <2>1, <3>1 DEF SchedInv, WaitsOK, Linked
    <3> QED
      BY <3>1, <3>2, <3>3, <3>4
  <2> QED
    BY <2>2, <2>3
<1>2. SchedInv => NoFiberIsLost
  BY <1>1 DEF NoFiberIsLost
<1> QED
  BY <1>2, SchedAlways, PTL

(* The timer holds exactly the fibers that sleep or await an event and are *)
(* not yet woken, whatever ended their waits.                              *)
THEOREM TimersMatchWaitsCorrect == Spec => []TimersMatchWaits
<1>1. ASSUME SchedInv, failure = "none"
      PROVE  Timers!Queued = {f \in fibers :
                                /\ context[f] \in {"sleep", "await"} /\ f # runningFiber
                                /\ f \notin ToSet(readyFiberQueue \o deadFiberQueue \o buffer)}
  <2>1. ToSet(readyFiberQueue \o deadFiberQueue \o buffer) = ReadySet \cup DeadSet \cup DueSet
    <3>1. /\ readyFiberQueue \o deadFiberQueue \in Seq(fibers)
          /\ ToSet(readyFiberQueue \o deadFiberQueue) = ReadySet \cup DeadSet
      BY <1>1, ConcatQueue DEF SchedInv, OwnTypesOK, ReadySet, DeadSet
    <3> DEFINE q == readyFiberQueue \o deadFiberQueue
    <3>2. q \in Seq(fibers) /\ buffer \in Seq(fibers)
      BY <1>1, <3>1 DEF SchedInv, OwnTypesOK
    <3> HIDE DEF q
    <3>3. ToSet(q \o buffer) = ToSet(q) \cup ToSet(buffer)
      BY <3>2, ConcatQueue
    <3> QED
      BY <3>1, <3>3 DEF q, DueSet
  <2>2. Timers!Queued = {f \in Waiters \ DueSet : context[f] \in {"sleep", "await"}}
    BY <1>1 DEF SchedInv, TimersOK
  <2>3. \A f \in DeadSet : f \in Waiters /\ context[f] = "none"
    BY <1>1 DEF SchedInv, QueuesOK, WaitsOK
  <2> QED
    BY <2>1, <2>2, <2>3 DEF Waiters
<1>2. SchedInv => TimersMatchWaits
  BY <1>1 DEF TimersMatchWaits
<1> QED
  BY <1>2, SchedAlways, PTL

(* An awaiter whose time is up is still in a queue of the watcher that     *)
(* run() takes it out of.                                                  *)
THEOREM DueAwaitersAreLinkedCorrect == Spec => []DueAwaitersAreLinked
<1>1. ASSUME SchedInv, NEW f \in DueSet, context[f] = "await"
      PROVE  fiberFD[f] \in watchers /\ f \in Awaiters(fiberFD[f])
  <2>1. f \in Awaiting
    BY <1>1 DEF SchedInv, QueuesOK, WaitsOK
  <2>2. loop = "due"
    BY <1>1, EmptyQueue DEF SchedInv, LoopOK, DueSet
  <2> QED
    BY <1>1, <2>1, <2>2, DueAwaiter
<1>2. SchedInv => DueAwaitersAreLinked
  BY <1>1 DEF DueAwaitersAreLinked, DueSet, Awaiters
<1> QED
  BY <1>2, SchedAlways, PTL

(* assert(fiber->status != 0) in executeFiber holds for every ready fiber  *)
(* that is resumed, and one that starts anew has no context.               *)
THEOREM ReadyFibersCanRunCorrect == Spec => []ReadyFibersCanRun
<1>1. SchedInv => ReadyFibersCanRun
  BY DEF SchedInv, StatusOK, QueuesOK, ReadySet, ReadyFibersCanRun
<1> QED
  BY <1>1, SchedAlways, PTL

(* fiberCount_ counts the allocated fibers, and run() returns when the     *)
(* last of them ended.                                                     *)
THEOREM ExitsWithTheLastFiberCorrect == Spec => []ExitsWithTheLastFiber
<1>1. SchedInv => ExitsWithTheLastFiber
  BY DEF SchedInv, CountOK
<1> QED
  BY <1>1, SchedAlways, PTL

(* Where no fiber sleeps after it waited for a descriptor, the assertion   *)
(* of removeEventAwaiter holds: the failure run() can meet has no other    *)
(* cause.                                                                  *)
THEOREM AssertHoldsWithoutSleepers == ~SleepAfterIO /\ Spec => []AssertWatcherExists
<1>1. ~SleepAfterIO /\ SchedInv => AssertWatcherExists
  BY DEF SchedInv, SleepersOK, AssertWatcherExists
<1>2. CASE SleepAfterIO
  BY <1>2, PTL
<1>3. CASE ~SleepAfterIO
  <2>1. SchedInv => AssertWatcherExists
    BY <1>1, <1>3
  <2> QED
    BY <2>1, SchedAlways, PTL
<1> QED
  BY <1>2, <1>3

-----------------------------------------------------------------------------
(* The poller inside the scheduler.                                        *)

LEMMA PollerSteps ==
  ASSUME SchedInv, [Next]_vars
  PROVE  [Poll!Next]_Poll!vars
<1> USE DEF Poll!Next, pollVars, Poll!vars, Poll!watcherVars, Poll!waitVars
<1>1. CASE Switch
  <2>1. ASSUME NEW fd \in FD, NEW e \in Poll!Event, NEW d \in Durations, AwaitIOEvent(fd, e, d)
        PROVE  Poll!Next
    BY <2>1, RunningFiber DEF AwaitIOEvent
  <2>2. CASE YieldCurrentFiber \/ (\E d \in Durations : SleepCurrentFiber(d)) \/ KillCurrentFiber
             \/ SuspendCurrentFiber
    BY <2>2 DEF YieldCurrentFiber, SleepCurrentFiber, KillCurrentFiber, SuspendCurrentFiber
  <2> QED
    BY <1>1, <2>1, <2>2 DEF Switch
<1>2. CASE CallCoroutine \/ \E f \in Fiber : ResumeFiber(f)
  BY <1>2 DEF CallCoroutine, ResumeFiber
<1>3. CASE \E fd \in FD : WatchIO(fd) \/ UnwatchIO(fd)
  BY <1>3 DEF WatchIO, UnwatchIO
<1>4. CASE WakeDueFiber
  <2>1. PICK f \in fibers : f \in Fiber /\ (WakeSleeper(f) \/ TimeOutAwaiter(f) \/ FailToTimeOut(f))
    BY <1>4, DueFiber
  <2>2. CASE TimeOutAwaiter(f)
    <3>1. fiberFD[f] \in FD
      BY <2>2, PollView DEF SchedInv, Poll!TypeOK, TimeOutAwaiter
    <3>2. Poll!RemoveEventAwaiter(f, fiberFD[f])
      BY <2>2 DEF TimeOutAwaiter, LeaveWatcher
    <3> QED
      BY <2>1, <3>1, <3>2
  <2> QED
    BY <2>1, <2>2 DEF WakeSleeper, FailToTimeOut
<1>5. CASE Dispatch \/ DestroyDeadFibers \/ RemoveDueItems \/ EndOfTurn
  BY <1>5 DEF Dispatch, DestroyDeadFibers, RemoveDueItems, EndOfTurn
<1>6. CASE StartWait \/ WakeAwaiters \/ \E fd \in FD : HandleEvent(fd)
  BY <1>6 DEF StartWait, WakeAwaiters, HandleEvent
<1>7. CASE FinishWait \/ InterruptWait
  BY <1>7 DEF FinishWait, InterruptWait
<1>8. CASE Tick \/ Stopped \/ UNCHANGED vars
  BY <1>8 DEF Tick, Stopped, vars
<1> QED
  BY <1>1, <1>2, <1>3, <1>4, <1>5, <1>6, <1>7, <1>8 DEF Next, Loop

(* Every behaviour of the scheduler is one of IOPoll for its poller: the   *)
(* scheduler calls the poller in its phases, with descriptors and fibers   *)
(* IOPoll allows, so what is proved of IOPoll holds inside the scheduler.  *)
THEOREM DrivesThePoller == Spec => Poll!Spec
<1>1. Init => Poll!Init
  BY DEF Init
<1>2. SchedInv /\ [Next]_vars => [Poll!Next]_Poll!vars
  BY PollerSteps
<1> QED
  BY <1>1, <1>2, SchedAlways, PTL DEF Spec, Poll!Spec

-----------------------------------------------------------------------------
(* The life of a fiber.                                                    *)

LEMMA StateIs ==
  ASSUME SchedInv
  PROVE  \A f \in Fiber : State(f) = IF f \notin fibers THEN "free" ELSE
                                     IF f = runningFiber THEN "running" ELSE
                                     IF f \in ReadySet THEN "ready" ELSE
                                     IF f \in DeadSet THEN "dead" ELSE "blocked"
<1>1. /\ runningFiber \in Fiber => runningFiber \in fibers
      /\ ReadySet \subseteq fibers \ {runningFiber} /\ DeadSet \subseteq fibers \ {runningFiber}
      /\ ReadySet \cap DeadSet = {}
  BY ConstantsAssumption DEF SchedInv, OwnTypesOK, QueuesOK, Waiters
<1> QED
  BY <1>1 DEF State, ReadySet, DeadSet

LEMMA StateIsNext ==
  ASSUME SchedInv'
  PROVE  \A f \in Fiber : State(f)' = IF f \notin fibers' THEN "free" ELSE
                                      IF f = runningFiber' THEN "running" ELSE
                                      IF f \in ReadySet' THEN "ready" ELSE
                                      IF f \in DeadSet' THEN "dead" ELSE "blocked"
<1>1. /\ runningFiber' \in Fiber => runningFiber' \in fibers'
      /\ ReadySet' \subseteq fibers' \ {runningFiber'}
      /\ DeadSet' \subseteq fibers' \ {runningFiber'}
      /\ ReadySet' \cap DeadSet' = {}
  BY ConstantsAssumption DEF SchedInv, OwnTypesOK, QueuesOK, Waiters
<1> QED
  BY <1>1 DEF State, ReadySet, DeadSet

LifeStep == [Life!Next]_[f \in Fiber |-> State(f)]

(* The sets of FiberLife, and that no fiber is in two of them.             *)
LEMMA LifeSets ==
  ASSUME SchedInv
  PROVE  /\ fibers \subseteq Fiber
         /\ ReadySet \subseteq fibers \ {runningFiber} /\ DeadSet \subseteq Waiters
         /\ Life!In("running") = {runningFiber} \cap fibers
         /\ Life!In("ready") = ReadySet
         /\ Life!In("dead") = DeadSet
         /\ Life!In("blocked") = Waiters \ DeadSet
<1>1. /\ fibers \subseteq Fiber /\ ReadySet \subseteq fibers \ {runningFiber}
      /\ DeadSet \subseteq Waiters
  BY DEF SchedInv, OwnTypesOK, QueuesOK
<1>2. \A s : Life!In(s) = {f \in Fiber : State(f) = s}
  BY DEF Life!In
<1> QED
  BY <1>1, <1>2, StateIs DEF Waiters

LEMMA StandStill ==
  ASSUME SchedInv, SchedInv', UNCHANGED <<fibers, runningFiber>>, ReadySet' = ReadySet, DeadSet' = DeadSet
  PROVE  LifeStep
<1>1. \A f \in Fiber : State(f)' = State(f)
  BY StateIs, StateIsNext
<1> QED
  BY <1>1 DEF LifeStep

LEMMA LifeWakeStep ==
  ASSUME SchedInv, SchedInv', NEW W \in SUBSET (Waiters \ DeadSet), UNCHANGED <<fibers, runningFiber>>,
         ReadySet' = ReadySet \cup W, DeadSet' = DeadSet
  PROVE  LifeStep
<1>1. CASE W = {}
  BY <1>1, StandStill
<1>2. CASE W # {}
  <2>1. W \in (SUBSET Life!In("blocked")) \ {{}}
    BY <1>2, LifeSets
  <2>2. \A f \in Fiber : State(f)' = IF f \in W THEN "ready" ELSE State(f)
    BY StateIs, StateIsNext, LifeSets DEF Waiters
  <2>3. Life!Wake
    BY <2>1, <2>2 DEF Life!Wake
  <2> QED
    BY <2>3 DEF LifeStep, Life!Next
<1> QED
  BY <1>1, <1>2

(* The running fiber ends or blocks: it becomes s.                         *)
LEMMA LeaveStep ==
  ASSUME SchedInv, SchedInv', IsRunning, ExecuteNext(readyFiberQueue), UNCHANGED fibers,
         NEW s \in {"blocked", "dead"},
         DeadSet' = IF s = "dead" THEN DeadSet \cup {runningFiber} ELSE DeadSet
  PROVE  LifeStep
<1>1. PICK r \in Fiber : r = runningFiber
  BY RunningFiber
<1>2. /\ r \in fibers /\ r # NoFiber /\ r \notin ReadySet \cup DeadSet
      /\ readyFiberQueue \in Seq(fibers) /\ IsInjective(readyFiberQueue)
      /\ ToSet(readyFiberQueue) = ReadySet /\ NoFiber \notin Fiber
  BY <1>1, RunningFiber, ConstantsAssumption DEF ReadySet
<1>3. /\ State(r) = "running" /\ ReadySet \subseteq Fiber
      /\ Life!In("ready") = ReadySet /\ DeadSet \cap ReadySet = {}
  BY <1>1, <1>2, LifeSets, StateIs DEF Waiters
<1>4. CASE runningFiber' = NoFiber /\ ReadySet = {} /\ ReadySet' = {}
  <2>1. \A f \in Fiber : State(f)' = IF f = r THEN s ELSE State(f)
    BY <1>1, <1>2, <1>4, StateIs, StateIsNext
  <2>2. Life!Leave(r, s)
    BY <1>3, <1>4, <2>1 DEF Life!Leave
  <2> QED
    BY <2>2 DEF LifeStep, Life!Next
<1>5. ASSUME NEW g \in ReadySet, runningFiber' = g, ReadySet' = ReadySet \ {g} PROVE LifeStep
  <2>1. State(g)' = "running" /\ g # r
    <3>1. g \in Fiber /\ g \in fibers' /\ g # r
      BY <1>2, <1>5, LifeSets
    <3> QED
      BY <1>5, <3>1, StateIsNext
  <2>2. State(r)' = s
    BY <1>1, <1>2, <1>5, <2>1, StateIsNext
  <2>3. ASSUME NEW f \in Fiber, f # r, f # g PROVE State(f)' = State(f)
    BY <1>1, <1>2, <1>5, <2>3, StateIs, StateIsNext
  <2>4. Life!Leave(r, s)
    BY <1>3, <1>5, <2>1, <2>2, <2>3 DEF Life!Leave
  <2> QED
    BY <2>4 DEF LifeStep, Life!Next
<1> QED
  BY <1>2, <1>4, <1>5, ExecuteNextSets

LEMMA YieldStep ==
  ASSUME SchedInv, SchedInv', YieldCurrentFiber
  PROVE  LifeStep
<1>r. PICK r \in Fiber : r = runningFiber
  BY RunningFiber DEF YieldCurrentFiber
<1>g. PICK g : g = Head(readyFiberQueue)
  OBVIOUS
<1>1. r = runningFiber /\ g = Head(readyFiberQueue)
  BY <1>r, <1>g
<1>2. /\ r \in fibers /\ r # NoFiber /\ r \notin ReadySet \cup DeadSet
      /\ readyFiberQueue \in Seq(fibers) /\ readyFiberQueue # <<>>
      /\ ExecuteNext(Append(readyFiberQueue, r)) /\ UNCHANGED <<fibers, deadFiberQueue>>
  BY <1>1, RunningFiber DEF YieldCurrentFiber, heapVars, Enqueued
<1>3. /\ Append(readyFiberQueue, r) \in Seq(fibers) /\ Append(readyFiberQueue, r) # <<>>
      /\ ToSet(Append(readyFiberQueue, r)) = ReadySet \cup {r}
      /\ IsInjective(Append(readyFiberQueue, r))
  BY <1>2, RunningFiber, AppendQueue DEF ReadySet, YieldCurrentFiber
<1>4. g \in ReadySet /\ Head(Append(readyFiberQueue, r)) = g
  BY <1>1, <1>2, HeadTailQueue DEF ReadySet
<1>5. runningFiber' = g /\ ReadySet' = (ReadySet \cup {r}) \ {g} /\ DeadSet' = DeadSet
  BY <1>2, <1>3, <1>4, HeadTailQueue DEF ExecuteNext, ReadySet, DeadSet
<1>6. /\ State(r) = "running" /\ ReadySet \subseteq Fiber
      /\ Life!In("ready") = ReadySet /\ DeadSet \cap ReadySet = {}
  BY <1>1, <1>2, LifeSets, StateIs DEF Waiters
<1>7. State(g)' = "running" /\ g # r
  BY <1>2, <1>4, <1>5, <1>6, StateIsNext
<1>8. State(r)' = "ready"
  BY <1>2, <1>5, <1>7, StateIsNext
<1>9. ASSUME NEW f \in Fiber, f # r, f # g PROVE State(f)' = State(f)
  BY <1>1, <1>2, <1>5, <1>9, StateIs, StateIsNext
<1>10. Life!Yield(r)
  BY <1>4, <1>6, <1>7, <1>8, <1>9 DEF Life!Yield
<1> QED
  BY <1>10 DEF LifeStep, Life!Next

(* A dead fiber is used again, or, without one, a new one made.            *)
LEMMA CallStep ==
  ASSUME SchedInv, SchedInv', CallCoroutine
  PROVE  LifeStep
<1>1. /\ runningFiber \in fibers /\ fibers \subseteq Fiber /\ UNCHANGED runningFiber
      /\ readyFiberQueue \in Seq(fibers) /\ deadFiberQueue \in Seq(fibers)
      /\ IsInjective(deadFiberQueue)
      /\ ReadySet \subseteq fibers \ {runningFiber}
      /\ DeadSet \subseteq fibers \ ({runningFiber} \cup ReadySet)
  BY RunningFiber, LifeSets DEF CallCoroutine, Waiters
<1>2. Life!In("running") # {} /\ Life!In("dead") = DeadSet
  BY <1>1, LifeSets
<1>3. CASE ReuseFiber
  <2>0. PICK f : f = Head(deadFiberQueue)
    OBVIOUS
  <2>1. /\ f \in DeadSet /\ DeadSet' = DeadSet \ {f} /\ UNCHANGED fibers
        /\ readyFiberQueue' = Append(readyFiberQueue, f)
    BY <1>1, <1>3, <2>0, HeadTailQueue DEF ReuseFiber, DeadSet, Enqueued
  <2>2. ReadySet' = ReadySet \cup {f} /\ f \in Fiber
    BY <1>1, <2>1, AppendQueue DEF ReadySet
  <2>3. /\ State(f) = "dead" 
        /\ \A g \in Fiber : State(g)' = IF g = f THEN "ready" ELSE State(g)
    BY <1>1, <2>1, <2>2, StateIs, StateIsNext
  <2>4. Life!Call
    BY <1>2, <2>2, <2>3 DEF Life!Call
  <2> QED
    BY <2>4 DEF LifeStep, Life!Next
<1>4. ASSUME NEW f \in Fiber, CreateFiber(f) PROVE LifeStep
  <2>1. /\ f \notin fibers /\ fibers' = fibers \cup {f} /\ DeadSet = {} /\ DeadSet' = {}
        /\ readyFiberQueue' = Append(readyFiberQueue, f)
    BY <1>4, EmptyQueue DEF CreateFiber, NewFiber, DeadSet, Enqueued
  <2>2. readyFiberQueue \in Seq(fibers')
    BY <1>1, <2>1, SeqOfItsSet DEF ReadySet
  <2>3. ReadySet' = ReadySet \cup {f}
    BY <2>1, <2>2, AppendQueue DEF ReadySet
  <2>4. /\ State(f) = "free" 
        /\ \A g \in Fiber : State(g)' = IF g = f THEN "ready" ELSE State(g)
    BY <1>1, <2>1, <2>3, StateIs, StateIsNext
  <2>5. Life!Call
    BY <1>2, <2>1, <2>4 DEF Life!Call
  <2> QED
    BY <2>5 DEF LifeStep, Life!Next
<1> QED
  BY <1>3, <1>4 DEF CallCoroutine

LEMMA LifeDispatchStep ==
  ASSUME SchedInv, SchedInv', Dispatch
  PROVE  LifeStep
<1>1. /\ UNCHANGED <<fibers, deadFiberQueue>> /\ DeadSet' = DeadSet
      /\ runningFiber = NoFiber /\ NoFiber \notin Fiber
      /\ Life!In("running") = {}
  BY LifeSets, ConstantsAssumption DEF Dispatch, heapVars, DeadSet, SchedInv, LoopOK
<1>2. CASE readyFiberQueue = <<>>
  BY <1>1, <1>2, StandStill DEF Dispatch, readyVars, ReadySet
<1>3. CASE readyFiberQueue # <<>>
  <2>0. PICK f : f = Head(readyFiberQueue)
    OBVIOUS
  <2>1. /\ runningFiber' = f /\ f \in ReadySet /\ ReadySet' = ReadySet \ {f} /\ f \in Fiber
    BY <1>3, <2>0, HeadTailQueue, LifeSets DEF Dispatch, ReadySet, SchedInv, OwnTypesOK, QueuesOK
  <2>2. /\ State(f) = "ready" 
        /\ \A g \in Fiber : State(g)' = IF g = f THEN "running" ELSE State(g)
    BY <1>1, <2>1, LifeSets, StateIs, StateIsNext
  <2>3. Life!Run(f)
    BY <1>1, <2>1, <2>2 DEF Life!Run
  <2> QED
    BY <2>1, <2>3 DEF LifeStep, Life!Next
<1> QED
  BY <1>2, <1>3

LEMMA ReapStep ==
  ASSUME SchedInv, SchedInv', DestroyDeadFibers
  PROVE  LifeStep
<1>1. /\ fibers' = fibers \ DeadSet /\ DeadSet' = {} /\ runningFiber' = runningFiber
      /\ runningFiber = NoFiber /\ NoFiber \notin Fiber /\ ReadySet = {} /\ ReadySet' = {}
  BY EmptyQueue, ConstantsAssumption
     DEF DestroyDeadFibers, ResetDeadQueue, readyVars, ReadySet, DeadSet, SchedInv, LoopOK
<1>2. Life!In("running") = {} /\ Life!In("ready") = {}
  BY <1>1, LifeSets
<1>3. \A f \in Fiber : State(f)' = IF State(f) = "dead" THEN "free" ELSE State(f)
  BY <1>1, LifeSets, StateIs, StateIsNext DEF Waiters
<1>4. Life!Reap
  BY <1>2, <1>3 DEF Life!Reap
<1> QED
  BY <1>4 DEF LifeStep, Life!Next

LEMMA LifeSteps ==
  ASSUME SchedInv, SchedInv', [Next]_vars
  PROVE  LifeStep
<1>1. CASE Switch
  <2>1. CASE YieldCurrentFiber
    BY <2>1, YieldStep
  <2>2. CASE KillCurrentFiber
    <3>1. /\ IsRunning /\ ExecuteNext(readyFiberQueue) /\ UNCHANGED fibers
          /\ DeadSet' = DeadSet \cup {runningFiber}
      BY <2>2, RunningFiber, AppendQueue DEF KillCurrentFiber, DeadSet
    <3> QED
      BY <3>1, LeaveStep
  <2>3. CASE \/ \E d \in Durations : SleepCurrentFiber(d)
             \/ \E fd \in FD, e \in Poll!Event, d \in Durations : AwaitIOEvent(fd, e, d)
             \/ SuspendCurrentFiber
    <3>1. /\ IsRunning /\ ExecuteNext(readyFiberQueue) /\ UNCHANGED fibers
          /\ DeadSet' = DeadSet
      BY <2>3 DEF SleepCurrentFiber, AwaitIOEvent, SuspendCurrentFiber, heapVars, DeadSet
    <3> QED
      BY <3>1, LeaveStep
  <2> QED
    BY <1>1, <2>1, <2>2, <2>3 DEF Switch
<1>2. CASE CallCoroutine
  BY <1>2, CallStep
<1>3. CASE \E fd \in FD : WatchIO(fd)
  BY <1>3, StandStill DEF WatchIO, fiberVars, heapVars, readyVars, ReadySet, DeadSet
<1>4. ASSUME NEW fd \in FD, UnwatchIO(fd) PROVE LifeStep
  <2> DEFINE q == Poll!AwaitersOf(fd)
  <2>1. /\ q \in Seq(Fiber) /\ IsInjective(q) /\ ToSet(q) \subseteq Awaiting
        /\ Release(q) /\ UNCHANGED <<fibers, runningFiber, deadFiberQueue>>
    BY <1>4, PollView, AwaitingIs DEF SchedInv, Awaiters, UnwatchIO, heapVars
  <2> HIDE DEF q
  <2>2. ToSet(q) \in SUBSET (Waiters \ DeadSet) /\ ReadySet' = ReadySet \cup ToSet(q)
    BY <2>1, ReleaseSets
  <2> QED
    BY <2>1, <2>2, LifeWakeStep DEF DeadSet
<1>5. ASSUME NEW f \in Fiber, ResumeFiber(f) PROVE LifeStep
  <2>1. /\ UNCHANGED <<fibers, runningFiber, deadFiberQueue>>
        /\ readyFiberQueue' = Append(readyFiberQueue, f) /\ f \in fibers
        /\ f \in Waiters /\ context[f] = "suspend"
    BY <1>5 DEF ResumeFiber, Suspended, Enqueued, heapVars, Waiters, ReadySet
  <2>2. {f} \in SUBSET (Waiters \ DeadSet)
    BY <2>1 DEF SchedInv, WaitsOK
  <2>3. ReadySet' = ReadySet \cup {f}
    BY <2>1, AppendQueue DEF SchedInv, OwnTypesOK, ReadySet
  <2> QED
    BY <2>1, <2>2, <2>3, LifeWakeStep DEF DeadSet
<1>6. CASE WakeAwaiters
  <2>1. /\ eventAwaiterQueue \in Seq(Fiber) /\ IsInjective(eventAwaiterQueue)
        /\ ToSet(eventAwaiterQueue) \subseteq Awaiting
        /\ Release(eventAwaiterQueue) /\ UNCHANGED <<fibers, runningFiber, deadFiberQueue>>
    BY <1>6, PollView, AwaitingIs DEF SchedInv, WakeAwaiters, heapVars
  <2>2. /\ ToSet(eventAwaiterQueue) \in SUBSET (Waiters \ DeadSet)
        /\ ReadySet' = ReadySet \cup ToSet(eventAwaiterQueue)
    BY <2>1, ReleaseSets
  <2> QED
    BY <2>1, <2>2, LifeWakeStep DEF DeadSet
<1>7. CASE WakeDueFiber
  <2>1. PICK f \in fibers :
           /\ f \in Waiters /\ f \notin DeadSet
           /\ WakeSleeper(f) \/ TimeOutAwaiter(f) \/ FailToTimeOut(f)
           /\ UNCHANGED <<fibers, deadFiberQueue, runningFiber>>
    BY <1>7, DueFiber
  <2>2. CASE FailToTimeOut(f)
    BY <2>1, <2>2, StandStill DEF FailToTimeOut, ReadySet, DeadSet
  <2>3. CASE WakeSleeper(f) \/ TimeOutAwaiter(f)
    <3>1. ReadySet' = ReadySet \cup {f}
      BY <2>1, <2>3, PushHead DEF WakeSleeper, TimeOutAwaiter
    <3>2. {f} \in SUBSET (Waiters \ DeadSet)
      BY <2>1
    <3> QED
      BY <2>1, <3>1, <3>2, LifeWakeStep DEF DeadSet
  <2> QED
    BY <2>1, <2>2, <2>3
<1>8. CASE Dispatch \/ DestroyDeadFibers
  BY <1>8, LifeDispatchStep, ReapStep
<1>9. CASE \/ StartWait \/ (\E fd \in FD : HandleEvent(fd)) \/ RemoveDueItems \/ EndOfTurn
           \/ FinishWait \/ InterruptWait \/ Tick \/ Stopped \/ UNCHANGED vars
  <2>1. UNCHANGED <<fibers, runningFiber, readyFiberQueue, deadFiberQueue>>
    BY <1>9 DEF StartWait, HandleEvent, RemoveDueItems, EndOfTurn, FinishWait, InterruptWait, Tick,
                Stopped, vars, fiberVars, heapVars, readyVars
  <2> QED
    BY <2>1, StandStill DEF ReadySet, DeadSet
<1> QED
  BY <1>1, <1>2, <1>3, <1>4, <1>5, <1>6, <1>7, <1>8, <1>9 DEF Next, Loop

(* The scheduler implements FiberLife: one fiber runs at a time, a fiber   *)
(* that runs was ready, a wait ends at most once before its fiber runs     *)
(* again, a fiber that ended runs only a new coroutine, and dead fibers    *)
(* are freed only while none runs and none is ready.                       *)
THEOREM FibersLive == Spec => ImplementsFiberLife
<1>1. Init => Life!Init
  <2> SUFFICES ASSUME Init PROVE Life!Init
    OBVIOUS
  <2>1. PICK f \in Fiber : fibers = {f} /\ readyFiberQueue = <<f>> /\ runningFiber = NoFiber
    BY DEF Init
  <2>2. ReadySet = {f} /\ NoFiber \notin Fiber
    BY <2>1, OneInQueue, ConstantsAssumption DEF ReadySet
  <2>3. \A g \in Fiber : State(g) = IF g = f THEN "ready" ELSE "free"
    BY <2>1, <2>2, StateIs, InitSched
  <2> QED
    BY <2>3 DEF Life!Init
<1>2. SchedInv /\ SchedInv' /\ [Next]_vars => [Life!Next]_[f \in Fiber |-> State(f)]
  BY LifeSteps DEF LifeStep
<1> QED
  BY <1>1, <1>2, SchedAlways, PTL DEF Spec, ImplementsFiberLife, Life!Spec

=============================================================================
