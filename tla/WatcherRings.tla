---------------------------- MODULE WatcherRings ----------------------------
(***************************************************************************)
(* Source/IOPoll.cxx once more, as it is in memory: watchers are blocks of *)
(* the pool, found through the vector watchers_; their queues, the dirty   *)
(* queue and the queue of the caller are rings of pointers (module Queue); *)
(* the kernel keeps the address of a watcher with each descriptor.  Module *)
(* IOPoll, where a descriptor stands for its watcher and a ring is a       *)
(* sequence or a set, is what this module implements.                      *)
(*                                                                         *)
(* Items that leave the rings of this module, and blocks that are freed,   *)
(* become Loose, so that a pointer that outlives them shows.  The pool may *)
(* hand out any block that is not in use (module MemoryPool).              *)
(***************************************************************************)
EXTENDS Queue, Naturals

CONSTANTS
  FD, Awaiter, MaxEvents,     \* as in IOPoll; descriptors are numbers
  Block,                      \* the blocks of watcherMemoryPool_
  Null,                       \* nullptr
  Dirty,                      \* the head dirtyWatcherQueue_
  Released                    \* the head of the caller's queue

(* The powers of two, as far as integers of 32 bits go.  The system gives  *)
(* out no descriptor beyond fs.nr_open, 2 ^ 20 unless it was raised.       *)
Power[k \in 0..30] == IF k = 0 THEN 1 ELSE 2 * Power[k - 1]

Event == {"Readability", "Writability"}

(* The QUEUEs inside a watcher.                                            *)
ItemOf(b) == <<b, "queueItem">>
QueueOf(b, e) == <<b, e>>
Queues(b) == {ItemOf(b)} \cup {QueueOf(b, e) : e \in Event}

QueueNode == Awaiter \cup {Dirty, Released} \cup UNION {Queues(b) : b \in Block}

ASSUME DescriptorAssumption ==
  /\ FD \subseteq Nat /\ \A n \in FD : n < Power[30]
  /\ MaxEvents \in Nat \ {0}

ASSUME MemoryAssumption ==
  /\ IsFiniteSet(Awaiter) /\ IsFiniteSet(Block) /\ Null \notin Block \cup FD
  /\ Dirty # Released /\ {Dirty, Released} \cap Awaiter = {}
  /\ \A b \in Block : Queues(b) \cap (Awaiter \cup {Dirty, Released}) = {}
  /\ Loose \notin QueueNode

VARIABLES
  watchers,             \* watchers_: descriptor -> block or Null
  inUse,                \* the blocks in use
  fd,                   \* IOWatcher::fd
  eventFlags,           \* IOWatcher::eventFlags
  pendingEventFlags,    \* IOWatcher::pendingEventFlags
  pointers,             \* those of every QUEUE
  interest, dataPtr,    \* kernel: the events and the data.ptr of a descriptor
  phase, revents, aborted,
  poll                  \* history: what IOPoll keeps of all this (PollView)

tableVars == <<watchers, inUse, fd>>
queueVars == <<pointers, pendingEventFlags>>
kernelVars == <<interest, dataPtr, aborted>>
waitVars == <<phase, revents>>
watcherVars == <<tableVars, queueVars, eventFlags, kernelVars, waitVars, poll>>

WatcherAt(table, n) ==
  IF n \in DOMAIN table /\ table[n] # Null THEN {table[n]} ELSE {}

WatcherOf(n) == WatcherAt(watchers, n)

DirtyIn(l) == {q[1] : q \in ToSet(QUEUE_FOREACH(l, Dirty))}
DirtyBlocks == DirtyIn(pointers)

(* The variables of IOPoll, read off the memory.  They are computed once a *)
(* step, into poll, and the refinement looks them up there.                *)
PollView(table, flags, pending, l) ==
  [watchers |-> {n \in FD : WatcherAt(table, n) # {}},
   eventFlags |-> [n \in FD |-> UNION {flags[b] : b \in WatcherAt(table, n)}],
   pending |-> [n \in FD |-> UNION {pending[b] : b \in WatcherAt(table, n)}],
   queues |-> [n \in FD |-> [e \in Event |->
                 IF WatcherAt(table, n) = {} THEN <<>>
                 ELSE QUEUE_FOREACH(l, QueueOf(table[n], e))]],
   dirty |-> {n \in FD : WatcherAt(table, n) \cap DirtyIn(l) # {}},
   released |-> QUEUE_FOREACH(l, Released)]

Poll == INSTANCE IOPoll WITH
  watchers <- poll.watchers, eventFlags <- poll.eventFlags,
  pendingEventFlags <- poll.pending, eventAwaiterQueues <- poll.queues,
  dirtyWatcherQueue <- poll.dirty, eventAwaiterQueue <- poll.released

WatcherInit ==
  /\ watchers = <<>> /\ inUse = {}
  /\ fd = [b \in Block |-> Null]
  /\ eventFlags = [b \in Block |-> {}] /\ pendingEventFlags = [b \in Block |-> {}]
  /\ pointers = LET own == [q \in QueueNode |-> IF q \in {Dirty, Released} THEN q ELSE Loose]
                IN  [next |-> own, prev |-> own]
  /\ interest = [n \in FD |-> {}] /\ dataPtr = [n \in FD |-> Null]
  /\ phase = "idle" /\ revents = Poll!NothingReported /\ aborted = FALSE
  /\ poll = PollView(watchers, eventFlags, pendingEventFlags, pointers)

-----------------------------------------------------------------------------
(* What NextPowerOfTwo makes by setting all bits below the highest one of  *)
(* number - 1: the least power of two that is not less than number.        *)
NextPowerOfTwo(number) ==
  Power[CHOOSE k \in 0..30 : number <= Power[k] /\ (k = 0 \/ Power[k - 1] < number)]

Size == Cardinality(DOMAIN watchers)

Resized(n) ==
  IF n < Size THEN watchers
  ELSE [i \in 0..(NextPowerOfTwo(n + 1) - 1) |-> IF i < Size THEN watchers[i] ELSE Null]

MarkDirty(l, b) ==
  IF QUEUE_EMPTY(l, ItemOf(b)) THEN QUEUE_INSERT_TAIL(l, Dirty, ItemOf(b)) ELSE l

(* Is the queue empty that q has left?  The pointers in q tell.  Wrong:    *)
(* only one of them is looked at.                                          *)
EmptiedNext(l, q, b) == l.next[q] \in Queues(b)
EmptiedBy(l, q, b) == l.next[q] = l.prev[q]

(* removeEventAwaiter and removeEventAwaiters, from the state s of the     *)
(* rings and flags to the state after.                                     *)
RemoveAwaiter(s, q, b) ==
  LET l == QUEUE_REMOVE(s.links, q) IN
  IF EmptiedBy(l, q, b)
    THEN [links |-> MarkDirty(l, b),
          pending |-> [s.pending EXCEPT ![b] = @ \ {l.next[q][2]}]]
    ELSE [s EXCEPT !.links = l]

Move(l, h) ==
  IF QUEUE_EMPTY(l, h) THEN l ELSE QUEUE_INIT(QUEUE_ADD(l, Released, h), h)

RemoveAwaiters(s, b) ==
  IF s.pending[b] = {} THEN s
  ELSE LET l == Move(Move(s.links, QueueOf(b, "Readability")), QueueOf(b, "Writability"))
       IN  [links |-> MarkDirty(l, b), pending |-> [s.pending EXCEPT ![b] = {}]]

Current == [links |-> pointers, pending |-> pendingEventFlags]

Become(s) == pointers' = s.links /\ pendingEventFlags' = s.pending

(* Each node of S is initialised.                                          *)
Initialised(l, S) ==
  [next |-> [q \in QueueNode |-> IF q \in S THEN q ELSE l.next[q]],
   prev |-> [q \in QueueNode |-> IF q \in S THEN q ELSE l.prev[q]]]

(* What may be known of the nodes of S later: nothing.                     *)
Forgotten(l, S) ==
  [next |-> [q \in QueueNode |-> IF q \in S THEN Loose ELSE l.next[q]],
   prev |-> [q \in QueueNode |-> IF q \in S THEN Loose ELSE l.prev[q]]]

(* The caller has taken over its queue.                                    *)
HandOver(l) == Forgotten(QUEUE_INIT(l, Released), ToSet(QUEUE_FOREACH(l, Released)))

(* A watcher that is in the dirty queue leaves it.                         *)
LeaveDirtyQueue(l, b) ==
  IF QUEUE_EMPTY(l, ItemOf(b)) THEN l ELSE QUEUE_REMOVE(l, ItemOf(b))

(* EPOLL_CTL_DEL, if the kernel was told.  Wrong: left to close().         *)
UnregisterNever(n, b) == UNCHANGED kernelVars
Unregister(n, b) ==
  IF eventFlags[b] = {} THEN UNCHANGED kernelVars
  ELSE /\ aborted' = (interest[n] = {})
       /\ interest' = [interest EXCEPT ![n] = {}]
       /\ dataPtr' = [dataPtr EXCEPT ![n] = Null]

(* The items of the dirty queue and its head are initialised again.        *)
Cleaned(l) == Initialised(l, ToSet(QUEUE_FOREACH(l, Dirty)) \cup {Dirty})

-----------------------------------------------------------------------------
Ready == phase = "idle" /\ ~aborted

CreateWatcher(n) ==
  /\ Ready /\ WatcherOf(n) = {}
  /\ \E b \in Block \ inUse :
       /\ inUse' = inUse \cup {b}
       /\ watchers' = [Resized(n) EXCEPT ![n] = b]
       /\ fd' = [fd EXCEPT ![b] = n]
       /\ eventFlags' = [eventFlags EXCEPT ![b] = {}]
       /\ Become([links |-> Initialised(pointers, Queues(b)),
                  pending |-> [pendingEventFlags EXCEPT ![b] = {}]])
  /\ UNCHANGED <<kernelVars, waitVars>>

(* With the removeEventAwaiters unwatchIO makes before.                    *)
DestroyWatcher(n) ==
  /\ Ready
  /\ \E b \in WatcherOf(n) :
       LET s == RemoveAwaiters(Current, b) IN
       /\ watchers' = [watchers EXCEPT ![n] = Null]
       /\ pointers' = Forgotten(LeaveDirtyQueue(HandOver(s.links), b), Queues(b))
       /\ Unregister(n, b)
       /\ inUse' = inUse \ {b}
       /\ fd' = [fd EXCEPT ![b] = Null]
       /\ eventFlags' = [eventFlags EXCEPT ![b] = {}]
       /\ pendingEventFlags' = s.pending
  /\ UNCHANGED waitVars

AddEventAwaiter(a, n, e) ==
  /\ Ready
  /\ pointers.next[a] = Loose
  /\ \E b \in WatcherOf(n) :
       LET l == QUEUE_INSERT_TAIL(pointers, QueueOf(b, e), a) IN
       IF e \in pendingEventFlags[b] THEN Become([Current EXCEPT !.links = l])
       ELSE Become([links |-> MarkDirty(l, b),
                    pending |-> [pendingEventFlags EXCEPT ![b] = @ \cup {e}]])
  /\ UNCHANGED <<tableVars, eventFlags, kernelVars, waitVars>>

RemoveEventAwaiter(a, n) ==
  /\ Ready
  /\ \E b \in WatcherOf(n) :
       /\ \E e \in Event : a \in ToSet(QUEUE_FOREACH(pointers, QueueOf(b, e)))
       /\ LET s == RemoveAwaiter(Current, a, b)
          IN  Become([s EXCEPT !.links = Forgotten(@, {a})])
  /\ UNCHANGED <<tableVars, eventFlags, kernelVars, waitVars>>

-----------------------------------------------------------------------------
(* The loop of waitForEvents over the dirty queue.                         *)
FlushDirtyWatchers ==
  LET changed == {b \in DirtyBlocks : eventFlags[b] # pendingEventFlags[b]}
      told(n) == {b \in changed : fd[b] = n}
  IN
  /\ Ready /\ phase' = "waiting"
  /\ pointers' = Cleaned(pointers)
  /\ eventFlags' = [b \in Block |-> IF b \in changed THEN pendingEventFlags[b]
                                                     ELSE eventFlags[b]]
  /\ interest' = [n \in FD |-> IF told(n) = {} THEN interest[n]
                               ELSE UNION {pendingEventFlags[b] : b \in told(n)}]
  /\ dataPtr' = [n \in FD |->
                   IF told(n) = {} THEN dataPtr[n]
                   ELSE IF interest'[n] = {} THEN Null ELSE CHOOSE b \in told(n) : TRUE]
  /\ aborted' = (\E b \in changed : (eventFlags[b] = {}) # (interest[fd[b]] = {}))
  /\ UNCHANGED <<tableVars, pendingEventFlags, revents>>

EpollWait ==
  /\ phase = "waiting" /\ ~aborted
  /\ \/ phase' = "handling" /\ revents' \in Poll!Reports
     \/ phase' = "idle" /\ UNCHANGED revents        \* EINTR
  /\ UNCHANGED <<tableVars, queueVars, eventFlags, kernelVars>>

(* The watcher is the one the kernel has the address of.                   *)
Handle(n, s) ==
  /\ phase = "handling"
  /\ Become(s)
  /\ revents' = [revents EXCEPT ![n] = {}]
  /\ UNCHANGED <<tableVars, eventFlags, kernelVars, phase>>

HandleError(n) ==
  "Error" \in revents[n] /\ Handle(n, RemoveAwaiters(Current, dataPtr[n]))

(* The first awaiter for e goes to the caller.                             *)
Release(s, n, e) ==
  LET q == QUEUE_HEAD(s.links, QueueOf(dataPtr[n], e))
      r == RemoveAwaiter(s, q, dataPtr[n])
  IN  IF e \in revents[n] THEN [r EXCEPT !.links = QUEUE_INSERT_TAIL(@, Released, q)] ELSE s

HandleReadiness(n) ==
  /\ revents[n] # {} /\ "Error" \notin revents[n]
  /\ Handle(n, Release(Release(Current, n, "Readability"), n, "Writability"))

EndWait ==
  /\ phase = "handling" /\ revents = Poll!NothingReported /\ phase' = "idle"
  /\ pointers' = HandOver(pointers)
  /\ UNCHANGED <<tableVars, pendingEventFlags, eventFlags, kernelVars, revents>>

Step ==
  \/ \E n \in FD : \/ CreateWatcher(n) \/ DestroyWatcher(n)
                   \/ HandleError(n) \/ HandleReadiness(n)
                   \/ \E a \in Awaiter : \/ \E e \in Event : AddEventAwaiter(a, n, e)
                                         \/ RemoveEventAwaiter(a, n)
  \/ FlushDirtyWatchers \/ EpollWait \/ EndWait

WatcherNext == Step /\ poll' = PollView(watchers', eventFlags', pendingEventFlags', pointers')

WatcherSpec == WatcherInit /\ [][WatcherNext]_watcherVars

-----------------------------------------------------------------------------
(* Properties.                                                             *)

(* The vector has a power of two places.                                   *)
WatcherTypeOK ==
  /\ Size = 0 \/ \E k \in 0..30 : Size = Power[k]
  /\ DOMAIN watchers = IF Size = 0 THEN {} ELSE 0..(Size - 1)
  /\ \A i \in DOMAIN watchers : watchers[i] \in Block \cup {Null}
  /\ inUse \subseteq Block
  /\ fd \in [Block -> FD \cup {Null}]
  /\ eventFlags \in [Block -> SUBSET Event]
  /\ pendingEventFlags \in [Block -> SUBSET Event]
  /\ pointers \in [next : [QueueNode -> QueueNode \cup {Loose}],
                   prev : [QueueNode -> QueueNode \cup {Loose}]]

(* No address of a watcher outlives it: every block in use is the watcher  *)
(* of one descriptor, no place of the vector, no link of the dirty queue   *)
(* and no registration in the kernel leads to another block, and so none   *)
(* to a block that was given to another descriptor meanwhile.  The vector  *)
(* has a power of two places and keeps what it holds when it grows.        *)
WatchersAreLive ==
  /\ WatcherTypeOK
  /\ \A b \in inUse : fd[b] \in DOMAIN watchers /\ watchers[fd[b]] = b
  /\ \A i \in DOMAIN watchers : watchers[i] # Null => watchers[i] \in inUse
  /\ DirtyBlocks \subseteq inUse
  /\ \A n \in FD : ~aborted => IF interest[n] = {} THEN dataPtr[n] = Null
                                                   ELSE WatcherOf(n) = {dataPtr[n]}

(* The poller in memory implements module IOPoll, on which Scheduler and   *)
(* the modules above it rest.                                              *)
ImplementsIOPoll == Poll!Spec

=============================================================================
