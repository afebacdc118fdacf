----------------------------- MODULE TimerQueue -----------------------------
(***************************************************************************)
(* What Source/Timer.cxx promises: items are queued with a due time, the   *)
(* due ones come out in the order of their times, and the timeout given to *)
(* epoll_wait is the time left until the earliest.  How the heap orders    *)
(* items of equal times is not promised.                                   *)
(***************************************************************************)
EXTENDS Integers, FiniteSets, SequencesExt

CONSTANTS
  Item,
  Durations,      \* durations in use; negative: forever
  BufferLength,   \* length of the buffer given to removeDueItems
  Never,          \* UINT64_MAX, the due time of "forever"
  MaxTime         \* the clock stops here: bound of the model

VARIABLES
  dueTime,        \* due time of each item, NotQueued if it is not queued
  now,            \* GetTime()
  buffer          \* the items the last removeDueItems put out

NotQueued == -1

Queued == {i \in Item : dueTime[i] # NotQueued}

Init == dueTime = [i \in Item |-> NotQueued] /\ now = 0 /\ buffer = <<>>

(* Timer::addItem.                                                         *)
DueTime(duration) == IF duration >= 0 THEN now + duration ELSE Never

AddItem(i, duration) == dueTime' = [dueTime EXCEPT ![i] = DueTime(duration)]

(* Timer::removeItem, for a set of items.                                  *)
RemoveItems(S) ==
  dueTime' = [i \in Item |-> IF i \in S THEN NotQueued ELSE dueTime[i]]

(* What removeDueItems may put in its buffer: the earliest due items, in   *)
(* the order of their times, as many as there are or fit.                  *)
DueBatches ==
  LET due == {i \in Queued : dueTime[i] <= now}
      n == IF Cardinality(due) < BufferLength THEN Cardinality(due) ELSE BufferLength
  IN {b \in [1..n -> due] :
        /\ \A j, k \in 1..n : j < k => b[j] # b[k] /\ dueTime[b[j]] <= dueTime[b[k]]
        /\ \A k \in 1..n, i \in due \ ToSet(b) : dueTime[b[k]] <= dueTime[i]}

RemoveDueItems(b) ==
  b \in DueBatches /\ RemoveItems(ToSet(b)) /\ buffer' = b /\ UNCHANGED now

(* Wrong: an item that is due already is not counted.                      *)
TimeoutAtFuture ==
  LET future == {i \in Queued : now < dueTime[i] /\ dueTime[i] < Never} IN
  IF future = {}
    THEN Never
    ELSE dueTime[CHOOSE i \in future : \A j \in future : dueTime[i] <= dueTime[j]]

(* now + calculateTimeout(), Never for its -1.                             *)
TimeoutAt ==
  IF \A i \in Queued : dueTime[i] = Never
    THEN Never
    ELSE LET due == dueTime[CHOOSE i \in Queued : \A j \in Queued : dueTime[i] <= dueTime[j]]
         IN IF due > now THEN due ELSE now

(* The callers add an item only when it is not queued, and remove it only  *)
(* when it is.                                                             *)
Add(i, duration) ==
  i \notin Queued /\ AddItem(i, duration) /\ buffer' = <<>> /\ UNCHANGED now

Cancel(i) == i \in Queued /\ RemoveItems({i}) /\ buffer' = <<>> /\ UNCHANGED now

Tick == now < MaxTime /\ now' = now + 1 /\ UNCHANGED <<dueTime, buffer>>

Next ==
  \/ \E i \in Item : Cancel(i) \/ \E d \in Durations : Add(i, d)
  \/ \E b \in DueBatches : RemoveDueItems(b)
  \/ Tick

Spec == Init /\ [][Next]_<<dueTime, now, buffer>>
=============================================================================
