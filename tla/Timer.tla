-------------------------------- MODULE Timer --------------------------------
(***************************************************************************)
(* Source/Timer.cxx on the heap of Source/libuv/heap-inl.h: a binary tree  *)
(* of nodes linked by pointers.  The tree is complete: the node at         *)
(* position n (1 for the root, 2n and 2n+1 below n) is found by following  *)
(* the binary digits of n.                                                 *)
(*                                                                         *)
(* Every call runs to its end before another starts, so a call is one      *)
(* step.  The pointers of a node that leaves the heap are reset here;      *)
(* heap_insert sets them before anything reads them.                       *)
(***************************************************************************)
EXTENDS Integers, FiniteSets, SequencesExt, Loops

CONSTANTS
  Item,           \* the timer items (of fibers)
  Null,
  Durations,      \* durations in use; negative: forever
  BufferLength,   \* length of the buffer given to removeDueItems
  Never,          \* UINT64_MAX, the due time of "forever"
  MaxTime         \* the clock stops here: bound of the model

ASSUME TimerAssumption ==
  /\ Null \notin Item
  /\ Durations \subseteq Int /\ BufferLength \in Nat \ {0}
  /\ MaxTime \in Nat /\ Never \in Nat
  /\ \A d \in Durations : MaxTime + d < Never

VARIABLES
  left, right, parent,   \* heap_node
  min, nelts,            \* heap
  dueTime,               \* TimerItem::dueTime
  now,                   \* GetTime()
  buffer                 \* the items the last removeDueItems put out

heapVars == <<left, right, parent, min, nelts>>
vars == <<heapVars, dueTime, now, buffer>>

Heap == [left |-> left, right |-> right, parent |-> parent, min |-> min, nelts |-> nelts]

SetHeap(h) ==
  /\ left' = h.left /\ right' = h.right /\ parent' = h.parent
  /\ min' = h.min /\ nelts' = h.nelts

Links == [Item -> Item \cup {Null}]

TypeOK ==
  /\ left \in Links /\ right \in Links /\ parent \in Links
  /\ min \in Item \cup {Null}
  /\ nelts \in Nat
  /\ dueTime \in [Item -> Nat]
  /\ now \in 0..MaxTime
  /\ buffer \in Seq(Item)

Init ==
  /\ left = [i \in Item |-> Null]
  /\ right = [i \in Item |-> Null]
  /\ parent = [i \in Item |-> Null]
  /\ min = Null
  /\ nelts = 0
  /\ dueTime = [i \in Item |-> 0]
  /\ now = 0
  /\ buffer = <<>>

-----------------------------------------------------------------------------
(* heap-inl.h.                                                             *)

(* heap_compare, with the due times as they are during the call.           *)
Earlier(due, a, b) == due[a] < due[b]

(* The node at position n, reached by the path heap_insert and heap_remove *)
(* compute.                                                                *)
At(h, n) ==
  LET at[k \in 1..n] == IF k = 1 THEN h.min
                        ELSE IF k % 2 = 1 THEN h.right[at[k \div 2]]
                                          ELSE h.left[at[k \div 2]]
  IN at[n]

(* The pointer to position n is set to x.                                  *)
SetAt(h, n, x) ==
  IF n = 1 THEN [h EXCEPT !.min = x]
  ELSE IF n % 2 = 1 THEN [h EXCEPT !.right[At(h, n \div 2)] = x]
                    ELSE [h EXCEPT !.left[At(h, n \div 2)] = x]

Children(h, p) == {h.left[p], h.right[p]}

(* heap_node_swap: child c takes the place of its parent p.                *)
Swap(h, p, c) ==
  LET g == h.parent[p] IN
  [left   |-> [x \in Item |->
                 IF x = p THEN h.left[c]
                 ELSE IF x = c THEN IF h.left[p] = c THEN p ELSE h.left[p]
                 ELSE IF x = g /\ h.left[g] = p THEN c ELSE h.left[x]],
   right  |-> [x \in Item |->
                 IF x = p THEN h.right[c]
                 ELSE IF x = c THEN IF h.left[p] = c THEN h.right[p] ELSE p
                 ELSE IF x = g /\ h.left[g] # p THEN c ELSE h.right[x]],
   parent |-> [x \in Item |->
                 IF x = p THEN c
                 ELSE IF x = c THEN g
                 ELSE IF x \in Children(h, c) THEN p
                 ELSE IF x \in Children(h, p) THEN c ELSE h.parent[x]],
   min    |-> IF g = Null THEN c ELSE h.min,
   nelts  |-> h.nelts]

(* The two loops that move x up and down: there are not more rows in the   *)
(* tree than nodes.                                                        *)
MoveUp(h, due, x) ==
  LET p == h.parent[x] IN IF p # Null /\ Earlier(due, x, p) THEN Swap(h, p, x) ELSE h

SiftUp(h, due, x) == Repeat(LAMBDA g : MoveUp(g, due, x), h, h.nelts)

(* Wrong: only the left child is looked at.                                *)
SmallestLeft(h, due, x) ==
  LET l == h.left[x] IN IF l # Null /\ Earlier(due, l, x) THEN l ELSE x

Smallest(h, due, x) ==
  LET l == h.left[x]
      r == h.right[x]
      s == IF l # Null /\ Earlier(due, l, x) THEN l ELSE x
  IN IF r # Null /\ Earlier(due, r, s) THEN r ELSE s

MoveDown(h, due, x) ==
  LET s == Smallest(h, due, x) IN IF s = x THEN h ELSE Swap(h, x, s)

SiftDown(h, due, x) == Repeat(LAMBDA g : MoveDown(g, due, x), h, h.nelts)

InsertNode(h, due, x) ==
  LET n == h.nelts + 1
      p == IF n = 1 THEN Null ELSE At(h, n \div 2)
      blank == [h EXCEPT !.left[x] = Null, !.right[x] = Null, !.parent[x] = p,
                         !.nelts = n]
  IN SiftUp(SetAt(blank, n, x), due, x)

(* Node m, which is in no place, takes the place of x.                     *)
TakePlace(h, x, m) ==
  LET g == h.parent[x] IN
  [left   |-> [y \in Item |-> IF y = m THEN h.left[x]
                              ELSE IF y = x THEN Null
                              ELSE IF y = g /\ h.left[g] = x THEN m ELSE h.left[y]],
   right  |-> [y \in Item |-> IF y = m THEN h.right[x]
                              ELSE IF y = x THEN Null
                              ELSE IF y = g /\ h.left[g] # x THEN m ELSE h.right[y]],
   parent |-> [y \in Item |-> IF y = m THEN g
                              ELSE IF y = x THEN Null
                              ELSE IF y \in Children(h, x) THEN m ELSE h.parent[y]],
   min    |-> IF g = Null THEN m ELSE h.min,
   nelts  |-> h.nelts]

(* The node that took a place moves down or up.  Wrong: only down.         *)
SettleDown(h, due, x) == SiftDown(h, due, x)
Settle(h, due, x) == SiftUp(SiftDown(h, due, x), due, x)

(* heap_remove: the last node takes the place of x, then moves down or up. *)
RemoveNode(h, due, x) ==
  LET m == At(h, h.nelts)
      unlinked == [SetAt(h, h.nelts, Null) EXCEPT !.nelts = @ - 1]
  IN IF m = x THEN [unlinked EXCEPT !.parent[x] = Null]
     ELSE Settle(TakePlace(unlinked, x, m), due, m)

-----------------------------------------------------------------------------
(* Timer.cxx.                                                              *)

Nodes == {At(Heap, n) : n \in 1..nelts}

DueTime(duration) == IF duration >= 0 THEN now + duration ELSE Never

(* The scheduler never adds an item that is queued, nor removes one that   *)
(* is not (TimersMatchWaits of module Scheduler).                          *)
AddItem(i, duration) ==
  /\ i \notin Nodes
  /\ dueTime' = [dueTime EXCEPT ![i] = DueTime(duration)]
  /\ SetHeap(InsertNode(Heap, dueTime', i))
  /\ buffer' = <<>>
  /\ UNCHANGED now

(* The due time of an item that is not queued is never read: it is 0 here. *)
Forget(S) == dueTime' = [i \in Item |-> IF i \in S THEN 0 ELSE dueTime[i]]

RemoveItem(i) ==
  /\ i \in Nodes
  /\ SetHeap(RemoveNode(Heap, dueTime, i))
  /\ Forget({i})
  /\ buffer' = <<>>
  /\ UNCHANGED now

(* Wrong: an item due now is not yet due.                                  *)
IsDueLate(h) == h.min # Null /\ dueTime[h.min] < now

IsDue(h) == h.min # Null /\ dueTime[h.min] <= now

TakeFirst(s) ==
  IF IsDue(s.heap)
    THEN [heap  |-> RemoveNode(s.heap, dueTime, s.heap.min),
          taken |-> Append(s.taken, s.heap.min)]
    ELSE s

RemoveDueItems ==
  LET result == Repeat(TakeFirst, [heap |-> Heap, taken |-> <<>>], BufferLength) IN
  /\ SetHeap(result.heap)
  /\ buffer' = result.taken
  /\ Forget(ToSet(result.taken))
  /\ UNCHANGED now

CalculateTimeout ==
  IF min = Null \/ (min # Null /\ dueTime[min] = Never) THEN -1
  ELSE IF dueTime[min] > now THEN dueTime[min] - now ELSE 0

Tick == now < MaxTime /\ now' = now + 1 /\ UNCHANGED <<heapVars, dueTime, buffer>>

Next ==
  \/ \E i \in Item : RemoveItem(i) \/ \E d \in Durations : AddItem(i, d)
  \/ RemoveDueItems
  \/ Tick

Spec == Init /\ [][Next]_vars

-----------------------------------------------------------------------------
(* Properties.                                                             *)

(* The pointers form one complete tree of nelts nodes: following the path  *)
(* of each position finds a different node, the pointers up and down       *)
(* agree, and nothing hangs below the last row or on a removed node.       *)
LinksAgree ==
  /\ Cardinality(Nodes) = nelts
  /\ (nelts = 0) <=> (min = Null)
  /\ \A n \in 1..nelts :
       LET x == At(Heap, n)
           child(k) == IF k <= nelts THEN At(Heap, k) ELSE Null
       IN /\ left[x] = child(2 * n) /\ right[x] = child(2 * n + 1)
          /\ parent[x] = (IF n = 1 THEN Null ELSE At(Heap, n \div 2))

(* The heap is one after any calls: the pointers are those of a complete   *)
(* tree, and no node is due before its parent, also after the last node    *)
(* took the place of a removed one in another branch.                      *)
IsHeap ==
  /\ TypeOK
  /\ LinksAgree
  /\ \A x \in Nodes : parent[x] # Null => dueTime[parent[x]] <= dueTime[x]

Queue == INSTANCE TimerQueue
           WITH dueTime <- [i \in Item |-> IF i \in Nodes THEN dueTime[i] ELSE -1]

(* calculateTimeout looks at the root only, and is right for all items.    *)
TimeoutIsRight ==
  (IF CalculateTimeout = -1 THEN Never ELSE now + CalculateTimeout) = Queue!TimeoutAt

(* The heap implements the queue of due times the scheduler relies on.     *)
ImplementsTimerQueue == Queue!Spec

=============================================================================
