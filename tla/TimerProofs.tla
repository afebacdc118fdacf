----------------------------- MODULE TimerProofs -----------------------------
(***************************************************************************)
(* Proofs about Timer for any items, durations and length of the buffer:   *)
(* the pointers are a heap after any calls, its root tells the timeout,    *)
(* and the calls are those of TimerQueue.                                  *)
(*                                                                         *)
(* The invariant (TimerInv): there is a sequence of the nodes, at, such    *)
(* that the pointers are those of the complete tree with at[k] at position *)
(* k (IsTree), and no node is due before the one at half its position      *)
(* (Ordered).  Following the bits of a position, as heap_insert and        *)
(* heap_remove do, finds at[k] (AtTree).  Each small step of heap-inl.h    *)
(* is one on that sequence: heap_node_swap exchanges two of its places,    *)
(* heap_insert appends a node, heap_remove drops the last one and may put  *)
(* it in the place of another.                                             *)
(*                                                                         *)
(* The order is broken at one position meanwhile (LooseAt, LooseAbove):    *)
(* a turn of a loop moves that position one row, and after as many turns   *)
(* as there are nodes it has left the tree or the order is restored.  The  *)
(* node that takes the place of a removed one first moves down, then up:   *)
(* after moving down nothing is out of order but it and its parent.        *)
(***************************************************************************)
EXTENDS Timer, SequenceLemmas

(* What the heap passes through in a loop: the turns are taken one by one. *)
HeapSet == [left : Links, right : Links, parent : Links, min : Item \cup {Null}, nelts : Nat]

(* heap_node_swap leaves pointers to nodes or to none.                     *)
LEMMA SwapType == ASSUME NEW h \in HeapSet, NEW p \in Item, NEW c \in Item
   PROVE Swap(h, p, c) \in HeapSet
  BY DEF HeapSet, Swap, Links

RunUp(h, due, x, n) ==
  \E g \in [0..n -> HeapSet] :
    /\ g[0] = h
    /\ \A k \in 1..n : g[k] = MoveUp(g[k - 1], due, x)
    /\ SiftUp(h, due, x) = g[n]

(* The loop that moves a node up goes through as many turns as there are   *)
(* nodes, and so does the one that moves it down.                          *)
LEMMA UpRuns ==
  ASSUME NEW h \in HeapSet, NEW due, NEW x \in Item
  PROVE  RunUp(h, due, x, h.nelts)
<1> DEFINE n == h.nelts
           turn == [y \in HeapSet |-> MoveUp(y, due, x)]
           Up(f) == [k \in 0..n |-> IF k = 0 THEN h ELSE MoveUp(f[k - 1], due, x)]
           f == CHOOSE f : f = Up(f)
<1>0. n \in Nat
  BY DEF HeapSet
<1>1. \A y \in HeapSet : MoveUp(y, due, x) \in HeapSet
  <2> TAKE y \in HeapSet
  <2>1. y.parent[x] \in Item \cup {Null}
    BY DEF HeapSet, Links
  <2> QED
    BY <2>1, SwapType DEF MoveUp
<1>2. SiftUp(h, due, x) = f[n]
  BY DEF SiftUp, Repeat
<1> HIDE DEF f, n
<1>3. PICK g \in [0..n -> HeapSet] : g[0] = h /\ \A k \in 1..n : g[k] = turn[g[k - 1]]
  <2>1. turn \in [HeapSet -> HeapSet]
    BY <1>1
  <2> HIDE DEF turn
  <2>2. CanRun(HeapSet, h, turn, n)
    BY <1>0, <2>1, LoopRuns
  <2> QED
    BY <2>2 DEF CanRun
<1>4. g = Up(g)
  <2>1. \A k \in 1..n : k - 1 \in 0..n /\ k # 0
    BY <1>0
  <2>2. \A k \in 1..n : g[k] = MoveUp(g[k - 1], due, x)
    BY <2>1, <1>3
  <2>3. \A k \in 0..n : k = 0 \/ k \in 1..n
    BY <1>0
  <2> QED
    BY <1>3, <2>1, <2>2, <2>3
<1>5. f = Up(f)
  BY <1>4 DEF f
<1>6. f[0] = h /\ \A k \in 1..n : f[k] = MoveUp(f[k - 1], due, x)
  BY <1>5, <1>0
<1>7. f \in [0..n -> HeapSet]
  <2> DEFINE S == {k \in Nat : k <= n => f[k] \in HeapSet}
  <2>1. 0 \in S
    BY <1>6
  <2>2. ASSUME NEW k \in Nat, k \in S
        PROVE  k + 1 \in S
    BY <2>2, <1>0, <1>1, <1>6
  <2>3. \A k \in 0..n : k \in S
    <3> HIDE DEF S
    <3> QED
      BY <1>0, <2>1, <2>2, NatInSet
  <2> QED
    BY <1>5, <2>3
<1> QED
  BY <1>2, <1>6, <1>7 DEF n, RunUp

RunDown(h, due, x, n) ==
  \E g \in [0..n -> HeapSet] :
    /\ g[0] = h
    /\ \A k \in 1..n : g[k] = MoveDown(g[k - 1], due, x)
    /\ SiftDown(h, due, x) = g[n]

LEMMA DownRuns ==
  ASSUME NEW h \in HeapSet, NEW due, NEW x \in Item
  PROVE  RunDown(h, due, x, h.nelts)
<1> DEFINE n == h.nelts
           turn == [y \in HeapSet |-> MoveDown(y, due, x)]
           Down(f) == [k \in 0..n |-> IF k = 0 THEN h ELSE MoveDown(f[k - 1], due, x)]
           f == CHOOSE f : f = Down(f)
<1>0. n \in Nat
  BY DEF HeapSet
<1>1. \A y \in HeapSet : MoveDown(y, due, x) \in HeapSet
  <2> TAKE y \in HeapSet
  <2>1. y.left[x] \in Item \cup {Null} /\ y.right[x] \in Item \cup {Null}
    BY DEF HeapSet, Links
  <2>2. Smallest(y, due, x) \in Item
    BY <2>1 DEF Smallest
  <2> QED
    BY <2>2, SwapType DEF MoveDown
<1>2. SiftDown(h, due, x) = f[n]
  BY DEF SiftDown, Repeat
<1> HIDE DEF f, n
<1>3. PICK g \in [0..n -> HeapSet] : g[0] = h /\ \A k \in 1..n : g[k] = turn[g[k - 1]]
  <2>1. turn \in [HeapSet -> HeapSet]
    BY <1>1
  <2> HIDE DEF turn
  <2>2. CanRun(HeapSet, h, turn, n)
    BY <1>0, <2>1, LoopRuns
  <2> QED
    BY <2>2 DEF CanRun
<1>4. g = Down(g)
  <2>1. \A k \in 1..n : k - 1 \in 0..n /\ k # 0
    BY <1>0
  <2>2. \A k \in 1..n : g[k] = MoveDown(g[k - 1], due, x)
    BY <2>1, <1>3
  <2>3. \A k \in 0..n : k = 0 \/ k \in 1..n
    BY <1>0
  <2> QED
    BY <1>3, <2>1, <2>2, <2>3
<1>5. f = Down(f)
  BY <1>4 DEF f
<1>6. f[0] = h /\ \A k \in 1..n : f[k] = MoveDown(f[k - 1], due, x)
  BY <1>5, <1>0
<1>7. f \in [0..n -> HeapSet]
  <2> DEFINE S == {k \in Nat : k <= n => f[k] \in HeapSet}
  <2>1. 0 \in S
    BY <1>6
  <2>2. ASSUME NEW k \in Nat, k \in S
        PROVE  k + 1 \in S
    BY <2>2, <1>0, <1>1, <1>6
  <2>3. \A k \in 0..n : k \in S
    <3> HIDE DEF S
    <3> QED
      BY <1>0, <2>1, <2>2, NatInSet
  <2> QED
    BY <1>5, <2>3
<1> QED
  BY <1>2, <1>6, <1>7 DEF n, RunDown

-----------------------------------------------------------------------------
(* Positions: the children of k are 2k and 2k+1, its parent is the half.   *)
LEMMA Halves ==
  /\ \A k \in Nat : k \div 2 \in Nat /\ (k >= 1 => k \div 2 < k)
  /\ \A k, m \in Nat : k \div 2 = m <=> k = 2 * m \/ k = 2 * m + 1
  /\ \A k \in Nat : k % 2 = 1 <=> k = 2 * (k \div 2) + 1
  OBVIOUS

(* What is at position k of a tree of n nodes.                             *)
Place(at, n, k) == IF k \in 1..n THEN at[k] ELSE Null

AllDiffer(at, n) == \A j, k \in 1..n : at[j] = at[k] => j = k

(* The pointers of h are those of the complete tree with at[k] at position *)
(* k.                                                                      *)
IsTree(h, at, n) ==
  /\ h \in HeapSet /\ n \in Nat /\ h.nelts = n
  /\ at \in [1..n -> Item]
  /\ AllDiffer(at, n)
  /\ h.min = Place(at, n, 1)
  /\ \A k \in 1..n : /\ h.left[at[k]] = Place(at, n, 2 * k)
                     /\ h.right[at[k]] = Place(at, n, 2 * k + 1)
                     /\ h.parent[at[k]] = Place(at, n, k \div 2)

(* The pointers down lead to the first m positions.                        *)
Leads(h, at, m) ==
  /\ h.min = at[1]
  /\ \A k \in 2..m : at[k] = IF k % 2 = 1 THEN h.right[at[k \div 2]]
                                          ELSE h.left[at[k \div 2]]

(* Following the bits of a position leads to the node there.               *)
LEMMA AtPath == \A h, at : \A m \in Nat \ {0} : Leads(h, at, m) => At(h, m) = at[m]
<1> SUFFICES ASSUME NEW h, NEW at, NEW m \in Nat \ {0}, h.min = at[1],
                    \A k \in 2..m : at[k] = IF k % 2 = 1 THEN h.right[at[k \div 2]]
                                                         ELSE h.left[at[k \div 2]]
             PROVE  At(h, m) = at[m]
  BY DEF Leads
<1> DEFINE Path(f) == [k \in 1..m |-> IF k = 1 THEN h.min
                                      ELSE IF k % 2 = 1 THEN h.right[f[k \div 2]]
                                                        ELSE h.left[f[k \div 2]]]
           f == CHOOSE f : f = Path(f)
<1>1. At(h, m) = f[m]
  BY DEF At
<1> DEFINE g == [k \in 1..m |-> at[k]]
<1>2. g = Path(g)
  <2>1. ASSUME NEW k \in 1..m
        PROVE  at[k] = IF k = 1 THEN h.min
                       ELSE IF k % 2 = 1 THEN h.right[g[k \div 2]]
                                         ELSE h.left[g[k \div 2]]
    <3>1. CASE k = 1
      BY <3>1
    <3>2. CASE k # 1
      <4>1. k \in 2..m /\ k \div 2 \in 1..m
        BY <3>2
      <4>2. g[k \div 2] = at[k \div 2]
        BY <4>1
      <4> QED
        BY <3>2, <4>1, <4>2
    <3> QED
      BY <3>1, <3>2
  <2> QED
    BY <2>1
<1>3. f = Path(f)
  BY <1>2
<1> HIDE DEF f
<1>4. \A k \in 1..m : f[k] = IF k = 1 THEN h.min
                             ELSE IF k % 2 = 1 THEN h.right[f[k \div 2]]
                                               ELSE h.left[f[k \div 2]]
  BY <1>3
<1> HIDE DEF Path
<1> DEFINE S == {j \in Nat : \A k \in 1..j : k <= m => f[k] = at[k]}
<1>5. 0 \in S
  OBVIOUS
<1>6. ASSUME NEW j \in Nat, j \in S
      PROVE  j + 1 \in S
  <2>1. ASSUME j + 1 <= m
        PROVE  f[j + 1] = at[j + 1]
    <3>1. CASE j = 0
      BY <3>1, <2>1, <1>4
    <3>2. CASE j # 0
      <4> DEFINE d == (j + 1) \div 2
      <4>1. j + 1 \in 2..m /\ d \in 1..j /\ d <= m
        BY <3>2, <2>1
      <4>2. f[d] = at[d]
        BY <1>6, <4>1
      <4>3. j + 1 # 1 /\ j + 1 \in 1..m
        BY <4>1
      <4>4. f[j + 1] = IF (j + 1) % 2 = 1 THEN h.right[f[d]] ELSE h.left[f[d]]
        BY <1>4, <4>3
      <4> QED
        BY <4>1, <4>2, <4>4
    <3> QED
      BY <3>1, <3>2
  <2> QED
    BY <2>1, <1>6
<1>7. m \in S
  <2> HIDE DEF S
  <2> QED
    BY <1>5, <1>6, NatInSet
<1> QED
  BY <1>1, <1>7

(* In a tree every position is found by its path.                          *)
LEMMA AtTree ==
  ASSUME NEW h, NEW at, NEW n, IsTree(h, at, n)
  PROVE  \A k \in 1..n : At(h, k) = at[k]
<1> TAKE m \in 1..n
<1>1. n \in Nat /\ m \in Nat /\ m >= 1
  BY DEF IsTree
<1>2. h.min = at[1]
  BY <1>1 DEF IsTree, Place
<1>3. ASSUME NEW k \in 2..m
      PROVE  at[k] = IF k % 2 = 1 THEN h.right[at[k \div 2]] ELSE h.left[at[k \div 2]]
  <2>1. k \in Nat /\ k \in 1..n /\ k \div 2 \in 1..n
    BY <1>1
  <2>2. /\ h.left[at[k \div 2]] = Place(at, n, 2 * (k \div 2))
        /\ h.right[at[k \div 2]] = Place(at, n, 2 * (k \div 2) + 1)
    BY <2>1 DEF IsTree
  <2>3. CASE k % 2 = 1
    <3>1. 2 * (k \div 2) + 1 = k
      BY <2>1, <2>3
    <3> QED
      BY <2>1, <2>2, <2>3, <3>1 DEF Place
  <2>4. CASE k % 2 # 1
    <3>1. 2 * (k \div 2) = k
      BY <2>1, <2>4
    <3> QED
      BY <2>1, <2>2, <2>4, <3>1 DEF Place
  <2> QED
    BY <2>3, <2>4
<1>4. Leads(h, at, m)
  BY <1>2, <1>3 DEF Leads
<1> QED
  BY <1>1, <1>4, AtPath

(* Two nodes above each other change places.                               *)
Exchanged(at, i, j) == [at EXCEPT ![i] = at[j], ![j] = at[i]]

(* e is at with the nodes of two positions exchanged.                      *)
Moved(e, at, n, i, j) ==
  /\ e \in [1..n -> Item]
  /\ AllDiffer(e, n)
  /\ \A k \in Int : Place(e, n, k) =
                      IF k = i THEN at[j] ELSE IF k = j THEN at[i] ELSE Place(at, n, k)
  /\ {e[k] : k \in 1..n} = {at[k] : k \in 1..n}

LEMMA ExchangedPlaces ==
  \A n \in Nat : \A at \in [1..n -> Item] : \A i, j \in 1..n :
    i # j /\ AllDiffer(at, n) => Moved(Exchanged(at, i, j), at, n, i, j)
<1> SUFFICES ASSUME NEW n \in Nat, NEW at \in [1..n -> Item], NEW i \in 1..n, NEW j \in 1..n,
                    i # j, AllDiffer(at, n)
             PROVE  Moved(Exchanged(at, i, j), at, n, i, j)
  OBVIOUS
<1> DEFINE e == Exchanged(at, i, j)
<1>1. /\ e \in [1..n -> Item]
      /\ \A k \in 1..n : e[k] = IF k = i THEN at[j] ELSE IF k = j THEN at[i] ELSE at[k]
  BY DEF Exchanged
<1> HIDE DEF e
<1>2. AllDiffer(e, n)
  BY <1>1 DEF AllDiffer
<1>3. \A k \in Int : Place(e, n, k) =
        IF k = i THEN at[j] ELSE IF k = j THEN at[i] ELSE Place(at, n, k)
  BY <1>1 DEF Place
<1>4. {e[k] : k \in 1..n} \subseteq {at[k] : k \in 1..n}
  BY <1>1
<1>5. {at[k] : k \in 1..n} \subseteq {e[k] : k \in 1..n}
  <2> SUFFICES ASSUME NEW k \in 1..n
               PROVE  \E m \in 1..n : at[k] = e[m]
    OBVIOUS
  <2>1. CASE k = i
    BY <2>1, <1>1
  <2>2. CASE k = j
    BY <2>2, <1>1
  <2>3. CASE k # i /\ k # j
    BY <2>3, <1>1
  <2> QED
    BY <2>1, <2>2, <2>3
<1> QED
  BY <1>1, <1>2, <1>3, <1>4, <1>5 DEF e, Moved

(* The pointers after p and its child c, below g, have changed places.     *)
Swapped(H, h, p, c, g) ==
  /\ \A x \in Item :
       /\ H.left[x] = IF x = p THEN h.left[c]
                      ELSE IF x = c THEN IF h.left[p] = c THEN p ELSE h.left[p]
                      ELSE IF x = g /\ h.left[g] = p THEN c ELSE h.left[x]
       /\ H.right[x] = IF x = p THEN h.right[c]
                       ELSE IF x = c THEN IF h.left[p] = c THEN h.right[p] ELSE p
                       ELSE IF x = g /\ h.left[g] # p THEN c ELSE h.right[x]
       /\ H.parent[x] = IF x = p THEN c
                        ELSE IF x = c THEN g
                        ELSE IF x \in Children(h, c) THEN p
                        ELSE IF x \in Children(h, p) THEN c ELSE h.parent[x]
  /\ H.min = IF g = Null THEN c ELSE h.min
  /\ H.nelts = h.nelts

(* heap_node_swap writes these pointers.                                   *)
LEMMA SwapPointers ==
  \A h : \A p, c \in Item : p # c => Swapped(Swap(h, p, c), h, p, c, h.parent[p])
<1> TAKE h
<1> TAKE p, c \in Item
<1> HAVE p # c
<1> DEFINE H == Swap(h, p, c)
           g == h.parent[p]
<1>1. ASSUME NEW x \in Item
      PROVE  H.left[x] = IF x = p THEN h.left[c]
                         ELSE IF x = c THEN IF h.left[p] = c THEN p ELSE h.left[p]
                         ELSE IF x = g /\ h.left[g] = p THEN c ELSE h.left[x]
  BY DEF Swap
<1>2. ASSUME NEW x \in Item
      PROVE  H.right[x] = IF x = p THEN h.right[c]
                          ELSE IF x = c THEN IF h.left[p] = c THEN h.right[p] ELSE p
                          ELSE IF x = g /\ h.left[g] # p THEN c ELSE h.right[x]
  BY DEF Swap
<1>3. ASSUME NEW x \in Item
      PROVE  H.parent[x] = IF x = p THEN c
                           ELSE IF x = c THEN g
                           ELSE IF x \in Children(h, c) THEN p
                           ELSE IF x \in Children(h, p) THEN c ELSE h.parent[x]
  BY DEF Swap
<1>4. H.min = (IF g = Null THEN c ELSE h.min) /\ H.nelts = h.nelts
  BY DEF Swap
<1> HIDE DEF H, g
<1>5. Swapped(H, h, p, c, g)
  BY <1>1, <1>2, <1>3, <1>4 DEF Swapped
<1> QED
  BY <1>5 DEF H, g

(* heap_node_swap of a node and its child leaves a complete tree, the two  *)
(* having changed places.                                                  *)
LEMMA SwapTree ==
  ASSUME NEW h, NEW at, NEW n, IsTree(h, at, n),
         NEW i \in 1..n, NEW j \in 1..n, j \div 2 = i
  PROVE  IsTree(Swap(h, at[i], at[j]), Exchanged(at, i, j), n)
<1> DEFINE p == at[i]
           c == at[j]
           e == Exchanged(at, i, j)
           H == Swap(h, p, c)
           g == h.parent[p]
<1>1. /\ h \in HeapSet /\ n \in Nat /\ h.nelts = n
      /\ at \in [1..n -> Item]
      /\ AllDiffer(at, n)
      /\ h.min = Place(at, n, 1)
      /\ \A k \in 1..n : /\ h.left[at[k]] = Place(at, n, 2 * k)
                         /\ h.right[at[k]] = Place(at, n, 2 * k + 1)
                         /\ h.parent[at[k]] = Place(at, n, k \div 2)
  BY DEF IsTree
<1>2. i \in Nat /\ j \in Nat /\ i # j /\ (j = 2 * i \/ j = 2 * i + 1)
  BY <1>1, Halves
<1>3. p \in Item /\ c \in Item /\ p # c
  BY <1>1, <1>2 DEF AllDiffer
<1> HIDE DEF H, g, p, c
<1>4. H \in HeapSet /\ H.nelts = n
  BY <1>1, <1>3, SwapType DEF Swap, H
<1>5. /\ e \in [1..n -> Item]
      /\ AllDiffer(e, n)
      /\ \A k \in Int : Place(e, n, k) =
                          IF k = i THEN c ELSE IF k = j THEN p ELSE Place(at, n, k)
      /\ e[i] = c /\ e[j] = p
      /\ \A k \in 1..n : k # i /\ k # j => e[k] = at[k] /\ at[k] # p /\ at[k] # c
  <2>1. e[i] = c /\ e[j] = p /\ \A k \in 1..n : k # i /\ k # j => e[k] = at[k]
    BY <1>1, <1>2 DEF Exchanged, p, c
  <2>2. \A k \in 1..n : k # i /\ k # j => at[k] # p /\ at[k] # c
    BY <1>1 DEF AllDiffer, p, c
  <2>3. /\ e \in [1..n -> Item] /\ AllDiffer(e, n)
        /\ \A k \in Int : Place(e, n, k) =
                            IF k = i THEN c ELSE IF k = j THEN p ELSE Place(at, n, k)
    <3>1. Moved(e, at, n, i, j)
      BY <1>1, <1>2, ExchangedPlaces
    <3> QED
      BY <3>1 DEF Moved, p, c
  <2> QED
    BY <2>1, <2>2, <2>3
<1> HIDE DEF e
<1>6. Null \notin Item
  BY TimerAssumption
<1>7. \A m \in Int, k \in 1..n : Place(at, n, m) = at[k] <=> m = k
  <2> TAKE m \in Int, k \in 1..n
  <2>1. at[k] # Null
    BY <1>1, <1>6
  <2> QED
    BY <2>1, <1>1 DEF Place, AllDiffer
<1>18. Swapped(H, h, p, c, g)
  BY <1>3, SwapPointers DEF H, g
<1>8. \A x \in Item :
        /\ H.left[x] = IF x = p THEN h.left[c]
                       ELSE IF x = c THEN IF h.left[p] = c THEN p ELSE h.left[p]
                       ELSE IF x = g /\ h.left[g] = p THEN c ELSE h.left[x]
        /\ H.right[x] = IF x = p THEN h.right[c]
                        ELSE IF x = c THEN IF h.left[p] = c THEN h.right[p] ELSE p
                        ELSE IF x = g /\ h.left[g] # p THEN c ELSE h.right[x]
        /\ H.parent[x] = IF x = p THEN c
                         ELSE IF x = c THEN g
                         ELSE IF x \in Children(h, c) THEN p
                         ELSE IF x \in Children(h, p) THEN c ELSE h.parent[x]
  BY <1>18 DEF Swapped
<1>9. H.min = IF g = Null THEN c ELSE h.min
  BY <1>18 DEF Swapped
<1>10. g = Place(at, n, i \div 2) /\ i \div 2 \in Nat /\ i \div 2 < i
  <2>1. g = Place(at, n, i \div 2)
    BY <1>1 DEF g, p
  <2>2. i \div 2 \in Nat /\ i \div 2 < i
    BY <1>1
  <2> QED
    BY <2>1, <2>2
<1>15. h.left[p] = Place(at, n, 2 * i) /\ h.right[p] = Place(at, n, 2 * i + 1)
  BY <1>1 DEF p
<1>16. h.left[c] = Place(at, n, 2 * j) /\ h.right[c] = Place(at, n, 2 * j + 1)
  BY <1>1 DEF c
<1>17. 2 * j # i /\ 2 * j # j /\ 2 * j + 1 # i /\ 2 * j + 1 # j
  BY <1>2
<1>11. H.min = Place(e, n, 1)
  <2>1. CASE i = 1
    BY <2>1, <1>5, <1>9, <1>10 DEF Place
  <2>2. CASE i # 1
    <3>1. i \div 2 \in 1..n
      BY <2>2, <1>1, <1>2, <1>10, Halves
    <3>2. g # Null
      BY <3>1, <1>1, <1>6, <1>10 DEF Place
    <3> QED
      BY <2>2, <3>2, <1>1, <1>2, <1>5, <1>9
  <2> QED
    BY <2>1, <2>2
<1>12. ASSUME NEW k \in 1..n
       PROVE  H.left[e[k]] = Place(e, n, 2 * k)
  <2>1. CASE k = j
    BY <2>1, <1>2, <1>3, <1>5, <1>8, <1>16, <1>17
  <2>2. CASE k = i
    <3>1. h.left[p] = c <=> 2 * i = j
      BY <1>2, <1>7, <1>15 DEF c
    <3>2. H.left[c] = IF h.left[p] = c THEN p ELSE h.left[p]
      BY <1>3, <1>8
    <3>3. Place(e, n, 2 * i) = IF 2 * i = j THEN p ELSE Place(at, n, 2 * i)
      <4>1. 2 * i \in Int /\ 2 * i # i
        BY <1>2
      <4> DEFINE d == 2 * i
      <4> HIDE DEF d
      <4>2. Place(e, n, d) = IF d = i THEN c ELSE IF d = j THEN p ELSE Place(at, n, d)
        BY <4>1, <1>5 DEF d
      <4> QED
        BY <4>1, <4>2 DEF d
    <3> QED
      BY <2>2, <3>1, <3>2, <3>3, <1>15, <1>5
  <2>3. CASE k # i /\ k # j
    <3>1. e[k] = at[k] /\ at[k] \in Item /\ at[k] # p /\ at[k] # c
      BY <2>3, <1>1, <1>5
    <3>2. h.left[at[k]] = Place(at, n, 2 * k)
      BY <1>1
    <3>3. at[k] = g <=> k = i \div 2
      BY <1>7, <1>10
    <3>4. h.left[at[k]] = p <=> 2 * k = i
      BY <3>2, <1>7 DEF p
    <3>5. 2 * k = i => k = i \div 2
      BY <1>2
    <3>6. 2 * k # j
      BY <2>3, <1>2
    <3> QED
      BY <3>1, <3>2, <3>3, <3>4, <3>5, <3>6, <1>5, <1>8
  <2> QED
    BY <2>1, <2>2, <2>3
<1>13. ASSUME NEW k \in 1..n
       PROVE  H.right[e[k]] = Place(e, n, 2 * k + 1)
  <2>1. CASE k = j
    BY <2>1, <1>2, <1>3, <1>5, <1>8, <1>16, <1>17
  <2>2. CASE k = i
    <3>1. h.left[p] = c <=> 2 * i = j
      BY <1>2, <1>7, <1>15 DEF c
    <3> QED
      BY <2>2, <3>1, <1>15, <1>2, <1>3, <1>5, <1>8
  <2>3. CASE k # i /\ k # j
    <3>1. e[k] = at[k] /\ at[k] \in Item /\ at[k] # p /\ at[k] # c
      BY <2>3, <1>1, <1>5
    <3>2. h.left[at[k]] = Place(at, n, 2 * k) /\ h.right[at[k]] = Place(at, n, 2 * k + 1)
      BY <1>1
    <3>3. at[k] = g <=> k = i \div 2
      BY <1>7, <1>10
    <3>4. h.left[at[k]] = p <=> 2 * k = i
      BY <3>2, <1>7 DEF p
    <3>5. (k = i \div 2 /\ 2 * k # i) <=> 2 * k + 1 = i
      BY <1>2, Halves
    <3>6. 2 * k + 1 # j
      BY <2>3, <1>2
    <3>7. (at[k] = g /\ h.left[g] # p) <=> 2 * k + 1 = i
      BY <3>3, <3>4, <3>5
    <3>8. Place(e, n, 2 * k + 1) = IF 2 * k + 1 = i THEN c ELSE Place(at, n, 2 * k + 1)
      BY <3>6, <1>5
    <3>9. H.right[at[k]] = IF at[k] = g /\ h.left[g] # p THEN c ELSE h.right[at[k]]
      BY <3>1, <1>8
    <3> QED
      BY <3>1, <3>2, <3>7, <3>8, <3>9
  <2> QED
    BY <2>1, <2>2, <2>3
<1>14. ASSUME NEW k \in 1..n
       PROVE  H.parent[e[k]] = Place(e, n, k \div 2)
  <2>0. k \div 2 \in Nat /\ k \in Nat
    BY Halves
  <2>1. CASE k = j
    BY <2>0, <2>1, <1>3, <1>5, <1>8
  <2>2. CASE k = i
    <3>1. i \div 2 # i /\ i \div 2 # j
      BY <1>2, <1>10
    <3> QED
      BY <2>0, <2>2, <3>1, <1>3, <1>5, <1>8, <1>10
  <2>3. CASE k # i /\ k # j
    <3>1. e[k] = at[k] /\ at[k] \in Item /\ at[k] # p /\ at[k] # c
      BY <2>3, <1>1, <1>5
    <3>2. at[k] \in Children(h, c) <=> k \div 2 = j
      BY <2>0, <1>2, <1>7, <1>16, Halves DEF Children
    <3>3. at[k] \in Children(h, p) <=> k \div 2 = i
      BY <2>0, <1>2, <1>7, <1>15, Halves DEF Children
    <3>4. h.parent[at[k]] = Place(at, n, k \div 2)
      BY <1>1
    <3> QED
      BY <2>0, <3>1, <3>2, <3>3, <3>4, <1>2, <1>5, <1>8
  <2> QED
    BY <2>1, <2>2, <2>3
<1> QED
  BY <1>1, <1>4, <1>5, <1>11, <1>12, <1>13, <1>14 DEF IsTree, H, e, p, c

-----------------------------------------------------------------------------
NodesOf(at, n) == {at[k] : k \in 1..n}

(* No node is due before its parent.                                       *)
Ordered(at, n, due) == \A k \in 2..n : due[at[k \div 2]] <= due[at[k]]

(* The children of position i are not due before the parent of i.          *)
Bridged(at, n, due, i) ==
  i >= 2 => \A k \in 2..n : k \div 2 = i => due[at[i \div 2]] <= due[at[k]]

(* In order but for the node at position i and its neighbours.             *)
LooseAt(at, n, due, i) ==
  /\ \A k \in 2..n : k # i /\ k \div 2 # i => due[at[k \div 2]] <= due[at[k]]
  /\ Bridged(at, n, due, i)

(* In order but for the node at position i and its parent.                 *)
LooseAbove(at, n, due, i) ==
  /\ \A k \in 2..n : k # i => due[at[k \div 2]] <= due[at[k]]
  /\ Bridged(at, n, due, i)

Positions(n) == [1..n -> Item]

(* After k turns of SiftUp, and of SiftDown.                               *)
GoingUp(h, due, x, n, N, k) ==
  \E at \in Positions(n), i \in 1..n :
    /\ IsTree(h, at, n) /\ at[i] = x /\ NodesOf(at, n) = N
    /\ LooseAbove(at, n, due, i)
    /\ i + k <= n \/ Ordered(at, n, due)

GoingDown(h, due, x, n, N, k) ==
  \E at \in Positions(n), i \in 1..n :
    /\ IsTree(h, at, n) /\ at[i] = x /\ NodesOf(at, n) = N
    /\ LooseAt(at, n, due, i)
    /\ i > k \/ LooseAbove(at, n, due, i)

(* The nodes are the same after an exchange.                               *)
LEMMA ExchangeTree ==
  ASSUME NEW h, NEW at, NEW n, IsTree(h, at, n),
         NEW i \in 1..n, NEW j \in 1..n, j \div 2 = i
  PROVE  /\ IsTree(Swap(h, at[i], at[j]), Exchanged(at, i, j), n)
         /\ Exchanged(at, i, j) \in Positions(n)
         /\ NodesOf(Exchanged(at, i, j), n) = NodesOf(at, n)
         /\ \A k \in 1..n : Exchanged(at, i, j)[k] =
                              IF k = i THEN at[j] ELSE IF k = j THEN at[i] ELSE at[k]
<1>1. n \in Nat /\ at \in [1..n -> Item] /\ AllDiffer(at, n)
  BY DEF IsTree
<1>2. i # j
  BY <1>1, Halves
<1>3. Moved(Exchanged(at, i, j), at, n, i, j)
  BY <1>1, <1>2, ExchangedPlaces
<1>4. \A k \in 1..n : Exchanged(at, i, j)[k] =
                        IF k = i THEN at[j] ELSE IF k = j THEN at[i] ELSE at[k]
  BY <1>1, <1>2 DEF Exchanged
<1> QED
  BY <1>3, <1>4, SwapTree DEF Moved, NodesOf, Positions

(* One turn of the loop that moves a node up: the only node that may be    *)
(* due before its parent is then one row higher.                           *)
LEMMA MoveUpKeeps ==
  ASSUME NEW h, NEW due \in [Item -> Nat], NEW x \in Item, NEW n, NEW N, NEW k \in Nat,
         GoingUp(h, due, x, n, N, k)
  PROVE  GoingUp(MoveUp(h, due, x), due, x, n, N, k + 1)
<1>1. PICK at \in Positions(n), i \in 1..n :
        /\ IsTree(h, at, n) /\ at[i] = x /\ NodesOf(at, n) = N
        /\ LooseAbove(at, n, due, i)
        /\ i + k <= n \/ Ordered(at, n, due)
  BY DEF GoingUp
<1> DEFINE p == h.parent[x]
           q == i \div 2
<1>2. n \in Nat /\ at \in [1..n -> Item] /\ i \in Nat /\ i >= 1
  BY <1>1 DEF IsTree
<1>3. q \in Nat /\ q < i /\ (i >= 2 => q \in 1..n) /\ (i = 1 => q = 0)
  BY <1>2
<1>4. p = Place(at, n, q)
  BY <1>1 DEF IsTree
<1>5. \A j \in 1..n : due[at[j]] \in Nat /\ at[j] # Null
  BY <1>2, TimerAssumption
<1> HIDE DEF p, q
<1>6. CASE i >= 2 /\ due[x] < due[at[q]]
  <2> DEFINE e == Exchanged(at, q, i)
  <2>1. p = at[q] /\ p # Null
    BY <1>3, <1>4, <1>5, <1>6 DEF Place
  <2>2. MoveUp(h, due, x) = Swap(h, at[q], at[i])
    BY <2>1, <1>1, <1>6 DEF MoveUp, Earlier, p
  <2>3. /\ IsTree(MoveUp(h, due, x), e, n) /\ e \in Positions(n) /\ NodesOf(e, n) = N
        /\ \A j \in 1..n : e[j] = IF j = q THEN at[i] ELSE IF j = i THEN at[q] ELSE at[j]
    BY <2>2, <1>1, <1>3, <1>6, ExchangeTree DEF q
  <2> HIDE DEF e
  <2>4. q \in 1..n /\ e[q] = x
    BY <2>3, <1>1, <1>3, <1>6
  <2>5. \A j \in 2..n : j # i => due[at[j \div 2]] <= due[at[j]]
    BY <1>1 DEF LooseAbove
  <2>6. \A j \in 2..n : j \div 2 = i => due[at[q]] <= due[at[j]]
    BY <1>1, <1>6 DEF LooseAbove, Bridged, q
  <2>7. ASSUME NEW j \in 2..n, j # q
        PROVE  due[e[j \div 2]] <= due[e[j]]
    <3>0. j \in 1..n /\ j \div 2 \in 1..n /\ j \div 2 # j
      BY <1>2
    <3>1. CASE j = i
      BY <3>0, <3>1, <2>3, <2>4, <1>1, <1>3, <1>5, <1>6 DEF q
    <3>2. CASE j # i /\ j \div 2 = q
      BY <3>0, <3>2, <2>3, <2>4, <2>5, <2>7, <1>1, <1>3, <1>5, <1>6
    <3>3. CASE j # i /\ j \div 2 = i
      BY <3>0, <3>3, <2>3, <2>4, <2>6, <2>7, <1>3, <1>5
    <3>4. CASE j # i /\ j \div 2 # q /\ j \div 2 # i
      BY <3>0, <3>4, <2>3, <2>5, <2>7
    <3> QED
      BY <3>1, <3>2, <3>3, <3>4
  <2>8. Bridged(e, n, due, q)
    <3> SUFFICES ASSUME q >= 2, NEW j \in 2..n, j \div 2 = q
                 PROVE  due[e[q \div 2]] <= due[e[j]]
      BY DEF Bridged
    <3>1. q \in 2..n /\ q \div 2 \in 1..n /\ q \div 2 < q /\ q < i /\ j # q /\ j \in 1..n
      BY <1>2, <1>3, <2>4
    <3>2. due[at[q \div 2]] <= due[at[q]]
      BY <3>1, <2>5
    <3>3. e[q \div 2] = at[q \div 2]
      BY <3>1, <2>3
    <3>4. CASE j = i
      BY <3>1, <3>2, <3>3, <3>4, <2>3
    <3>5. CASE j # i
      <4>1. due[at[q]] <= due[at[j]] /\ e[j] = at[j]
        BY <3>1, <3>5, <2>3, <2>5
      <4> QED
        BY <4>1, <3>1, <3>2, <3>3, <1>5, <2>4
    <3> QED
      BY <3>4, <3>5
  <2>9. LooseAbove(e, n, due, q)
    BY <2>7, <2>8 DEF LooseAbove
  <2>10. q + (k + 1) <= n
    <3>1. ~Ordered(at, n, due)
      BY <1>1, <1>2, <1>6 DEF Ordered, q
    <3> QED
      BY <3>1, <1>1, <1>2, <1>3
  <2> QED
    BY <2>3, <2>4, <2>9, <2>10 DEF GoingUp
<1>7. CASE ~(i >= 2 /\ due[x] < due[at[q]])
  <2>1. MoveUp(h, due, x) = h
    <3>1. CASE i = 1
      BY <3>1, <1>3, <1>4 DEF MoveUp, Place, p
    <3>2. CASE i >= 2
      BY <3>2, <1>3, <1>4, <1>7 DEF MoveUp, Earlier, Place, p
    <3> QED
      BY <3>1, <3>2, <1>2
  <2>2. Ordered(at, n, due)
    BY <1>1, <1>2, <1>3, <1>5, <1>7 DEF Ordered, LooseAbove, q
  <2> QED
    BY <2>1, <2>2, <1>1 DEF GoingUp
<1> QED
  BY <1>6, <1>7

(* The child that is looked at when a node moves down is due first of the  *)
(* node and its children.                                                  *)
LEMMA SmallestChild ==
  ASSUME NEW h, NEW at, NEW n, NEW due \in [Item -> Nat], IsTree(h, at, n), NEW i \in 1..n
  PROVE  \/ /\ Smallest(h, due, at[i]) = at[i]
            /\ \A k \in 2..n : k \div 2 = i => due[at[i]] <= due[at[k]]
         \/ \E j \in 2..n :
              /\ j \div 2 = i
              /\ Smallest(h, due, at[i]) = at[j] /\ at[j] # at[i]
              /\ due[at[j]] < due[at[i]]
              /\ \A k \in 2..n : k \div 2 = i => due[at[j]] <= due[at[k]]
<1> DEFINE x == at[i]
           l == h.left[x]
           r == h.right[x]
           s == Smallest(h, due, x)
<1>1. n \in Nat /\ at \in [1..n -> Item] /\ AllDiffer(at, n) /\ i \in Nat /\ i >= 1
  BY DEF IsTree
<1>2. l = Place(at, n, 2 * i) /\ r = Place(at, n, 2 * i + 1)
  BY DEF IsTree
<1>3. \A j \in 1..n : due[at[j]] \in Nat /\ at[j] # Null
  BY <1>1, TimerAssumption
<1>4. s = IF r # Null /\ due[r] < due[IF l # Null /\ due[l] < due[x] THEN l ELSE x]
            THEN r ELSE IF l # Null /\ due[l] < due[x] THEN l ELSE x
  BY DEF Smallest, Earlier
<1>5. \A k \in 2..n : k \div 2 = i <=> k = 2 * i \/ k = 2 * i + 1
  BY <1>1
<1>6. (2 * i <= n => 2 * i \in 1..n /\ 2 * i \in 2..n /\ l = at[2 * i] /\ l # Null)
      /\ (~(2 * i <= n) => l = Null)
  BY <1>1, <1>2, <1>3 DEF Place
<1>7. (2 * i + 1 <= n => 2 * i + 1 \in 1..n /\ 2 * i + 1 \in 2..n /\ r = at[2 * i + 1] /\ r # Null)
      /\ (~(2 * i + 1 <= n) => r = Null)
  BY <1>1, <1>2, <1>3 DEF Place
<1>8. \A j \in 2..n : j # i => at[j] # x
  BY <1>1 DEF AllDiffer
<1>9. due[x] \in Nat /\ x # Null
  BY <1>3
<1>10. (l # Null => due[l] \in Nat) /\ (r # Null => due[r] \in Nat)
  BY <1>3, <1>6, <1>7
<1>11. \A k \in 2..n : k \div 2 = i => (k = 2 * i /\ l # Null /\ at[k] = l)
                                        \/ (k = 2 * i + 1 /\ r # Null /\ at[k] = r)
  <2> TAKE k \in 2..n
  <2> HAVE k \div 2 = i
  <2>1. CASE k = 2 * i
    BY <2>1, <1>6
  <2>2. CASE k = 2 * i + 1
    BY <2>2, <1>7
  <2> QED
    BY <2>1, <2>2, <1>5
<1> HIDE DEF l, r, s
<1>12. CASE s = x
  <2>1. (l # Null => due[x] <= due[l]) /\ (r # Null => due[x] <= due[r])
    BY <1>4, <1>9, <1>10, <1>12
  <2>2. \A k \in 2..n : k \div 2 = i => due[x] <= due[at[k]]
    BY <2>1, <1>11
  <2> QED
    BY <2>2, <1>12 DEF s
<1>13. CASE s # x
  <2>1. \/ s = l /\ l # Null
        \/ s = r /\ r # Null
    BY <1>4, <1>13
  <2>2. /\ due[s] < due[x]
        /\ l # Null => due[s] <= due[l]
        /\ r # Null => due[s] <= due[r]
    BY <1>4, <1>9, <1>10, <1>13
  <2>3. PICK j \in 2..n : j \div 2 = i /\ at[j] = s
    BY <2>1, <1>1, <1>5, <1>6, <1>7
  <2>4. \A k \in 2..n : k \div 2 = i => due[s] <= due[at[k]]
    BY <2>2, <1>11
  <2> QED
    BY <2>2, <2>3, <2>4, <1>13 DEF s
<1> QED
  BY <1>12, <1>13

(* One turn of the loop that moves a node down.                            *)
LEMMA MoveDownKeeps ==
  ASSUME NEW h, NEW due \in [Item -> Nat], NEW x \in Item, NEW n, NEW N, NEW k \in Nat,
         GoingDown(h, due, x, n, N, k)
  PROVE  GoingDown(MoveDown(h, due, x), due, x, n, N, k + 1)
<1>1. PICK at \in Positions(n), i \in 1..n :
        /\ IsTree(h, at, n) /\ at[i] = x /\ NodesOf(at, n) = N
        /\ LooseAt(at, n, due, i)
        /\ i > k \/ LooseAbove(at, n, due, i)
  BY DEF GoingDown
<1>2. n \in Nat /\ at \in [1..n -> Item] /\ i \in Nat /\ i >= 1
  BY <1>1 DEF IsTree
<1>3. \A j \in 1..n : due[at[j]] \in Nat /\ at[j] # Null
  BY <1>2, TimerAssumption
<1>4. CASE /\ Smallest(h, due, x) = x
           /\ \A j \in 2..n : j \div 2 = i => due[x] <= due[at[j]]
  <2>1. MoveDown(h, due, x) = h
    BY <1>4 DEF MoveDown
  <2>2. LooseAbove(at, n, due, i)
    BY <1>1, <1>4 DEF LooseAbove, LooseAt
  <2> QED
    BY <2>1, <2>2, <1>1 DEF GoingDown
<1>5. ASSUME NEW c \in 2..n,
             c \div 2 = i, Smallest(h, due, x) = at[c], at[c] # x, due[at[c]] < due[x],
             \A j \in 2..n : j \div 2 = i => due[at[c]] <= due[at[j]]
      PROVE  GoingDown(MoveDown(h, due, x), due, x, n, N, k + 1)
  <2> DEFINE e == Exchanged(at, i, c)
  <2>1. MoveDown(h, due, x) = Swap(h, at[i], at[c])
    BY <1>1, <1>5 DEF MoveDown
  <2>0. c \in 1..n /\ c > i
    BY <1>2, <1>5
  <2>2. /\ IsTree(MoveDown(h, due, x), e, n) /\ e \in Positions(n) /\ NodesOf(e, n) = N
        /\ \A j \in 1..n : e[j] = IF j = i THEN at[c] ELSE IF j = c THEN at[i] ELSE at[j]
    BY <2>0, <2>1, <1>1, <1>5, ExchangeTree
  <2> HIDE DEF e
  <2>3. e[c] = x /\ e[i] = at[c]
    BY <2>0, <2>2, <1>1
  <2>4. \A j \in 2..n : j # i /\ j \div 2 # i => due[at[j \div 2]] <= due[at[j]]
    BY <1>1 DEF LooseAt
  <2>5. ASSUME NEW j \in 2..n, j # c, j \div 2 # c
        PROVE  due[e[j \div 2]] <= due[e[j]]
    <3>0. j \in 1..n /\ j \div 2 \in 1..n /\ j \div 2 # j
      BY <1>2
    <3>1. CASE j = i
      <4>1. due[at[i \div 2]] <= due[at[c]]
        BY <3>1, <1>1, <1>2, <1>5 DEF LooseAt, Bridged
      <4> QED
        BY <4>1, <3>0, <3>1, <2>2, <2>3, <2>5
    <3>2. CASE j # i /\ j \div 2 = i
      <4>1. e[j \div 2] = at[c] /\ e[j] = at[j]
        BY <3>0, <3>2, <2>2, <2>3, <2>5
      <4> QED
        BY <4>1, <3>2, <1>5
    <3>3. CASE j # i /\ j \div 2 # i
      BY <3>0, <3>3, <2>2, <2>4, <2>5
    <3> QED
      BY <3>1, <3>2, <3>3
  <2>6. Bridged(e, n, due, c)
    <3> SUFFICES ASSUME NEW j \in 2..n, j \div 2 = c
                 PROVE  due[e[c \div 2]] <= due[e[j]]
      BY DEF Bridged
    <3>1. j # i /\ j # c /\ c # i /\ j \in 1..n
      BY <2>0, <1>2
    <3>2. e[c \div 2] = at[c] /\ e[j] = at[j]
      BY <3>1, <2>2, <2>3, <1>5
    <3> QED
      BY <3>1, <3>2, <2>4
  <2>7. LooseAt(e, n, due, c)
    BY <2>5, <2>6 DEF LooseAt
  <2>8. c > k + 1 \/ LooseAbove(e, n, due, c)
    <3>1. CASE i > k
      BY <3>1, <2>0, <1>2
    <3>2. CASE LooseAbove(at, n, due, i)
      <4>1. due[x] <= due[at[c]]
        BY <3>2, <2>0, <1>1, <1>5 DEF LooseAbove
      <4> QED
        BY <4>1, <1>1, <1>3, <1>5, <2>0
    <3> QED
      BY <3>1, <3>2, <1>1
  <2> QED
    BY <2>0, <2>2, <2>3, <2>7, <2>8 DEF GoingDown
<1> QED
  BY <1>1, <1>4, <1>5, SmallestChild

(* h is a heap of the n nodes N.                                           *)
HeapOf(h, due, n, N) ==
  \E at \in Positions(n) : IsTree(h, at, n) /\ NodesOf(at, n) = N /\ Ordered(at, n, due)

(* Moving a node up restores the order above it.                           *)
LEMMA SiftUpSorts ==
  ASSUME NEW h, NEW due \in [Item -> Nat], NEW x \in Item, NEW n, NEW N,
         GoingUp(h, due, x, n, N, 0)
  PROVE  HeapOf(SiftUp(h, due, x), due, n, N)
<1>1. h \in HeapSet /\ h.nelts = n /\ n \in Nat
  BY DEF GoingUp, IsTree
<1>2. PICK g \in [0..n -> HeapSet] :
        /\ g[0] = h
        /\ \A k \in 1..n : g[k] = MoveUp(g[k - 1], due, x)
        /\ SiftUp(h, due, x) = g[n]
  <2>1. RunUp(h, due, x, n)
    BY <1>1, UpRuns
  <2> QED
    BY <2>1 DEF RunUp
<1> DEFINE S == {k \in Nat : k <= n => GoingUp(g[k], due, x, n, N, k)}
<1>3. 0 \in S
  BY <1>2
<1>4. ASSUME NEW k \in Nat, k \in S
      PROVE  k + 1 \in S
  <2> SUFFICES ASSUME k + 1 <= n
               PROVE  GoingUp(g[k + 1], due, x, n, N, k + 1)
    OBVIOUS
  <2>1. k + 1 \in 1..n /\ (k + 1) - 1 = k /\ k <= n
    BY <1>1
  <2>2. g[k + 1] = MoveUp(g[k], due, x)
    BY <2>1, <1>2
  <2>3. GoingUp(g[k], due, x, n, N, k)
    BY <2>1, <1>4
  <2> QED
    BY <2>2, <2>3, MoveUpKeeps
<1>5. n \in S
  <2> HIDE DEF S
  <2> QED
    BY <1>1, <1>3, <1>4, NatInSet
<1>6. PICK at \in Positions(n), i \in 1..n :
        /\ IsTree(g[n], at, n) /\ at[i] = x /\ NodesOf(at, n) = N
        /\ LooseAbove(at, n, due, i)
        /\ i + n <= n \/ Ordered(at, n, due)
  BY <1>1, <1>5 DEF GoingUp
<1>7. Ordered(at, n, due)
  BY <1>1, <1>6
<1> QED
  BY <1>2, <1>6, <1>7 DEF HeapOf

(* After moving a node down only it and its parent may be out of order.    *)
LEMMA SiftDownLoosens ==
  ASSUME NEW h, NEW due \in [Item -> Nat], NEW x \in Item, NEW n, NEW N,
         GoingDown(h, due, x, n, N, 0)
  PROVE  GoingUp(SiftDown(h, due, x), due, x, n, N, 0)
<1>1. h \in HeapSet /\ h.nelts = n /\ n \in Nat
  BY DEF GoingDown, IsTree
<1>2. PICK g \in [0..n -> HeapSet] :
        /\ g[0] = h
        /\ \A k \in 1..n : g[k] = MoveDown(g[k - 1], due, x)
        /\ SiftDown(h, due, x) = g[n]
  <2>1. RunDown(h, due, x, n)
    BY <1>1, DownRuns
  <2> QED
    BY <2>1 DEF RunDown
<1> DEFINE S == {k \in Nat : k <= n => GoingDown(g[k], due, x, n, N, k)}
<1>3. 0 \in S
  BY <1>2
<1>4. ASSUME NEW k \in Nat, k \in S
      PROVE  k + 1 \in S
  <2> SUFFICES ASSUME k + 1 <= n
               PROVE  GoingDown(g[k + 1], due, x, n, N, k + 1)
    OBVIOUS
  <2>1. k + 1 \in 1..n /\ (k + 1) - 1 = k /\ k <= n
    BY <1>1
  <2>2. g[k + 1] = MoveDown(g[k], due, x)
    BY <2>1, <1>2
  <2>3. GoingDown(g[k], due, x, n, N, k)
    BY <2>1, <1>4
  <2> QED
    BY <2>2, <2>3, MoveDownKeeps
<1>5. n \in S
  <2> HIDE DEF S
  <2> QED
    BY <1>1, <1>3, <1>4, NatInSet
<1>6. PICK at \in Positions(n), i \in 1..n :
        /\ IsTree(g[n], at, n) /\ at[i] = x /\ NodesOf(at, n) = N
        /\ LooseAt(at, n, due, i)
        /\ i > n \/ LooseAbove(at, n, due, i)
  BY <1>1, <1>5 DEF GoingDown
<1>7. LooseAbove(at, n, due, i) /\ i + 0 <= n
  BY <1>1, <1>6
<1> QED
  BY <1>2, <1>6, <1>7 DEF GoingUp

-----------------------------------------------------------------------------
(* The pointers after x is hung below q at position m.                     *)
Hung(H, h, x, p, q, m) ==
  /\ H \in HeapSet /\ H.nelts = m
  /\ H.min = IF m = 1 THEN x ELSE h.min
  /\ \A y \in Item :
       /\ H.left[y] = IF y = x THEN Null
                      ELSE IF m # 1 /\ m % 2 # 1 /\ y = q THEN x ELSE h.left[y]
       /\ H.right[y] = IF y = x THEN Null
                       ELSE IF m # 1 /\ m % 2 = 1 /\ y = q THEN x ELSE h.right[y]
       /\ H.parent[y] = IF y = x THEN p ELSE h.parent[y]

(* A node hung at the first free position makes a tree of one more.        *)
LEMMA HungTree ==
  ASSUME NEW H, NEW h, NEW at, NEW n, IsTree(h, at, n),
         NEW x \in Item, x \notin NodesOf(at, n),
         Hung(H, h, x, Place(at, n, (n + 1) \div 2), Place(at, n, (n + 1) \div 2), n + 1)
  PROVE  IsTree(H, [k \in 1..(n + 1) |-> IF k = n + 1 THEN x ELSE at[k]], n + 1)
<1> DEFINE m == n + 1
           r == m \div 2
           q == Place(at, n, r)
           b == [k \in 1..m |-> IF k = m THEN x ELSE at[k]]
<1>1. /\ n \in Nat /\ at \in [1..n -> Item] /\ AllDiffer(at, n) /\ h.min = Place(at, n, 1)
      /\ \A k \in 1..n : /\ h.left[at[k]] = Place(at, n, 2 * k)
                         /\ h.right[at[k]] = Place(at, n, 2 * k + 1)
                         /\ h.parent[at[k]] = Place(at, n, k \div 2)
  BY DEF IsTree
<1>2. \A k \in 1..n : at[k] # x /\ at[k] \in Item /\ at[k] # Null
  BY <1>1, TimerAssumption DEF NodesOf
<1>3. /\ b \in [1..m -> Item] /\ b[m] = x
      /\ \A k \in 1..n : b[k] = at[k] /\ k \in 1..m /\ k # m
      /\ \A k \in 1..m : k = m \/ k \in 1..n
      /\ m \in 1..m /\ m \in Nat
  BY <1>1
<1> HIDE DEF b
<1>4. \A k \in Int : Place(b, m, k) = IF k = m THEN x ELSE Place(at, n, k)
  <2> TAKE k \in Int
  <2>1. CASE k = m
    BY <2>1, <1>3 DEF Place
  <2>2. CASE k # m
    <3>1. k \in 1..m <=> k \in 1..n
      BY <2>2, <1>1
    <3> QED
      BY <2>2, <3>1, <1>3 DEF Place
  <2> QED
    BY <2>1, <2>2
<1>5. AllDiffer(b, m)
  BY <1>1, <1>2, <1>3 DEF AllDiffer
<1>6. r \in Nat /\ r < m /\ (m = 1 => r = 0) /\ (m # 1 => r \in 1..n)
  BY <1>1
<1> HIDE DEF m, r, q
<1>7. /\ H \in HeapSet /\ H.nelts = m
      /\ H.min = IF m = 1 THEN x ELSE h.min
      /\ \A y \in Item :
           /\ H.left[y] = IF y = x THEN Null
                          ELSE IF m # 1 /\ m % 2 # 1 /\ y = q THEN x ELSE h.left[y]
           /\ H.right[y] = IF y = x THEN Null
                           ELSE IF m # 1 /\ m % 2 = 1 /\ y = q THEN x ELSE h.right[y]
           /\ H.parent[y] = IF y = x THEN q ELSE h.parent[y]
  BY DEF Hung, m, r, q
<1>8. \A k \in 1..n : q = at[k] <=> r = k
  BY <1>1, <1>2, <1>6 DEF q, Place, AllDiffer
<1>9. H.min = Place(b, m, 1)
  BY <1>1, <1>4, <1>7
<1>10. \A k \in 1..n : /\ (m # 1 /\ m % 2 # 1 /\ r = k) <=> 2 * k = m
                       /\ (m # 1 /\ m % 2 = 1 /\ r = k) <=> 2 * k + 1 = m
  <2> TAKE k \in 1..n
  <2>1. m \in Nat /\ k \in Nat /\ k >= 1 /\ r = m \div 2
    BY <1>1, <1>3 DEF r
  <2>2. r = k <=> 2 * k = m \/ 2 * k + 1 = m
    BY <2>1
  <2>3. 2 * k = m => m # 1 /\ m % 2 # 1
    BY <2>1
  <2>4. 2 * k + 1 = m => m # 1 /\ m % 2 = 1
    BY <2>1
  <2> QED
    BY <2>2, <2>3, <2>4
<1>11. ASSUME NEW k \in 1..m
       PROVE  /\ H.left[b[k]] = Place(b, m, 2 * k)
              /\ H.right[b[k]] = Place(b, m, 2 * k + 1)
              /\ H.parent[b[k]] = Place(b, m, k \div 2)
  <2>1. CASE k = m
    <3>1. Place(b, m, 2 * m) = Null /\ Place(b, m, 2 * m + 1) = Null
      BY <1>3 DEF Place
    <3>2. Place(b, m, r) = q
      BY <1>4, <1>6 DEF q
    <3>3. H.left[x] = Null /\ H.right[x] = Null /\ H.parent[x] = q
      BY <1>7
    <3> QED
      BY <2>1, <3>1, <3>2, <3>3, <1>3 DEF r
  <2>2. CASE k \in 1..n
    <3>1. b[k] = at[k] /\ at[k] # x /\ at[k] \in Item
      BY <2>2, <1>2, <1>3
    <3>2. /\ h.left[at[k]] = Place(at, n, 2 * k)
          /\ h.right[at[k]] = Place(at, n, 2 * k + 1)
          /\ h.parent[at[k]] = Place(at, n, k \div 2)
      BY <2>2, <1>1
    <3>3. H.left[at[k]] = IF 2 * k = m THEN x ELSE Place(at, n, 2 * k)
      BY <2>2, <3>1, <3>2, <1>7, <1>8, <1>10
    <3>4. H.right[at[k]] = IF 2 * k + 1 = m THEN x ELSE Place(at, n, 2 * k + 1)
      BY <2>2, <3>1, <3>2, <1>7, <1>8, <1>10
    <3>5. H.parent[at[k]] = Place(at, n, k \div 2)
      BY <3>1, <3>2, <1>7
    <3>6. 2 * k \in Int /\ 2 * k + 1 \in Int /\ k \div 2 \in Int /\ k \div 2 # m
      BY <2>2, <1>1 DEF m
    <3> QED
      BY <3>1, <3>3, <3>4, <3>5, <3>6, <1>4
  <2> QED
    BY <2>1, <2>2, <1>3
<1> QED
  BY <1>3, <1>5, <1>7, <1>9, <1>11 DEF IsTree, b, m

(* heap_insert writes those pointers before it moves the node up.          *)
LEMMA InsertHangs ==
  ASSUME NEW h, NEW at, NEW n, IsTree(h, at, n), NEW due,
         NEW x \in Item, x \notin NodesOf(at, n)
  PROVE  \E H : /\ Hung(H, h, x, Place(at, n, (n + 1) \div 2),
                        Place(at, n, (n + 1) \div 2), n + 1)
                /\ InsertNode(h, due, x) = SiftUp(H, due, x)
<1> DEFINE m == n + 1
           r == m \div 2
           p == IF m = 1 THEN Null ELSE At(h, r)
           blank == [h EXCEPT !.left[x] = Null, !.right[x] = Null, !.parent[x] = p, !.nelts = m]
           q == Place(at, n, r)
           H == SetAt(blank, m, x)
<1>1. /\ h \in HeapSet /\ n \in Nat /\ h.nelts = n /\ at \in [1..n -> Item]
      /\ h.min = Place(at, n, 1)
  BY DEF IsTree
<1>2. InsertNode(h, due, x) = SiftUp(H, due, x)
  BY <1>1 DEF InsertNode
<1>3. m \in Nat /\ r \in Nat /\ (m = 1 => r = 0) /\ (m # 1 => r \in 1..n)
  BY <1>1
<1>4. p = q
  BY <1>3, AtTree DEF Place
<1>5. q \in Item \cup {Null} /\ (m # 1 => q \in Item /\ q # x)
  BY <1>1, <1>3 DEF Place, NodesOf
<1>6. /\ blank \in HeapSet /\ blank.nelts = m /\ blank.min = h.min
      /\ \A y \in Item : /\ blank.left[y] = IF y = x THEN Null ELSE h.left[y]
                         /\ blank.right[y] = IF y = x THEN Null ELSE h.right[y]
                         /\ blank.parent[y] = IF y = x THEN p ELSE h.parent[y]
  BY <1>1, <1>3, <1>4, <1>5 DEF HeapSet, Links
<1> HIDE DEF blank, p, m
<1>7. m # 1 => At(blank, r) = q
  <2> SUFFICES ASSUME m # 1
               PROVE  At(blank, r) = at[r]
    BY <1>3 DEF Place
  <2>1. r \in Nat \ {0} /\ r \in 1..n /\ 1 \in 1..n
    BY <1>1, <1>3
  <2>2. h.min = at[1]
    BY <1>1, <2>1 DEF Place
  <2>3. ASSUME NEW k \in 2..r
        PROVE  at[k] = IF k % 2 = 1 THEN blank.right[at[k \div 2]] ELSE blank.left[at[k \div 2]]
    <3>1. k \div 2 \in 1..n /\ k \in 1..n /\ k \in Nat
      BY <2>1, <1>1
    <3>2. at[k \div 2] \in Item /\ at[k \div 2] # x
      BY <3>1, <1>1 DEF NodesOf
    <3>3. /\ h.left[at[k \div 2]] = Place(at, n, 2 * (k \div 2))
          /\ h.right[at[k \div 2]] = Place(at, n, 2 * (k \div 2) + 1)
      BY <3>1 DEF IsTree
    <3>4. k % 2 = 1 => 2 * (k \div 2) + 1 = k
      BY <3>1
    <3>5. k % 2 # 1 => 2 * (k \div 2) = k
      BY <3>1
    <3>6. Place(at, n, k) = at[k]
      BY <3>1 DEF Place
    <3> QED
      BY <3>2, <3>3, <3>4, <3>5, <3>6, <1>6
  <2>4. Leads(blank, at, r)
    BY <2>2, <2>3, <1>6 DEF Leads
  <2> QED
    BY <2>1, <2>4, AtPath
<1>8. /\ H \in HeapSet /\ H.nelts = m
      /\ H.min = IF m = 1 THEN x ELSE h.min
  BY <1>5, <1>6, <1>7 DEF SetAt, HeapSet, Links
<1>9. ASSUME NEW y \in Item
      PROVE  /\ H.left[y] = IF m # 1 /\ m % 2 # 1 /\ y = q THEN x ELSE blank.left[y]
             /\ H.right[y] = IF m # 1 /\ m % 2 = 1 /\ y = q THEN x ELSE blank.right[y]
             /\ H.parent[y] = blank.parent[y]
  <2>1. CASE m = 1
    BY <2>1, <1>6 DEF SetAt, HeapSet
  <2>2. CASE m # 1 /\ m % 2 = 1
    BY <2>2, <1>5, <1>6, <1>7 DEF SetAt, HeapSet, Links
  <2>3. CASE m # 1 /\ m % 2 # 1
    BY <2>3, <1>5, <1>6, <1>7 DEF SetAt, HeapSet, Links
  <2> QED
    BY <2>1, <2>2, <2>3
<1> HIDE DEF H, q, r
<1>10. Hung(H, h, x, q, q, m)
  BY <1>4, <1>5, <1>6, <1>8, <1>9 DEF Hung
<1> QED
  BY <1>2, <1>10 DEF q, r, m

(* heap_insert of a node that is not in the heap leaves a heap with it.    *)
LEMMA InsertSorts ==
  ASSUME NEW h, NEW due \in [Item -> Nat], NEW n, NEW N, HeapOf(h, due, n, N),
         NEW x \in Item, x \notin N
  PROVE  HeapOf(InsertNode(h, due, x), due, n + 1, N \cup {x})
<1>1. PICK at \in Positions(n) : IsTree(h, at, n) /\ NodesOf(at, n) = N /\ Ordered(at, n, due)
  BY DEF HeapOf
<1>2. n \in Nat /\ at \in [1..n -> Item]
  BY <1>1 DEF IsTree
<1>3. PICK H : /\ Hung(H, h, x, Place(at, n, (n + 1) \div 2),
                       Place(at, n, (n + 1) \div 2), n + 1)
               /\ InsertNode(h, due, x) = SiftUp(H, due, x)
  BY <1>1, InsertHangs
<1> DEFINE m == n + 1
           b == [k \in 1..m |-> IF k = m THEN x ELSE at[k]]
<1>4. IsTree(H, b, m)
  BY <1>1, <1>3, HungTree
<1>5. /\ b \in Positions(m) /\ b[m] = x /\ m \in 1..m
      /\ \A k \in 1..n : b[k] = at[k] /\ k \in 1..m
      /\ \A k \in 1..m : k = m \/ k \in 1..n
  BY <1>2 DEF Positions
<1> HIDE DEF b
<1>6. NodesOf(b, m) = N \cup {x}
  <2>1. N = {at[k] : k \in 1..n}
    BY <1>1 DEF NodesOf
  <2>2. {b[k] : k \in 1..m} \subseteq N \cup {x}
    BY <2>1, <1>5
  <2>3. N \cup {x} \subseteq {b[k] : k \in 1..m}
    BY <2>1, <1>5
  <2> QED
    BY <2>2, <2>3 DEF NodesOf
<1>7. \A k \in 2..m : k # m => due[b[k \div 2]] <= due[b[k]]
  <2> TAKE k \in 2..m
  <2> HAVE k # m
  <2>1. k \in 2..n /\ k \in 1..n /\ k \div 2 \in 1..n
    BY <1>2
  <2> QED
    BY <2>1, <1>1, <1>5 DEF Ordered
<1>8. Bridged(b, m, due, m)
  <2>1. \A k \in 2..m : k \div 2 # m
    BY <1>2
  <2> QED
    BY <2>1 DEF Bridged
<1>9. m + 0 <= m
  BY <1>2
<1>10. GoingUp(H, due, x, m, N \cup {x}, 0)
  BY <1>4, <1>5, <1>6, <1>7, <1>8, <1>9 DEF GoingUp, LooseAbove
<1> QED
  BY <1>3, <1>10, SiftUpSorts

(* The last position is empty.                                             *)
Unlinked(h, n) == [SetAt(h, n, Null) EXCEPT !.nelts = @ - 1]

(* Without its last position a tree is a tree.                             *)
LEMMA UnlinkTree ==
  ASSUME NEW h, NEW at, NEW n, IsTree(h, at, n), n # 0
  PROVE  IsTree(Unlinked(h, n), [k \in 1..(n - 1) |-> at[k]], n - 1)
<1> DEFINE r == n \div 2
           S == SetAt(h, n, Null)
           U == Unlinked(h, n)
           m == n - 1
           a == [k \in 1..m |-> at[k]]
<1>1. /\ n \in Nat /\ at \in [1..n -> Item] /\ AllDiffer(at, n) /\ h.min = Place(at, n, 1)
      /\ h \in HeapSet /\ h.nelts = n
      /\ \A k \in 1..n : /\ h.left[at[k]] = Place(at, n, 2 * k)
                         /\ h.right[at[k]] = Place(at, n, 2 * k + 1)
                         /\ h.parent[at[k]] = Place(at, n, k \div 2)
  BY DEF IsTree
<1>2. /\ m \in Nat /\ r \in Nat /\ n # m /\ (n # 1 => r \in 1..n)
      /\ \A k \in 1..m : k \in 1..n /\ k # n /\ k \in Nat
      /\ \A k \in 1..n : k = n \/ k \in 1..m
  BY <1>1
<1>3. /\ a \in [1..m -> Item] /\ \A k \in 1..m : a[k] = at[k]
  BY <1>1, <1>2
<1>4. \A k \in Int : Place(a, m, k) = IF k = n THEN Null ELSE Place(at, n, k)
  <2> TAKE k \in Int
  <2>1. k \in 1..m <=> k \in 1..n /\ k # n
    BY <1>1
  <2> QED
    BY <2>1, <1>3 DEF Place
<1>5. AllDiffer(a, m)
  BY <1>1, <1>2, <1>3 DEF AllDiffer
<1>6. n # 1 => At(h, r) = at[r] /\ at[r] \in Item
  <2>1. \A k \in 1..n : At(h, k) = at[k]
    BY AtTree
  <2> HIDE DEF r
  <2> QED
    BY <2>1, <1>1, <1>2
<1> HIDE DEF r, m, a
<1>7. /\ U \in HeapSet /\ U.nelts = m
      /\ U.min = IF n = 1 THEN Null ELSE h.min
  BY <1>1, <1>2, <1>6 DEF Unlinked, SetAt, HeapSet, Links, r, m
<1>8. ASSUME NEW y \in Item
      PROVE  /\ U.left[y] = IF n # 1 /\ n % 2 # 1 /\ y = at[r] THEN Null ELSE h.left[y]
             /\ U.right[y] = IF n # 1 /\ n % 2 = 1 /\ y = at[r] THEN Null ELSE h.right[y]
             /\ U.parent[y] = h.parent[y]
  <2>1. CASE n = 1
    BY <2>1, <1>1 DEF Unlinked, SetAt, HeapSet
  <2>2. CASE n # 1 /\ n % 2 = 1
    BY <2>2, <1>1, <1>6 DEF Unlinked, SetAt, HeapSet, Links, r
  <2>3. CASE n # 1 /\ n % 2 # 1
    BY <2>3, <1>1, <1>6 DEF Unlinked, SetAt, HeapSet, Links, r
  <2> QED
    BY <2>1, <2>2, <2>3
<1> HIDE DEF U
<1>9. U.min = Place(a, m, 1)
  BY <1>1, <1>4, <1>7
<1>10. ASSUME NEW k \in 1..m
       PROVE  /\ U.left[a[k]] = Place(a, m, 2 * k)
              /\ U.right[a[k]] = Place(a, m, 2 * k + 1)
              /\ U.parent[a[k]] = Place(a, m, k \div 2)
  <2>1. a[k] = at[k] /\ at[k] \in Item /\ k \in 1..n /\ k \in Nat /\ k >= 1
    BY <1>1, <1>2, <1>3
  <2>2. n # 1 => (at[k] = at[r] <=> r = k)
    BY <2>1, <1>1, <1>2 DEF AllDiffer
  <2>3. r = k <=> 2 * k = n \/ 2 * k + 1 = n
    BY <2>1, <1>1 DEF r
  <2>4. 2 * k = n => n # 1 /\ n % 2 # 1
    BY <2>1
  <2>5. 2 * k + 1 = n => n # 1 /\ n % 2 = 1
    BY <2>1
  <2>6. U.left[at[k]] = IF 2 * k = n THEN Null ELSE Place(at, n, 2 * k)
    BY <2>1, <2>2, <2>3, <2>4, <2>5, <1>1, <1>8
  <2>7. U.right[at[k]] = IF 2 * k + 1 = n THEN Null ELSE Place(at, n, 2 * k + 1)
    BY <2>1, <2>2, <2>3, <2>4, <2>5, <1>1, <1>8
  <2>8. U.parent[at[k]] = Place(at, n, k \div 2)
    BY <2>1, <1>1, <1>8
  <2>9. 2 * k \in Int /\ 2 * k + 1 \in Int /\ k \div 2 \in Int /\ k \div 2 # n
    BY <2>1, <1>1
  <2> QED
    BY <2>1, <2>6, <2>7, <2>8, <2>9, <1>4
<1> QED
  BY <1>2, <1>3, <1>5, <1>7, <1>9, <1>10 DEF IsTree, a, m, U

(* m, which is not in the tree, takes the place of the node at i.          *)
LEMMA TakePlaceTree ==
  ASSUME NEW h, NEW at, NEW n, IsTree(h, at, n), NEW i \in 1..n,
         NEW m \in Item, m \notin NodesOf(at, n)
  PROVE  IsTree(TakePlace(h, at[i], m), [at EXCEPT ![i] = m], n)
<1> DEFINE x == at[i]
           g == h.parent[x]
           H == TakePlace(h, x, m)
           e == [at EXCEPT ![i] = m]
<1>1. /\ n \in Nat /\ at \in [1..n -> Item] /\ AllDiffer(at, n) /\ h.min = Place(at, n, 1)
      /\ h \in HeapSet /\ h.nelts = n
      /\ \A k \in 1..n : /\ h.left[at[k]] = Place(at, n, 2 * k)
                         /\ h.right[at[k]] = Place(at, n, 2 * k + 1)
                         /\ h.parent[at[k]] = Place(at, n, k \div 2)
  BY DEF IsTree
<1>2. i \in Nat /\ i >= 1 /\ x \in Item /\ m # x /\ Null \notin Item
  BY <1>1, TimerAssumption DEF NodesOf
<1>3. /\ e \in [1..n -> Item] /\ e[i] = m
      /\ \A k \in 1..n : k # i => e[k] = at[k]
      /\ \A k \in 1..n : at[k] # m /\ at[k] \in Item /\ (at[k] = x <=> k = i)
  BY <1>1, <1>2 DEF NodesOf, AllDiffer
<1>4. AllDiffer(e, n)
  BY <1>1, <1>3 DEF AllDiffer
<1>5. \A k \in Int : Place(e, n, k) = IF k = i THEN m ELSE Place(at, n, k)
  BY <1>3 DEF Place
<1>6. g = Place(at, n, i \div 2) /\ i \div 2 \in Nat /\ i \div 2 < i
  BY <1>1, <1>2
<1>7. h.left[x] = Place(at, n, 2 * i) /\ h.right[x] = Place(at, n, 2 * i + 1)
  BY <1>1
<1> HIDE DEF g, e
<1>8. H \in HeapSet /\ H.nelts = n /\ H.min = IF g = Null THEN m ELSE h.min
  BY <1>1, <1>2 DEF TakePlace, HeapSet, Links, g
<1>9. ASSUME NEW y \in Item
      PROVE  /\ H.left[y] = IF y = m THEN h.left[x] ELSE IF y = x THEN Null
                            ELSE IF y = g /\ h.left[g] = x THEN m ELSE h.left[y]
             /\ H.right[y] = IF y = m THEN h.right[x] ELSE IF y = x THEN Null
                             ELSE IF y = g /\ h.left[g] # x THEN m ELSE h.right[y]
             /\ H.parent[y] = IF y = m THEN g ELSE IF y = x THEN Null
                              ELSE IF y \in Children(h, x) THEN m ELSE h.parent[y]
  BY DEF TakePlace, g
<1> HIDE DEF H, x
<1>10. \A j \in Int, k \in 1..n : Place(at, n, j) = at[k] <=> j = k
  <2> TAKE j \in Int, k \in 1..n
  <2>1. at[k] # Null
    BY <1>2, <1>3
  <2> QED
    BY <2>1, <1>1 DEF Place, AllDiffer
<1>11. H.min = Place(e, n, 1)
  <2>1. CASE i = 1
    BY <2>1, <1>5, <1>6, <1>8 DEF Place
  <2>2. CASE i # 1
    <3>1. i \div 2 \in 1..n
      BY <2>2, <1>1, <1>2
    <3>2. g # Null
      BY <3>1, <1>2, <1>3, <1>6 DEF Place
    <3> QED
      BY <2>2, <3>2, <1>1, <1>5, <1>8
  <2> QED
    BY <2>1, <2>2
<1>12. ASSUME NEW k \in 1..n
       PROVE  /\ H.left[e[k]] = Place(e, n, 2 * k)
              /\ H.right[e[k]] = Place(e, n, 2 * k + 1)
              /\ H.parent[e[k]] = Place(e, n, k \div 2)
  <2>1. k \in Nat /\ k >= 1 /\ 2 * k \in Int /\ 2 * k + 1 \in Int /\ k \div 2 \in Int
    BY <1>1
  <2>2. CASE k = i
    <3>1. 2 * i # i /\ 2 * i + 1 # i /\ i \div 2 # i
      BY <1>2
    <3>2. H.left[m] = h.left[x] /\ H.right[m] = h.right[x] /\ H.parent[m] = g
      BY <1>9
    <3> QED
      BY <2>1, <2>2, <3>1, <3>2, <1>3, <1>5, <1>6, <1>7
  <2>3. CASE k # i
    <3>1. e[k] = at[k] /\ at[k] \in Item /\ at[k] # m /\ at[k] # x
      BY <2>3, <1>3
    <3>2. /\ h.left[at[k]] = Place(at, n, 2 * k)
          /\ h.right[at[k]] = Place(at, n, 2 * k + 1)
          /\ h.parent[at[k]] = Place(at, n, k \div 2)
      BY <1>1
    <3>3. at[k] = g <=> k = i \div 2
      BY <1>6, <1>10
    <3>4. h.left[at[k]] = x <=> 2 * k = i
      BY <2>1, <3>2, <1>10 DEF x
    <3>5. k = i \div 2 <=> 2 * k = i \/ 2 * k + 1 = i
      BY <2>1, <1>2
    <3>6. at[k] \in Children(h, x) <=> k \div 2 = i
      <4>1. k \div 2 = i <=> k = 2 * i \/ k = 2 * i + 1
        BY <2>1, <1>2
      <4> QED
        BY <4>1, <1>2, <1>7, <1>10 DEF Children
    <3>7. H.left[at[k]] = IF 2 * k = i THEN m ELSE Place(at, n, 2 * k)
      BY <3>1, <3>2, <3>3, <3>4, <3>5, <1>9
    <3>8. H.right[at[k]] = IF 2 * k + 1 = i THEN m ELSE Place(at, n, 2 * k + 1)
      BY <2>1, <3>1, <3>2, <3>3, <3>4, <3>5, <1>2, <1>9
    <3>9. H.parent[at[k]] = IF k \div 2 = i THEN m ELSE Place(at, n, k \div 2)
      BY <3>1, <3>2, <3>6, <1>9
    <3> QED
      BY <2>1, <3>1, <3>7, <3>8, <3>9, <1>5
  <2> QED
    BY <2>2, <2>3
<1> QED
  BY <1>1, <1>3, <1>4, <1>8, <1>11, <1>12 DEF IsTree, H, e, x

(* heap_remove of any node leaves a heap without it.                       *)
LEMMA RemoveSorts ==
  ASSUME NEW h, NEW due \in [Item -> Nat], NEW n, NEW N, HeapOf(h, due, n, N), NEW x \in N
  PROVE  HeapOf(RemoveNode(h, due, x), due, n - 1, N \ {x}) /\ n # 0
<1>1. PICK at \in Positions(n) : IsTree(h, at, n) /\ NodesOf(at, n) = N /\ Ordered(at, n, due)
  BY DEF HeapOf
<1>2. n \in Nat /\ at \in [1..n -> Item] /\ AllDiffer(at, n) /\ h.nelts = n
  BY <1>1 DEF IsTree
<1>3. PICK i \in 1..n : at[i] = x
  BY <1>1 DEF NodesOf
<1> DEFINE j == n - 1
           a == [k \in 1..j |-> at[k]]
           m == at[n]
           U == Unlinked(h, n)
<1>4. n # 0 /\ n \in 1..n /\ j \in Nat /\ i \in Nat /\ i >= 1
  BY <1>2
<1>5. At(h, h.nelts) = m
  BY <1>1, <1>2, <1>4, AtTree
<1>6. IsTree(U, a, j)
  BY <1>1, <1>4, UnlinkTree
<1>7. /\ a \in [1..j -> Item] /\ \A k \in 1..j : a[k] = at[k] /\ k \in 1..n /\ k # n
      /\ \A k \in 1..n : k = n \/ k \in 1..j
  BY <1>2
<1>8. /\ m \in Item /\ x \in Item /\ N = {at[k] : k \in 1..n}
      /\ \A k \in 1..n : (at[k] = m <=> k = n) /\ (at[k] = x <=> k = i)
  BY <1>1, <1>2, <1>3, <1>4 DEF AllDiffer, NodesOf
<1>9. RemoveNode(h, due, x) = IF m = x THEN [U EXCEPT !.parent[x] = Null]
                              ELSE Settle(TakePlace(U, x, m), due, m)
  BY <1>2, <1>5 DEF RemoveNode, Unlinked
<1> HIDE DEF U, a, m
<1>10. CASE m = x
  <2> DEFINE R == [U EXCEPT !.parent[x] = Null]
  <2>1. NodesOf(a, j) = N \ {x}
    <3>1. {a[k] : k \in 1..j} \subseteq N \ {x}
      BY <1>7, <1>8, <1>10
    <3>2. N \ {x} \subseteq {a[k] : k \in 1..j}
      BY <1>7, <1>8, <1>10 DEF m
    <3> QED
      BY <3>1, <3>2 DEF NodesOf
  <2>2. Ordered(a, j, due)
    <3>1. \A k \in 2..j : k \in 2..n /\ k \in 1..j /\ k \div 2 \in 1..j
      BY <1>4
    <3> QED
      BY <3>1, <1>1, <1>7 DEF Ordered
  <2>3. /\ U \in HeapSet /\ U.nelts = j /\ U.min = Place(a, j, 1)
        /\ AllDiffer(a, j)
        /\ \A k \in 1..j : /\ U.left[a[k]] = Place(a, j, 2 * k)
                           /\ U.right[a[k]] = Place(a, j, 2 * k + 1)
                           /\ U.parent[a[k]] = Place(a, j, k \div 2)
    BY <1>6 DEF IsTree
  <2>4. /\ R \in HeapSet /\ R.nelts = j /\ R.min = U.min /\ R.left = U.left /\ R.right = U.right
        /\ \A y \in Item : y # x => R.parent[y] = U.parent[y]
    BY <2>3, <1>8 DEF HeapSet, Links
  <2> HIDE DEF R
  <2>5. \A k \in 1..j : a[k] # x /\ a[k] \in Item
    BY <1>7, <1>8, <1>10
  <2>6. IsTree(R, a, j)
    BY <2>3, <2>4, <2>5, <1>4, <1>7 DEF IsTree
  <2> QED
    BY <2>1, <2>2, <2>6, <1>4, <1>7, <1>9, <1>10 DEF HeapOf, R, Positions
<1>11. CASE m # x
  <2> DEFINE e == [a EXCEPT ![i] = m]
             T == TakePlace(U, x, m)
  <2>1. i \in 1..j /\ a[i] = x
    BY <1>3, <1>7, <1>8, <1>11
  <2>2. m \notin NodesOf(a, j)
    BY <1>7, <1>8 DEF NodesOf
  <2>3. IsTree(T, e, j)
    BY <2>1, <2>2, <1>6, <1>8, TakePlaceTree
  <2>4. /\ e \in Positions(j) /\ e[i] = m
        /\ \A k \in 1..j : k # i => e[k] = at[k]
    BY <2>1, <1>7, <1>8 DEF Positions
  <2> HIDE DEF e, T
  <2>5. NodesOf(e, j) = N \ {x}
    <3>1. {e[k] : k \in 1..j} \subseteq N \ {x}
      BY <2>4, <1>4, <1>7, <1>8, <1>11 DEF m
    <3>2. N \ {x} \subseteq {e[k] : k \in 1..j}
      <4> SUFFICES ASSUME NEW k \in 1..n, at[k] # x
                   PROVE  \E l \in 1..j : e[l] = at[k]
        BY <1>8
      <4>1. CASE k = n
        BY <4>1, <2>1, <2>4 DEF m
      <4>2. CASE k \in 1..j
        BY <4>2, <2>4, <1>3
      <4> QED
        BY <4>1, <4>2, <1>7
    <3> QED
      BY <3>1, <3>2 DEF NodesOf
  <2>6. \A k \in 2..j : k # i /\ k \div 2 # i => due[e[k \div 2]] <= due[e[k]]
    <3>1. \A k \in 2..j : k \in 2..n /\ k \in 1..j /\ k \div 2 \in 1..j
      BY <1>4
    <3> QED
      BY <3>1, <2>4, <1>1 DEF Ordered
  <2>7. Bridged(e, j, due, i)
    <3> SUFFICES ASSUME i >= 2, NEW k \in 2..j, k \div 2 = i
                 PROVE  due[e[i \div 2]] <= due[e[k]]
      BY DEF Bridged
    <3>1. /\ i \in 2..n /\ k \in 2..n /\ i \div 2 \in 1..j /\ i \div 2 # i /\ i \div 2 \in 1..n
          /\ k \in 1..j /\ k # i
      BY <2>1, <1>4
    <3>2. due[at[i \div 2]] <= due[at[i]] /\ due[at[i]] <= due[at[k]]
      BY <3>1, <1>1 DEF Ordered
    <3>3. due[at[i \div 2]] \in Nat /\ due[at[i]] \in Nat /\ due[at[k]] \in Nat
      BY <3>1, <1>2
    <3>4. e[i \div 2] = at[i \div 2] /\ e[k] = at[k]
      BY <3>1, <2>4
    <3> QED
      BY <3>2, <3>3, <3>4
  <2>8. LooseAt(e, j, due, i) /\ i > 0
    BY <2>6, <2>7, <1>4 DEF LooseAt
  <2>9. GoingDown(T, due, m, j, N \ {x}, 0)
    BY <2>1, <2>3, <2>4, <2>5, <2>8 DEF GoingDown
  <2>10. HeapOf(Settle(T, due, m), due, j, N \ {x})
    BY <2>9, <1>8, SiftDownLoosens, SiftUpSorts DEF Settle
  <2> QED
    BY <2>10, <1>4, <1>9, <1>11 DEF T
<1> QED
  BY <1>10, <1>11

(* heap_min is a node that is due no later than all others.                *)
LEMMA RootIsFirst ==
  ASSUME NEW h, NEW due \in [Item -> Nat], NEW n, NEW N, HeapOf(h, due, n, N)
  PROVE  /\ N \subseteq Item /\ n \in Nat /\ h \in HeapSet /\ h.nelts = n
         /\ IsFiniteSet(N) /\ Cardinality(N) = n
         /\ h.min = Null <=> n = 0
         /\ h.min = Null <=> N = {}
         /\ h.min # Null => h.min \in N
         /\ \A x \in N : due[h.min] <= due[x]
<1>1. PICK at \in Positions(n) : IsTree(h, at, n) /\ NodesOf(at, n) = N /\ Ordered(at, n, due)
  BY DEF HeapOf
<1>2. n \in Nat /\ at \in [1..n -> Item] /\ AllDiffer(at, n) /\ h.nelts = n /\ h \in HeapSet
      /\ N = {at[k] : k \in 1..n} /\ h.min = Place(at, n, 1)
  BY <1>1 DEF IsTree, NodesOf
<1>3. \A k \in 1..n : at[k] \in N
  BY <1>2
<1>4. IsFiniteSet(N) /\ Cardinality(N) = n
  <2>1. at \in [1..n -> N]
    BY <1>2, <1>3
  <2>2. at \in Injection(1..n, N)
    BY <2>1, <1>2 DEF Injection, IsInjective, AllDiffer
  <2>3. at \in Surjection(1..n, N)
    BY <2>1, <1>2 DEF Surjection
  <2>4. ExistsBijection(1..n, N)
    BY <2>2, <2>3 DEF ExistsBijection, Bijection
  <2> QED
    BY <2>4, <1>2, FS_NatBijection, FS_CountingElements
<1>5. \A k \in 1..n : due[at[1]] <= due[at[k]]
  <2> DEFINE S == {m \in Nat : \A k \in 1..n : k <= m => due[at[1]] <= due[at[k]]}
  <2>1. 0 \in S
    BY <1>2
  <2>2. ASSUME NEW m \in Nat, m \in S
        PROVE  m + 1 \in S
    <3> SUFFICES ASSUME NEW k \in 1..n, k <= m + 1
                 PROVE  due[at[1]] <= due[at[k]]
      OBVIOUS
    <3>1. CASE k = 1
      BY <3>1, <1>2
    <3>2. CASE k # 1
      <4>1. k \in 2..n /\ k \div 2 \in 1..n /\ k \div 2 <= m /\ 1 \in 1..n
        BY <3>2, <1>2
      <4>2. due[at[1]] <= due[at[k \div 2]] /\ due[at[k \div 2]] <= due[at[k]]
        BY <4>1, <2>2, <1>1 DEF Ordered
      <4>3. due[at[1]] \in Nat /\ due[at[k]] \in Nat /\ due[at[k \div 2]] \in Nat
        BY <4>1, <1>2
      <4> QED
        BY <4>2, <4>3
    <3> QED
      BY <3>1, <3>2
  <2>3. n \in S
    <3> HIDE DEF S
    <3> QED
      BY <2>1, <2>2, <1>2, NatInSet
  <2> QED
    BY <2>3
<1>6. CASE n = 0
  BY <1>6, <1>2, <1>4 DEF Place
<1>7. CASE n # 0
  <2>1. 1 \in 1..n /\ h.min = at[1] /\ at[1] \in Item /\ at[1] # Null
    BY <1>7, <1>2, TimerAssumption DEF Place
  <2> QED
    BY <2>1, <1>2, <1>3, <1>4, <1>5, <1>7
<1> QED
  BY <1>6, <1>7

-----------------------------------------------------------------------------
(* A heap stays one when due times change that are not of its nodes.       *)
LEMMA SameOrder ==
  ASSUME NEW h, NEW due, NEW later, NEW n, NEW N, HeapOf(h, due, n, N),
         \A x \in N : later[x] = due[x]
  PROVE  HeapOf(h, later, n, N)
<1>1. PICK at \in Positions(n) : IsTree(h, at, n) /\ NodesOf(at, n) = N /\ Ordered(at, n, due)
  BY DEF HeapOf
<1>2. \A k \in 2..n : k \in 1..n /\ k \div 2 \in 1..n
  BY <1>1 DEF IsTree
<1>3. \A k \in 1..n : later[at[k]] = due[at[k]]
  BY <1>1 DEF NodesOf
<1>4. Ordered(at, n, later)
  BY <1>1, <1>2, <1>3 DEF Ordered
<1> QED
  BY <1>1, <1>4 DEF HeapOf

(* The nodes of the model are those of the tree.                           *)
LEMMA NodesFound ==
  ASSUME NEW h, NEW due, NEW n, NEW N, HeapOf(h, due, n, N)
  PROVE  {At(h, k) : k \in 1..n} = N
<1>1. PICK at \in Positions(n) : IsTree(h, at, n) /\ NodesOf(at, n) = N /\ Ordered(at, n, due)
  BY DEF HeapOf
<1>2. \A k \in 1..n : At(h, k) = at[k]
  BY <1>1, AtTree
<1> QED
  BY <1>1, <1>2 DEF NodesOf

(* The invariant.                                                          *)
TimerInv ==
  /\ dueTime \in [Item -> 0..Never]
  /\ now \in 0..MaxTime
  /\ buffer \in Seq(Item)
  /\ HeapOf(Heap, dueTime, nelts, Nodes)

(* What the invariant says of the sets of values.                          *)
LEMMA TimerInvSets ==
  ASSUME TimerInv
  PROVE  /\ dueTime \in [Item -> Nat] /\ now \in Nat
         /\ Heap \in HeapSet
         /\ Nodes \subseteq Item
         /\ nelts \in Nat
         /\ IsFiniteSet(Nodes) /\ Cardinality(Nodes) = nelts
         /\ min = Null <=> nelts = 0
         /\ min = Null <=> Nodes = {}
         /\ min # Null => min \in Nodes
         /\ \A x \in Nodes : dueTime[min] <= dueTime[x]
<1>1. dueTime \in [Item -> Nat] /\ now \in Nat
  BY TimerAssumption DEF TimerInv
<1>2. Heap.min = min
  BY DEF Heap
<1> QED
  BY <1>1, <1>2, RootIsFirst DEF TimerInv

(* The properties of Timer follow from the invariant: IsHeap,              *)
LEMMA HeapFromInv ==
  ASSUME TimerInv
  PROVE  IsHeap
<1>1. PICK at \in Positions(nelts) :
        IsTree(Heap, at, nelts) /\ NodesOf(at, nelts) = Nodes /\ Ordered(at, nelts, dueTime)
  BY DEF HeapOf, TimerInv
<1>2. \A k \in 1..nelts : At(Heap, k) = at[k]
  BY <1>1, AtTree
<1>3. /\ Heap.left = left /\ Heap.right = right /\ Heap.parent = parent
      /\ Heap.min = min /\ Heap.nelts = nelts
  BY DEF Heap
<1>4. TypeOK
  BY <1>3, TimerInvSets DEF TypeOK, TimerInv, HeapSet
<1>5. /\ nelts \in Nat /\ at \in [1..nelts -> Item] /\ Null \notin Item
      /\ \A k \in 1..nelts : /\ left[at[k]] = Place(at, nelts, 2 * k)
                             /\ right[at[k]] = Place(at, nelts, 2 * k + 1)
                             /\ parent[at[k]] = Place(at, nelts, k \div 2)
  BY <1>1, <1>3, TimerAssumption DEF IsTree
<1>6. LinksAgree
  <2>1. ASSUME NEW n \in 1..nelts
        PROVE  /\ left[At(Heap, n)] = IF 2 * n <= nelts THEN At(Heap, 2 * n) ELSE Null
               /\ right[At(Heap, n)] = IF 2 * n + 1 <= nelts THEN At(Heap, 2 * n + 1) ELSE Null
               /\ parent[At(Heap, n)] = IF n = 1 THEN Null ELSE At(Heap, n \div 2)
    <3>1. /\ 2 * n <= nelts <=> 2 * n \in 1..nelts
          /\ 2 * n + 1 <= nelts <=> 2 * n + 1 \in 1..nelts
          /\ n = 1 => n \div 2 \notin 1..nelts
          /\ n # 1 => n \div 2 \in 1..nelts
      <4>1. n \in Nat /\ n >= 1 /\ n <= nelts /\ nelts \in Nat
        BY <1>5
      <4> QED
        BY <4>1
    <3> QED
      BY <3>1, <1>2, <1>5 DEF Place
  <2> QED
    BY <2>1, TimerInvSets DEF LinksAgree
<1>7. \A x \in Nodes : parent[x] # Null => dueTime[parent[x]] <= dueTime[x]
  <2> SUFFICES ASSUME NEW k \in 1..nelts, parent[at[k]] # Null
               PROVE  dueTime[parent[at[k]]] <= dueTime[at[k]]
    BY <1>1 DEF NodesOf
  <2>1. k \div 2 \in 1..nelts /\ parent[at[k]] = at[k \div 2]
    BY <1>5 DEF Place
  <2>2. k \in 2..nelts
    BY <2>1, <1>5
  <2> QED
    BY <2>1, <2>2, <1>1 DEF Ordered
<1> QED
  BY <1>4, <1>6, <1>7 DEF IsHeap

(* and TimeoutIsRight.                                                     *)
LEMMA TimeoutFromInv ==
  ASSUME TimerInv
  PROVE  TimeoutIsRight
<1> DEFINE D == [i \in Item |-> IF i \in Nodes THEN dueTime[i] ELSE -1]
           first == CHOOSE i \in Queue!Queued : \A j \in Queue!Queued : D[i] <= D[j]
<1>1. /\ dueTime \in [Item -> 0..Never] /\ dueTime \in [Item -> Nat] /\ now \in Nat
      /\ Nodes \subseteq Item /\ Never \in Nat
      /\ min = Null <=> Nodes = {}
      /\ min # Null => min \in Nodes
      /\ \A x \in Nodes : dueTime[min] <= dueTime[x]
  BY TimerInvSets, TimerAssumption DEF TimerInv
<1>2. Queue!Queued = Nodes /\ \A i \in Nodes : D[i] = dueTime[i]
  BY <1>1 DEF Queue!Queued, Queue!NotQueued
<1>3. Queue!TimeoutAt = IF \A i \in Queue!Queued : D[i] = Never THEN Never
                        ELSE IF D[first] > now THEN D[first] ELSE now
  BY DEF Queue!TimeoutAt
<1> HIDE DEF D
<1>4. CASE min = Null
  BY <1>1, <1>2, <1>3, <1>4 DEF TimeoutIsRight, CalculateTimeout
<1>5. CASE min # Null /\ dueTime[min] = Never
  <2>1. \A i \in Nodes : dueTime[i] = Never
    BY <1>1, <1>5
  <2> QED
    BY <2>1, <1>2, <1>3, <1>5 DEF TimeoutIsRight, CalculateTimeout
<1>6. CASE min # Null /\ dueTime[min] # Never
  <2>1. first \in Nodes /\ \A j \in Nodes : D[first] <= D[j]
    <3>1. \E i \in Queue!Queued : \A j \in Queue!Queued : D[i] <= D[j]
      BY <1>1, <1>2, <1>6
    <3> QED
      BY <3>1, <1>2
  <2> HIDE DEF first
  <2>2. D[first] = dueTime[min]
    BY <2>1, <1>1, <1>2, <1>6
  <2>3. dueTime[min] \in Nat
    BY <1>1, <1>6
  <2>4. CalculateTimeout = IF dueTime[min] > now THEN dueTime[min] - now ELSE 0
    BY <1>6 DEF CalculateTimeout
  <2>5. CalculateTimeout \in Nat
        /\ now + CalculateTimeout = IF dueTime[min] > now THEN dueTime[min] ELSE now
    BY <2>3, <2>4, <1>1
  <2>6. Queue!TimeoutAt = IF dueTime[min] > now THEN dueTime[min] ELSE now
    BY <2>2, <1>1, <1>2, <1>3, <1>6
  <2>7. CalculateTimeout # -1
    BY <2>5
  <2> QED
    BY <2>5, <2>6, <2>7 DEF TimeoutIsRight
<1> QED
  BY <1>4, <1>5, <1>6

-----------------------------------------------------------------------------
(* A call that leaves a heap of the nodes, with their due times, keeps the *)
(* invariant.                                                              *)
LEMMA NextHeap ==
  ASSUME NEW H, NEW n, NEW N, SetHeap(H), HeapOf(H, dueTime', n, N),
         dueTime' \in [Item -> 0..Never]
  PROVE  HeapOf(Heap', dueTime', nelts', Nodes') /\ Nodes' = N
<1>1. dueTime' \in [Item -> Nat]
  BY TimerAssumption
<1>2. H \in HeapSet /\ H.nelts = n
  BY <1>1, RootIsFirst
<1>3. Heap' = H /\ nelts' = n
  BY <1>2 DEF SetHeap, Heap, HeapSet
<1>4. {At(H, k) : k \in 1..n} = N
  BY NodesFound
<1>5. Nodes' = N
  BY <1>3, <1>4 DEF Nodes
<1> QED
  BY <1>3, <1>5

(* addItem keeps the invariant.                                            *)
LEMMA AddKeeps ==
  ASSUME TimerInv, NEW i \in Item, NEW d \in Durations, AddItem(i, d)
  PROVE  TimerInv' /\ Nodes' = Nodes \cup {i}
<1>1. DueTime(d) \in 0..Never
  BY TimerAssumption DEF TimerInv, DueTime
<1>2. /\ dueTime \in [Item -> 0..Never]
      /\ dueTime' = [dueTime EXCEPT ![i] = DueTime(d)]
      /\ i \notin Nodes
  BY DEF AddItem, TimerInv
<1>3. dueTime' \in [Item -> 0..Never] /\ dueTime' \in [Item -> Nat]
  BY <1>1, <1>2, TimerAssumption
<1>4. HeapOf(Heap, dueTime', nelts, Nodes)
  <2>1. HeapOf(Heap, dueTime, nelts, Nodes) /\ Nodes \subseteq Item
    BY TimerInvSets DEF TimerInv
  <2>2. \A x \in Nodes : dueTime'[x] = dueTime[x]
    BY <2>1, <1>2
  <2> QED
    BY <2>1, <2>2, SameOrder
<1>5. HeapOf(InsertNode(Heap, dueTime', i), dueTime', nelts + 1, Nodes \cup {i})
  BY <1>2, <1>3, <1>4, InsertSorts
<1>6. SetHeap(InsertNode(Heap, dueTime', i))
  BY DEF AddItem
<1>7. HeapOf(Heap', dueTime', nelts', Nodes') /\ Nodes' = Nodes \cup {i}
  BY <1>3, <1>5, <1>6, NextHeap
<1>8. buffer' \in Seq(Item) /\ now' \in 0..MaxTime
  BY EmptyQueue DEF AddItem, TimerInv
<1> QED
  BY <1>3, <1>7, <1>8 DEF TimerInv

(* Due times that are forgotten stay in their range.                       *)
LEMMA ForgetKeeps ==
  ASSUME TimerInv, NEW S, Forget(S)
  PROVE  /\ dueTime' \in [Item -> 0..Never] /\ dueTime' \in [Item -> Nat]
         /\ \A x \in Nodes \ S : dueTime'[x] = dueTime[x]
<1>1. dueTime \in [Item -> 0..Never] /\ Never \in Nat /\ Nodes \subseteq Item
  BY TimerInvSets, TimerAssumption DEF TimerInv
<1> QED
  BY <1>1 DEF Forget

(* removeItem keeps the invariant.                                         *)
LEMMA RemoveKeeps ==
  ASSUME TimerInv, NEW i \in Item, RemoveItem(i)
  PROVE  TimerInv' /\ Nodes' = Nodes \ {i}
<1>1. /\ dueTime' \in [Item -> 0..Never] /\ i \in Nodes
      /\ \A x \in Nodes \ {i} : dueTime'[x] = dueTime[x]
  BY ForgetKeeps DEF RemoveItem
<1>2. HeapOf(RemoveNode(Heap, dueTime, i), dueTime, nelts - 1, Nodes \ {i})
  BY <1>1, RemoveSorts, TimerInvSets DEF TimerInv
<1>3. HeapOf(RemoveNode(Heap, dueTime, i), dueTime', nelts - 1, Nodes \ {i})
  BY <1>1, <1>2, SameOrder
<1>4. SetHeap(RemoveNode(Heap, dueTime, i))
  BY DEF RemoveItem
<1>5. HeapOf(Heap', dueTime', nelts', Nodes') /\ Nodes' = Nodes \ {i}
  BY <1>1, <1>3, <1>4, NextHeap
<1>6. buffer' \in Seq(Item) /\ now' \in 0..MaxTime
  BY EmptyQueue DEF RemoveItem, TimerInv
<1> QED
  BY <1>1, <1>5, <1>6 DEF TimerInv

-----------------------------------------------------------------------------
(* What removeDueItems passes through: a heap, and the items taken so far. *)
Batches ==
  {s \in [heap : HeapSet, taken : Seq(Item)] : \E n, N : HeapOf(s.heap, dueTime, n, N)}

Start == [heap |-> Heap, taken |-> <<>>]

RunTake(n) ==
  \E g \in [0..n -> Batches] :
    /\ g[0] = Start
    /\ \A k \in 1..n : g[k] = TakeFirst(g[k - 1])
    /\ Repeat(TakeFirst, Start, n) = g[n]

(* The loop of removeDueItems takes its turns.                             *)
LEMMA TakeRuns ==
  ASSUME TimerInv, NEW n \in Nat
  PROVE  RunTake(n)
<1> DEFINE turn == [y \in Batches |-> TakeFirst(y)]
           Taking(f) == [k \in 0..n |-> IF k = 0 THEN Start ELSE TakeFirst(f[k - 1])]
           f == CHOOSE f : f = Taking(f)
<1>0. Start \in Batches
  BY TimerInvSets, EmptyQueue DEF Start, Batches, TimerInv
<1>1. \A y \in Batches : TakeFirst(y) \in Batches
  <2> TAKE y \in Batches
  <2>1. CASE IsDue(y.heap)
    <3>1. PICK m, N : HeapOf(y.heap, dueTime, m, N)
      BY DEF Batches
    <3> DEFINE x == y.heap.min
    <3>2. x \in N /\ N \subseteq Item
      BY <2>1, <3>1, RootIsFirst, TimerInvSets DEF IsDue
    <3> DEFINE h == RemoveNode(y.heap, dueTime, x)
               t == Append(y.taken, x)
    <3>3. HeapOf(h, dueTime, m - 1, N \ {x})
      BY <3>1, <3>2, RemoveSorts, TimerInvSets
    <3>4. h \in HeapSet
      BY <3>3, RootIsFirst, TimerInvSets
    <3>5. t \in Seq(Item)
      BY <3>2, AppendProperties DEF Batches
    <3>6. TakeFirst(y) = [heap |-> h, taken |-> t]
      BY <2>1 DEF TakeFirst
    <3> HIDE DEF h, t
    <3> QED
      BY <3>3, <3>4, <3>5, <3>6 DEF Batches
  <2>2. CASE ~IsDue(y.heap)
    BY <2>2 DEF TakeFirst
  <2> QED
    BY <2>1, <2>2
<1>2. Repeat(TakeFirst, Start, n) = f[n]
  BY DEF Repeat
<1> HIDE DEF f
<1>3. PICK g \in [0..n -> Batches] : g[0] = Start /\ \A k \in 1..n : g[k] = turn[g[k - 1]]
  <2>1. turn \in [Batches -> Batches]
    BY <1>1
  <2> HIDE DEF turn
  <2>2. CanRun(Batches, Start, turn, n)
    BY <1>0, <2>1, LoopRuns
  <2> QED
    BY <2>2 DEF CanRun
<1>4. g = Taking(g)
  <2>1. \A k \in 1..n : k - 1 \in 0..n /\ k # 0
    OBVIOUS
  <2>2. \A k \in 1..n : g[k] = TakeFirst(g[k - 1])
    BY <2>1, <1>3
  <2>3. \A k \in 0..n : k = 0 \/ k \in 1..n
    OBVIOUS
  <2> QED
    BY <1>3, <2>1, <2>2, <2>3
<1>5. f = Taking(f)
  BY <1>4 DEF f
<1>6. f[0] = Start /\ \A k \in 1..n : f[k] = TakeFirst(f[k - 1])
  BY <1>5
<1>7. f \in [0..n -> Batches]
  <2> DEFINE S == {k \in Nat : k <= n => f[k] \in Batches}
  <2>1. 0 \in S
    BY <1>0, <1>6
  <2>2. ASSUME NEW k \in Nat, k \in S
        PROVE  k + 1 \in S
    BY <2>2, <1>1, <1>6
  <2>3. \A k \in 0..n : k \in S
    <3> HIDE DEF S
    <3> QED
      BY <2>1, <2>2, NatInSet
  <2> QED
    BY <1>5, <2>3
<1> QED
  BY <1>2, <1>6, <1>7 DEF RunTake

(* After k turns: what was taken is due, in the order of the due times,    *)
(* and before all that is left.                                            *)
Batch(s, k) ==
  /\ HeapOf(s.heap, dueTime, nelts - Len(s.taken), Nodes \ ToSet(s.taken))
  /\ s.taken \in Seq(Nodes) /\ IsInjective(s.taken)
  /\ \A j \in 1..Len(s.taken) :
       /\ dueTime[s.taken[j]] <= now
       /\ \A l \in 1..Len(s.taken) : j < l => dueTime[s.taken[j]] <= dueTime[s.taken[l]]
       /\ \A i \in Nodes \ ToSet(s.taken) : dueTime[s.taken[j]] <= dueTime[i]
  /\ Len(s.taken) # k => Len(s.taken) < k /\ ~IsDue(s.heap)

(* One turn of that loop.                                                  *)
LEMMA TakeFirstKeeps ==
  ASSUME TimerInv, NEW s \in Batches, NEW k \in Nat, Batch(s, k)
  PROVE  Batch(TakeFirst(s), k + 1)
<1> DEFINE t == s.taken
           h == s.heap
           n == Len(t)
           rest == Nodes \ ToSet(t)
           x == h.min
<1>0. dueTime \in [Item -> Nat] /\ Nodes \subseteq Item /\ nelts \in Nat /\ now \in Nat
  BY TimerInvSets
<1>1. /\ HeapOf(h, dueTime, nelts - n, rest)
      /\ t \in Seq(Nodes) /\ IsInjective(t) /\ n \in Nat
      /\ \A j \in 1..n : t[j] \in Nodes
      /\ \A j \in 1..n : dueTime[t[j]] <= now
      /\ \A j, l \in 1..n : j < l => dueTime[t[j]] <= dueTime[t[l]]
      /\ \A j \in 1..n, i \in rest : dueTime[t[j]] <= dueTime[i]
      /\ n # k => n < k /\ ~IsDue(h)
  BY InSeq DEF Batch
<1>2. CASE ~IsDue(h)
  <2>1. TakeFirst(s) = s
    BY <1>2 DEF TakeFirst
  <2>2. n < k + 1
    BY <1>1
  <2> QED
    BY <2>1, <2>2, <1>2 DEF Batch
<1>3. CASE IsDue(h)
  <2>1. x \in rest /\ dueTime[x] <= now /\ \A i \in rest : dueTime[x] <= dueTime[i]
    <3>1. h.min # Null /\ dueTime[h.min] <= now
      BY <1>3 DEF IsDue
    <3> HIDE DEF h, rest, n
    <3>2. (h.min # Null => h.min \in rest) /\ \A i \in rest : dueTime[h.min] <= dueTime[i]
      BY <1>0, <1>1, RootIsFirst
    <3> QED
      BY <3>1, <3>2
  <2> DEFINE H == RemoveNode(h, dueTime, x)
             T == Append(t, x)
  <2>2. TakeFirst(s) = [heap |-> H, taken |-> T]
    BY <1>3 DEF TakeFirst
  <2>3. n = k
    BY <1>1, <1>3
  <2>4. HeapOf(H, dueTime, (nelts - n) - 1, rest \ {x})
    BY <2>1, <1>0, <1>1, RemoveSorts
  <2>5. /\ T \in Seq(Nodes) /\ ToSet(T) = ToSet(t) \cup {x} /\ IsInjective(T)
        /\ Len(T) = n + 1 /\ T[n + 1] = x /\ \A j \in 1..n : T[j] = t[j]
    <3>1. x \in Nodes /\ x \notin ToSet(t)
      BY <2>1
    <3>2. T \in Seq(Nodes) /\ ToSet(T) = ToSet(t) \cup {x} /\ IsInjective(T)
      BY <3>1, <1>1, AppendQueue
    <3>3. Len(T) = n + 1 /\ T[n + 1] = x /\ \A j \in 1..n : T[j] = t[j]
      BY <3>1, <1>1, AppendProperties
    <3> QED
      BY <3>2, <3>3
  <2> HIDE DEF H, T
  <2>6. (nelts - n) - 1 = nelts - Len(T) /\ rest \ {x} = Nodes \ ToSet(T)
    BY <2>5, <1>0, <1>1
  <2>7. \A j \in 1..(n + 1) : j = n + 1 \/ j \in 1..n
    BY <1>1
  <2>8. ASSUME NEW j \in 1..(n + 1)
        PROVE  /\ dueTime[T[j]] <= now
               /\ \A l \in 1..(n + 1) : j < l => dueTime[T[j]] <= dueTime[T[l]]
               /\ \A i \in Nodes \ ToSet(T) : dueTime[T[j]] <= dueTime[i]
    <3>1. CASE j = n + 1
      <4>1. \A l \in 1..(n + 1) : ~(j < l)
        BY <3>1, <1>1
      <4> QED
        BY <3>1, <4>1, <2>1, <2>5, <2>6
    <3>2. CASE j \in 1..n
      <4>1. \A l \in 1..(n + 1) : j < l => dueTime[T[j]] <= dueTime[T[l]]
        <5> TAKE l \in 1..(n + 1)
        <5>1. CASE l = n + 1
          BY <5>1, <3>2, <2>1, <2>5, <1>1
        <5>2. CASE l \in 1..n
          BY <5>2, <3>2, <2>5, <1>1
        <5> QED
          BY <5>1, <5>2, <2>7
      <4> QED
        BY <3>2, <4>1, <2>5, <2>6, <1>1
    <3> QED
      BY <3>1, <3>2, <2>7
  <2>9. Batch([heap |-> H, taken |-> T], k + 1)
    BY <2>3, <2>4, <2>5, <2>6, <2>8 DEF Batch
  <2> QED
    BY <2>2, <2>9 DEF H, T
<1> QED
  BY <1>2, <1>3

(* What removeDueItems has taken at its end.                               *)
LEMMA DrainTakes ==
  ASSUME TimerInv
  PROVE  Batch(Repeat(TakeFirst, Start, BufferLength), BufferLength)
<1> DEFINE n == BufferLength
<1>1. n \in Nat
  BY TimerAssumption
<1>2. PICK g \in [0..n -> Batches] :
        /\ g[0] = Start
        /\ \A k \in 1..n : g[k] = TakeFirst(g[k - 1])
        /\ Repeat(TakeFirst, Start, n) = g[n]
  <2>1. RunTake(n)
    BY <1>1, TakeRuns
  <2> QED
    BY <2>1 DEF RunTake
<1> DEFINE S == {k \in Nat : k <= n => Batch(g[k], k)}
<1>3. 0 \in S
  <2>1. Start.heap = Heap /\ Start.taken = <<>> /\ Len(<<>>) = 0 /\ ToSet(<<>>) = {}
        /\ <<>> \in Seq(Nodes) /\ IsInjective(<<>>)
    BY EmptyQueue, EmptySeq DEF Start
  <2>2. nelts - 0 = nelts /\ Nodes \ {} = Nodes /\ HeapOf(Heap, dueTime, nelts, Nodes)
    BY TimerInvSets DEF TimerInv
  <2>3. HeapOf(Start.heap, dueTime, nelts - Len(Start.taken), Nodes \ ToSet(Start.taken))
    BY <2>1, <2>2
  <2>4. Start.taken \in Seq(Nodes) /\ IsInjective(Start.taken) /\ Len(Start.taken) = 0
    BY <2>1
  <2>5. \A j \in 1..Len(Start.taken) : FALSE
    BY <2>4
  <2>6. Batch(Start, 0)
    BY <2>3, <2>4, <2>5 DEF Batch
  <2> QED
    BY <2>6, <1>2
<1>4. ASSUME NEW k \in Nat, k \in S
      PROVE  k + 1 \in S
  <2> SUFFICES ASSUME k + 1 <= n
               PROVE  Batch(g[k + 1], k + 1)
    OBVIOUS
  <2>1. k + 1 \in 1..n /\ (k + 1) - 1 = k /\ k <= n /\ k \in 0..n
    BY <1>1
  <2>2. g[k + 1] = TakeFirst(g[k]) /\ g[k] \in Batches
    BY <2>1, <1>2
  <2>3. Batch(g[k], k)
    BY <2>1, <1>4
  <2> QED
    BY <2>2, <2>3, TakeFirstKeeps
<1>5. n \in S
  <2> HIDE DEF S
  <2> QED
    BY <1>1, <1>3, <1>4, NatInSet
<1> QED
  BY <1>1, <1>2, <1>5

(* removeDueItems keeps the invariant.                                     *)
LEMMA DrainKeeps ==
  ASSUME TimerInv, RemoveDueItems
  PROVE  /\ TimerInv'
         /\ \E s : Batch(s, BufferLength) /\ buffer' = s.taken /\ Nodes' = Nodes \ ToSet(s.taken)
<1> DEFINE s == Repeat(TakeFirst, Start, BufferLength)
           t == s.taken
<1>1. Batch(s, BufferLength)
  BY DrainTakes
<1>2. SetHeap(s.heap) /\ buffer' = t /\ Forget(ToSet(t)) /\ UNCHANGED now
  BY DEF RemoveDueItems, Start
<1> HIDE DEF s
<1>3. HeapOf(s.heap, dueTime, nelts - Len(t), Nodes \ ToSet(t)) /\ t \in Seq(Nodes)
  BY <1>1 DEF Batch
<1>4. /\ dueTime' \in [Item -> 0..Never]
      /\ \A x \in Nodes \ ToSet(t) : dueTime'[x] = dueTime[x]
  BY <1>2, ForgetKeeps
<1>5. HeapOf(s.heap, dueTime', nelts - Len(t), Nodes \ ToSet(t))
  BY <1>3, <1>4, SameOrder
<1>6. HeapOf(Heap', dueTime', nelts', Nodes') /\ Nodes' = Nodes \ ToSet(t)
  BY <1>2, <1>4, <1>5, NextHeap
<1>7. t \in Seq(Item)
  BY <1>3, TimerInvSets, InSeq, SeqOfItsSet
<1> QED
  BY <1>1, <1>2, <1>4, <1>6, <1>7 DEF TimerInv

LEMMA StartInv == Init => TimerInv
<1> SUFFICES ASSUME Init
             PROVE  TimerInv
  OBVIOUS
<1> DEFINE at == [k \in 1..0 |-> k]
<1>1. at \in Positions(0) /\ AllDiffer(at, 0) /\ Place(at, 0, 1) = Null
      /\ NodesOf(at, 0) = {} /\ Ordered(at, 0, dueTime)
  BY DEF Positions, AllDiffer, Place, NodesOf, Ordered
<1>2. Heap \in HeapSet /\ Heap.nelts = 0 /\ Heap.min = Null /\ nelts = 0
  BY DEF Init, Heap, HeapSet, Links
<1>3. IsTree(Heap, at, 0)
  BY <1>1, <1>2 DEF IsTree, Positions
<1>4. HeapOf(Heap, dueTime, 0, {})
  BY <1>1, <1>3 DEF HeapOf
<1>5. Nodes = {}
  BY <1>2 DEF Nodes
<1> QED
  BY <1>2, <1>4, <1>5, TimerAssumption, EmptyQueue DEF TimerInv, Init

(* Every call keeps the invariant.                                         *)
LEMMA NextInv == TimerInv /\ [Next]_vars => TimerInv'
<1> SUFFICES ASSUME TimerInv, [Next]_vars
             PROVE  TimerInv'
  OBVIOUS
<1>1. ASSUME NEW i \in Item, RemoveItem(i)
      PROVE  TimerInv'
  BY <1>1, RemoveKeeps
<1>2. ASSUME NEW i \in Item, NEW d \in Durations, AddItem(i, d)
      PROVE  TimerInv'
  BY <1>2, AddKeeps
<1>3. CASE RemoveDueItems
  BY <1>3, DrainKeeps
<1>4. CASE Tick
  <2>1. now' \in 0..MaxTime
    BY <1>4, TimerAssumption DEF Tick, TimerInv
  <2> QED
    BY <2>1, <1>4 DEF Tick, TimerInv, heapVars, Heap, Nodes
<1>5. CASE UNCHANGED vars
  BY <1>5 DEF vars, heapVars, TimerInv, Heap, Nodes
<1> QED
  BY <1>1, <1>2, <1>3, <1>4, <1>5 DEF Next

(* The heap of timer items is, after any calls, a complete ordered tree.   *)
THEOREM TimerInvariant == Spec => []TimerInv
  BY StartInv, NextInv, PTL DEF Spec

(* After any calls of addItem, removeItem and removeDueItems the pointers  *)
(* of heap-inl.h form one complete tree of nelts nodes, and no node is due *)
(* before its parent: also after the last node took the place of a removed *)
(* one in another branch.                                                  *)
THEOREM HeapIsHeap == Spec => []IsHeap
<1>1. TimerInv => IsHeap
  BY HeapFromInv
<1> QED
  BY <1>1, TimerInvariant, PTL

(* Timer::calculateTimeout, which looks at the root only, returns the time *)
(* until the first of all items is due.                                    *)
THEOREM RootTellsTimeout == Spec => []TimeoutIsRight
<1>1. TimerInv => TimeoutIsRight
  BY TimeoutFromInv
<1> QED
  BY <1>1, TimerInvariant, PTL

-----------------------------------------------------------------------------
(* The due times as TimerQueue has them.                                   *)
QueueDue == [i \in Item |-> IF i \in Nodes THEN dueTime[i] ELSE -1]

(* That queue, before and after a step.                                    *)
LEMMA QueueShape ==
  ASSUME TimerInv
  PROVE  /\ Queue!Queued = Nodes
         /\ \A i \in Nodes : QueueDue[i] = dueTime[i] /\ i \in Item
<1>1. dueTime \in [Item -> Nat] /\ Nodes \subseteq Item
  BY TimerInvSets
<1> QED
  BY <1>1 DEF Queue!Queued, Queue!NotQueued, QueueDue

(* addItem, removeItem and removeDueItems are the calls of TimerQueue.     *)
LEMMA AddIsAdd ==
  ASSUME TimerInv, NEW i \in Item, NEW d \in Durations, AddItem(i, d)
  PROVE  Queue!Add(i, d)
<1>1. Nodes' = Nodes \cup {i} /\ Nodes \subseteq Item /\ i \notin Nodes
      /\ dueTime \in [Item -> Nat]
      /\ dueTime' = [dueTime EXCEPT ![i] = DueTime(d)]
  BY AddKeeps, TimerInvSets DEF AddItem
<1>2. QueueDue' = [QueueDue EXCEPT ![i] = DueTime(d)]
  BY <1>1 DEF QueueDue
<1>3. i \notin Queue!Queued
  BY <1>1, QueueShape
<1> QED
  BY <1>2, <1>3 DEF Queue!Add, Queue!AddItem, Queue!DueTime, DueTime, AddItem, QueueDue

LEMMA RemoveIsCancel ==
  ASSUME TimerInv, NEW i \in Item, RemoveItem(i)
  PROVE  Queue!Cancel(i)
<1>1. Nodes' = Nodes \ {i} /\ Nodes \subseteq Item /\ i \in Nodes
      /\ dueTime' = [j \in Item |-> IF j \in {i} THEN 0 ELSE dueTime[j]]
  BY RemoveKeeps, TimerInvSets DEF RemoveItem, Forget
<1>2. QueueDue' = [j \in Item |-> IF j \in {i} THEN -1 ELSE QueueDue[j]]
  BY <1>1 DEF QueueDue
<1>3. i \in Queue!Queued
  BY <1>1, QueueShape
<1> QED
  BY <1>2, <1>3 DEF Queue!Cancel, Queue!RemoveItems, Queue!NotQueued, RemoveItem, QueueDue

LEMMA DrainIsBatch ==
  ASSUME TimerInv, RemoveDueItems
  PROVE  \E b \in Queue!DueBatches : Queue!RemoveDueItems(b)
<1>1. PICK s : Batch(s, BufferLength) /\ buffer' = s.taken /\ Nodes' = Nodes \ ToSet(s.taken)
  BY DrainKeeps
<1> DEFINE b == s.taken
           late == {i \in Queue!Queued : QueueDue[i] <= now}
           n == Len(b)
<1>2. /\ b \in Seq(Nodes) /\ IsInjective(b) /\ n \in Nat
      /\ b \in [1..n -> Nodes] /\ DOMAIN b = 1..n
      /\ ToSet(b) = {b[j] : j \in 1..n} /\ ToSet(b) \subseteq Nodes
      /\ \A j \in 1..n : b[j] \in Nodes
  BY <1>1, InSeq, LenProperties DEF Batch
<1>3. /\ \A j \in 1..n : dueTime[b[j]] <= now
      /\ \A j, l \in 1..n : j < l => dueTime[b[j]] <= dueTime[b[l]]
      /\ \A j \in 1..n, i \in Nodes \ ToSet(b) : dueTime[b[j]] <= dueTime[i]
      /\ n # BufferLength => n < BufferLength /\ ~IsDue(s.heap)
      /\ HeapOf(s.heap, dueTime, nelts - n, Nodes \ ToSet(b))
  BY <1>1 DEF Batch
<1>4. /\ dueTime \in [Item -> Nat] /\ now \in Nat /\ BufferLength \in Nat
      /\ IsFiniteSet(Nodes) /\ Nodes \subseteq Item
      /\ Queue!Queued = Nodes
      /\ \A i \in Nodes : QueueDue[i] = dueTime[i]
  BY TimerInvSets, QueueShape, TimerAssumption
<1> HIDE DEF b, n
<1>5. late = {i \in Nodes : dueTime[i] <= now}
  BY <1>4
<1> HIDE DEF late
<1>6. IsFiniteSet(late) /\ late \subseteq Nodes
  <2>1. late \subseteq Nodes
    BY <1>5
  <2> QED
    BY <2>1, <1>4, FS_Subset
<1>7. ToSet(b) \subseteq late /\ IsFiniteSet(ToSet(b)) /\ Cardinality(ToSet(b)) = n
  <2>1. IsFiniteSet(ToSet(b)) /\ Cardinality(ToSet(b)) = n
    BY <1>2, QueueLength DEF n
  <2> QED
    BY <2>1, <1>2, <1>3, <1>5
<1>8. n = IF Cardinality(late) < BufferLength THEN Cardinality(late) ELSE BufferLength
  <2>1. CASE n = BufferLength
    <3>1. n <= Cardinality(late) /\ Cardinality(late) \in Nat
      BY <1>6, <1>7, FS_Subset, FS_CardinalityType
    <3> QED
      BY <2>1, <3>1, <1>2
  <2>2. CASE n # BufferLength
    <3>1. s.heap.min = Null \/ (s.heap.min # Null /\ ~(dueTime[s.heap.min] <= now))
      BY <2>2, <1>3 DEF IsDue
    <3>2. \A i \in Nodes \ ToSet(b) : ~(dueTime[i] <= now)
      <4> DEFINE rest == Nodes \ ToSet(b)
                 x == s.heap.min
      <4>1. /\ x = Null <=> rest = {}
            /\ x # Null => x \in rest
            /\ \A i \in rest : dueTime[x] <= dueTime[i]
        <5> HIDE DEF rest
        <5> QED
          BY <1>3, <1>4, RootIsFirst DEF rest
      <4> HIDE DEF x
      <4>2. x = Null \/ ~(dueTime[x] <= now)
        BY <3>1 DEF x
      <4> QED
        BY <4>1, <4>2, <1>4
    <3>3. late = ToSet(b)
      BY <3>2, <1>5, <1>7
    <3> QED
      BY <2>2, <3>3, <1>3, <1>7
  <2> QED
    BY <2>1, <2>2
<1>9. b \in [1..n -> late]
  BY <1>2, <1>7
<1>10. \A j, k \in 1..n : j < k => b[j] # b[k] /\ QueueDue[b[j]] <= QueueDue[b[k]]
  <2>1. \A j, k \in 1..n : b[j] = b[k] => j = k
    BY <1>2 DEF IsInjective
  <2> QED
    BY <2>1, <1>2, <1>3, <1>4
<1>11. Queue!ToSet(b) = ToSet(b)
  BY DEF Queue!ToSet, ToSet
<1>12. \A k \in 1..n, i \in late \ ToSet(b) : QueueDue[b[k]] <= QueueDue[i]
  BY <1>2, <1>3, <1>4, <1>6
<1>13. b \in Queue!DueBatches
  <2>1. Queue!Cardinality(late) = Cardinality(late)
    BY DEF Queue!Cardinality, Cardinality
  <2>2. n = IF Queue!Cardinality(late) < BufferLength THEN Queue!Cardinality(late)
                                                      ELSE BufferLength
    BY <2>1, <1>8
  <2> QED
    BY <2>2, <1>9, <1>10, <1>11, <1>12 DEF Queue!DueBatches, late, QueueDue
<1>14. QueueDue' = [i \in Item |-> IF i \in ToSet(b) THEN -1 ELSE QueueDue[i]]
  <2>1. Nodes' = Nodes \ ToSet(b)
    BY <1>1 DEF b
  <2>2. dueTime' = [i \in Item |-> IF i \in ToSet(b) THEN 0 ELSE dueTime[i]]
    BY <1>1 DEF RemoveDueItems, Forget, b
  <2> QED
    BY <2>1, <2>2, <1>4 DEF QueueDue
<1> QED
  BY <1>1, <1>11, <1>13, <1>14
  DEF Queue!RemoveDueItems, Queue!RemoveItems, Queue!NotQueued, RemoveDueItems, QueueDue, b

(* Timer implements the queue of due times that Scheduler is built on:     *)
(* each call is one of TimerQueue, and removeDueItems puts out due items   *)
(* only, the first ones, in the order of their due times.                  *)
THEOREM ImplementsQueue == Spec => ImplementsTimerQueue
<1>1. Init => Queue!Init
  <2>1. Init => Nodes = {}
    BY DEF Init, Nodes
  <2> QED
    BY <2>1 DEF Init, Queue!Init, Queue!NotQueued
<1>2. TimerInv /\ [Next]_vars => [Queue!Next]_<<QueueDue, now, buffer>>
  <2> SUFFICES ASSUME TimerInv, [Next]_vars
               PROVE  [Queue!Next]_<<QueueDue, now, buffer>>
    OBVIOUS
  <2>1. ASSUME NEW i \in Item, RemoveItem(i)
        PROVE  Queue!Next
    BY <2>1, RemoveIsCancel DEF Queue!Next
  <2>2. ASSUME NEW i \in Item, NEW d \in Durations, AddItem(i, d)
        PROVE  Queue!Next
    BY <2>2, AddIsAdd DEF Queue!Next
  <2>3. CASE RemoveDueItems
    BY <2>3, DrainIsBatch DEF Queue!Next
  <2>4. CASE Tick
    <3>1. QueueDue' = QueueDue
      BY <2>4 DEF Tick, QueueDue, heapVars, Nodes, Heap
    <3> QED
      BY <2>4, <3>1 DEF Tick, Queue!Next, Queue!Tick, QueueDue
  <2>5. CASE UNCHANGED vars
    BY <2>5 DEF vars, heapVars, QueueDue, Nodes, Heap
  <2> QED
    BY <2>1, <2>2, <2>3, <2>4, <2>5 DEF Next
<1> QED
  BY <1>1, <1>2, TimerInvariant, PTL DEF Spec, ImplementsTimerQueue, Queue!Spec, QueueDue
=============================================================================
