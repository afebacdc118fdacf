-------------------------------- MODULE Rings --------------------------------
(***************************************************************************)
(* What the macros of Source/libuv/queue.h do to rings, in the ways the    *)
(* other sources call them: links holds the pointers, ring the sequence    *)
(* each ring is meant to be.  The other modules describe rings by such     *)
(* sequences.                                                              *)
(***************************************************************************)
EXTENDS Queue, Integers

CONSTANTS RingHead, Item

ASSUME NodeAssumption ==
  /\ RingHead \cap Item = {} /\ Loose \notin RingHead \cup Item
  /\ IsFiniteSet(RingHead \cup Item)

VARIABLES
  links,    \* the pointers of every node
  ring      \* history: the items between each head and itself

ringVars == <<links, ring>>

Node == RingHead \cup Item

InRing(q) == \E h \in RingHead : q \in ToSet(ring[h])

(* Every head was initialised, no item was.                                *)
RingInit ==
  /\ links = LET pointers == [q \in Node |-> IF q \in RingHead THEN q ELSE Loose]
             IN  [next |-> pointers, prev |-> pointers]
  /\ ring = [h \in RingHead |-> <<>>]

-----------------------------------------------------------------------------
InsertHead(h, q) ==
  /\ ~InRing(q)
  /\ links' = QUEUE_INSERT_HEAD(links, h, q)
  /\ ring' = [ring EXCEPT ![h] = <<q>> \o @]

InsertTail(h, q) ==
  /\ ~InRing(q)
  /\ links' = QUEUE_INSERT_TAIL(links, h, q)
  /\ ring' = [ring EXCEPT ![h] = Append(@, q)]

(* q is removed from wherever it is; its owner is not asked.               *)
RemoveItem(h, i) ==
  /\ links' = QUEUE_REMOVE(links, ring[h][i])
  /\ ring' = [ring EXCEPT ![h] = RemoveAt(@, i)]

(* The ring n, which is not empty, goes behind the ring h, and n is empty  *)
(* from then on.                                                           *)
Join(h, n) ==
  /\ h # n /\ ~QUEUE_EMPTY(links, n)
  /\ links' = QUEUE_INIT(QUEUE_ADD(links, h, n), n)
  /\ ring' = [ring EXCEPT ![h] = @ \o ring[n], ![n] = <<>>]

(* The ring h, which is not empty, is cut before its i-th item; n is not   *)
(* initialised before (here: what it links is not in use).                 *)
Split(h, i, n) ==
  /\ h # n /\ ring[n] = <<>>
  /\ links' = QUEUE_SPLIT(links, h, ring[h][i], n)
  /\ ring' = [ring EXCEPT ![h] = SubSeq(@, 1, i - 1), ![n] = SubSeq(ring[h], i, Len(ring[h]))]

(* The items of the ring h were looked at one by one and forgotten, and    *)
(* the head is initialised again.                                          *)
Clear(h) ==
  /\ links' = QUEUE_INIT(links, h)
  /\ ring' = [ring EXCEPT ![h] = <<>>]

RingNext ==
  \E h \in RingHead :
    \/ \E q \in Item : InsertHead(h, q) \/ InsertTail(h, q)
    \/ \E i \in DOMAIN ring[h] : RemoveItem(h, i) \/ \E n \in RingHead : Split(h, i, n)
    \/ \E n \in RingHead : Join(h, n)
    \/ Clear(h)

RingSpec == RingInit /\ [][RingNext]_ringVars

-----------------------------------------------------------------------------
(* No item is linked twice.                                                *)
Apart ==
  \A h, g \in RingHead : \A i \in DOMAIN ring[h], j \in DOMAIN ring[g] :
    ring[h][i] = ring[g][j] => h = g /\ i = j

(* The pointers of every ring form, forwards and backwards, the sequence   *)
(* it is meant to be, whatever items were inserted, removed from the       *)
(* middle, moved and cut off before, and whatever stale pointers the items *)
(* outside of rings still hold; QUEUE_FOREACH visits it in order and stops.*)
RingsAreLinked ==
  /\ Apart
  /\ \A h \in RingHead : Linked(links, h, ring[h]) /\ QUEUE_FOREACH(links, h) = ring[h]

(* IOPoll::removeEventAwaiter looks at the pointers the removed item has   *)
(* kept: they are equal exactly if the ring became empty, and then they    *)
(* point to its head.                                                      *)
NeighboursTellTheRing ==
  [][\A h \in RingHead : \A i \in DOMAIN ring[h] :
       RemoveItem(h, i) =>
         LET q == ring[h][i] IN
         /\ links'.next[q] = links'.prev[q] <=> ring'[h] = <<>>
         /\ ring'[h] = <<>> => links'.next[q] = h]_ringVars

=============================================================================
