-------------------------------- MODULE Queue --------------------------------
(***************************************************************************)
(* Source/libuv/queue.h: rings of items with a head, linked by the         *)
(* pointers next and prev inside the items.  A macro is an operator from   *)
(* the links of all nodes before it to the links after it; where a macro   *)
(* reads a pointer it has just written, so does the operator.              *)
(*                                                                         *)
(* Module Rings shows what the macros do to rings, module WatcherRings     *)
(* uses them as Source/IOPoll.cxx does.                                    *)
(***************************************************************************)
EXTENDS FiniteSets, SequencesExt, Loops

(* What the pointers of an item are when nothing is known of them: nobody  *)
(* initialised them, or the owner of the item was freed.  They are never   *)
(* followed.                                                               *)
CONSTANT Loose

QUEUE_EMPTY(l, q) == l.next[q] = q

QUEUE_HEAD(l, q) == l.next[q]

(* The nodes the loop visits, in order: not more than there are nodes.     *)
Visit(l, h, visited) ==
  LET q == l.next[IF visited = <<>> THEN h ELSE Last(visited)]
  IN  IF q = h THEN visited ELSE Append(visited, q)

QUEUE_FOREACH(l, h) ==
  Repeat(LAMBDA visited : Visit(l, h, visited), <<>>, Cardinality(DOMAIN l.next))

QUEUE_INIT(l, q) == [l EXCEPT !.next[q] = q, !.prev[q] = q]

(* Wrong: the end of the ring n is not linked to h.                        *)
QUEUE_ADDOpen(l, h, n) ==
  LET l1 == [l EXCEPT !.next[l.prev[h]] = l.next[n]]
      l2 == [l1 EXCEPT !.prev[l1.next[n]] = l1.prev[h]]
  IN [l2 EXCEPT !.prev[h] = l2.prev[n]]

(* The ring n goes behind the ring h; n itself is left as it was.          *)
QUEUE_ADD(l, h, n) ==
  LET l1 == [l EXCEPT !.next[l.prev[h]] = l.next[n]]
      l2 == [l1 EXCEPT !.prev[l1.next[n]] = l1.prev[h]]
      l3 == [l2 EXCEPT !.prev[h] = l2.prev[n]]
  IN [l3 EXCEPT !.next[l3.prev[h]] = h]

(* The part of the ring h from q on becomes the ring n.                    *)
QUEUE_SPLIT(l, h, q, n) ==
  LET l1 == [l EXCEPT !.prev[n] = l.prev[h]]
      l2 == [l1 EXCEPT !.next[l1.prev[n]] = n]
      l3 == [l2 EXCEPT !.next[n] = q, !.prev[h] = l2.prev[q]]
      l4 == [l3 EXCEPT !.next[l3.prev[h]] = h]
  IN [l4 EXCEPT !.prev[q] = n]

QUEUE_INSERT_HEAD(l, h, q) ==
  [l EXCEPT !.next[q] = l.next[h], !.prev[q] = h,
            !.prev[l.next[h]] = q, !.next[h] = q]

QUEUE_INSERT_TAIL(l, h, q) ==
  [l EXCEPT !.next[q] = h, !.prev[q] = l.prev[h],
            !.next[l.prev[h]] = q, !.prev[h] = q]

(* q itself keeps its pointers.  Wrong: it is initialised.                 *)
QUEUE_REMOVEInit(l, q) ==
  QUEUE_INIT([l EXCEPT !.next[l.prev[q]] = l.next[q], !.prev[l.next[q]] = l.prev[q]], q)

QUEUE_REMOVE(l, q) ==
  [l EXCEPT !.next[l.prev[q]] = l.next[q], !.prev[l.next[q]] = l.prev[q]]

-----------------------------------------------------------------------------
(* The node k steps from h around the ring of s: h itself at 0 and at the  *)
(* end.  The ring is linked if the pointers say so, forwards and backwards.*)
NodeAt(h, s, k) == IF k \in 1..Len(s) THEN s[k] ELSE h

Linked(l, h, s) ==
  \A k \in 0..Len(s) :
    /\ l.next[NodeAt(h, s, k)] = NodeAt(h, s, k + 1)
    /\ l.prev[NodeAt(h, s, k + 1)] = NodeAt(h, s, k)
=============================================================================
