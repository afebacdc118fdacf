------------------------------- MODULE MCRings -------------------------------
(* The instance of rings.cfg: three heads, so that a ring is cut off while *)
(* another one is filled, and four items.                                  *)
EXTENDS Rings, TLC

(* Sound: no expression depends on the name of a head or an item.          *)
Symmetry == Permutations(RingHead) \cup Permutations(Item)
=============================================================================
