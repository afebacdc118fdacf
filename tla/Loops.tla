-------------------------------- MODULE Loops --------------------------------
(***************************************************************************)
(* Loops of the code that are one step here, as functions.                 *)
(***************************************************************************)
EXTENDS Naturals

(* A loop: n turns, of which the last ones may find nothing to do.         *)
Repeat(Turn(_), s, n) ==
  LET after[k \in 0..n] == IF k = 0 THEN s ELSE Turn(after[k - 1]) IN after[n]
=============================================================================
