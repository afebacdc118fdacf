------------------------------- MODULE MCTimer -------------------------------
(* The instance of timer.cfg: enough items for a tree of three rows, so    *)
(* that a node moves to another branch and has to move up there.           *)
EXTENDS Timer, TLC

(* Negative numbers can not be written in a .cfg file.                     *)
MCDurations == {-1, 0, 1}

(* Sound: no expression chooses an item by its name.                       *)
Symmetry == Permutations(Item)
=============================================================================
