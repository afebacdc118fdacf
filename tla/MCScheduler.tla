----------------------------- MODULE MCScheduler -----------------------------
(* The instances of sched_safety.cfg and sched_assert.cfg.                 *)
EXTENDS Scheduler, TLC

(* Negative numbers can not be written in a .cfg file.                     *)
MCDurations == {-1, 0, 1}

(* Sound for the safety runs: no expression picks a fiber or descriptor by *)
(* CHOOSE in a way that depends on its name.                               *)
Symmetry == Permutations(Fiber) \cup Permutations(FD)
=============================================================================
