------------------------------ MODULE MCRuntime ------------------------------
(* The instances of runtime.cfg, runtime_live.cfg and close_retry.cfg.     *)
EXTENDS Runtime, TLC

(* Negative numbers can not be written in a .cfg file.                     *)
MCDurations == {-1, 0, 1}

(* Sound for the safety runs: no expression depends on the name of         *)
(* a fiber or a descriptor.                                                *)
Symmetry == Permutations(Fiber) \cup Permutations(FD)
=============================================================================
