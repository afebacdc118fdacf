------------------------------- MODULE MCAsync -------------------------------
(* The instance of async_safety.cfg.                                       *)
EXTENDS Async, TLC

(* Sound: no definition tells one worker or one client from another.       *)
Symmetry == Permutations(Worker) \cup Permutations(Client)
=============================================================================
