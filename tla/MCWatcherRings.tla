--------------------------- MODULE MCWatcherRings ---------------------------
(* The instance of watcher_rings.cfg: the second descriptor makes the      *)
(* vector grow over several powers of two.                                 *)
EXTENDS WatcherRings, Bitwise, TLC

(* Sound: no expression depends on the name of a block or an awaiter.      *)
Symmetry == Permutations(Block) \cup Permutations(Awaiter)

(* NextPowerOfTwo as the code computes it.                                 *)
Filled(number) ==
  FoldLeft(LAMBDA n, k : n | shiftR(n, k), number - 1, <<1, 2, 4, 8, 16>>) + 1

(* They agree, at the powers of two and next to them as well.              *)
ASSUME FilledAssumption ==
  \A number \in 1..1025 \cup {Power[30] - 1, Power[30]} : Filled(number) = NextPowerOfTwo(number)
=============================================================================
