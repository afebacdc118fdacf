---------------------------- MODULE MCMemoryPool ----------------------------
(* The instance of pool.cfg: pages of 8, and chunks that are filled        *)
(* exactly (blocks of 4 and 8), that leave a remainder smaller than a      *)
(* block (3), or room for more blocks than asked for (1 block of 3).       *)
EXTENDS MemoryPool, TLC

(* Sound: no expression depends on the name of a chunk.                    *)
Symmetry == Permutations(Chunk)
=============================================================================
