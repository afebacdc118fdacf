----------------------------- MODULE MemoryProofs -----------------------------
(***************************************************************************)
(* Proofs about the memory of IOPoll: MemoryPool for any size of blocks,   *)
(* chunks and pages and any number of chunks, Rings for any heads and      *)
(* items, WatcherRings for any descriptors, blocks and awaiters.           *)
(*                                                                         *)
(* The argument for the pool: the blocks of a chunk lie blockSize apart    *)
(* (so they are distinct, whatever the last one leaves over), and the list *)
(* in the free blocks is the history of what was freed, so a block that is *)
(* taken from its end was not in use and stays out of it.                  *)
(*                                                                         *)
(* The argument for the rings: a ring is the sequence of its places, the   *)
(* head at both ends.  The places of all rings are different nodes, so a   *)
(* macro that writes two to six pointers changes no other one of any ring; *)
(* for the ring it works on, the places after it are places before it,     *)
(* moved by what was inserted or removed, and each written pointer is the  *)
(* one that joins two of them.  QUEUE_FOREACH, after k turns, has visited  *)
(* the first k items; there are at least as many turns as items, because a *)
(* ring has no item twice.                                                 *)
(*                                                                         *)
(* The argument for the watchers (Stored, part of WatcherInv): the         *)
(* pointers form one ring for each event of a watcher, one for the caller  *)
(* and one of the items of the dirty watchers; the item of any other       *)
(* watcher is an empty ring of its own, which is why QUEUE_EMPTY of it     *)
(* tells that it is not dirty (Shape).  Vector and watchers lead to each   *)
(* other (Seated), and so do kernel and watchers (KernelPoints).  Then     *)
(* poll, what IOPoll keeps, is a function of these rings (View), and a     *)
(* step that edits one watcher changes its fields there and no others; so  *)
(* each step is one of IOPoll, whose own invariant (PollOK) says that the  *)
(* calls it needs succeed: a reported event has an awaiter to release.     *)
(***************************************************************************)
EXTENDS MemoryPool, Rings, WatcherRings, SequenceLemmas

SizesOK ==
  /\ blockSize \in Nat \ {0} /\ chunkLength \in Nat \ {0} /\ chunkSize \in Nat
  /\ chunkLength * blockSize <= chunkSize

-----------------------------------------------------------------------------
(* Where the blocks are.                                                   *)

LEMMA Multiples ==
  ASSUME NEW a \in Nat, NEW b \in Nat, NEW c \in Nat, a < b
  PROVE  a * c + c <= b * c
<1>1. PICK d \in Nat : b = a + 1 + d
  <2>1. b - a - 1 \in Nat /\ b = a + 1 + (b - a - 1)
    OBVIOUS
  <2> QED
    BY <2>1
<1>2. b * c = a * c + c + d * c
  BY <1>1
<1>3. d * c \in Nat /\ a * c \in Nat
  OBVIOUS
<1> QED
  BY <1>2, <1>3

LEMMA InitSizes == PoolInit => SizesOK
<1> SUFFICES ASSUME PoolInit PROVE SizesOK
  OBVIOUS
<1>1. blockSize \in Nat \ {0} /\ chunkLength \in Nat \ {0}
  BY PoolAssumption DEF PoolInit
<1> DEFINE size == chunkLength * blockSize
<1>2. size \in Nat \ {0}
  <2>1. chunkLength * blockSize >= blockSize
    BY <1>1, Multiples
  <2> QED
    BY <1>1, <2>1
<1> HIDE DEF size
<1>3. (size - 1) % PageSize \in 0..(PageSize - 1)
  BY <1>2, PoolAssumption
<1>4. NextPageAlignedSize(size) \in Nat /\ size <= NextPageAlignedSize(size)
  BY <1>2, <1>3, PoolAssumption DEF NextPageAlignedSize
<1> QED
  BY <1>1, <1>4 DEF PoolInit, SizesOK, size

(* The loop of increaseBlocks ends, after the last block that is not       *)
(* outside the chunk.                                                      *)
LEMMA BlockCountFacts ==
  ASSUME SizesOK
  PROVE  /\ BlockCount \in 1..chunkSize
         /\ Outside(Offset(BlockCount + 1))
         /\ \A k \in 2..BlockCount : ~Outside(Offset(k))
<1> DEFINE T == {n \in Nat \ {0} : Outside(Offset(n + 1))}
<1>1. chunkSize \in T
  <2>1. 1 * blockSize <= chunkLength * blockSize
    BY Multiples DEF SizesOK
  <2>2. chunkSize \in Nat \ {0}
    BY <2>1 DEF SizesOK
  <2>3. (chunkSize + 1) * blockSize > chunkSize
    BY DEF SizesOK
  <2> QED
    BY <2>2, <2>3 DEF Outside, Offset, SizesOK
<1>2. PICK m \in T : \A n \in T : ~(<<n, m>> \in OpToRel(<, Nat))
  <2>1. T \subseteq Nat /\ T # {}
    BY <1>1
  <2>2. IsWellFoundedOn(OpToRel(<, Nat), Nat)
    BY NatLessThanWellFounded
  <2> HIDE DEF T
  <2> QED
    BY <2>1, <2>2, WFMin
<1>3. \A n \in T : m <= n
  <2> SUFFICES ASSUME NEW n \in T, n < m PROVE FALSE
    OBVIOUS
  <2>1. n \in Nat /\ m \in Nat
    OBVIOUS
  <2> HIDE DEF T
  <2>2. <<n, m>> \in OpToRel(<, Nat)
    BY <2>1, Zenon DEF OpToRel
  <2> QED
    BY <1>2, <2>2
<1>4. m \in Nat \ {0} /\ Outside(Offset(m + 1))
  OBVIOUS
<1> HIDE <1>2
<1>5. \A k \in 2..m : ~Outside(Offset(k))
  <2> SUFFICES ASSUME NEW k \in 2..m, Outside(Offset(k)) PROVE FALSE
    OBVIOUS
  <2>1. k - 1 \in Nat \ {0} /\ (k - 1) + 1 = k /\ k - 1 < m
    BY <1>4
  <2>2. k - 1 \in T
    BY <2>1
  <2> QED
    BY <1>3, <1>4, <2>1, <2>2
<1>6. m \in 1..chunkSize
  <2>1. m <= chunkSize
    BY <1>1, <1>3
  <2> QED
    BY <1>4, <2>1 DEF SizesOK
<1> QED
  BY <1>4, <1>5, <1>6 DEF BlockCount

LEMMA OffsetFacts ==
  ASSUME SizesOK
  PROVE  /\ \A j, k \in Nat : j < k => Offset(k) + blockSize <= Offset(j)
         /\ \A k \in Nat : Offset(k) \in Int
<1>1. ASSUME NEW j \in Nat, NEW k \in Nat, j < k
      PROVE  Offset(k) + blockSize <= Offset(j)
  <2>1. j * blockSize + blockSize <= k * blockSize
    BY <1>1, Multiples DEF SizesOK
  <2>2. j * blockSize \in Nat /\ k * blockSize \in Nat
    BY DEF SizesOK
  <2> QED
    BY <2>1, <2>2 DEF Offset, SizesOK
<1> QED
  BY <1>1 DEF Offset, SizesOK

(* The k-th block of a chunk, for the k that increaseBlocks comes to.      *)
LEMMA BlocksDiffer ==
  ASSUME SizesOK, NEW j \in 1..BlockCount, NEW k \in 1..BlockCount, Offset(j) = Offset(k)
  PROVE  j = k
<1>1. j \in Nat /\ k \in Nat
  BY BlockCountFacts
<1>2. Offset(j) \in Int /\ blockSize \in Nat \ {0}
  BY <1>1, OffsetFacts DEF SizesOK
<1>3. ~(j < k) /\ ~(k < j)
  BY <1>1, <1>2, OffsetFacts
<1> QED
  BY <1>1, <1>3

-----------------------------------------------------------------------------
(* The list of free blocks.                                                *)

PoolInv == PoolTypeOK /\ SizesOK /\ FreeListIsFree /\ IsFiniteSet(allocated)

LEMMA PoolInitInv == PoolInit => PoolInv
<1> SUFFICES ASSUME PoolInit PROVE PoolInv
  OBVIOUS
<1>1. SizesOK
  BY InitSizes
<1>2. Blocks = {}
  BY DEF PoolInit, Blocks, ToSet
<1>3. PoolTypeOK
  BY <1>1, <1>2, EmptySeq DEF PoolInit, PoolTypeOK, SizesOK, NoBlocks
<1>4. FreeListIsFree
  BY <1>2 DEF PoolInit, FreeListIsFree, IsInjective, ToSet
<1> QED
  BY <1>1, <1>3, <1>4, FS_EmptySet DEF PoolInv, PoolInit

(* The number of blocks in use stays a number.                             *)
LEMMA TakeBlockFacts ==
  ASSUME PoolInv, NEW b, NEW words, TakeBlock(b, words)
  PROVE  IsFiniteSet(allocated') /\ peak' \in Nat
<1>1. IsFiniteSet(allocated') /\ Cardinality(allocated') \in Nat
  BY FS_AddElement, FS_CardinalityType DEF PoolInv, TakeBlock
<1> QED
  BY <1>1 DEF PoolInv, PoolTypeOK, TakeBlock

LEMMA SameBlocks ==
  ASSUME UNCHANGED <<sizes, chunkVars>>
  PROVE  Blocks' = Blocks
BY DEF sizes, chunkVars, Blocks, BlocksOf, BlockCount, Offset, Outside

LEMMA ReuseInv ==
  ASSUME PoolInv, ReuseBlock
  PROVE  PoolInv'
<1> DEFINE b == lastBlock
           n == Len(free)
<1>1. /\ free \in Seq(Blocks) /\ n \in Nat \ {0} /\ b = free[n] /\ b \in Blocks
      /\ DOMAIN free = 1..n
  BY DEF PoolInv, PoolTypeOK, FreeListIsFree, ReuseBlock, Last
<1>2. Blocks' = Blocks
  BY SameBlocks DEF ReuseBlock
<1>3. /\ free' \in Seq(Blocks) /\ Len(free') = n - 1 /\ DOMAIN free' = 1..(n - 1)
      /\ \A i \in 1..(n - 1) : free'[i] = free[i]
  BY <1>1 DEF ReuseBlock, Front
<1>4. /\ lastBlock' = prev[b] /\ prev' = [prev EXCEPT ![b] = User]
      /\ allocated' = allocated \cup {b}
  BY DEF ReuseBlock, TakeBlock
<1>5. prev[b] = IF n = 1 THEN NullBlock ELSE free[n - 1]
  BY <1>1 DEF PoolInv, FreeListIsFree
<1>6. \A i \in 1..(n - 1) : free[i] # b
  BY <1>1 DEF PoolInv, FreeListIsFree, IsInjective
<1>7. FreeListIsFree'
  <2>1. lastBlock' = IF free' = <<>> THEN NullBlock ELSE Last(free')
    <3>1. CASE n = 1
      BY <1>3, <1>4, <1>5, <3>1
    <3>2. CASE n # 1
      <4>1. free' # <<>> /\ Last(free') = free[n - 1]
        BY <1>1, <1>3, <3>2 DEF Last
      <4> QED
        BY <1>4, <1>5, <3>2, <4>1
    <3> QED
      BY <3>1, <3>2
  <2>2. \A i \in DOMAIN free' : prev'[free'[i]] = IF i = 1 THEN NullBlock ELSE free'[i - 1]
    <3> SUFFICES ASSUME NEW i \in 1..(n - 1)
                 PROVE  prev'[free'[i]] = IF i = 1 THEN NullBlock ELSE free'[i - 1]
      BY <1>3
    <3>1. prev'[free[i]] = prev[free[i]]
      BY <1>1, <1>4, <1>6 DEF PoolInv, PoolTypeOK
    <3>2. prev[free[i]] = IF i = 1 THEN NullBlock ELSE free[i - 1]
      BY <1>1 DEF PoolInv, FreeListIsFree
    <3>3. free'[i] = free[i] /\ (i # 1 => free'[i - 1] = free[i - 1])
      BY <1>1, <1>3
    <3> QED
      BY <3>1, <3>2, <3>3
  <2>3. IsInjective(free')
    BY <1>1, <1>3 DEF PoolInv, FreeListIsFree, IsInjective
  <2>4. ToSet(free') = ToSet(free) \ {b}
    BY <1>1, <1>3, <1>6 DEF ToSet
  <2>5. ToSet(free') = Blocks' \ allocated'
    BY <1>2, <1>4, <2>4 DEF PoolInv, FreeListIsFree
  <2> QED
    BY <2>1, <2>2, <2>3, <2>5 DEF FreeListIsFree
<1>8. peak' \in Nat /\ IsFiniteSet(allocated')
  BY TakeBlockFacts DEF ReuseBlock
<1>9. PoolTypeOK'
  <2>1. lastBlock' \in Blocks \cup {NullBlock}
    BY <1>1, <1>4, <1>5
  <2> QED
    BY <1>1, <1>2, <1>3, <1>4, <1>8, <2>1 DEF PoolInv, PoolTypeOK, ReuseBlock, sizes, chunkVars
<1>10. SizesOK'
  BY DEF PoolInv, SizesOK, ReuseBlock, sizes
<1> QED
  BY <1>7, <1>8, <1>9, <1>10 DEF PoolInv

LEMMA FreeInv ==
  ASSUME PoolInv, NEW b \in allocated, FreeBlock(b)
  PROVE  PoolInv'
<1> DEFINE n == Len(free)
<1>1. /\ free \in Seq(Blocks) /\ n \in Nat /\ b \in Blocks /\ DOMAIN free = 1..n
      /\ b \notin ToSet(free)
  BY DEF PoolInv, PoolTypeOK, FreeListIsFree
<1>2. Blocks' = Blocks
  BY SameBlocks DEF FreeBlock
<1>3. /\ free' \in Seq(Blocks) /\ Len(free') = n + 1 /\ DOMAIN free' = 1..(n + 1)
      /\ free' # <<>> /\ free'[n + 1] = b
      /\ \A i \in 1..n : free'[i] = free[i]
  BY <1>1, AppendProperties DEF FreeBlock
<1>4. /\ lastBlock' = b /\ prev' = [prev EXCEPT ![b] = lastBlock]
      /\ allocated' = allocated \ {b}
  BY DEF FreeBlock, LinkFreed
<1>5. \A i \in 1..n : free[i] # b
  BY <1>1 DEF ToSet
<1>6. FreeListIsFree'
  <2>1. lastBlock' = IF free' = <<>> THEN NullBlock ELSE Last(free')
    BY <1>3, <1>4 DEF Last
  <2>2. ASSUME NEW i \in 1..(n + 1)
        PROVE  prev'[free'[i]] = IF i = 1 THEN NullBlock ELSE free'[i - 1]
    <3>1. CASE i = n + 1
      <4>1. prev'[free'[i]] = IF free = <<>> THEN NullBlock ELSE free[n]
        BY <1>1, <1>3, <1>4, <3>1 DEF PoolInv, PoolTypeOK, FreeListIsFree, Last
      <4>2. free = <<>> <=> i = 1
        BY <1>1, <3>1
      <4>3. i # 1 => i - 1 = n /\ free'[n] = free[n]
        BY <1>1, <1>3, <3>1
      <4> QED
        BY <4>1, <4>2, <4>3
    <3>2. CASE i # n + 1
      <4>1. i \in 1..n
        BY <1>1, <3>2
      <4>2. prev'[free[i]] = prev[free[i]]
        BY <1>1, <1>4, <1>5, <4>1 DEF PoolInv, PoolTypeOK
      <4>3. prev[free[i]] = IF i = 1 THEN NullBlock ELSE free[i - 1]
        BY <1>1, <4>1 DEF PoolInv, FreeListIsFree
      <4>4. free'[i] = free[i] /\ (i # 1 => free'[i - 1] = free[i - 1])
        BY <1>1, <1>3, <4>1
      <4> QED
        BY <4>2, <4>3, <4>4
    <3> QED
      BY <3>1, <3>2
  <2>3. IsInjective(free')
    <3> SUFFICES ASSUME NEW i \in 1..(n + 1), NEW j \in 1..(n + 1), free'[i] = free'[j]
                 PROVE  i = j
      BY <1>3 DEF IsInjective
    <3>1. \A k \in 1..(n + 1) : k # n + 1 => k \in 1..n
      BY <1>1
    <3>2. \A k, l \in 1..n : free[k] = free[l] => k = l
      BY <1>1 DEF PoolInv, FreeListIsFree, IsInjective
    <3> QED
      BY <1>3, <1>5, <3>1, <3>2
  <2>4. ToSet(free') = ToSet(free) \cup {b}
    <3>1. ToSet(free') = {free'[i] : i \in 1..(n + 1)} /\ ToSet(free) = {free[i] : i \in 1..n}
      BY <1>1, <1>3 DEF ToSet
    <3>2. 1..(n + 1) = 1..n \cup {n + 1}
      BY <1>1
    <3> QED
      BY <1>3, <3>1, <3>2
  <2>5. ToSet(free') = Blocks' \ allocated'
    BY <1>1, <1>2, <1>4, <2>4 DEF PoolInv, FreeListIsFree
  <2> QED
    BY <1>3, <2>1, <2>2, <2>3, <2>5 DEF FreeListIsFree
<1>7. PoolTypeOK'
  <2>1. prev' \in [Blocks -> Blocks \cup {NullBlock, User}]
    BY <1>1, <1>4 DEF PoolInv, PoolTypeOK
  <2> QED
    BY <1>1, <1>2, <1>3, <1>4, <2>1 DEF PoolInv, PoolTypeOK, FreeBlock, sizes, chunkVars
<1>8. SizesOK'
  BY DEF PoolInv, SizesOK, FreeBlock, sizes
<1>9. IsFiniteSet(allocated')
  BY <1>4, FS_RemoveElement DEF PoolInv
<1> QED
  BY <1>6, <1>7, <1>8, <1>9 DEF PoolInv

(* A new chunk brings BlockCount blocks that were none before.             *)
LEMMA NewBlocks ==
  ASSUME PoolInv, NEW c \in Chunk, IncreaseChunks(c), UNCHANGED sizes
  PROVE  /\ Blocks' = Blocks \cup BlocksOf(c)
         /\ Blocks \cap BlocksOf(c) = {}
         /\ chunkVector' \in Seq(Chunk) /\ chunkVectorLength' \in Nat
<1>1. \A d : BlocksOf(d)' = BlocksOf(d)
  BY DEF sizes, BlocksOf, BlockCount, Offset, Outside
<1>2. chunkVector' \in Seq(Chunk) /\ ToSet(chunkVector') = ToSet(chunkVector) \cup {c}
  <2> DEFINE n == Len(chunkVector)
  <2>1. /\ chunkVector \in Seq(Chunk) /\ n \in Nat /\ chunkVector' \in Seq(Chunk)
        /\ Len(chunkVector') = n + 1 /\ chunkVector'[n + 1] = c
        /\ \A i \in 1..n : chunkVector'[i] = chunkVector[i]
    BY AppendProperties DEF PoolInv, PoolTypeOK, IncreaseChunks
  <2>2. /\ ToSet(chunkVector') = {chunkVector'[i] : i \in 1..(n + 1)}
        /\ ToSet(chunkVector) = {chunkVector[i] : i \in 1..n}
    BY <2>1 DEF ToSet
  <2>3. 1..(n + 1) = 1..n \cup {n + 1}
    BY <2>1
  <2> QED
    BY <2>1, <2>2, <2>3
<1>3. Blocks' = Blocks \cup BlocksOf(c)
  <2>1. Blocks' = UNION {BlocksOf(d) : d \in ToSet(chunkVector')}
    BY <1>1 DEF Blocks
  <2> QED
    BY <1>2, <2>1 DEF Blocks
<1>4. Blocks \cap BlocksOf(c) = {}
  <2> SUFFICES ASSUME NEW b \in Blocks, b \in BlocksOf(c) PROVE FALSE
    OBVIOUS
  <2>1. b[1] \in ToSet(chunkVector) /\ b[1] = c
    BY DEF Blocks, BlocksOf
  <2> QED
    BY <2>1 DEF IncreaseChunks
<1>5. chunkVectorLength' \in Nat
  BY DEF PoolInv, PoolTypeOK, IncreaseChunks, ExpandChunkVector
<1> QED
  BY <1>2, <1>3, <1>4, <1>5

(* When there is no free block every block is in use.                      *)
LEMMA FullWhenEmpty ==
  ASSUME PoolInv, NEW c \in Chunk, IncreaseBlocks(c)
  PROVE  free = <<>> /\ allocated = Blocks
<1>1. Blocks \subseteq Chunk \X Int
  <2>1. \A k \in 1..BlockCount : Offset(k) \in Int
    BY BlockCountFacts, OffsetFacts DEF PoolInv
  <2>2. ToSet(chunkVector) \subseteq Chunk
    BY DEF PoolInv, PoolTypeOK, ToSet
  <2> QED
    BY <2>1, <2>2 DEF Blocks, BlocksOf
<1>2. free = <<>>
  <2> SUFFICES ASSUME free # <<>> PROVE FALSE
    OBVIOUS
  <2>1. Last(free) = NullBlock /\ Last(free) \in Blocks
    BY DEF PoolInv, PoolTypeOK, FreeListIsFree, IncreaseBlocks, Last
  <2> QED
    BY <1>1, <2>1, PoolAssumption
<1>3. ToSet(free) = {}
  BY <1>2 DEF ToSet
<1> QED
  BY <1>2, <1>3 DEF PoolInv, PoolTypeOK, FreeListIsFree

(* increaseBlocks links the blocks of the new chunk from its end, and      *)
(* allocateBlock takes the first of them.                                  *)
LEMMA IncreaseInv ==
  ASSUME PoolInv, NEW c \in Chunk, IncreaseBlocks(c)
  PROVE  PoolInv'
<1> DEFINE N == BlockCount
           block(k) == <<c, Offset(k)>>
           words == [b \in DOMAIN prev \cup BlocksOf(c) |->
                       IF b \in DOMAIN prev THEN prev[b]
                       ELSE PrevOf(c, CHOOSE k \in 1..BlockCount : b[2] = Offset(k))]
<1>1. /\ N \in Nat \ {0} /\ Outside(Offset(N + 1))
      /\ \A k \in 2..N : ~Outside(Offset(k))
  BY BlockCountFacts DEF PoolInv, SizesOK
<1>2. /\ Blocks' = Blocks \cup BlocksOf(c) /\ Blocks \cap BlocksOf(c) = {}
      /\ chunkVector' \in Seq(Chunk) /\ chunkVectorLength' \in Nat
  BY NewBlocks DEF IncreaseBlocks
<1>3. \A k \in 1..N : block(k) \in BlocksOf(c) /\ block(k) \notin Blocks
  BY <1>2 DEF BlocksOf
<1>4. \A j, k \in 1..N : block(j) = block(k) => j = k
  BY BlocksDiffer DEF PoolInv
<1>5. free = <<>> /\ allocated = Blocks
  BY FullWhenEmpty
<1>6. DOMAIN prev = Blocks
  BY DEF PoolInv, PoolTypeOK
<1>7. \A k \in 1..N : words[block(k)] = PrevOf(c, k)
  <2> SUFFICES ASSUME NEW k \in 1..N PROVE words[block(k)] = PrevOf(c, k)
    OBVIOUS
  <2>1. words[block(k)] = PrevOf(c, CHOOSE j \in 1..N : Offset(k) = Offset(j))
    BY <1>3, <1>6
  <2>2. (CHOOSE j \in 1..N : Offset(k) = Offset(j)) = k
    BY BlocksDiffer DEF PoolInv
  <2> QED
    BY <2>1, <2>2
<1>8. \A k \in 1..N : PrevOf(c, k) = IF k = N THEN NullBlock ELSE block(k + 1)
  BY <1>1 DEF PrevOf
<1>9. /\ lastBlock' = words[block(1)] /\ prev' = [words EXCEPT ![block(1)] = User]
      /\ allocated' = allocated \cup {block(1)}
      /\ free' = [i \in 1..(N - 1) |-> block(N + 1 - i)]
  BY DEF IncreaseBlocks, TakeBlock
<1> HIDE DEF words
<1>10. /\ DOMAIN free' = 1..(N - 1) /\ Len(free') = N - 1
       /\ \A i \in 1..(N - 1) : free'[i] = block(N + 1 - i)
       /\ \A i \in 1..(N - 1) : N + 1 - i \in 2..N
       /\ free' \in Seq(Blocks')
  <2>1. \A i \in 1..(N - 1) : N + 1 - i \in 2..N
    BY <1>1
  <2>2. \A i \in 1..(N - 1) : block(N + 1 - i) \in Blocks'
    BY <1>1, <1>2, <1>3, <2>1
  <2>3. DOMAIN free' = 1..(N - 1) /\ \A i \in 1..(N - 1) : free'[i] = block(N + 1 - i)
    BY <1>9
  <2>4. N - 1 \in Nat
    BY <1>1
  <2>5. free' \in [1..(N - 1) -> Blocks']
    BY <1>9, <2>2
  <2>6. free' \in Seq(Blocks')
    BY <2>4, <2>5, SeqDef
  <2>7. Len(free') = N - 1
    BY <2>3, <2>4, <2>6, LenProperties
  <2> QED
    BY <2>1, <2>3, <2>6, <2>7
<1>11. \A k \in 2..N : prev'[block(k)] = IF k = N THEN NullBlock ELSE block(k + 1)
  <2> SUFFICES ASSUME NEW k \in 2..N
               PROVE  prev'[block(k)] = IF k = N THEN NullBlock ELSE block(k + 1)
    OBVIOUS
  <2>1. k \in 1..N /\ 1 \in 1..N
    BY <1>1
  <2>2. block(k) # block(1) /\ block(k) \in DOMAIN words
    BY <1>3, <1>4, <2>1 DEF words
  <2>3. prev'[block(k)] = words[block(k)]
    BY <1>9, <2>2 DEF words
  <2> QED
    BY <1>7, <1>8, <2>1, <2>3
<1>12. lastBlock' = IF N = 1 THEN NullBlock ELSE block(2)
  <2>1. 1 \in 1..N /\ 1 + 1 = 2
    BY <1>1
  <2>2. words[block(1)] = PrevOf(c, 1)
    BY <1>7, <2>1
  <2>3. PrevOf(c, 1) = IF N = 1 THEN NullBlock ELSE block(1 + 1)
    BY <1>8, <2>1
  <2> QED
    BY <1>9, <2>1, <2>2, <2>3
<1>13. FreeListIsFree'
  <2>1. lastBlock' = IF free' = <<>> THEN NullBlock ELSE Last(free')
    <3>1. lastBlock' = IF N = 1 THEN NullBlock ELSE block(2)
      BY <1>12
    <3>2. N = 1 => free' = <<>>
      BY <1>10
    <3>3. N # 1 => free' # <<>> /\ Last(free') = block(2)
      <4> SUFFICES ASSUME N # 1 PROVE free' # <<>> /\ free'[Len(free')] = block(2)
        BY DEF Last
      <4>1. N - 1 \in 1..(N - 1) /\ N + 1 - (N - 1) = 2
        BY <1>1
      <4>2. free'[N - 1] = block(2)
        BY <1>10, <4>1
      <4> QED
        BY <1>1, <1>10, <4>1, <4>2
    <3> QED
      BY <3>1, <3>2, <3>3
  <2>2. \A i \in DOMAIN free' : prev'[free'[i]] = IF i = 1 THEN NullBlock ELSE free'[i - 1]
    <3> SUFFICES ASSUME NEW i \in 1..(N - 1)
                 PROVE  prev'[free'[i]] = IF i = 1 THEN NullBlock ELSE free'[i - 1]
      BY <1>10
    <3>1. N + 1 - i \in 2..N /\ free'[i] = block(N + 1 - i)
      BY <1>10
    <3>2. N + 1 - i = N <=> i = 1
      BY <1>1
    <3>3. i # 1 => i - 1 \in 1..(N - 1) /\ (N + 1 - i) + 1 = N + 1 - (i - 1)
      BY <1>1
    <3>4. i # 1 => free'[i - 1] = block((N + 1 - i) + 1)
      BY <1>10, <3>3
    <3> QED
      BY <1>11, <3>1, <3>2, <3>4
  <2>3. IsInjective(free')
    <3> SUFFICES ASSUME NEW i \in 1..(N - 1), NEW j \in 1..(N - 1), free'[i] = free'[j]
                 PROVE  i = j
      BY <1>10 DEF IsInjective
    <3>1. N + 1 - i \in 1..N /\ N + 1 - j \in 1..N
      BY <1>1
    <3>2. N + 1 - i = N + 1 - j
      BY <1>4, <1>10, <3>1
    <3> QED
      BY <1>1, <3>2
  <2>4. ToSet(free') = BlocksOf(c) \ {block(1)}
    <3>1. ToSet(free') = {block(N + 1 - i) : i \in 1..(N - 1)}
      BY <1>10 DEF ToSet
    <3>2. ASSUME NEW b \in BlocksOf(c), b # block(1) PROVE b \in ToSet(free')
      <4>1. PICK k \in 1..N : b = block(k)
        BY DEF BlocksOf
      <4>2. N + 1 - k \in 1..(N - 1) /\ N + 1 - (N + 1 - k) = k
        BY <1>1, <3>2, <4>1
      <4> QED
        BY <3>1, <4>1, <4>2
    <3>3. ASSUME NEW i \in 1..(N - 1)
          PROVE  block(N + 1 - i) \in BlocksOf(c) /\ block(N + 1 - i) # block(1)
      <4>1. N + 1 - i \in 1..N /\ 1 \in 1..N /\ N + 1 - i # 1
        BY <1>1
      <4> QED
        BY <1>3, <1>4, <4>1
    <3> QED
      BY <3>1, <3>2, <3>3
  <2>5. ToSet(free') = Blocks' \ allocated'
    <3>1. block(1) \in BlocksOf(c)
      BY <1>1, <1>3
    <3> QED
      BY <1>2, <1>5, <1>9, <2>4, <3>1
  <2> QED
    BY <2>1, <2>2, <2>3, <2>5 DEF FreeListIsFree
<1>14. PoolTypeOK'
  <2>1. lastBlock' \in Blocks' \cup {NullBlock}
    <3>1. lastBlock' = IF N = 1 THEN NullBlock ELSE block(2)
      BY <1>12
    <3> QED
      BY <1>1, <1>2, <1>3, <3>1
  <2>2. prev' \in [Blocks' -> Blocks' \cup {NullBlock, User}]
    <3>1. words \in [Blocks' -> Blocks' \cup {NullBlock, User}]
      <4> SUFFICES ASSUME NEW b \in Blocks' PROVE words[b] \in Blocks' \cup {NullBlock, User}
        BY <1>2, <1>6 DEF words
      <4>1. CASE b \in Blocks
        BY <1>2, <1>6, <4>1 DEF words, PoolInv, PoolTypeOK
      <4>2. CASE b \in BlocksOf(c)
        <5>1. PICK k \in 1..N : b = block(k)
          BY <4>2 DEF BlocksOf
        <5>2. k # N => k + 1 \in 1..N
          BY <1>1
        <5> QED
          BY <1>2, <1>3, <1>7, <1>8, <5>1, <5>2
      <4> QED
        BY <1>2, <4>1, <4>2
    <3> QED
      BY <1>9, <3>1
  <2>3. allocated' \subseteq Blocks'
    BY <1>1, <1>2, <1>3, <1>5, <1>9
  <2>4. peak' \in Nat
    BY TakeBlockFacts DEF IncreaseBlocks
  <2> QED
    BY <1>2, <1>10, <2>1, <2>2, <2>3, <2>4 DEF PoolInv, PoolTypeOK, IncreaseBlocks, sizes
<1>15. SizesOK'
  BY DEF PoolInv, SizesOK, IncreaseBlocks, sizes
<1>16. IsFiniteSet(allocated')
  BY TakeBlockFacts DEF IncreaseBlocks
<1> QED
  BY <1>13, <1>14, <1>15, <1>16 DEF PoolInv

LEMMA DestroyInv ==
  ASSUME PoolInv, Destroy
  PROVE  PoolInv'
<1>1. Blocks' = {} /\ ToSet(free') = {}
  BY DEF Destroy, Blocks, ToSet
<1>2. PoolTypeOK'
  BY <1>1, EmptySeq DEF PoolInv, PoolTypeOK, Destroy, NoBlocks, sizes
<1>3. FreeListIsFree'
  BY <1>1 DEF Destroy, FreeListIsFree, IsInjective
<1>4. SizesOK' /\ IsFiniteSet(allocated')
  BY FS_EmptySet DEF PoolInv, SizesOK, Destroy, sizes
<1> QED
  BY <1>2, <1>3, <1>4 DEF PoolInv

LEMMA PoolNextInv == PoolInv /\ [PoolNext]_poolVars => PoolInv'
<1> SUFFICES ASSUME PoolInv, [PoolNext]_poolVars PROVE PoolInv'
  OBVIOUS
<1>1. CASE AllocateBlock
  BY <1>1, ReuseInv, IncreaseInv DEF AllocateBlock
<1>2. ASSUME NEW b \in allocated, FreeBlock(b) PROVE PoolInv'
  BY <1>2, FreeInv
<1>3. CASE Destroy
  BY <1>3, DestroyInv
<1>4. CASE UNCHANGED poolVars
  <2>1. Blocks' = Blocks
    BY <1>4, SameBlocks DEF poolVars
  <2> QED
    BY <1>4, <2>1 DEF poolVars, sizes, chunkVars, blockVars, PoolInv, PoolTypeOK, SizesOK,
       FreeListIsFree
<1> QED
  BY <1>1, <1>2, <1>3, <1>4 DEF PoolNext

LEMMA PoolInvAlways == PoolSpec => []PoolInv
<1> QED
  BY PoolInitInv, PoolNextInv, PTL DEF PoolSpec

-----------------------------------------------------------------------------
(* Every variable of the pool keeps its type: no pointer in a free block   *)
(* or in lastBlock_ leads out of the chunks.                               *)
THEOREM TypeCorrect == PoolSpec => []PoolTypeOK
<1>1. PoolInv => PoolTypeOK
  BY DEF PoolInv
<1> QED
  BY <1>1, PoolInvAlways, PTL

(* allocateBlock never hands out a block that is in use, and freeBlock     *)
(* loses none: the list holds exactly the free blocks, each once.          *)
THEOREM FreeListCorrect == PoolSpec => []FreeListIsFree
<1>1. PoolInv => FreeListIsFree
  BY DEF PoolInv
<1> QED
  BY <1>1, PoolInvAlways, PTL

(* increaseBlocks cuts blocks that lie within the chunk and apart from     *)
(* each other, for any sizes of blocks, chunks and pages.                  *)
THEOREM FitCorrect == PoolSpec => []BlocksFitTheChunk
<1>1. ASSUME PoolInv PROVE BlocksFitTheChunk
  <2>1. /\ BlockCount \in Nat \ {0} /\ Outside(Offset(BlockCount + 1))
        /\ \A k \in 2..BlockCount : ~Outside(Offset(k))
    BY <1>1, BlockCountFacts DEF PoolInv, SizesOK
  <2>2. ASSUME NEW k \in 1..BlockCount
        PROVE  Offset(k) >= 0 /\ Offset(k) + blockSize <= chunkSize
    <3>1. k \in Nat /\ 0 < k /\ Offset(k) \in Int
      BY <1>1, <2>1, OffsetFacts DEF PoolInv
    <3>2. Offset(0) = chunkSize
      BY <1>1 DEF Offset, PoolInv, SizesOK
    <3>3. Offset(k) + blockSize <= chunkSize
      BY <1>1, <3>1, <3>2, OffsetFacts DEF PoolInv
    <3>4. CASE k = 1
      <4>1. 1 * blockSize <= chunkLength * blockSize
        BY <1>1, Multiples DEF PoolInv, SizesOK
      <4> QED
        BY <1>1, <3>4, <4>1 DEF Offset, PoolInv, SizesOK
    <3>5. CASE k # 1
      <4>1. k \in 2..BlockCount
        BY <2>1, <3>5
      <4>2. ~(Offset(k) < 0)
        BY <2>1, <4>1 DEF Outside
      <4> QED
        BY <3>1, <3>3, <4>2
    <3> QED
      BY <3>3, <3>4, <3>5, <3>1
  <2>3. ASSUME NEW j \in 1..BlockCount, NEW k \in 1..BlockCount, j # k
        PROVE  \/ Offset(j) + blockSize <= Offset(k)
               \/ Offset(k) + blockSize <= Offset(j)
    <3>1. j \in Nat /\ k \in Nat /\ (j < k \/ k < j)
      BY <2>1, <2>3
    <3> QED
      BY <1>1, <3>1, OffsetFacts DEF PoolInv
  <2>4. BlockCount >= chunkLength
    <3> SUFFICES ASSUME BlockCount < chunkLength PROVE FALSE
      BY <1>1, <2>1 DEF PoolInv, SizesOK
    <3>1. BlockCount * blockSize + blockSize <= chunkLength * blockSize
      BY <1>1, <2>1, Multiples DEF PoolInv, SizesOK
    <3>2. (BlockCount + 1) * blockSize = BlockCount * blockSize + blockSize
      BY <1>1, <2>1 DEF PoolInv, SizesOK
    <3>3. BlockCount * blockSize \in Nat /\ chunkLength * blockSize \in Nat
      BY <1>1, <2>1 DEF PoolInv, SizesOK
    <3> QED
      BY <1>1, <2>1, <3>1, <3>2, <3>3 DEF Offset, Outside, PoolInv, SizesOK
  <2>5. \A b \in Blocks : \E k \in 1..BlockCount : b = <<b[1], Offset(k)>>
    BY DEF Blocks, BlocksOf
  <2>6. ASSUME NEW a \in Blocks PROVE a[2] >= 0 /\ a[2] + blockSize <= chunkSize
    BY <2>2, <2>5
  <2>7. ASSUME NEW a \in Blocks, NEW b \in Blocks, a[1] = b[1], a # b
        PROVE  a[2] + blockSize <= b[2] \/ b[2] + blockSize <= a[2]
    <3>1. PICK j \in 1..BlockCount : a = <<a[1], Offset(j)>>
      BY <2>5
    <3>2. PICK k \in 1..BlockCount : b = <<b[1], Offset(k)>>
      BY <2>5
    <3>3. j # k
      BY <2>7, <3>1, <3>2
    <3>4. a[2] = Offset(j) /\ b[2] = Offset(k)
      BY <3>1, <3>2
    <3> QED
      BY <2>3, <3>3, <3>4
  <2> QED
    BY <2>4, <2>6, <2>7 DEF BlocksFitTheChunk
<1> QED
  BY <1>1, PoolInvAlways, PTL

-----------------------------------------------------------------------------
(* How the pool grows.                                                     *)

(* The pool holds BlockCount blocks for each chunk, and only took another  *)
(* chunk when more blocks were in use than all before it hold.             *)
GrowthInv ==
  /\ IsFiniteSet(Blocks) /\ Cardinality(Blocks) = Len(chunkVector) * BlockCount
  /\ Len(chunkVector) <= chunkVectorLength
  /\ (Len(chunkVector) - 1) * BlockCount < peak \/ chunkVector = <<>>
  /\ peak <= Len(chunkVector) * BlockCount

LEMMA ChunkHolds ==
  ASSUME SizesOK, NEW c
  PROVE  IsFiniteSet(BlocksOf(c)) /\ Cardinality(BlocksOf(c)) = BlockCount
<1> DEFINE block == [k \in 1..BlockCount |-> <<c, Offset(k)>>]
<1>1. BlockCount \in Nat
  BY BlockCountFacts
<1>2. block \in [1..BlockCount -> BlocksOf(c)]
  BY DEF BlocksOf
<1>3. block \in Bijection(1..BlockCount, BlocksOf(c))
  <2>1. \A j, k \in 1..BlockCount : block[j] = block[k] => j = k
    BY BlocksDiffer
  <2>2. \A b \in BlocksOf(c) : \E k \in 1..BlockCount : block[k] = b
    BY DEF BlocksOf
  <2> QED
    BY <1>2, <2>1, <2>2 DEF Bijection, Injection, Surjection, IsInjective
<1>4. IsFiniteSet(1..BlockCount) /\ Cardinality(1..BlockCount) = BlockCount
  BY <1>1, FS_Interval
<1> QED
  BY <1>3, <1>4, FS_Bijection DEF ExistsBijection

LEMMA GrowthStep ==
  ASSUME PoolInv, GrowthInv, [PoolNext]_poolVars
  PROVE  GrowthInv'
<1> DEFINE n == Len(chunkVector)
           B == BlockCount
<1>1. n \in Nat /\ B \in Nat \ {0} /\ peak \in Nat /\ chunkVectorLength \in Nat
  BY BlockCountFacts DEF PoolInv, PoolTypeOK, SizesOK
<1>2. UNCHANGED sizes => B' = B
  BY DEF sizes, BlockCount, Offset, Outside
<1>3. CASE ReuseBlock
  <2>1. Blocks' = Blocks /\ UNCHANGED <<sizes, chunkVars>>
    BY <1>3, SameBlocks DEF ReuseBlock
  <2>2. allocated' \subseteq Blocks
    BY <1>3, <2>1, ReuseInv DEF PoolInv, PoolTypeOK
  <2>3. Cardinality(allocated') \in Nat /\ Cardinality(allocated') <= n * B
    BY <2>2, FS_Subset, FS_CardinalityType DEF GrowthInv
  <2>4. peak' \in Nat /\ peak <= peak' /\ peak' <= n * B
    BY <1>1, <1>3, <2>3 DEF ReuseBlock, TakeBlock, GrowthInv
  <2>5. n = 0 \/ (n - 1) * B < peak
    BY DEF GrowthInv
  <2>6. (n - 1) * B \in Int /\ n * B \in Int
    BY <1>1
  <2> QED
    BY <1>1, <1>2, <2>1, <2>4, <2>5, <2>6 DEF GrowthInv, chunkVars
<1>4. ASSUME NEW c \in Chunk, IncreaseBlocks(c) PROVE GrowthInv'
  <2>1. UNCHANGED sizes /\ IncreaseChunks(c) /\ Blocks' = Blocks \cup BlocksOf(c)
        /\ Blocks \cap BlocksOf(c) = {}
    BY <1>4, NewBlocks DEF IncreaseBlocks
  <2>2. Len(chunkVector') = n + 1 /\ chunkVector' # <<>>
    BY <2>1, AppendProperties DEF PoolInv, PoolTypeOK, IncreaseChunks
  <2>3. /\ IsFiniteSet(Blocks') /\ Cardinality(Blocks') = n * B + B
    <3>1. IsFiniteSet(BlocksOf(c)) /\ Cardinality(BlocksOf(c)) = B
      BY ChunkHolds DEF PoolInv
    <3>2. Cardinality(Blocks) = n * B /\ n * B \in Nat
      BY <1>1 DEF GrowthInv
    <3>3. /\ IsFiniteSet(Blocks \cup BlocksOf(c))
          /\ Cardinality(Blocks \cup BlocksOf(c)) = Cardinality(Blocks) + Cardinality(BlocksOf(c)) - 0
      <4>1. IsFiniteSet(Blocks)
        BY DEF GrowthInv
      <4>2. /\ IsFiniteSet(Blocks \cup BlocksOf(c))
            /\ Cardinality(Blocks \cup BlocksOf(c))
                 = Cardinality(Blocks) + Cardinality(BlocksOf(c)) - Cardinality(Blocks \cap BlocksOf(c))
        BY <3>1, <4>1, FS_Union, Zenon
      <4>3. Cardinality(Blocks \cap BlocksOf(c)) = 0
        BY <2>1, FS_EmptySet
      <4> QED
        BY <4>2, <4>3
    <3> QED
      BY <1>1, <2>1, <3>1, <3>2, <3>3
  <2>4. n + 1 <= chunkVectorLength'
    BY <1>1, <2>1 DEF IncreaseChunks, ExpandChunkVector, GrowthInv
  <2>5. Cardinality(allocated') = n * B + 1
    <3>1. allocated = Blocks
      BY <1>4, FullWhenEmpty
    <3>2. allocated' = allocated \cup {<<c, Offset(1)>>}
      BY <1>4 DEF IncreaseBlocks, TakeBlock
    <3>3. <<c, Offset(1)>> \notin Blocks
      BY <1>1, <2>1 DEF BlocksOf
    <3> QED
      BY <3>1, <3>2, <3>3, FS_AddElement DEF GrowthInv
  <2>6. peak' = n * B + 1
    <3>1. n * B \in Nat /\ peak <= n * B
      BY <1>1 DEF GrowthInv
    <3> QED
      BY <1>1, <1>4, <2>5, <3>1 DEF IncreaseBlocks, TakeBlock
  <2>7. (n + 1) * B = n * B + B /\ (n + 1) - 1 = n /\ n * B \in Nat
    BY <1>1
  <2> QED
    BY <1>1, <1>2, <2>1, <2>2, <2>3, <2>4, <2>6, <2>7 DEF GrowthInv
<1>5. ASSUME NEW b \in allocated, FreeBlock(b) PROVE GrowthInv'
  <2>1. Blocks' = Blocks /\ UNCHANGED <<sizes, chunkVars, peak>>
    BY <1>5, SameBlocks DEF FreeBlock
  <2> QED
    BY <1>2, <2>1 DEF GrowthInv, chunkVars
<1>6. CASE Destroy
  <2>1. Blocks' = {} /\ chunkVector' = <<>> /\ chunkVectorLength' = 0 /\ peak' = 0
    BY <1>6 DEF Destroy, Blocks, ToSet
  <2>2. B' = B
    BY <1>2, <1>6 DEF Destroy
  <2> QED
    BY <1>1, <2>1, <2>2, FS_EmptySet DEF GrowthInv
<1>7. CASE UNCHANGED poolVars
  <2>1. Blocks' = Blocks /\ B' = B
    BY <1>2, <1>7, SameBlocks DEF poolVars
  <2> QED
    BY <1>7, <2>1 DEF GrowthInv, poolVars, chunkVars, blockVars
<1> QED
  BY <1>3, <1>4, <1>5, <1>6, <1>7 DEF PoolNext, AllocateBlock

(* Blocks that were given back are found again: the pool only takes a      *)
(* chunk when all it holds is in use, so it grows with the peak of its use *)
(* and not with the number of calls, and chunkVector_ is never written     *)
(* past its end.                                                           *)
THEOREM GrowthCorrect == PoolSpec => []GrowsWithThePeak
<1>1. PoolInit => GrowthInv
  <2> SUFFICES ASSUME PoolInit PROVE GrowthInv
    OBVIOUS
  <2>1. Blocks = {} /\ Len(chunkVector) = 0
    BY DEF PoolInit, Blocks, ToSet
  <2>2. BlockCount \in Nat
    BY InitSizes, BlockCountFacts
  <2> QED
    BY <2>1, <2>2, FS_EmptySet DEF PoolInit, GrowthInv
<1>2. GrowthInv /\ PoolInv => GrowsWithThePeak
  <2> SUFFICES ASSUME GrowthInv, PoolInv PROVE GrowsWithThePeak
    OBVIOUS
  <2>1. chunkVector = <<>> => peak = 0
    <3>1. BlockCount \in Nat /\ peak \in Nat
      BY BlockCountFacts DEF PoolInv, PoolTypeOK
    <3> QED
      BY <3>1 DEF GrowthInv
  <2> QED
    BY <2>1 DEF GrowthInv, GrowsWithThePeak
<1> QED
  BY <1>1, <1>2, GrowthStep, PoolInvAlways, PTL DEF PoolSpec

-----------------------------------------------------------------------------
(* Rings of pointers: their places.                                        *)

(* The pointers of the nodes N.                                            *)
Pointers(N) == [next : [N -> N \cup {Loose}], prev : [N -> N \cup {Loose}]]

(* Rings of nodes of N, one for each head in H: no node is in two places.  *)
Family(N, H, r) ==
  /\ H \subseteq N
  /\ r \in [H -> Seq(N \ H)]
  /\ \A h \in H : IsInjective(r[h])
  /\ \A h, g \in H : h # g => ToSet(r[h]) \cap ToSet(r[g]) = {}

(* The pointers l form the rings r.                                        *)
Woven(l, N, H, r) ==
  /\ l \in Pointers(N)
  /\ Family(N, H, r)
  /\ \A h \in H : Linked(l, h, r[h])

(* What is at the place k of the ring of h.                                *)
Spot(r, h, k) == NodeAt(h, r[h], k)

(* All places of all rings are different.                                  *)
Spread(N, H, r) ==
  /\ \A h \in H : /\ h \in N /\ Len(r[h]) \in Nat
                  /\ r[h] \in Seq(N \ H)
                  /\ Spot(r, h, 0) = h /\ Spot(r, h, Len(r[h]) + 1) = h
                  /\ \A k \in 1..Len(r[h]) : Spot(r, h, k) = r[h][k] /\ r[h][k] \in N \ H
  /\ \A h \in H, k \in Int : Spot(r, h, k) \in N
  /\ \A h, g \in H : \A k \in 0..Len(r[h]), j \in 0..Len(r[g]) :
       Spot(r, h, k) = Spot(r, g, j) => h = g /\ k = j

LEMMA FamilySpread == \A N, H, r : Family(N, H, r) => Spread(N, H, r)
<1> SUFFICES ASSUME NEW N, NEW H, NEW r, Family(N, H, r)
             PROVE  Spread(N, H, r)
  OBVIOUS
<1>1. /\ H \subseteq N
      /\ \A h \in H : r[h] \in Seq(N \ H)
      /\ \A h \in H : IsInjective(r[h])
      /\ \A h, g \in H : h # g => ToSet(r[h]) \cap ToSet(r[g]) = {}
  BY DEF Family
<1>2. ASSUME NEW h \in H
      PROVE  /\ h \in N /\ Len(r[h]) \in Nat
             /\ r[h] \in Seq(N \ H)
             /\ \A k \in 1..Len(r[h]) : r[h][k] \in N \ H
             /\ \A k, j \in 1..Len(r[h]) : r[h][k] = r[h][j] => k = j
             /\ \A k \in 1..Len(r[h]) : r[h][k] \in ToSet(r[h])
  <2> DEFINE s == r[h]
  <2>1. s \in Seq(N \ H) /\ IsInjective(s)
    BY <1>1
  <2> HIDE DEF s
  <2>2. /\ Len(s) \in Nat /\ DOMAIN s = 1..Len(s)
        /\ \A k \in 1..Len(s) : s[k] \in N \ H
        /\ ToSet(s) = {s[k] : k \in 1..Len(s)}
    BY <2>1, InSeq
  <2>3. \A k, j \in 1..Len(s) : s[k] = s[j] => k = j
    BY <2>1, <2>2 DEF IsInjective
  <2>4. \A k \in 1..Len(s) : s[k] \in ToSet(s)
    BY <2>2
  <2> QED
    BY <2>1, <2>2, <2>3, <2>4, <1>1 DEF s
<1>3. \A h \in H : /\ Spot(r, h, 0) = h /\ Spot(r, h, Len(r[h]) + 1) = h
                   /\ \A k \in 1..Len(r[h]) : Spot(r, h, k) = r[h][k]
  BY <1>2 DEF Spot, NodeAt
<1>4. \A h \in H, k \in Int : Spot(r, h, k) \in N
  BY <1>2 DEF Spot, NodeAt
<1>5. ASSUME NEW h \in H, NEW g \in H, NEW k \in 0..Len(r[h]), NEW j \in 0..Len(r[g]),
             Spot(r, h, k) = Spot(r, g, j)
      PROVE  h = g /\ k = j
  <2>1. k = 0 \/ k \in 1..Len(r[h])
    BY <1>2
  <2>2. j = 0 \/ j \in 1..Len(r[g])
    BY <1>2
  <2>3. CASE k = 0
    BY <2>2, <2>3, <1>2, <1>3, <1>5
  <2>4. CASE k \in 1..Len(r[h]) /\ j = 0
    BY <2>4, <1>2, <1>3, <1>5
  <2>5. CASE k \in 1..Len(r[h]) /\ j \in 1..Len(r[g])
    <3>1. r[h][k] = r[g][j]
      BY <2>5, <1>3, <1>5
    <3>2. r[h][k] \in ToSet(r[h]) /\ r[g][j] \in ToSet(r[g])
      BY <2>5, <1>2
    <3>3. h = g
      BY <3>1, <3>2, <1>1
    <3> QED
      BY <2>5, <3>1, <3>3, <1>2
  <2> QED
    BY <2>1, <2>2, <2>3, <2>4, <2>5
<1> QED
  BY <1>2, <1>3, <1>4, <1>5 DEF Spread

LEMMA SpotsAreNodes ==
  \A N, H, r : Spread(N, H, r) => \A g \in H : \A k \in 0..Len(r[g]) : Spot(r, g, k) \in N
<1> SUFFICES ASSUME NEW N, NEW H, NEW r, Spread(N, H, r), NEW g \in H, NEW k \in 0..Len(r[g])
             PROVE  Spot(r, g, k) \in N
  OBVIOUS
<1>1. Len(r[g]) \in Nat /\ \A j \in Int : Spot(r, g, j) \in N
  BY DEF Spread
<1>2. k \in Int
  BY <1>1
<1> QED
  BY <1>1, <1>2

(* Where the pointers of the rings lead.                                   *)
Leading(l, N, H, r) ==
  \A h \in H : \A k \in 0..Len(r[h]) :
    /\ l.next[Spot(r, h, k)] = Spot(r, h, k + 1)
    /\ l.prev[Spot(r, h, k + 1)] = Spot(r, h, k)

(* What it is to be woven, place by place.                                 *)
LEMMA WovenLeads ==
  \A l, N, H, r : Woven(l, N, H, r) <=>
    l \in Pointers(N) /\ Family(N, H, r) /\ Leading(l, N, H, r)
  BY DEF Woven, Linked, Leading, Spot

(* One ring was exchanged for another.                                     *)
LEMMA FamilyChanged ==
  ASSUME NEW N, NEW H, NEW r, Family(N, H, r), NEW h \in H, NEW t \in [H -> Seq(N \ H)],
         \A g \in H : g # h => t[g] = r[g],
         IsInjective(t[h]),
         \A g \in H : g # h => ToSet(t[h]) \cap ToSet(r[g]) = {}
  PROVE  Family(N, H, t)
<1>1. \A g \in H : IsInjective(t[g])
  BY DEF Family
<1>2. ASSUME NEW g \in H, NEW f \in H, g # f
      PROVE  ToSet(t[g]) \cap ToSet(t[f]) = {}
  <2>1. CASE g = h
    <3>1. t[f] = r[f] /\ ToSet(t[h]) \cap ToSet(r[f]) = {}
      BY <2>1, <1>2
    <3> QED
      BY <2>1, <3>1
  <2>2. CASE f = h
    <3>1. t[g] = r[g] /\ ToSet(t[h]) \cap ToSet(r[g]) = {}
      BY <2>2, <1>2
    <3> QED
      BY <2>2, <3>1
  <2>3. CASE g # h /\ f # h
    <3>1. t[f] = r[f] /\ t[g] = r[g] /\ ToSet(r[g]) \cap ToSet(r[f]) = {}
      BY <2>3, <1>2 DEF Family
    <3> QED
      BY <3>1
  <2> QED
    BY <2>1, <2>2, <2>3
<1> QED
  BY <1>1, <1>2 DEF Family

(* The pointers at the places of the ring g are the same in l and L, and   *)
(* then the ring is linked in L as it was in l.                            *)
Untouched(l, L, r, g) ==
  \A k \in 0..Len(r[g]) : /\ L.next[Spot(r, g, k)] = l.next[Spot(r, g, k)]
                          /\ L.prev[Spot(r, g, k)] = l.prev[Spot(r, g, k)]

LEMMA StillLinked ==
  \A l, L, N, H, r : \A g \in H :
    Spread(N, H, r) /\ Leading(l, N, H, r) /\ Untouched(l, L, r, g) => Linked(L, g, r[g])
<1> SUFFICES ASSUME NEW l, NEW L, NEW N, NEW H, NEW r, NEW g \in H,
                    Spread(N, H, r), Leading(l, N, H, r), Untouched(l, L, r, g),
                    NEW k \in 0..Len(r[g])
             PROVE  /\ L.next[Spot(r, g, k)] = Spot(r, g, k + 1)
                    /\ L.prev[Spot(r, g, k + 1)] = Spot(r, g, k)
  BY DEF Linked, Spot
<1>1. Len(r[g]) \in Nat /\ Spot(r, g, Len(r[g]) + 1) = Spot(r, g, 0)
  BY DEF Spread
<1>2. /\ l.next[Spot(r, g, k)] = Spot(r, g, k + 1)
      /\ l.prev[Spot(r, g, k + 1)] = Spot(r, g, k)
  BY DEF Leading
<1>3. L.prev[Spot(r, g, k + 1)] = l.prev[Spot(r, g, k + 1)]
  <2>1. CASE k = Len(r[g])
    <3>1. 0 \in 0..Len(r[g])
      BY <1>1
    <3> QED
      BY <2>1, <3>1, <1>1 DEF Untouched
  <2>2. CASE k # Len(r[g])
    <3>1. k + 1 \in 0..Len(r[g])
      BY <2>2, <1>1
    <3> QED
      BY <3>1 DEF Untouched
  <2> QED
    BY <2>1, <2>2
<1> QED
  BY <1>2, <1>3 DEF Untouched

(* An item that is in no ring is at no place of one.                       *)
LEMMA Stranger ==
  \A N, H, r, q : Spread(N, H, r) /\ q \in N \ H /\ (\A g \in H : q \notin ToSet(r[g])) =>
    \A g \in H : \A k \in 0..Len(r[g]) : q # Spot(r, g, k)
<1> SUFFICES ASSUME NEW N, NEW H, NEW r, NEW q, Spread(N, H, r), q \in N \ H,
                    \A g \in H : q \notin ToSet(r[g]),
                    NEW g \in H, NEW k \in 0..Len(r[g])
             PROVE  q # Spot(r, g, k)
  OBVIOUS
<1>1. r[g] \in Seq(N \ H)
  BY DEF Spread
<1>2. ToSet(r[g]) = {r[g][j] : j \in 1..Len(r[g])}
  BY <1>1, InSeq
<1>3. CASE k = 0
  BY <1>3 DEF Spread
<1>4. CASE k # 0
  <2>1. k \in 1..Len(r[g])
    BY <1>4
  <2> QED
    BY <2>1, <1>2 DEF Spread
<1> QED
  BY <1>3, <1>4

-----------------------------------------------------------------------------
(* Rings of pointers: what each macro of queue.h does to them.             *)

(* QUEUE_INSERT_TAIL of an item that is in no ring appends it to the ring  *)
(* of the head and leaves the other rings as they are.                     *)
LEMMA WeaveTail ==
  ASSUME NEW l, NEW N, NEW H, NEW r, Woven(l, N, H, r),
         NEW h \in H, NEW q \in N \ H, \A g \in H : q \notin ToSet(r[g])
  PROVE  Woven(QUEUE_INSERT_TAIL(l, h, q), N, H, [r EXCEPT ![h] = Append(@, q)])
<1> DEFINE n == Len(r[h])
           last == Spot(r, h, n)
           L == QUEUE_INSERT_TAIL(l, h, q)
           t == [r EXCEPT ![h] = Append(@, q)]
<1>1. l \in Pointers(N) /\ Family(N, H, r) /\ Leading(l, N, H, r) /\ Spread(N, H, r)
  BY WovenLeads, FamilySpread
<1>2. n \in Nat /\ h \in N /\ r[h] \in Seq(N \ H) /\ last \in N /\ l.prev[h] = last
  BY <1>1 DEF Spread, Leading
<1>3. /\ t \in [H -> Seq(N \ H)] /\ Len(t[h]) = n + 1 /\ t[h] = Append(r[h], q)
      /\ \A g \in H : g # h => t[g] = r[g]
      /\ ToSet(t[h]) = ToSet(r[h]) \cup {q} /\ IsInjective(t[h])
      /\ t[h][n + 1] = q /\ \A k \in 1..n : t[h][k] = r[h][k]
  <2>1. r \in [H -> Seq(N \ H)] /\ IsInjective(r[h])
    BY <1>1 DEF Family
  <2>2. /\ Append(r[h], q) \in Seq(N \ H) /\ IsInjective(Append(r[h], q))
        /\ ToSet(Append(r[h], q)) = ToSet(r[h]) \cup {q}
    BY <2>1, <1>2, AppendQueue
  <2>3. /\ Len(Append(r[h], q)) = n + 1 /\ Append(r[h], q)[n + 1] = q
        /\ \A k \in 1..n : Append(r[h], q)[k] = r[h][k]
    BY <1>2, AppendProperties
  <2> QED
    BY <2>1, <2>2, <2>3
<1>4. /\ L.next = [[l.next EXCEPT ![q] = h] EXCEPT ![last] = q]
      /\ L.prev = [[l.prev EXCEPT ![q] = last] EXCEPT ![h] = q]
      /\ L \in Pointers(N)
  BY <1>1, <1>2 DEF QUEUE_INSERT_TAIL, Pointers
<1> HIDE DEF L, t
<1>5. \A x \in N : /\ L.next[x] = IF x = last THEN q ELSE IF x = q THEN h ELSE l.next[x]
                   /\ L.prev[x] = IF x = h THEN q ELSE IF x = q THEN last ELSE l.prev[x]
  BY <1>1, <1>4 DEF Pointers
<1>6. Family(N, H, t)
  <2>1. \A g \in H : g # h => ToSet(t[h]) \cap ToSet(r[g]) = {}
    <3> TAKE g \in H
    <3> HAVE g # h
    <3>1. ToSet(r[h]) \cap ToSet(r[g]) = {}
      BY <1>1 DEF Family
    <3> QED
      BY <3>1, <1>3
  <2> QED
    BY <2>1, <1>1, <1>3, FamilyChanged
<1>7. Spread(N, H, t)
  BY <1>6, FamilySpread
<1>8. \A g \in H : \A k \in 0..Len(r[g]) : q # Spot(r, g, k)
  BY <1>1, Stranger
<1>9. ASSUME NEW g \in H, g # h
      PROVE  Linked(L, g, t[g])
  <2>1. \A k \in 0..Len(r[g]) : Spot(r, g, k) \in N /\ Spot(r, g, k) \notin {h, last, q}
    <3> TAKE k \in 0..Len(r[g])
    <3>1. Spot(r, g, k) # Spot(r, h, 0) /\ Spot(r, g, k) # Spot(r, h, n)
      BY <1>1, <1>2, <1>9 DEF Spread
    <3> QED
      BY <3>1, <1>1, <1>8 DEF Spread
  <2>2. Untouched(l, L, r, g)
    BY <2>1, <1>5 DEF Untouched
  <2> QED
    BY <2>2, <1>1, <1>3, <1>9, StillLinked
<1>10. ASSUME NEW k \in 0..Len(t[h])
       PROVE  /\ L.next[Spot(t, h, k)] = Spot(t, h, k + 1)
              /\ L.prev[Spot(t, h, k + 1)] = Spot(t, h, k)
  <2>1. /\ \A j \in 0..n : Spot(t, h, j) = Spot(r, h, j) /\ Spot(r, h, j) \in N
        /\ Spot(t, h, n + 1) = q /\ Spot(t, h, n + 2) = h /\ Spot(t, h, 0) = h
        /\ n \in 0..n
    <3>1. ASSUME NEW j \in 0..n
          PROVE  Spot(t, h, j) = Spot(r, h, j) /\ Spot(r, h, j) \in N
      <4>1. CASE j = 0
        BY <4>1, <1>1, <1>7 DEF Spread
      <4>2. CASE j # 0
        <5>1. j \in 1..n /\ j \in 1..Len(t[h])
          BY <4>2, <1>2, <1>3
        <5> QED
          BY <5>1, <1>1, <1>3, <1>7 DEF Spread
      <4> QED
        BY <4>1, <4>2
    <3>2. n + 1 \in 1..Len(t[h]) /\ n + 2 = Len(t[h]) + 1
      BY <1>2, <1>3
    <3> QED
      BY <3>1, <3>2, <1>2, <1>3, <1>7 DEF Spread
  <2>2. CASE k < n
    <3>1. k \in 0..n /\ k + 1 \in 0..n /\ k + 1 \in 1..n /\ k # n
      BY <2>2, <1>2, <1>3
    <3>2. /\ l.next[Spot(r, h, k)] = Spot(r, h, k + 1)
          /\ l.prev[Spot(r, h, k + 1)] = Spot(r, h, k)
      BY <3>1, <1>1 DEF Leading
    <3>3. /\ Spot(r, h, k) # last /\ Spot(r, h, k) # q
          /\ Spot(r, h, k + 1) # h /\ Spot(r, h, k + 1) # q
      BY <3>1, <1>1, <1>2, <1>8 DEF Spread
    <3> QED
      BY <3>1, <3>2, <3>3, <2>1, <1>5
  <2>3. CASE k = n
    BY <2>1, <2>3, <1>2, <1>5, <1>8
  <2>4. CASE k = n + 1
    <3>1. last # q
      BY <1>2, <1>8
    <3>2. Spot(t, h, k) = q /\ Spot(t, h, k + 1) = h
      BY <2>1, <2>4, <1>2
    <3> QED
      BY <3>1, <3>2, <1>2, <1>5
  <2> QED
    BY <2>2, <2>3, <2>4, <1>2, <1>3
<1>11. Linked(L, h, t[h])
  BY <1>10 DEF Linked, Spot
<1> QED
  BY <1>4, <1>6, <1>9, <1>11 DEF Woven, L, t
(* A sequence with an item put before it.                                  *)
LEMMA PushQueue ==
  ASSUME NEW S, NEW s \in Seq(S), NEW x \in S
  PROVE  /\ <<x>> \o s \in Seq(S) /\ ToSet(<<x>> \o s) = ToSet(s) \cup {x}
         /\ IsInjective(s) /\ x \notin ToSet(s) => IsInjective(<<x>> \o s)
         /\ Len(<<x>> \o s) = Len(s) + 1
         /\ (<<x>> \o s)[1] = x
         /\ \A k \in 1..Len(s) : (<<x>> \o s)[k + 1] = s[k]
<1> DEFINE w == <<x>>
           n == Len(s)
<1>1. /\ w \in Seq(S) /\ IsInjective(w) /\ ToSet(w) = {x} /\ Len(w) = 1 /\ w[1] = x
  BY OneInQueue
<1>2. n \in Nat
  BY InSeq
<1> HIDE DEF w
<1>3. /\ w \o s \in Seq(S) /\ ToSet(w \o s) = ToSet(s) \cup {x}
      /\ IsInjective(s) /\ x \notin ToSet(s) => IsInjective(w \o s)
  <2>1. x \notin ToSet(s) => ToSet(w) \cap ToSet(s) = {}
    BY <1>1
  <2> QED
    BY <1>1, <2>1, ConcatQueue
<1>4. /\ Len(w \o s) = Len(w) + n
      /\ \A i \in 1..(Len(w) + n) : (w \o s)[i] = IF i <= Len(w) THEN w[i] ELSE s[i - Len(w)]
  BY <1>1, ConcatProperties
<1> HIDE DEF n
<1>5. /\ Len(w \o s) = n + 1
      /\ \A i \in 1..(n + 1) : (w \o s)[i] = IF i <= 1 THEN w[i] ELSE s[i - 1]
  BY <1>1, <1>2, <1>4
<1>6. 1 \in 1..(n + 1) /\ \A k \in 1..n : k + 1 \in 1..(n + 1) /\ ~(k + 1 <= 1) /\ (k + 1) - 1 = k
  BY <1>2
<1>7. (w \o s)[1] = x
  BY <1>1, <1>5, <1>6
<1>8. ASSUME NEW k \in 1..n
      PROVE  (w \o s)[k + 1] = s[k]
  <2>1. k + 1 \in 1..(n + 1) /\ ~(k + 1 <= 1) /\ (k + 1) - 1 = k
    BY <1>6
  <2>2. (w \o s)[k + 1] = s[(k + 1) - 1]
    BY <2>1, <1>5
  <2> QED
    BY <2>1, <2>2
<1> QED
  BY <1>3, <1>5, <1>7, <1>8 DEF w, n

(* QUEUE_INSERT_HEAD puts it in front.                                     *)
LEMMA WeaveHead ==
  ASSUME NEW l, NEW N, NEW H, NEW r, Woven(l, N, H, r),
         NEW h \in H, NEW q \in N \ H, \A g \in H : q \notin ToSet(r[g])
  PROVE  Woven(QUEUE_INSERT_HEAD(l, h, q), N, H, [r EXCEPT ![h] = <<q>> \o @])
<1> DEFINE n == Len(r[h])
           first == Spot(r, h, 1)
           L == QUEUE_INSERT_HEAD(l, h, q)
           t == [r EXCEPT ![h] = <<q>> \o @]
<1>1. l \in Pointers(N) /\ Family(N, H, r) /\ Leading(l, N, H, r) /\ Spread(N, H, r)
  BY WovenLeads, FamilySpread
<1>2. n \in Nat /\ h \in N /\ r[h] \in Seq(N \ H) /\ first \in N /\ l.next[h] = first
  BY <1>1 DEF Spread, Leading
<1>3. /\ t \in [H -> Seq(N \ H)] /\ Len(t[h]) = n + 1 /\ t[h] = <<q>> \o r[h]
      /\ \A g \in H : g # h => t[g] = r[g]
      /\ ToSet(t[h]) = ToSet(r[h]) \cup {q} /\ IsInjective(t[h])
      /\ t[h][1] = q /\ \A k \in 1..n : t[h][k + 1] = r[h][k]
  <2>1. r \in [H -> Seq(N \ H)] /\ IsInjective(r[h]) /\ q \notin ToSet(r[h])
    BY <1>1 DEF Family
  <2> QED
    BY <2>1, <1>2, PushQueue
<1>4. /\ L.next = [[l.next EXCEPT ![q] = first] EXCEPT ![h] = q]
      /\ L.prev = [[l.prev EXCEPT ![q] = h] EXCEPT ![first] = q]
      /\ L \in Pointers(N)
  BY <1>1, <1>2 DEF QUEUE_INSERT_HEAD, Pointers
<1> HIDE DEF L, t
<1>5. \A x \in N : /\ L.next[x] = IF x = h THEN q ELSE IF x = q THEN first ELSE l.next[x]
                   /\ L.prev[x] = IF x = first THEN q ELSE IF x = q THEN h ELSE l.prev[x]
  BY <1>1, <1>4 DEF Pointers
<1>6. Family(N, H, t)
  <2>1. \A g \in H : g # h => ToSet(t[h]) \cap ToSet(r[g]) = {}
    <3> TAKE g \in H
    <3> HAVE g # h
    <3>1. ToSet(r[h]) \cap ToSet(r[g]) = {}
      BY <1>1 DEF Family
    <3> QED
      BY <3>1, <1>3
  <2> QED
    BY <2>1, <1>1, <1>3, FamilyChanged
<1>7. Spread(N, H, t)
  BY <1>6, FamilySpread
<1>8. \A g \in H : \A k \in 0..Len(r[g]) : q # Spot(r, g, k)
  BY <1>1, Stranger
<1>9. \E i \in 0..n : first = Spot(r, h, i)
  <2>1. CASE n = 0
    BY <2>1, <1>1, <1>2 DEF Spread
  <2>2. CASE n # 0
    BY <2>2, <1>2
  <2> QED
    BY <2>1, <2>2
<1>10. ASSUME NEW g \in H, g # h
      PROVE  Linked(L, g, t[g])
  <2>1. \A k \in 0..Len(r[g]) : Spot(r, g, k) \in N /\ Spot(r, g, k) \notin {h, first, q}
    <3> TAKE k \in 0..Len(r[g])
    <3>1. Spot(r, g, k) # Spot(r, h, 0) /\ Spot(r, g, k) # first
      BY <1>1, <1>2, <1>9, <1>10 DEF Spread
    <3> QED
      BY <3>1, <1>1, <1>8 DEF Spread
  <2>2. Untouched(l, L, r, g)
    BY <2>1, <1>5 DEF Untouched
  <2> QED
    BY <2>2, <1>1, <1>3, <1>10, StillLinked
<1>11. ASSUME NEW k \in 0..Len(t[h])
       PROVE  /\ L.next[Spot(t, h, k)] = Spot(t, h, k + 1)
              /\ L.prev[Spot(t, h, k + 1)] = Spot(t, h, k)
  <2>1. /\ \A j \in 1..(n + 1) : Spot(t, h, j + 1) = Spot(r, h, j) /\ Spot(r, h, j) \in N
        /\ Spot(t, h, 1) = q /\ Spot(t, h, 0) = h /\ Spot(r, h, 0) = h
    <3>1. /\ 1 \in 1..Len(t[h]) /\ Len(t[h]) + 1 = (n + 1) + 1
          /\ \A j \in 1..n : j + 1 \in 1..Len(t[h]) /\ j \in Int
          /\ n + 1 \in Int
      BY <1>2, <1>3
    <3>2. /\ Spot(r, h, n + 1) = h /\ Spot(r, h, 0) = h
          /\ Spot(t, h, (n + 1) + 1) = h /\ Spot(t, h, 0) = h /\ Spot(t, h, 1) = q
      <4>1. Spot(r, h, n + 1) = h /\ Spot(r, h, 0) = h
        BY <1>1 DEF Spread
      <4>2. Spot(t, h, Len(t[h]) + 1) = h /\ Spot(t, h, 0) = h /\ Spot(t, h, 1) = t[h][1]
        BY <3>1, <1>7 DEF Spread
      <4> QED
        BY <4>1, <4>2, <3>1, <1>3
    <3>3. \A j \in 1..n : Spot(t, h, j + 1) = r[h][j] /\ Spot(r, h, j) = r[h][j]
      BY <3>1, <1>1, <1>3, <1>7 DEF Spread
    <3>4. \A j \in 1..(n + 1) : j \in 1..n \/ j = n + 1
      BY <1>2
    <3>5. \A j \in 1..(n + 1) : Spot(r, h, j) \in N
      BY <1>1 DEF Spread
    <3> QED
      BY <3>2, <3>3, <3>4, <3>5
  <2>2. CASE k = 0
    <3>1. Spot(t, h, k) = h /\ Spot(t, h, k + 1) = q /\ q # h
      BY <2>1, <2>2, <1>2
    <3>2. q # first
      BY <1>8, <1>9
    <3> QED
      BY <3>1, <3>2, <1>2, <1>5
  <2>3. CASE k = 1
    <3>1. Spot(t, h, k + 1) = first
      BY <2>1, <2>3, <1>2
    <3>2. q # h /\ q # first
      BY <1>9, <1>8, <1>2
    <3> QED
      BY <3>1, <3>2, <2>1, <2>3, <1>2, <1>5
  <2>4. CASE k > 1
    <3> DEFINE j == k - 1
    <3>1. /\ j \in 1..n /\ j \in 0..n /\ j \in 1..(n + 1) /\ j + 1 \in 1..(n + 1)
          /\ j # 0 /\ k = j + 1 /\ k + 1 = (j + 1) + 1
      <4>1. k \in 0..(n + 1)
        BY <1>3
      <4> HIDE DEF n
      <4> QED
        BY <2>4, <4>1, <1>2
    <3> HIDE DEF j
    <3>2. Spot(t, h, k) = Spot(r, h, j) /\ Spot(t, h, k + 1) = Spot(r, h, j + 1)
      BY <3>1, <2>1
    <3>3. /\ l.next[Spot(r, h, j)] = Spot(r, h, j + 1)
          /\ l.prev[Spot(r, h, j + 1)] = Spot(r, h, j)
      BY <3>1, <1>1 DEF Leading
    <3>4. Spot(r, h, j) # h /\ Spot(r, h, j) # q
      BY <3>1, <2>1, <1>1, <1>2, <1>8 DEF Spread
    <3>5. Spot(r, h, j + 1) # first /\ Spot(r, h, j + 1) # q
      <4>1. CASE j = n
        <5>1. Spot(r, h, j + 1) = Spot(r, h, 0) /\ 0 \in 0..n /\ 1 \in 0..n
          BY <4>1, <3>1, <2>1, <1>1, <1>2 DEF Spread
        <5> QED
          BY <5>1, <1>1, <1>8 DEF Spread
      <4>2. CASE j # n
        <5>1. j + 1 \in 0..n /\ 1 \in 0..n /\ j + 1 # 1
          BY <4>2, <3>1, <1>2
        <5> QED
          BY <5>1, <1>1, <1>8 DEF Spread
      <4> QED
        BY <4>1, <4>2
    <3> QED
      BY <3>1, <3>2, <3>3, <3>4, <3>5, <2>1, <1>5
  <2> QED
    BY <2>2, <2>3, <2>4, <1>2, <1>3
<1>12. Linked(L, h, t[h])
  BY <1>11 DEF Linked, Spot
<1> QED
  BY <1>4, <1>6, <1>10, <1>12 DEF Woven, L, t


(* A sequence without one of its items.                                    *)
LEMMA RemoveElements ==
  ASSUME NEW S, NEW s \in Seq(S), NEW i \in 1..Len(s)
  PROVE  /\ Len(RemoveAt(s, i)) = Len(s) - 1
         /\ \A k \in 1..(i - 1) : RemoveAt(s, i)[k] = s[k]
         /\ \A k \in i..(Len(s) - 1) : RemoveAt(s, i)[k] = s[k + 1]
<1> DEFINE n == Len(s)
           p == SubSeq(s, 1, i - 1)
           q == SubSeq(s, i + 1, n)
<1>1. n \in Nat /\ i \in 1..n /\ \A j \in 1..n : s[j] \in S
  BY InSeq
<1> HIDE DEF n
<1>2. /\ p \in Seq(S) /\ Len(p) = i - 1
      /\ \A j \in 1..(i - 1) : p[j] = s[j]
  <2>1. /\ \A j \in 1..(i - 1) : s[j] \in S
        /\ 1 \in Int /\ i - 1 \in Int /\ i - 1 - 1 + 1 = i - 1
    BY <1>1
  <2>2. /\ p \in Seq(S)
        /\ Len(p) = IF 1 <= i - 1 THEN i - 1 - 1 + 1 ELSE 0
        /\ \A j \in 1..(i - 1 - 1 + 1) : p[j] = s[1 + j - 1]
    BY <2>1, SubSeqProperties
  <2> HIDE DEF p
  <2>3. \A j \in 1..(i - 1) : 1 + j - 1 = j
    OBVIOUS
  <2>4. Len(p) = i - 1
    BY <1>1, <2>2
  <2> QED
    BY <2>1, <2>2, <2>3, <2>4
<1>3. /\ q \in Seq(S) /\ Len(q) = n - i
      /\ \A j \in 1..(n - i) : q[j] = s[j + i]
  <2>1. /\ \A j \in (i + 1)..n : s[j] \in S
        /\ i + 1 \in Int /\ n \in Int /\ n - (i + 1) + 1 = n - i
    BY <1>1
  <2>2. /\ q \in Seq(S)
        /\ Len(q) = IF i + 1 <= n THEN n - (i + 1) + 1 ELSE 0
        /\ \A j \in 1..(n - (i + 1) + 1) : q[j] = s[i + 1 + j - 1]
    BY <2>1, SubSeqProperties
  <2> HIDE DEF q
  <2>3. \A j \in 1..(n - i) : i + 1 + j - 1 = j + i
    BY <1>1
  <2>4. Len(q) = n - i
    BY <1>1, <2>2
  <2> QED
    BY <2>1, <2>2, <2>3, <2>4
<1> DEFINE u == p \o q
<1> HIDE DEF p, q
<1>4. /\ Len(u) = Len(p) + Len(q)
      /\ \A k \in 1..(Len(p) + Len(q)) : u[k] = IF k <= Len(p) THEN p[k] ELSE q[k - Len(p)]
  BY <1>2, <1>3, ConcatProperties
<1> HIDE DEF u
<1>5. /\ Len(u) = n - 1
      /\ \A k \in 1..(n - 1) : u[k] = IF k <= i - 1 THEN p[k] ELSE q[k - (i - 1)]
  <2>1. Len(p) = i - 1 /\ Len(q) = n - i
    BY <1>2, <1>3
  <2>2. (i - 1) + (n - i) = n - 1
    BY <1>1
  <2>3. Len(p) + Len(q) = n - 1
    BY <2>1, <2>2
  <2> QED
    BY <1>4, <2>1, <2>3
<1>6. ASSUME NEW k \in 1..(i - 1)
      PROVE  u[k] = s[k]
  <2>1. k \in 1..(n - 1) /\ k <= i - 1
    BY <1>1
  <2> QED
    BY <2>1, <1>2, <1>5
<1>7. ASSUME NEW k \in i..(n - 1)
      PROVE  u[k] = s[k + 1]
  <2>1. /\ k \in 1..(n - 1) /\ ~(k <= i - 1) /\ k - (i - 1) \in 1..(n - i)
        /\ (k - (i - 1)) + i = k + 1
    BY <1>1
  <2>2. u[k] = q[k - (i - 1)]
    BY <2>1, <1>5
  <2> QED
    BY <2>1, <2>2, <1>3
<1>8. RemoveAt(s, i) = u
  BY DEF RemoveAt, u, p, q, n
<1> QED
  BY <1>5, <1>6, <1>7, <1>8 DEF n

(* QUEUE_REMOVE takes an item out of the ring it is in.  The pointers the  *)
(* item keeps lead to its old neighbours, which are one and the same node, *)
(* the head, exactly if the item was alone.                                *)
LEMMA WeaveRemove ==
  ASSUME NEW l, NEW N, NEW H, NEW r, Woven(l, N, H, r),
         NEW h \in H, NEW i \in 1..Len(r[h])
  PROVE  LET L == QUEUE_REMOVE(l, r[h][i])
             t == [r EXCEPT ![h] = RemoveAt(@, i)]
         IN  /\ Woven(L, N, H, t)
             /\ L.next[r[h][i]] = L.prev[r[h][i]] <=> t[h] = <<>>
             /\ t[h] = <<>> => L.next[r[h][i]] = h
<1> DEFINE n == Len(r[h])
           q == r[h][i]
           before == Spot(r, h, i - 1)
           behind == Spot(r, h, i + 1)
           L == QUEUE_REMOVE(l, q)
           t == [r EXCEPT ![h] = RemoveAt(@, i)]
<1>1. l \in Pointers(N) /\ Family(N, H, r) /\ Leading(l, N, H, r) /\ Spread(N, H, r)
  BY WovenLeads, FamilySpread
<1>2. /\ n \in Nat /\ h \in N /\ r[h] \in Seq(N \ H) /\ i \in 1..n
      /\ Spot(r, h, 0) = h /\ Spot(r, h, n + 1) = h
  BY <1>1 DEF Spread
<1>3. q \in N /\ q = Spot(r, h, i) /\ before \in N /\ behind \in N
  BY <1>1, <1>2 DEF Spread
<1>4. l.prev[q] = before /\ l.next[q] = behind
  <2>1. i \in 0..n /\ i - 1 \in 0..n /\ (i - 1) + 1 = i
    BY <1>2
  <2> QED
    BY <2>1, <1>1, <1>3 DEF Leading
<1>5. /\ t \in [H -> Seq(N \ H)] /\ Len(t[h]) = n - 1
      /\ \A g \in H : g # h => t[g] = r[g]
      /\ ToSet(t[h]) \subseteq ToSet(r[h]) /\ IsInjective(t[h])
      /\ \A k \in 1..(i - 1) : t[h][k] = r[h][k]
      /\ \A k \in i..(n - 1) : t[h][k] = r[h][k + 1]
  <2>1. r \in [H -> Seq(N \ H)] /\ IsInjective(r[h])
    BY <1>1 DEF Family
  <2>2. /\ RemoveAt(r[h], i) \in Seq(N \ H) /\ IsInjective(RemoveAt(r[h], i))
        /\ ToSet(RemoveAt(r[h], i)) = ToSet(r[h]) \ {r[h][i]}
    BY <2>1, <1>2, RemoveFromQueue
  <2>3. /\ Len(RemoveAt(r[h], i)) = n - 1
        /\ \A k \in 1..(i - 1) : RemoveAt(r[h], i)[k] = r[h][k]
        /\ \A k \in i..(n - 1) : RemoveAt(r[h], i)[k] = r[h][k + 1]
    BY <1>2, RemoveElements
  <2>4. t[h] = RemoveAt(r[h], i)
    BY <2>1
  <2> QED
    BY <2>1, <2>2, <2>3, <2>4
<1>6. /\ L.next = [l.next EXCEPT ![before] = behind]
      /\ L.prev = [l.prev EXCEPT ![behind] = before]
      /\ L \in Pointers(N)
  BY <1>1, <1>3, <1>4 DEF QUEUE_REMOVE, Pointers
<1> HIDE DEF L, t
<1>7. \A x \in N : /\ L.next[x] = IF x = before THEN behind ELSE l.next[x]
                   /\ L.prev[x] = IF x = behind THEN before ELSE l.prev[x]
  BY <1>1, <1>6 DEF Pointers
<1>8. Family(N, H, t)
  <2>1. \A g \in H : g # h => ToSet(t[h]) \cap ToSet(r[g]) = {}
    <3> TAKE g \in H
    <3> HAVE g # h
    <3>1. ToSet(r[h]) \cap ToSet(r[g]) = {}
      BY <1>1 DEF Family
    <3> QED
      BY <3>1, <1>5
  <2> QED
    BY <2>1, <1>1, <1>5, FamilyChanged
<1>9. Spread(N, H, t)
  BY <1>8, FamilySpread
(* The places of the one ring: n + 1 is the place 0.                       *)
<1>10. /\ \A j, k \in 0..n : Spot(r, h, j) = Spot(r, h, k) => j = k
       /\ \A j \in 1..(n + 1), k \in 1..(n + 1) : Spot(r, h, j) = Spot(r, h, k) => j = k
       /\ \A j \in Int : Spot(r, h, j) \in N
       /\ \A j \in 0..n : /\ l.next[Spot(r, h, j)] = Spot(r, h, j + 1)
                          /\ l.prev[Spot(r, h, j + 1)] = Spot(r, h, j)
  <2>1. \A j, k \in 0..n : Spot(r, h, j) = Spot(r, h, k) => j = k
    BY <1>1 DEF Spread
  <2>2. \A j \in 1..(n + 1) : j \in 1..n \/ j = n + 1
    BY <1>2
  <2>3. (\A j \in 1..n : j \in 0..n /\ j # 0) /\ 0 \in 0..n
    BY <1>2
  <2>4. \A j \in 1..n : Spot(r, h, j) # Spot(r, h, n + 1)
    BY <2>1, <2>3, <1>2
  <2>5. \A j \in 1..(n + 1), k \in 1..(n + 1) : Spot(r, h, j) = Spot(r, h, k) => j = k
    BY <2>1, <2>2, <2>3, <2>4
  <2> QED
    BY <2>1, <2>5, <1>1 DEF Spread, Leading
<1>11. ASSUME NEW g \in H, g # h
       PROVE  Linked(L, g, t[g])
  <2>1. \A k \in 0..Len(r[g]) : Spot(r, g, k) \in N /\ Spot(r, g, k) \notin {before, behind}
    <3> TAKE k \in 0..Len(r[g])
    <3>1. i - 1 \in 0..n /\ (i + 1 \in 0..n \/ (behind = Spot(r, h, 0) /\ 0 \in 0..n))
      BY <1>2
    <3> QED
      BY <3>1, <1>1, <1>11 DEF Spread
  <2>2. Untouched(l, L, r, g)
    BY <2>1, <1>7 DEF Untouched
  <2> QED
    BY <2>2, <1>1, <1>5, <1>11, StillLinked
<1>12. /\ \A j \in 0..(i - 1) : Spot(t, h, j) = Spot(r, h, j)
       /\ \A j \in i..n : Spot(t, h, j) = Spot(r, h, j + 1)
  <2>1. \A j \in 1..(i - 1) : j \in 1..Len(t[h]) /\ j \in 1..n
    BY <1>2, <1>5
  <2>2. \A j \in i..(n - 1) : j \in 1..Len(t[h]) /\ j + 1 \in 1..n
    BY <1>2, <1>5
  <2>3. Len(t[h]) + 1 = n
    BY <1>2, <1>5
  <2>4. /\ Spot(t, h, 0) = h /\ Spot(t, h, n) = h
        /\ \A j \in 1..(i - 1) : Spot(t, h, j) = r[h][j] /\ Spot(r, h, j) = r[h][j]
        /\ \A j \in i..(n - 1) : Spot(t, h, j) = r[h][j + 1] /\ Spot(r, h, j + 1) = r[h][j + 1]
    <3>1. Spot(t, h, 0) = h /\ Spot(t, h, n) = h
      BY <2>3, <1>9 DEF Spread
    <3>2. \A j \in 1..Len(t[h]) : Spot(t, h, j) = t[h][j]
      BY <1>9 DEF Spread
    <3>3. \A j \in 1..n : Spot(r, h, j) = r[h][j]
      BY <1>1 DEF Spread
    <3>4. \A j \in 1..(i - 1) : Spot(t, h, j) = r[h][j] /\ Spot(r, h, j) = r[h][j]
      BY <2>1, <3>2, <3>3, <1>5
    <3>5. \A j \in i..(n - 1) : Spot(t, h, j) = r[h][j + 1]
      BY <2>2, <3>2, <1>5
    <3>6. \A j \in i..(n - 1) : Spot(r, h, j + 1) = r[h][j + 1]
      BY <2>2, <3>3
    <3> QED
      BY <3>1, <3>4, <3>5, <3>6
  <2>5. (\A j \in 0..(i - 1) : j = 0 \/ j \in 1..(i - 1)) /\ (\A j \in i..n : j = n \/ j \in i..(n - 1))
    BY <1>2
  <2> QED
    BY <2>4, <2>5, <1>2
<1>13. ASSUME NEW k \in 0..Len(t[h])
       PROVE  /\ L.next[Spot(t, h, k)] = Spot(t, h, k + 1)
              /\ L.prev[Spot(t, h, k + 1)] = Spot(t, h, k)
  <2>1. CASE k < i - 1
    <3>1. /\ k \in 0..n /\ k + 1 \in 1..(n + 1) /\ k \in 0..(i - 1) /\ k + 1 \in 0..(i - 1)
          /\ i - 1 \in 0..n /\ i + 1 \in 1..(n + 1) /\ k # i - 1 /\ k + 1 # i + 1
      BY <2>1, <1>2, <1>5
    <3>2. Spot(r, h, k) # before /\ Spot(r, h, k + 1) # behind
      BY <3>1, <1>10
    <3>3. Spot(t, h, k) = Spot(r, h, k) /\ Spot(t, h, k + 1) = Spot(r, h, k + 1)
      BY <3>1, <1>12
    <3> QED
      BY <3>1, <3>2, <3>3, <1>7, <1>10
  <2>2. CASE k = i - 1
    <3>1. k \in 0..(i - 1) /\ k + 1 = i /\ i \in i..n
      BY <2>2, <1>2
    <3>2. Spot(t, h, k) = before /\ Spot(t, h, k + 1) = behind
      BY <3>1, <2>2, <1>12
    <3> QED
      BY <3>2, <1>3, <1>7
  <2>3. CASE k > i - 1
    <3> DEFINE j == k + 1
    <3>1. /\ j \in 0..n /\ j + 1 \in 1..(n + 1) /\ k \in i..n /\ j \in i..n
          /\ i - 1 \in 0..n /\ i + 1 \in 1..(n + 1) /\ j # i - 1 /\ j + 1 # i + 1
      <4>1. n \in Nat /\ i \in 1..n /\ k \in 0..(n - 1)
        BY <1>2, <1>5
      <4> HIDE DEF n
      <4> QED
        BY <4>1, <2>3
    <3>2. Spot(t, h, k) = Spot(r, h, j) /\ Spot(t, h, j) = Spot(r, h, j + 1)
      BY <3>1, <1>12
    <3>3. Spot(r, h, j) # before /\ Spot(r, h, j + 1) # behind
      <4> HIDE DEF j
      <4> QED
        BY <3>1, <1>10
    <3> QED
      BY <3>1, <3>2, <3>3, <1>7, <1>10
  <2> QED
    BY <2>1, <2>2, <2>3, <1>2, <1>5
<1>14. Linked(L, h, t[h])
  BY <1>13 DEF Linked, Spot
<1>15. L.next[q] = behind /\ L.prev[q] = before
  <2>1. i - 1 \in 0..n /\ i \in 0..n /\ i \in 1..(n + 1) /\ i + 1 \in 1..(n + 1)
    BY <1>2
  <2>2. q # before /\ q # behind
    BY <2>1, <1>2, <1>3, <1>10
  <2> QED
    BY <2>2, <1>3, <1>4, <1>7
<1>16. t[h] = <<>> <=> n = 1
  <2> DEFINE u == t[h]
  <2>1. u \in Seq(N \ H) /\ Len(u) = n - 1
    BY <1>5
  <2> HIDE DEF u
  <2>2. u = <<>> <=> Len(u) = 0
    BY <2>1, EmptySeq
  <2> QED
    BY <2>1, <2>2, <1>2 DEF u
<1>17. n = 1 => behind = h /\ before = h
  BY <1>2
<1>18. ASSUME behind = before PROVE n = 1
  <2>1. CASE i = n
    <3>1. before = Spot(r, h, 0) /\ i - 1 \in 0..n /\ 0 \in 0..n
      BY <2>1, <1>2, <1>18
    <3>2. i - 1 = 0
      BY <3>1, <1>10
    <3> QED
      BY <2>1, <3>2, <1>2
  <2>2. CASE i # n
    <3>1. i - 1 \in 0..n /\ i + 1 \in 0..n /\ i - 1 # i + 1
      BY <2>2, <1>2
    <3> QED
      BY <3>1, <1>10, <1>18
  <2> QED
    BY <2>1, <2>2
<1>19. Woven(L, N, H, t)
  BY <1>6, <1>8, <1>11, <1>14 DEF Woven
<1> QED
  BY <1>15, <1>16, <1>17, <1>18, <1>19 DEF L, t


(* One ring: its places, the place behind the last one being the head's,   *)
(* are different nodes, and the pointers lead from each to the next.       *)
Placed(l, N, H, r, h) ==
  LET n == Len(r[h]) IN
  /\ n \in Nat /\ h \in N /\ r[h] \in Seq(N \ H) /\ IsInjective(r[h])
  /\ Spot(r, h, 0) = h /\ Spot(r, h, n + 1) = h
  /\ \A k \in 1..n : Spot(r, h, k) = r[h][k]
  /\ \A k \in Int : Spot(r, h, k) \in N
  /\ \A j, k \in 0..n : Spot(r, h, j) = Spot(r, h, k) => j = k
  /\ \A j, k \in 1..(n + 1) : Spot(r, h, j) = Spot(r, h, k) => j = k
  /\ \A k \in 0..n : /\ l.next[Spot(r, h, k)] = Spot(r, h, k + 1)
                     /\ l.prev[Spot(r, h, k + 1)] = Spot(r, h, k)

LEMMA Places == \A l, N, H, r : \A h \in H : Woven(l, N, H, r) => Placed(l, N, H, r, h)
<1> SUFFICES ASSUME NEW l, NEW N, NEW H, NEW r, NEW h \in H, Woven(l, N, H, r)
             PROVE  Placed(l, N, H, r, h)
  OBVIOUS
<1> DEFINE n == Len(r[h])
<1>1. Family(N, H, r) /\ Leading(l, N, H, r) /\ Spread(N, H, r)
  BY WovenLeads, FamilySpread
<1>2. /\ n \in Nat /\ h \in N /\ r[h] \in Seq(N \ H) /\ IsInjective(r[h])
      /\ Spot(r, h, 0) = h /\ Spot(r, h, n + 1) = h
      /\ \A k \in 1..n : Spot(r, h, k) = r[h][k]
      /\ \A k \in Int : Spot(r, h, k) \in N
      /\ \A j, k \in 0..n : Spot(r, h, j) = Spot(r, h, k) => j = k
  BY <1>1 DEF Spread, Family
<1>3. \A k \in 0..n : /\ l.next[Spot(r, h, k)] = Spot(r, h, k + 1)
                      /\ l.prev[Spot(r, h, k + 1)] = Spot(r, h, k)
  BY <1>1 DEF Leading
<1> HIDE DEF n
<1>4. \A j, k \in 1..(n + 1) : Spot(r, h, j) = Spot(r, h, k) => j = k
  <2>1. \A j \in 1..(n + 1) : j \in 1..n \/ j = n + 1
    BY <1>2
  <2>2. (\A j \in 1..n : j \in 0..n /\ j # 0) /\ 0 \in 0..n
    BY <1>2
  <2>3. \A j \in 1..n : Spot(r, h, j) # Spot(r, h, n + 1)
    BY <2>2, <1>2
  <2> QED
    BY <2>1, <2>2, <2>3, <1>2
<1> QED
  BY <1>2, <1>3, <1>4 DEF n, Placed

(* Two rings have no node in common.                                       *)
LEMMA PlacesApart ==
  ASSUME NEW l, NEW N, NEW H, NEW r, Woven(l, N, H, r), NEW h \in H, NEW g \in H, g # h
  PROVE  /\ \A j \in 0..(Len(r[h]) + 1), k \in 0..(Len(r[g]) + 1) :
              Spot(r, h, j) # Spot(r, g, k)
         /\ ToSet(r[h]) \cap ToSet(r[g]) = {}
<1> DEFINE n == Len(r[h])
           m == Len(r[g])
<1>1. Spread(N, H, r) /\ Family(N, H, r)
  BY WovenLeads, FamilySpread
<1>2. /\ n \in Nat /\ Spot(r, h, n + 1) = Spot(r, h, 0)
      /\ m \in Nat /\ Spot(r, g, m + 1) = Spot(r, g, 0)
      /\ \A j \in 0..n, k \in 0..m : Spot(r, h, j) # Spot(r, g, k)
      /\ ToSet(r[h]) \cap ToSet(r[g]) = {}
  BY <1>1 DEF Spread, Family
<1> HIDE DEF n, m
<1>3. /\ \A j \in 0..(n + 1) : j \in 0..n \/ j = n + 1
      /\ \A k \in 0..(m + 1) : k \in 0..m \/ k = m + 1
      /\ 0 \in 0..n /\ 0 \in 0..m
  BY <1>2
<1>4. \A j \in 0..(n + 1), k \in 0..(m + 1) : Spot(r, h, j) # Spot(r, g, k)
  BY <1>2, <1>3
<1> QED
  BY <1>2, <1>4 DEF n, m

LEMMA FamilyEmptied ==
  ASSUME NEW N, NEW H, NEW r, Family(N, H, r), NEW h \in H
  PROVE  Family(N, H, [r EXCEPT ![h] = <<>>])
<1> DEFINE t == [r EXCEPT ![h] = <<>>]
<1>1. r \in [H -> Seq(N \ H)] /\ <<>> \in Seq(N \ H)
  BY EmptyQueue DEF Family
<1>2. t \in [H -> Seq(N \ H)] /\ t[h] = <<>> /\ \A g \in H : g # h => t[g] = r[g]
  BY <1>1
<1> HIDE DEF t
<1>3. IsInjective(t[h]) /\ ToSet(t[h]) = {}
  BY <1>2, EmptyQueue
<1>4. \A g \in H : g # h => ToSet(t[h]) \cap ToSet(r[g]) = {}
  BY <1>3
<1>5. Family(N, H, t)
  BY <1>2, <1>3, <1>4, FamilyChanged
<1> QED
  BY <1>5 DEF t

(* A ring of nothing: the head leads to itself.                            *)
LEMMA EmptyLinked == \A l, h, s : s = <<>> /\ l.next[h] = h /\ l.prev[h] = h => Linked(l, h, s)
<1> SUFFICES ASSUME NEW l, NEW h, l.next[h] = h, l.prev[h] = h, NEW k \in 0..Len(<<>>)
             PROVE  /\ l.next[NodeAt(h, <<>>, k)] = NodeAt(h, <<>>, k + 1)
                    /\ l.prev[NodeAt(h, <<>>, k + 1)] = NodeAt(h, <<>>, k)
  BY DEF Linked
<1>1. Len(<<>>) = 0
  OBVIOUS
<1>2. NodeAt(h, <<>>, k) = h /\ NodeAt(h, <<>>, k + 1) = h
  BY <1>1 DEF NodeAt
<1> QED
  BY <1>2

(* QUEUE_INIT of a head leaves it an empty ring.                           *)
LEMMA WeaveClear ==
  ASSUME NEW l, NEW N, NEW H, NEW r, Woven(l, N, H, r), NEW h \in H
  PROVE  Woven(QUEUE_INIT(l, h), N, H, [r EXCEPT ![h] = <<>>])
<1> DEFINE L == QUEUE_INIT(l, h)
           t == [r EXCEPT ![h] = <<>>]
<1>1. /\ l \in Pointers(N) /\ Family(N, H, r) /\ Leading(l, N, H, r) /\ Spread(N, H, r)
      /\ h \in N
  BY WovenLeads, FamilySpread, Places DEF Placed
<1>2. r \in [H -> Seq(N \ H)] /\ Family(N, H, t)
  <2>1. Family(N, H, t)
    BY <1>1, FamilyEmptied
  <2>2. r \in [H -> Seq(N \ H)]
    BY <1>1 DEF Family
  <2> QED
    BY <2>1, <2>2
<1>3. t[h] = <<>> /\ \A g \in H : g # h => t[g] = r[g]
  BY <1>2
<1>4. /\ L.next = [l.next EXCEPT ![h] = h] /\ L.prev = [l.prev EXCEPT ![h] = h]
      /\ L \in Pointers(N)
  BY <1>1 DEF QUEUE_INIT, Pointers
<1> HIDE DEF L, t
<1>5. \A x \in N : /\ L.next[x] = IF x = h THEN h ELSE l.next[x]
                   /\ L.prev[x] = IF x = h THEN h ELSE l.prev[x]
  BY <1>1, <1>4 DEF Pointers
<1>6. ASSUME NEW g \in H, g # h
      PROVE  Linked(L, g, t[g])
  <2>1. \A k \in 0..Len(r[g]) : Spot(r, g, k) \in N /\ Spot(r, g, k) # h
    <3>1. \A k \in 0..Len(r[g]) : k \in 0..(Len(r[g]) + 1)
      <4>1. Len(r[g]) \in Nat
        BY <1>6, Places DEF Placed
      <4> QED
        BY <4>1
    <3>2. Spot(r, h, 0) = h /\ 0 \in 0..(Len(r[h]) + 1)
      <4>1. Placed(l, N, H, r, h)
        BY Places
      <4> QED
        BY <4>1 DEF Placed
    <3> QED
      BY <3>1, <3>2, <1>1, <1>6, PlacesApart DEF Spread
  <2>2. Untouched(l, L, r, g)
    BY <2>1, <1>5 DEF Untouched
  <2> QED
    BY <2>2, <1>1, <1>3, <1>6, StillLinked
<1>7. Linked(L, h, t[h])
  BY <1>1, <1>3, <1>5, EmptyLinked
<1> QED
  BY <1>2, <1>4, <1>6, <1>7 DEF Woven, L, t

LEMMA ConcatElements ==
  ASSUME NEW S, NEW s \in Seq(S), NEW u \in Seq(S)
  PROVE  /\ Len(s \o u) = Len(s) + Len(u)
         /\ \A k \in 1..Len(s) : (s \o u)[k] = s[k]
         /\ \A k \in 1..Len(u) : (s \o u)[Len(s) + k] = u[k]
<1> DEFINE a == Len(s)
           b == Len(u)
           w == s \o u
<1>1. /\ Len(w) = a + b /\ a \in Nat /\ b \in Nat
      /\ \A k \in 1..(a + b) : w[k] = IF k <= a THEN s[k] ELSE u[k - a]
  BY ConcatProperties, InSeq
<1> HIDE DEF a, b, w
<1>2. ASSUME NEW k \in 1..a
      PROVE  w[k] = s[k]
  <2>1. k \in 1..(a + b) /\ k <= a
    BY <1>1
  <2> QED
    BY <2>1, <1>1
<1>3. ASSUME NEW k \in 1..b
      PROVE  w[a + k] = u[k]
  <2>1. a + k \in 1..(a + b) /\ ~(a + k <= a) /\ (a + k) - a = k
    BY <1>1
  <2>2. w[a + k] = u[(a + k) - a]
    BY <2>1, <1>1
  <2> QED
    BY <2>1, <2>2
<1> QED
  BY <1>1, <1>2, <1>3 DEF a, b, w

(* QUEUE_ADD and QUEUE_INIT put the items of one ring behind those of      *)
(* another, in their order.                                                *)
LEMMA WeaveJoin ==
  ASSUME NEW l, NEW N, NEW H, NEW r, Woven(l, N, H, r),
         NEW h \in H, NEW n \in H, h # n, r[n] # <<>>
  PROVE  Woven(QUEUE_INIT(QUEUE_ADD(l, h, n), n), N, H,
               [r EXCEPT ![h] = @ \o r[n], ![n] = <<>>])
<1> DEFINE a == Len(r[h])
           b == Len(r[n])
           end == Spot(r, h, a)
           first == Spot(r, n, 1)
           last == Spot(r, n, b)
           L == QUEUE_INIT(QUEUE_ADD(l, h, n), n)
           t == [r EXCEPT ![h] = @ \o r[n], ![n] = <<>>]
<1> HIDE DEF a, b, end, first, last, L, t
<1>1. l \in Pointers(N) /\ Family(N, H, r) /\ Leading(l, N, H, r) /\ Spread(N, H, r)
  BY WovenLeads, FamilySpread
<1>2. /\ a \in Nat /\ h \in N /\ r[h] \in Seq(N \ H) /\ IsInjective(r[h])
      /\ Spot(r, h, 0) = h /\ Spot(r, h, a + 1) = h
      /\ \A k \in 1..a : Spot(r, h, k) = r[h][k]
      /\ \A k \in Int : Spot(r, h, k) \in N
      /\ \A j, k \in 0..a : Spot(r, h, j) = Spot(r, h, k) => j = k
      /\ \A j, k \in 1..(a + 1) : Spot(r, h, j) = Spot(r, h, k) => j = k
      /\ \A k \in 0..a : /\ l.next[Spot(r, h, k)] = Spot(r, h, k + 1)
                         /\ l.prev[Spot(r, h, k + 1)] = Spot(r, h, k)
  <2>1. Placed(l, N, H, r, h)
    BY Places
  <2> QED
    BY <2>1 DEF a, Placed
<1>3. /\ b \in Nat /\ n \in N /\ r[n] \in Seq(N \ H) /\ IsInjective(r[n])
      /\ Spot(r, n, 0) = n /\ Spot(r, n, b + 1) = n
      /\ \A k \in 1..b : Spot(r, n, k) = r[n][k]
      /\ \A k \in Int : Spot(r, n, k) \in N
      /\ \A j, k \in 0..b : Spot(r, n, j) = Spot(r, n, k) => j = k
      /\ \A j, k \in 1..(b + 1) : Spot(r, n, j) = Spot(r, n, k) => j = k
      /\ \A k \in 0..b : /\ l.next[Spot(r, n, k)] = Spot(r, n, k + 1)
                         /\ l.prev[Spot(r, n, k + 1)] = Spot(r, n, k)
  <2>1. Placed(l, N, H, r, n)
    BY Places
  <2> QED
    BY <2>1 DEF b, Placed
<1>4. /\ \A j \in 0..(a + 1), k \in 0..(b + 1) : Spot(r, h, j) # Spot(r, n, k)
      /\ ToSet(r[h]) \cap ToSet(r[n]) = {}
  BY PlacesApart DEF a, b
<1>5. b # 0
  <2> DEFINE u == r[n]
  <2>1. u \in Seq(N \ H) /\ u # <<>>
    BY <1>3
  <2> HIDE DEF u
  <2>2. Len(u) # 0
    BY <2>1, EmptySeq
  <2> QED
    BY <2>2 DEF u, b
<1>6. /\ t \in [H -> Seq(N \ H)] /\ t[h] = r[h] \o r[n] /\ t[n] = <<>>
      /\ \A g \in H : g # h /\ g # n => t[g] = r[g]
      /\ Family(N, H, t)
      /\ Len(t[h]) = a + b
      /\ \A k \in 1..a : t[h][k] = r[h][k]
      /\ \A k \in 1..b : t[h][a + k] = r[n][k]
  <2> DEFINE u == r[h] \o r[n]
             r1 == [r EXCEPT ![n] = <<>>]
  <2>1. r \in [H -> Seq(N \ H)] /\ Family(N, H, r1) /\ <<>> \in Seq(N \ H)
    BY <1>1, FamilyEmptied, EmptyQueue DEF Family
  <2>2. /\ u \in Seq(N \ H) /\ IsInjective(u) /\ ToSet(u) = ToSet(r[h]) \cup ToSet(r[n])
    BY <1>2, <1>3, <1>4, ConcatQueue
  <2>3. /\ Len(u) = a + b
        /\ \A k \in 1..a : u[k] = r[h][k]
        /\ \A k \in 1..b : u[a + k] = r[n][k]
    <3> DEFINE s == r[h]
               w == r[n]
    <3>1. s \in Seq(N \ H) /\ w \in Seq(N \ H)
      BY <1>2, <1>3
    <3> HIDE DEF s, w
    <3>2. /\ Len(s \o w) = Len(s) + Len(w)
          /\ \A k \in 1..Len(s) : (s \o w)[k] = s[k]
          /\ \A k \in 1..Len(w) : (s \o w)[Len(s) + k] = w[k]
      BY <3>1, ConcatElements
    <3> QED
      BY <3>2 DEF s, w, a, b
  <2>4. /\ t \in [H -> Seq(N \ H)] /\ t[h] = u /\ t[n] = <<>>
        /\ \A g \in H : g # h /\ g # n => t[g] = r[g]
        /\ r1[n] = <<>> /\ \A g \in H : g # n => r1[g] = r[g]
    BY <2>1, <2>2 DEF t
  <2> HIDE DEF u, r1
  <2>5. \A g \in H : g # h => ToSet(t[h]) \cap ToSet(r1[g]) = {}
    <3> TAKE g \in H
    <3> HAVE g # h
    <3>1. CASE g = n
      BY <3>1, <2>4, EmptyQueue
    <3>2. CASE g # n
      <4>1. ToSet(r[h]) \cap ToSet(r[g]) = {} /\ ToSet(r[n]) \cap ToSet(r[g]) = {}
        BY <3>2, <1>1 DEF Family
      <4> QED
        BY <4>1, <3>2, <2>2, <2>4
    <3> QED
      BY <3>1, <3>2
  <2>6. Family(N, H, t)
    <3>1. \A g \in H : g # h => t[g] = r1[g]
      BY <2>4
    <3> QED
      BY <3>1, <2>1, <2>2, <2>4, <2>5, FamilyChanged
  <2> QED
    BY <2>3, <2>4, <2>6 DEF u
<1>7. /\ end \in N /\ first \in N /\ last \in N
      /\ l.prev[h] = end /\ l.next[n] = first /\ l.prev[n] = last
      /\ end # n /\ end # first /\ end # last /\ first # n /\ last # n /\ h # n
      /\ h # first /\ h # last
  <2>1. a \in 0..a /\ a \in 0..(a + 1) /\ 0 \in 0..(a + 1) /\ 0 \in 0..b
        /\ 0 \in 0..(b + 1) /\ 1 \in 0..(b + 1) /\ b \in 0..(b + 1) /\ b \in 0..b /\ 1 \in 0..b
        /\ a \in Int /\ b \in Int /\ 1 \in Int
    BY <1>2, <1>3, <1>5
  <2>2. /\ end \in N /\ first \in N /\ last \in N
        /\ l.prev[h] = end /\ l.next[n] = first /\ l.prev[n] = last
    BY <2>1, <1>2, <1>3 DEF end, first, last
  <2>3. first # n /\ last # n
    BY <2>1, <1>3, <1>5 DEF first, last
  <2>4. end # n /\ end # first /\ end # last /\ h # first /\ h # last
    BY <2>1, <1>2, <1>3, <1>4 DEF end, first, last
  <2> QED
    BY <2>2, <2>3, <2>4
<1>8. /\ L.next = [[[l.next EXCEPT ![end] = first] EXCEPT ![last] = h] EXCEPT ![n] = n]
      /\ L.prev = [[[l.prev EXCEPT ![first] = end] EXCEPT ![h] = last] EXCEPT ![n] = n]
      /\ L \in Pointers(N)
  <2> DEFINE l1 == [l EXCEPT !.next[l.prev[h]] = l.next[n]]
             l2 == [l1 EXCEPT !.prev[l1.next[n]] = l1.prev[h]]
             l3 == [l2 EXCEPT !.prev[h] = l2.prev[n]]
             l4 == [l3 EXCEPT !.next[l3.prev[h]] = h]
  <2>1. /\ l1 \in Pointers(N) /\ l1.prev = l.prev
        /\ l1.next = [l.next EXCEPT ![end] = first] /\ l1.next[n] = first
    BY <1>1, <1>2, <1>3, <1>7 DEF Pointers
  <2> HIDE DEF l1
  <2>2. /\ l2 \in Pointers(N) /\ l2.next = l1.next
        /\ l2.prev = [l.prev EXCEPT ![first] = end] /\ l2.prev[n] = last
    BY <2>1, <1>1, <1>2, <1>3, <1>7 DEF Pointers
  <2> HIDE DEF l2
  <2>3. /\ l3 \in Pointers(N) /\ l3.next = l2.next
        /\ l3.prev = [l2.prev EXCEPT ![h] = last] /\ l3.prev[h] = last
    BY <2>2, <1>1, <1>2, <1>3, <1>7 DEF Pointers
  <2> HIDE DEF l3
  <2>4. /\ l4 \in Pointers(N) /\ l4.prev = l3.prev
        /\ l4.next = [l3.next EXCEPT ![last] = h]
    BY <2>3, <1>1, <1>2, <1>3, <1>7 DEF Pointers
  <2>5. L = QUEUE_INIT(l4, n)
    BY DEF QUEUE_ADD, l1, l2, l3, L
  <2> HIDE DEF l4
  <2>6. /\ L.next = [l4.next EXCEPT ![n] = n] /\ L.prev = [l4.prev EXCEPT ![n] = n]
        /\ L \in Pointers(N)
    BY <2>4, <2>5, <1>3 DEF QUEUE_INIT, Pointers
  <2> QED
    BY <2>1, <2>2, <2>3, <2>4, <2>6
<1>9. \A x \in N :
        /\ L.next[x] = IF x = n THEN n ELSE IF x = last THEN h ELSE IF x = end THEN first
                       ELSE l.next[x]
        /\ L.prev[x] = IF x = n THEN n ELSE IF x = h THEN last ELSE IF x = first THEN end
                       ELSE l.prev[x]
  BY <1>1, <1>8 DEF Pointers
<1>10. ASSUME NEW g \in H, g # h, g # n
       PROVE  Linked(L, g, t[g])
  <2>1. \A k \in 0..Len(r[g]) : Spot(r, g, k) \in N /\ Spot(r, g, k) \notin {h, n, end, first, last}
    <3>1. \A k \in 0..Len(r[g]) : k \in 0..(Len(r[g]) + 1)
      <4>1. Placed(l, N, H, r, g)
        BY <1>10, Places
      <4>2. Len(r[g]) \in Nat
        BY <4>1 DEF Placed
      <4> QED
        BY <4>2
    <3>2. /\ 0 \in 0..(a + 1) /\ a \in 0..(a + 1)
          /\ 0 \in 0..(b + 1) /\ 1 \in 0..(b + 1) /\ b \in 0..(b + 1)
      BY <1>2, <1>3
    <3>3. \A k \in 0..Len(r[g]) : Spot(r, g, k) # h /\ Spot(r, g, k) # end
      BY <3>1, <3>2, <1>2, <1>10, PlacesApart DEF end, a
    <3>4. \A k \in 0..Len(r[g]) : Spot(r, g, k) # n /\ Spot(r, g, k) # first /\ Spot(r, g, k) # last
      BY <3>1, <3>2, <1>3, <1>10, PlacesApart DEF first, last, b
    <3>5. \A k \in 0..Len(r[g]) : Spot(r, g, k) \in N
      BY <1>1, <1>10, SpotsAreNodes
    <3> QED
      BY <3>3, <3>4, <3>5
  <2>2. Untouched(l, L, r, g)
    BY <2>1, <1>9 DEF Untouched
  <2> QED
    <3>1. t[g] = r[g]
      BY <1>6, <1>10
    <3>2. Linked(L, g, r[g])
      BY <2>2, <1>1, <1>10, StillLinked
    <3> QED
      BY <3>1, <3>2
<1>11. Linked(L, n, t[n])
  BY <1>3, <1>6, <1>9, EmptyLinked
<1>12. /\ \A k \in 0..a : Spot(t, h, k) = Spot(r, h, k)
       /\ \A k \in 1..b : Spot(t, h, a + k) = Spot(r, n, k)
       /\ Spot(t, h, a + b + 1) = h
  <2>1. Spread(N, H, t)
    BY <1>6, FamilySpread
  <2>2. Spot(t, h, 0) = h /\ Spot(t, h, a + b + 1) = h
    BY <2>1, <1>6 DEF Spread
  <2>3. \A k \in 1..Len(t[h]) : Spot(t, h, k) = t[h][k]
    BY <2>1 DEF Spread
  <2>4. /\ \A k \in 1..a : k \in 1..Len(t[h])
        /\ \A k \in 1..b : a + k \in 1..Len(t[h])
        /\ \A k \in 0..a : k = 0 \/ k \in 1..a
    <3>1. a \in Nat /\ b \in Nat /\ Len(t[h]) = a + b
      BY <1>2, <1>3, <1>6
    <3> HIDE DEF a, b
    <3>2. /\ \A k \in 1..a : k \in 1..(a + b)
          /\ \A k \in 1..b : a + k \in 1..(a + b)
          /\ \A k \in 0..a : k = 0 \/ k \in 1..a
      BY <3>1
    <3> QED
      BY <3>1, <3>2
  <2>5. ASSUME NEW k \in 1..a
        PROVE  Spot(t, h, k) = Spot(r, h, k)
    <3>1. Spot(t, h, k) = t[h][k]
      BY <2>3, <2>4
    <3> QED
      BY <3>1, <1>2, <1>6
  <2>6. ASSUME NEW k \in 1..b
        PROVE  Spot(t, h, a + k) = Spot(r, n, k)
    <3>1. Spot(t, h, a + k) = t[h][a + k]
      BY <2>3, <2>4
    <3> QED
      BY <3>1, <1>3, <1>6
  <2> QED
    BY <2>2, <2>4, <2>5, <2>6, <1>2
<1>13. ASSUME NEW k \in 0..(a + b)
       PROVE  /\ L.next[Spot(t, h, k)] = Spot(t, h, k + 1)
              /\ L.prev[Spot(t, h, k + 1)] = Spot(t, h, k)
  <2>1. CASE k < a
    <3>1. /\ k \in 0..a /\ k + 1 \in 0..a /\ k # a /\ k + 1 # 0 /\ 0 \in 0..a /\ a \in 0..a
          /\ k \in 0..(a + 1) /\ k + 1 \in 0..(a + 1)
          /\ 0 \in 0..(b + 1) /\ 1 \in 0..(b + 1) /\ b \in 0..(b + 1) /\ k \in Int /\ k + 1 \in Int
      BY <2>1, <1>2, <1>3
    <3>2. Spot(r, h, k) # end /\ Spot(r, h, k + 1) # h
      BY <3>1, <1>2 DEF end
    <3>3. /\ Spot(r, h, k) # n /\ Spot(r, h, k) # last
          /\ Spot(r, h, k + 1) # n /\ Spot(r, h, k + 1) # first
      BY <3>1, <1>3, <1>4 DEF last, first
    <3>4. Spot(t, h, k) = Spot(r, h, k) /\ Spot(t, h, k + 1) = Spot(r, h, k + 1)
      BY <3>1, <1>12
    <3>5. /\ Spot(r, h, k) \in N /\ Spot(r, h, k + 1) \in N
          /\ l.next[Spot(r, h, k)] = Spot(r, h, k + 1) /\ l.prev[Spot(r, h, k + 1)] = Spot(r, h, k)
      BY <3>1, <1>2
    <3> QED
      BY <3>2, <3>3, <3>4, <3>5, <1>9
  <2>2. CASE k = a
    <3>1. a \in 0..a /\ 1 \in 1..b /\ k + 1 = a + 1
      BY <2>2, <1>2, <1>3, <1>5
    <3>2. Spot(t, h, k) = end /\ Spot(t, h, k + 1) = first
      BY <3>1, <2>2, <1>12 DEF end, first
    <3> QED
      BY <3>2, <1>7, <1>9
  <2>3. CASE k > a /\ k < a + b
    <3> DEFINE j == k - a
    <3>1. /\ j \in 1..b /\ j + 1 \in 1..b /\ k = a + j /\ k + 1 = a + (j + 1)
          /\ j \in 0..b /\ j + 1 \in 0..b /\ j # b /\ j + 1 # 1 /\ j # 0 /\ j + 1 # 0
          /\ 0 \in 0..b /\ b \in 0..b /\ 1 \in 0..b
          /\ j \in 0..(b + 1) /\ j + 1 \in 0..(b + 1) /\ 0 \in 0..(a + 1) /\ a \in 0..(a + 1)
      BY <2>3, <1>2, <1>3, <1>5
    <3> HIDE DEF j
    <3>2. Spot(r, n, j) # last /\ Spot(r, n, j) # n
      BY <3>1, <1>3 DEF last
    <3>3. Spot(r, n, j + 1) # first /\ Spot(r, n, j + 1) # n
      BY <3>1, <1>3 DEF first
    <3>4. Spot(r, n, j) # end /\ Spot(r, n, j + 1) # h
      BY <3>1, <1>2, <1>4 DEF end
    <3>5. Spot(t, h, k) = Spot(r, n, j) /\ Spot(t, h, k + 1) = Spot(r, n, j + 1)
      BY <3>1, <1>12
    <3>6. Spot(r, n, j) \in N /\ Spot(r, n, j + 1) \in N
      BY <3>1, <1>3
    <3>7. l.next[Spot(r, n, j)] = Spot(r, n, j + 1) /\ l.prev[Spot(r, n, j + 1)] = Spot(r, n, j)
      BY <3>1, <1>3
    <3> QED
      BY <3>2, <3>3, <3>4, <3>5, <3>6, <3>7, <1>9
  <2>4. CASE k = a + b
    <3>1. b \in 1..b
      BY <1>3, <1>5
    <3>2. Spot(t, h, k) = last /\ Spot(t, h, k + 1) = h
      BY <3>1, <2>4, <1>12 DEF last
    <3> QED
      BY <3>2, <1>2, <1>7, <1>9
  <2> QED
    BY <2>1, <2>2, <2>3, <2>4, <1>2, <1>3
<1>14. Linked(L, h, t[h])
  BY <1>6, <1>13 DEF Linked, Spot
<1> QED
  BY <1>6, <1>8, <1>10, <1>11, <1>14 DEF Woven, L, t


(* A sequence cut in two.                                                  *)
Halved(S, s, i) ==
  LET p == SubSeq(s, 1, i - 1)
      q == SubSeq(s, i, Len(s))
  IN  /\ p \in Seq(S) /\ IsInjective(p) /\ Len(p) = i - 1
      /\ q \in Seq(S) /\ IsInjective(q) /\ Len(q) = Len(s) - (i - 1)
      /\ \A k \in 1..(i - 1) : p[k] = s[k]
      /\ \A k \in 1..(Len(s) - (i - 1)) : q[k] = s[i - 1 + k]
      /\ ToSet(p) \cap ToSet(q) = {}
      /\ ToSet(p) \subseteq ToSet(s) /\ ToSet(q) \subseteq ToSet(s)

LEMMA CutQueue ==
  ASSUME NEW S, NEW s \in Seq(S), NEW i \in 1..Len(s), IsInjective(s)
  PROVE  Halved(S, s, i)
<1> DEFINE n == Len(s)
           p == SubSeq(s, 1, i - 1)
           q == SubSeq(s, i, n)
           m == n - (i - 1)
<1>1. n \in Nat /\ i \in 1..n /\ \A j \in 1..n : s[j] \in S
  BY InSeq
<1> HIDE DEF n
<1>2. /\ p \in Seq(S) /\ Len(p) = i - 1
      /\ \A j \in 1..(i - 1) : p[j] = s[j]
  <2>1. /\ \A j \in 1..(i - 1) : s[j] \in S
        /\ 1 \in Int /\ i - 1 \in Int /\ i - 1 - 1 + 1 = i - 1
    BY <1>1
  <2>2. /\ p \in Seq(S)
        /\ Len(p) = IF 1 <= i - 1 THEN i - 1 - 1 + 1 ELSE 0
        /\ \A j \in 1..(i - 1 - 1 + 1) : p[j] = s[1 + j - 1]
    BY <2>1, SubSeqProperties
  <2> HIDE DEF p
  <2>3. \A j \in 1..(i - 1) : 1 + j - 1 = j
    OBVIOUS
  <2>4. Len(p) = i - 1
    BY <1>1, <2>2
  <2> QED
    BY <2>1, <2>2, <2>3, <2>4
<1>3. /\ q \in Seq(S) /\ Len(q) = m
      /\ \A j \in 1..m : q[j] = s[i - 1 + j]
  <2>1. /\ \A j \in i..n : s[j] \in S
        /\ i \in Int /\ n \in Int /\ n - i + 1 = m
    BY <1>1
  <2>2. /\ q \in Seq(S)
        /\ Len(q) = IF i <= n THEN n - i + 1 ELSE 0
        /\ \A j \in 1..(n - i + 1) : q[j] = s[i + j - 1]
    BY <2>1, SubSeqProperties
  <2> HIDE DEF q
  <2>3. \A j \in 1..m : i + j - 1 = i - 1 + j
    BY <1>1
  <2>4. Len(q) = m
    BY <1>1, <2>2
  <2> HIDE DEF m
  <2> QED
    BY <2>1, <2>2, <2>3, <2>4
<1> HIDE DEF p, q
<1>4. /\ m \in Nat /\ (i - 1) + m = n
      /\ \A k \in 1..n : k \in 1..(i - 1) \/ (k - (i - 1) \in 1..m /\ k = i - 1 + (k - (i - 1)))
  BY <1>1
<1> HIDE DEF m
<1>5. p \o q = s
  <2>1. /\ p \o q \in Seq(S) /\ Len(p \o q) = n
        /\ \A k \in 1..(i - 1) : (p \o q)[k] = p[k]
        /\ \A k \in 1..m : (p \o q)[(i - 1) + k] = q[k]
    <3>1. p \in Seq(S) /\ q \in Seq(S)
      BY <1>2, <1>3
    <3>2. p \o q \in Seq(S)
      BY <3>1, ConcatQueue
    <3>3. /\ Len(p \o q) = Len(p) + Len(q)
          /\ \A k \in 1..Len(p) : (p \o q)[k] = p[k]
          /\ \A k \in 1..Len(q) : (p \o q)[Len(p) + k] = q[k]
      BY <3>1, ConcatElements
    <3>4. Len(p) = i - 1 /\ Len(q) = m
      BY <1>2, <1>3
    <3> QED
      BY <3>2, <3>3, <3>4, <1>4
  <2>2. ASSUME NEW k \in 1..n
        PROVE  (p \o q)[k] = s[k]
    <3>1. CASE k \in 1..(i - 1)
      BY <3>1, <2>1, <1>2
    <3>2. CASE k - (i - 1) \in 1..m /\ k = i - 1 + (k - (i - 1))
      BY <3>2, <2>1, <1>3
    <3> QED
      BY <3>1, <3>2, <1>4
  <2> QED
    BY <2>1, <2>2, SeqEqual DEF n
<1>6. /\ IsInjective(p) /\ IsInjective(q) /\ ToSet(p) \cap ToSet(q) = {}
      /\ ToSet(p) \subseteq ToSet(s) /\ ToSet(q) \subseteq ToSet(s)
  <2>1. p \in Seq(S) /\ q \in Seq(S) /\ IsInjective(p \o q)
    BY <1>2, <1>3, <1>5
  <2>2. /\ ToSet(p \o q) = ToSet(p) \cup ToSet(q)
        /\ IsInjective(p) /\ IsInjective(q) /\ ToSet(p) \cap ToSet(q) = {}
    BY <2>1, ConcatQueue
  <2> QED
    BY <2>2, <1>5
<1> QED
  BY <1>2, <1>3, <1>6 DEF n, m, p, q, Halved

(* QUEUE_SPLIT cuts a ring in two before one of its items.                 *)
LEMMA WeaveSplit ==
  ASSUME NEW l, NEW N, NEW H, NEW r, Woven(l, N, H, r),
         NEW h \in H, NEW n \in H, h # n, r[n] = <<>>, NEW i \in 1..Len(r[h])
  PROVE  Woven(QUEUE_SPLIT(l, h, r[h][i], n), N, H,
               [r EXCEPT ![h] = SubSeq(@, 1, i - 1), ![n] = SubSeq(r[h], i, Len(r[h]))])
<1> DEFINE a == Len(r[h])
           q == r[h][i]
           before == Spot(r, h, i - 1)
           end == Spot(r, h, a)
           m == a - (i - 1)
           L == QUEUE_SPLIT(l, h, q, n)
           t == [r EXCEPT ![h] = SubSeq(@, 1, i - 1), ![n] = SubSeq(r[h], i, Len(r[h]))]
<1> HIDE DEF a, q, before, end, m, L, t
<1>1. l \in Pointers(N) /\ Family(N, H, r) /\ Leading(l, N, H, r) /\ Spread(N, H, r)
  BY WovenLeads, FamilySpread
<1>2. /\ a \in Nat /\ h \in N /\ r[h] \in Seq(N \ H) /\ IsInjective(r[h]) /\ i \in 1..a
      /\ Spot(r, h, 0) = h /\ Spot(r, h, a + 1) = h
      /\ \A k \in 1..a : Spot(r, h, k) = r[h][k]
      /\ \A k \in Int : Spot(r, h, k) \in N
      /\ \A j, k \in 0..a : Spot(r, h, j) = Spot(r, h, k) => j = k
      /\ \A j, k \in 1..(a + 1) : Spot(r, h, j) = Spot(r, h, k) => j = k
      /\ \A k \in 0..a : /\ l.next[Spot(r, h, k)] = Spot(r, h, k + 1)
                         /\ l.prev[Spot(r, h, k + 1)] = Spot(r, h, k)
  <2>1. Placed(l, N, H, r, h)
    BY Places
  <2> QED
    BY <2>1 DEF a, Placed
<1>3. n \in N /\ Spot(r, n, 0) = n
  <2>1. Placed(l, N, H, r, n)
    BY Places
  <2> QED
    BY <2>1 DEF Placed
<1>4. \A j \in 0..a : Spot(r, h, j) # n
  <2>1. \A j \in 0..(a + 1), k \in 0..(Len(r[n]) + 1) : Spot(r, h, j) # Spot(r, n, k)
    BY PlacesApart DEF a
  <2>2. (\A j \in 0..a : j \in 0..(a + 1)) /\ 0 \in 0..(Len(r[n]) + 1)
    <3>1. Len(r[n]) = 0
      OBVIOUS
    <3> QED
      BY <3>1, <1>2
  <2> QED
    BY <2>1, <2>2, <1>3
<1>5. m \in Nat /\ m # 0 /\ (i - 1) + m = a /\ i - 1 \in Nat
  BY <1>2 DEF m
<1>6. /\ t \in [H -> Seq(N \ H)] /\ Family(N, H, t)
      /\ \A g \in H : g # h /\ g # n => t[g] = r[g]
      /\ Len(t[h]) = i - 1 /\ \A k \in 1..(i - 1) : t[h][k] = r[h][k]
      /\ Len(t[n]) = m /\ \A k \in 1..m : t[n][k] = r[h][i - 1 + k]
  <2> DEFINE s == r[h]
             u == SubSeq(s, 1, i - 1)
             v == SubSeq(s, i, a)
             r1 == [r EXCEPT ![h] = u]
  <2>1. r \in [H -> Seq(N \ H)]
    BY <1>1 DEF Family
  <2>2. /\ u \in Seq(N \ H) /\ IsInjective(u) /\ Len(u) = i - 1
        /\ v \in Seq(N \ H) /\ IsInjective(v) /\ Len(v) = m
        /\ \A k \in 1..(i - 1) : u[k] = s[k]
        /\ \A k \in 1..m : v[k] = s[i - 1 + k]
        /\ ToSet(u) \cap ToSet(v) = {}
        /\ ToSet(u) \subseteq ToSet(s) /\ ToSet(v) \subseteq ToSet(s)
    <3>1. s \in Seq(N \ H) /\ IsInjective(s) /\ i \in 1..Len(s) /\ a = Len(s)
      BY <1>2 DEF a
    <3> HIDE DEF s
    <3>2. Halved(N \ H, s, i)
      BY <3>1, CutQueue
    <3> QED
      BY <3>1, <3>2 DEF Halved, m
  <2>3. /\ t \in [H -> Seq(N \ H)] /\ t[h] = u /\ t[n] = v
        /\ \A g \in H : g # h /\ g # n => t[g] = r[g]
        /\ r1 \in [H -> Seq(N \ H)] /\ r1[h] = u /\ \A g \in H : g # h => r1[g] = r[g]
    BY <2>1, <2>2 DEF t, a
  <2> HIDE DEF u, v, r1
  <2>4. \A g \in H : g # h => /\ ToSet(u) \cap ToSet(r[g]) = {}
                              /\ ToSet(v) \cap ToSet(r[g]) = {}
    <3> TAKE g \in H
    <3> HAVE g # h
    <3>1. ToSet(r[h]) \cap ToSet(r[g]) = {}
      BY <1>1 DEF Family
    <3> QED
      BY <3>1, <2>2
  <2>5. Family(N, H, r1)
    <3>1. ToSet(r1[h]) = ToSet(u) /\ IsInjective(r1[h])
      BY <2>2, <2>3
    <3>2. \A g \in H : g # h => ToSet(r1[h]) \cap ToSet(r[g]) = {}
      BY <3>1, <2>4
    <3> QED
      <4>1. r1 \in [H -> Seq(N \ H)] /\ \A g \in H : g # h => r1[g] = r[g]
        BY <2>3
      <4>2. Family(N, H, r)
        BY <1>1
      <4> QED
        BY <3>1, <3>2, <4>1, <4>2, FamilyChanged
  <2>6. Family(N, H, t)
    <3>1. \A g \in H : g # n => t[g] = r1[g]
      BY <2>3
    <3>2. \A g \in H : g # n => ToSet(t[n]) \cap ToSet(r1[g]) = {}
      BY <2>2, <2>3, <2>4
    <3> QED
      BY <3>1, <3>2, <2>2, <2>3, <2>5, FamilyChanged
  <2> QED
    BY <2>2, <2>3, <2>6
<1>7. /\ q \in N /\ before \in N /\ end \in N /\ q = Spot(r, h, i)
      /\ l.prev[h] = end /\ l.prev[q] = before
      /\ before # end /\ before # n /\ end # n /\ q # n /\ q # h
  <2>1. /\ a \in 0..a /\ i \in 1..a /\ i \in 0..a /\ i - 1 \in 0..a /\ (i - 1) + 1 = i
        /\ i - 1 # a /\ i # 0 /\ 0 \in 0..a /\ a \in Int /\ i \in Int /\ i - 1 \in Int
    BY <1>2
  <2>2. q = Spot(r, h, i)
    BY <2>1, <1>2 DEF q
  <2>3. q \in N /\ before \in N /\ end \in N /\ l.prev[h] = end /\ l.prev[q] = before
    BY <2>1, <2>2, <1>2 DEF before, end
  <2>4. before # end /\ q # h
    BY <2>1, <2>2, <1>2 DEF before, end
  <2> QED
    BY <2>1, <2>2, <2>3, <2>4, <1>4 DEF before, end
<1>8. /\ L.next = [[[l.next EXCEPT ![end] = n] EXCEPT ![n] = q] EXCEPT ![before] = h]
      /\ L.prev = [[[l.prev EXCEPT ![n] = end] EXCEPT ![h] = before] EXCEPT ![q] = n]
      /\ L \in Pointers(N)
  <2> DEFINE l1 == [l EXCEPT !.prev[n] = l.prev[h]]
             l2 == [l1 EXCEPT !.next[l1.prev[n]] = n]
             l3 == [l2 EXCEPT !.next[n] = q, !.prev[h] = l2.prev[q]]
             l4 == [l3 EXCEPT !.next[l3.prev[h]] = h]
  <2>1. /\ l1 \in Pointers(N) /\ l1.next = l.next
        /\ l1.prev = [l.prev EXCEPT ![n] = end] /\ l1.prev[n] = end
    BY <1>1, <1>2, <1>3, <1>7 DEF Pointers
  <2> HIDE DEF l1
  <2>2. /\ l2 \in Pointers(N) /\ l2.prev = l1.prev /\ l2.prev[q] = before
        /\ l2.next = [l.next EXCEPT ![end] = n]
    BY <2>1, <1>1, <1>2, <1>3, <1>7 DEF Pointers
  <2> HIDE DEF l2
  <2>3. /\ l3 \in Pointers(N) /\ l3.next = [l2.next EXCEPT ![n] = q]
        /\ l3.prev = [l2.prev EXCEPT ![h] = before] /\ l3.prev[h] = before
    BY <2>2, <1>1, <1>2, <1>3, <1>7 DEF Pointers
  <2> HIDE DEF l3
  <2>4. /\ l4 \in Pointers(N) /\ l4.prev = l3.prev
        /\ l4.next = [l3.next EXCEPT ![before] = h]
    BY <2>3, <1>1, <1>2, <1>3, <1>7 DEF Pointers
  <2>5. L = [l4 EXCEPT !.prev[q] = n]
    BY DEF QUEUE_SPLIT, l1, l2, l3, L
  <2> HIDE DEF l4
  <2>6. /\ L.next = l4.next /\ L.prev = [l4.prev EXCEPT ![q] = n] /\ L \in Pointers(N)
    BY <2>4, <2>5, <1>3, <1>7 DEF Pointers
  <2> QED
    BY <2>1, <2>2, <2>3, <2>4, <2>6
<1>9. \A x \in N :
        /\ L.next[x] = IF x = before THEN h ELSE IF x = n THEN q ELSE IF x = end THEN n
                       ELSE l.next[x]
        /\ L.prev[x] = IF x = q THEN n ELSE IF x = h THEN before ELSE IF x = n THEN end
                       ELSE l.prev[x]
  BY <1>1, <1>8 DEF Pointers
<1>10. ASSUME NEW g \in H, g # h, g # n
       PROVE  Linked(L, g, t[g])
  <2>1. \A k \in 0..Len(r[g]) : Spot(r, g, k) \in N /\ Spot(r, g, k) \notin {h, n, before, end, q}
    <3>1. \A k \in 0..Len(r[g]) : k \in 0..(Len(r[g]) + 1)
      <4>1. Placed(l, N, H, r, g)
        BY <1>10, Places
      <4>2. Len(r[g]) \in Nat
        BY <4>1 DEF Placed
      <4> QED
        BY <4>2
    <3>2. /\ 0 \in 0..(a + 1) /\ a \in 0..(a + 1) /\ i \in 0..(a + 1) /\ i - 1 \in 0..(a + 1)
          /\ 0 \in 0..(Len(r[n]) + 1)
      <4>1. Len(r[n]) = 0
        OBVIOUS
      <4> QED
        BY <4>1, <1>2
    <3>3. \A k \in 0..Len(r[g]) : /\ Spot(r, g, k) # h /\ Spot(r, g, k) # end
                                  /\ Spot(r, g, k) # before /\ Spot(r, g, k) # q
      BY <3>1, <3>2, <1>2, <1>7, <1>10, PlacesApart DEF end, before, a
    <3>4. \A k \in 0..Len(r[g]) : Spot(r, g, k) # n
      BY <3>1, <3>2, <1>3, <1>10, PlacesApart
    <3>5. \A k \in 0..Len(r[g]) : Spot(r, g, k) \in N
      BY <1>1, <1>10, SpotsAreNodes
    <3> QED
      BY <3>3, <3>4, <3>5
  <2>2. Untouched(l, L, r, g)
    BY <2>1, <1>9 DEF Untouched
  <2> QED
    <3>1. t[g] = r[g]
      BY <1>6, <1>10
    <3>2. Linked(L, g, r[g])
      BY <2>2, <1>1, <1>10, StillLinked
    <3> QED
      BY <3>1, <3>2
<1>11. /\ \A k \in 0..(i - 1) : Spot(t, h, k) = Spot(r, h, k)
       /\ Spot(t, h, i) = h /\ Spot(t, n, 0) = n /\ Spot(t, n, m + 1) = n
       /\ \A k \in 1..m : Spot(t, n, k) = Spot(r, h, i - 1 + k)
  <2>1. Spread(N, H, t)
    BY <1>6, FamilySpread
  <2>2. i = Len(t[h]) + 1 /\ m = Len(t[n])
    BY <1>2, <1>6
  <2>3. Spot(t, h, 0) = h /\ Spot(t, h, i) = h /\ Spot(t, n, 0) = n /\ Spot(t, n, m + 1) = n
    BY <2>1, <2>2 DEF Spread
  <2>4. /\ \A k \in 1..Len(t[h]) : Spot(t, h, k) = t[h][k]
        /\ \A k \in 1..Len(t[n]) : Spot(t, n, k) = t[n][k]
    BY <2>1 DEF Spread
  <2>5. ASSUME NEW k \in 1..(i - 1)
        PROVE  Spot(t, h, k) = Spot(r, h, k)
    <3>1. k \in 1..Len(t[h]) /\ k \in 1..a
      BY <1>2, <1>6
    <3> QED
      BY <3>1, <2>4, <1>2, <1>6
  <2>6. ASSUME NEW k \in 1..m
        PROVE  Spot(t, n, k) = Spot(r, h, i - 1 + k)
    <3>1. i - 1 + k \in 1..a
      <4> DEFINE e == i - 1
      <4>1. e \in Nat /\ e + m = a /\ m \in Nat
        BY <1>5
      <4> HIDE DEF e
      <4>2. e + k \in 1..a
        BY <4>1
      <4> QED
        BY <4>2 DEF e
    <3>2. k \in 1..Len(t[n])
      BY <1>6
    <3>3. Spot(t, n, k) = t[n][k] /\ t[n][k] = r[h][i - 1 + k]
      BY <3>2, <2>4, <1>6
    <3> QED
      BY <3>1, <3>3, <1>2
  <2>7. \A k \in 0..(i - 1) : k = 0 \/ k \in 1..(i - 1)
    BY <1>5
  <2> QED
    BY <2>3, <2>5, <2>6, <2>7, <1>2
<1>12. ASSUME NEW k \in 0..(i - 1)
       PROVE  /\ L.next[Spot(t, h, k)] = Spot(t, h, k + 1)
              /\ L.prev[Spot(t, h, k + 1)] = Spot(t, h, k)
  <2>1. CASE k < i - 1
    <3>1. /\ k \in 0..(i - 1) /\ k + 1 \in 0..(i - 1) /\ k \in 0..a /\ k + 1 \in 0..a
          /\ k # i - 1 /\ k # a /\ k + 1 # 0 /\ k + 1 # i
          /\ i - 1 \in 0..a /\ a \in 0..a /\ i \in 0..a /\ 0 \in 0..a
          /\ k \in Int /\ k + 1 \in Int
      BY <2>1, <1>2
    <3>2. Spot(r, h, k) # before /\ Spot(r, h, k) # end /\ Spot(r, h, k) # n
      BY <3>1, <1>2, <1>4 DEF before, end
    <3>3. Spot(r, h, k + 1) # q /\ Spot(r, h, k + 1) # h /\ Spot(r, h, k + 1) # n
      BY <3>1, <1>2, <1>4, <1>7
    <3>4. Spot(t, h, k) = Spot(r, h, k) /\ Spot(t, h, k + 1) = Spot(r, h, k + 1)
      BY <3>1, <1>11
    <3>5. /\ Spot(r, h, k) \in N /\ Spot(r, h, k + 1) \in N
          /\ l.next[Spot(r, h, k)] = Spot(r, h, k + 1) /\ l.prev[Spot(r, h, k + 1)] = Spot(r, h, k)
      BY <3>1, <1>2
    <3> QED
      BY <3>2, <3>3, <3>4, <3>5, <1>9
  <2>2. CASE k = i - 1
    <3>1. k + 1 = i
      BY <2>2, <1>2
    <3>2. Spot(t, h, k) = before /\ Spot(t, h, k + 1) = h
      BY <2>2, <3>1, <1>11 DEF before
    <3> QED
      BY <3>2, <1>2, <1>7, <1>9
  <2> QED
    BY <2>1, <2>2, <1>2
<1>13. ASSUME NEW k \in 0..m
       PROVE  /\ L.next[Spot(t, n, k)] = Spot(t, n, k + 1)
              /\ L.prev[Spot(t, n, k + 1)] = Spot(t, n, k)
  <2>1. CASE k = 0
    <3>1. 1 \in 1..m /\ i - 1 + 1 = i /\ k + 1 = 1
      BY <2>1, <1>2, <1>5
    <3>2. Spot(t, n, k) = n /\ Spot(t, n, k + 1) = q
      BY <2>1, <3>1, <1>7, <1>11
    <3> QED
      BY <3>2, <1>3, <1>7, <1>9
  <2>2. CASE k # 0 /\ k # m
    <3> DEFINE j == i - 1 + k
    <3>1. /\ k \in 1..m /\ k + 1 \in 1..m /\ i - 1 + (k + 1) = j + 1
          /\ j \in 0..a /\ j + 1 \in 0..a
          /\ j # i - 1 /\ j # a /\ j + 1 # 0 /\ j + 1 # i
          /\ i - 1 \in 0..a /\ a \in 0..a /\ i \in 0..a /\ 0 \in 0..a
          /\ j \in Int /\ j + 1 \in Int
      BY <2>2, <1>2, <1>5
    <3>2. Spot(t, n, k) = Spot(r, h, j)
      BY <3>1, <1>11
    <3>3. Spot(t, n, k + 1) = Spot(r, h, j + 1)
      <4>1. Spot(t, n, k + 1) = Spot(r, h, i - 1 + (k + 1))
        BY <3>1, <1>11
      <4> QED
        BY <4>1, <3>1
    <3> HIDE DEF j
    <3>4. Spot(r, h, j) # before /\ Spot(r, h, j) # end /\ Spot(r, h, j) # n
      BY <3>1, <1>2, <1>4 DEF before, end
    <3>5. Spot(r, h, j + 1) # q /\ Spot(r, h, j + 1) # h /\ Spot(r, h, j + 1) # n
      BY <3>1, <1>2, <1>4, <1>7
    <3>6. /\ Spot(r, h, j) \in N /\ Spot(r, h, j + 1) \in N
          /\ l.next[Spot(r, h, j)] = Spot(r, h, j + 1) /\ l.prev[Spot(r, h, j + 1)] = Spot(r, h, j)
      BY <3>1, <1>2
    <3> QED
      BY <3>2, <3>3, <3>4, <3>5, <3>6, <1>9
  <2>3. CASE k = m /\ k # 0
    <3>1. m \in 1..m /\ i - 1 + m = a
      BY <1>5
    <3>2. Spot(t, n, k) = end /\ Spot(t, n, k + 1) = n
      <4>1. Spot(t, n, m) = Spot(r, h, i - 1 + m)
        BY <3>1, <1>11
      <4> QED
        BY <4>1, <3>1, <2>3, <1>11 DEF end
    <3>3. end # before /\ end # n /\ n # q /\ n # h
      BY <1>7
    <3> QED
      BY <3>2, <3>3, <1>3, <1>7, <1>9
  <2> QED
    BY <2>1, <2>2, <2>3
<1>14. Linked(L, h, t[h]) /\ Linked(L, n, t[n])
  BY <1>6, <1>12, <1>13 DEF Linked, Spot
<1> QED
  BY <1>6, <1>8, <1>10, <1>14 DEF Woven, L, t, q


-----------------------------------------------------------------------------
(* The first items of a ring, as QUEUE_FOREACH has visited them.           *)
Firsts(s, k) == SubSeq(s, 1, IF k < Len(s) THEN k ELSE Len(s))

LEMMA FirstsGrow ==
  ASSUME NEW S, NEW s \in Seq(S)
  PROVE  /\ Firsts(s, 0) = <<>>
         /\ \A k \in Nat : /\ k < Len(s) => /\ Firsts(s, k + 1) = Append(Firsts(s, k), s[k + 1])
                                            /\ Firsts(s, k) = <<>> <=> k = 0
                                            /\ k # 0 => Last(Firsts(s, k)) = s[k]
                           /\ k >= Len(s) => Firsts(s, k) = s
<1> DEFINE n == Len(s)
<1>1. n \in Nat /\ \A j \in 1..n : s[j] \in S
  BY InSeq
<1> HIDE DEF n
<1>2. Firsts(s, 0) = <<>>
  BY <1>1, SubSeqEmpty DEF Firsts, n
<1>3. ASSUME NEW k \in Nat, k <= n
      PROVE  /\ Firsts(s, k) \in Seq(S) /\ Len(Firsts(s, k)) = k
             /\ \A j \in 1..k : Firsts(s, k)[j] = s[j]
  <2> DEFINE p == SubSeq(s, 1, k)
  <2>1. Firsts(s, k) = p
    BY <1>1, <1>3 DEF Firsts, n
  <2>2. (\A j \in 1..k : s[j] \in S) /\ 1 \in Int /\ k \in Int /\ k - 1 + 1 = k
    BY <1>1, <1>3
  <2>3. /\ p \in Seq(S) /\ Len(p) = IF 1 <= k THEN k - 1 + 1 ELSE 0
        /\ \A j \in 1..(k - 1 + 1) : p[j] = s[1 + j - 1]
    BY <2>2, SubSeqProperties
  <2> HIDE DEF p
  <2>4. Len(p) = k
    BY <2>3
  <2>5. \A j \in 1..k : 1 + j - 1 = j
    OBVIOUS
  <2> QED
    BY <2>1, <2>2, <2>3, <2>4, <2>5
<1>4. ASSUME NEW k \in Nat, k < n
      PROVE  /\ Firsts(s, k + 1) = Append(Firsts(s, k), s[k + 1])
             /\ Firsts(s, k) = <<>> <=> k = 0
             /\ k # 0 => Last(Firsts(s, k)) = s[k]
  <2> DEFINE p == Firsts(s, k)
             q == Firsts(s, k + 1)
             x == s[k + 1]
  <2>1. k + 1 \in Nat /\ k + 1 <= n /\ k <= n /\ k + 1 \in 1..n /\ k + 1 \in 1..(k + 1)
    BY <1>1, <1>4
  <2>2. /\ p \in Seq(S) /\ Len(p) = k /\ \A j \in 1..k : p[j] = s[j]
    BY <2>1, <1>3
  <2>3. q \in Seq(S) /\ Len(q) = k + 1 /\ \A j \in 1..(k + 1) : q[j] = s[j]
    BY <2>1, <1>3
  <2>4. x \in S
    BY <2>1, <1>1
  <2> HIDE DEF p, q, x
  <2>5. /\ Append(p, x) \in Seq(S) /\ Len(Append(p, x)) = k + 1
        /\ \A j \in 1..k : Append(p, x)[j] = p[j]
        /\ Append(p, x)[k + 1] = x
    BY <2>2, <2>4, AppendProperties
  <2>6. \A j \in 1..(k + 1) : q[j] = Append(p, x)[j]
    <3>1. \A j \in 1..(k + 1) : j \in 1..k \/ j = k + 1
      OBVIOUS
    <3> QED
      BY <3>1, <2>1, <2>2, <2>3, <2>5 DEF x
  <2>7. q = Append(p, x)
    BY <2>3, <2>5, <2>6, SeqEqual
  <2>8. p = <<>> <=> k = 0
    BY <2>2, EmptySeq
  <2>9. k # 0 => Last(p) = s[k]
    BY <2>2 DEF Last
  <2> QED
    BY <2>7, <2>8, <2>9 DEF p, q, x
<1>5. ASSUME NEW k \in Nat, k >= n
      PROVE  Firsts(s, k) = s
  <2>1. Firsts(s, k) = SubSeq(s, 1, Len(s))
    BY <1>1, <1>5 DEF Firsts, n
  <2> QED
    BY <2>1, SubSeqFull
<1> QED
  BY <1>1, <1>2, <1>4, <1>5 DEF n

(* A turn of the loop visits the next item, or finds the head.             *)
LEMMA VisitTurns ==
  ASSUME NEW l, NEW N, NEW H, NEW r, Woven(l, N, H, r), NEW h \in H, NEW k \in Nat
  PROVE  Visit(l, h, Firsts(r[h], k)) = Firsts(r[h], k + 1)
<1> DEFINE s == r[h]
           n == Len(s)
           v == Firsts(s, k)
<1>1. /\ n \in Nat /\ h \in N /\ s \in Seq(N \ H)
      /\ Spot(r, h, 0) = h /\ Spot(r, h, n + 1) = h
      /\ \A j \in 1..n : Spot(r, h, j) = s[j]
      /\ \A j \in 0..n : l.next[Spot(r, h, j)] = Spot(r, h, j + 1)
  <2>1. Placed(l, N, H, r, h)
    BY Places
  <2> QED
    BY <2>1 DEF Placed
<1>2. \A j \in 1..n : s[j] # h
  <2>1. Family(N, H, r)
    BY WovenLeads
  <2>2. \A j \in 1..n : s[j] \in N \ H
    BY <1>1, ElementOfSeq
  <2> QED
    BY <2>2
<1> HIDE DEF s, n
<1>3. CASE k < n
  <2>1. /\ Firsts(s, k + 1) = Append(v, s[k + 1])
        /\ v = <<>> <=> k = 0
        /\ k # 0 => Last(v) = s[k]
    BY <1>1, <1>3, FirstsGrow DEF n
  <2> HIDE DEF v
  <2>2. k \in 0..n /\ k + 1 \in 1..n /\ (k # 0 => k \in 1..n)
    BY <1>1, <1>3
  <2>3. (IF v = <<>> THEN h ELSE Last(v)) = Spot(r, h, k)
    BY <2>1, <2>2, <1>1
  <2>4. l.next[Spot(r, h, k)] = s[k + 1] /\ s[k + 1] # h
    BY <2>2, <1>1, <1>2
  <2>5. Visit(l, h, v) = Append(v, s[k + 1])
    BY <2>3, <2>4 DEF Visit
  <2> QED
    BY <2>1, <2>5 DEF v, s
<1>4. CASE k >= n
  <2>1. v = s /\ Firsts(s, k + 1) = s
    <3>1. k + 1 \in Nat /\ k + 1 >= n
      BY <1>1, <1>4
    <3> QED
      BY <3>1, <1>1, <1>4, FirstsGrow DEF n
  <2> HIDE DEF v
  <2>2. s = <<>> <=> n = 0
    BY <1>1, EmptySeq DEF n
  <2>3. (IF s = <<>> THEN h ELSE Last(s)) = Spot(r, h, n)
    <3>1. CASE n = 0
      BY <3>1, <2>2, <1>1
    <3>2. CASE n # 0
      <4>1. n \in 1..n /\ Last(s) = s[n]
        BY <3>2, <1>1 DEF Last, n
      <4> QED
        BY <3>2, <4>1, <2>2, <1>1
    <3> QED
      BY <3>1, <3>2
  <2>4. l.next[Spot(r, h, n)] = h
    <3>1. n \in 0..n
      BY <1>1
    <3> QED
      BY <3>1, <1>1
  <2>5. Visit(l, h, s) = s
    BY <2>3, <2>4 DEF Visit
  <2> QED
    BY <2>1, <2>5 DEF v, s
<1> QED
  BY <1>1, <1>3, <1>4

(* QUEUE_FOREACH visits the items of a ring in order and stops.            *)
LEMMA ForeachVisits ==
  ASSUME NEW l, NEW N, NEW H, NEW r, Woven(l, N, H, r), IsFiniteSet(N), NEW h \in H
  PROVE  QUEUE_FOREACH(l, h) = r[h]
<1> DEFINE s == r[h]
           c == Cardinality(DOMAIN l.next)
           Visits(f) == [k \in 0..c |-> IF k = 0 THEN <<>> ELSE Visit(l, h, f[k - 1])]
           f == CHOOSE f : f = Visits(f)
           g == [k \in 0..c |-> Firsts(s, k)]
<1>1. s \in Seq(N \ H) /\ IsInjective(s) /\ Len(s) \in Nat
  <2>1. Placed(l, N, H, r, h)
    BY Places
  <2> QED
    BY <2>1 DEF Placed
<1>2. c \in Nat /\ Len(s) <= c
  <2>1. DOMAIN l.next = N
    BY WovenLeads DEF Pointers
  <2>2. Cardinality(ToSet(s)) = Len(s)
    BY <1>1, QueueLength
  <2>3. ToSet(s) \in SUBSET N
    BY <1>1, InSeq
  <2>4. Cardinality(ToSet(s)) <= Cardinality(N)
    BY <2>3, FS_Subset
  <2>5. Cardinality(N) \in Nat
    BY FS_CardinalityType
  <2> QED
    BY <2>1, <2>2, <2>4, <2>5
<1>3. QUEUE_FOREACH(l, h) = f[c]
  BY DEF QUEUE_FOREACH, Repeat
<1> HIDE DEF f, c, s
<1>4. g = Visits(g)
  <2>1. ASSUME NEW k \in 0..c
        PROVE  g[k] = IF k = 0 THEN <<>> ELSE Visit(l, h, g[k - 1])
    <3>1. CASE k = 0
      BY <3>1, <2>1, <1>1, FirstsGrow
    <3>2. CASE k # 0
      <4>1. k - 1 \in Nat /\ k - 1 \in 0..c /\ (k - 1) + 1 = k
        BY <3>2, <1>2
      <4>2. Visit(l, h, Firsts(s, k - 1)) = Firsts(s, k)
        BY <4>1, VisitTurns DEF s
      <4>3. g[k - 1] = Firsts(s, k - 1) /\ g[k] = Firsts(s, k)
        BY <4>1
      <4> QED
        BY <4>2, <4>3, <3>2
    <3> QED
      BY <3>1, <3>2
  <2> QED
    BY <2>1
<1> HIDE DEF g
<1>5. f = Visits(f)
  BY <1>4 DEF f
<1>6. f[0] = <<>> /\ \A k \in 1..c : f[k] = Visit(l, h, f[k - 1])
  BY <1>5, <1>2
<1>7. f[c] = Firsts(s, c)
  <2> DEFINE S == {k \in Nat : k <= c => f[k] = Firsts(s, k)}
  <2>1. 0 \in S
    BY <1>1, <1>6, FirstsGrow
  <2>2. ASSUME NEW k \in Nat, k \in S
        PROVE  k + 1 \in S
    <3>1. ASSUME k + 1 <= c PROVE f[k + 1] = Firsts(s, k + 1)
      <4>1. k + 1 \in 1..c /\ (k + 1) - 1 = k /\ k <= c
        BY <3>1, <1>2
      <4>2. f[k + 1] = Visit(l, h, f[k]) /\ f[k] = Firsts(s, k)
        BY <4>1, <2>2, <1>6
      <4> QED
        BY <4>2, VisitTurns DEF s
    <3> QED
      BY <3>1
  <2>3. c \in S
    <3> HIDE DEF S
    <3> QED
      BY <2>1, <2>2, <1>2, NatInSet
  <2> QED
    BY <2>3, <1>2
<1>8. Firsts(s, c) = s
  BY <1>1, <1>2, FirstsGrow
<1> QED
  BY <1>3, <1>7, <1>8 DEF s

-----------------------------------------------------------------------------
(* Rings: the inductive invariant is that the pointers form the rings.     *)

RingInv == Woven(links, Node, RingHead, ring)

LEMMA InitRings == RingInit => RingInv
<1> SUFFICES ASSUME RingInit PROVE RingInv
  OBVIOUS
<1>1. \A h \in RingHead : ring[h] = <<>> /\ links.next[h] = h /\ links.prev[h] = h
  BY DEF RingInit, Node
<1>2. links \in Pointers(Node)
  BY DEF RingInit, Pointers, Node
<1>3. Family(Node, RingHead, ring)
  <2>1. ring \in [RingHead -> Seq(Node \ RingHead)]
    BY EmptyQueue DEF RingInit
  <2> QED
    BY <2>1, <1>1, EmptyQueue DEF Family, Node
<1> QED
  BY <1>1, <1>2, <1>3, EmptyLinked DEF RingInv, Woven

LEMMA NextRings == RingInv /\ [RingNext]_ringVars => RingInv'
<1> SUFFICES ASSUME RingInv, [RingNext]_ringVars PROVE RingInv'
  OBVIOUS
<1>1. /\ Woven(links, Node, RingHead, ring)
      /\ ring \in [RingHead -> Seq(Node \ RingHead)]
      /\ \A h \in RingHead : DOMAIN ring[h] = 1..Len(ring[h])
  BY InSeq DEF RingInv, Woven, Family
<1>2. \A q \in Item : q \in Node \ RingHead
  BY NodeAssumption DEF Node
<1>3. RingInv' <=> Woven(links', Node, RingHead, ring')
  BY DEF RingInv, Node
<1>4. ASSUME NEW h \in RingHead, NEW q \in Item, InsertHead(h, q)
      PROVE  RingInv'
  BY <1>1, <1>2, <1>3, <1>4, WeaveHead DEF InsertHead, InRing
<1>5. ASSUME NEW h \in RingHead, NEW q \in Item, InsertTail(h, q)
      PROVE  RingInv'
  BY <1>1, <1>2, <1>3, <1>5, WeaveTail DEF InsertTail, InRing
<1>6. ASSUME NEW h \in RingHead, NEW i \in DOMAIN ring[h], RemoveItem(h, i)
      PROVE  RingInv'
  <2>1. i \in 1..Len(ring[h])
    BY <1>1
  <2>2. Woven(QUEUE_REMOVE(links, ring[h][i]), Node, RingHead, [ring EXCEPT ![h] = RemoveAt(@, i)])
    BY <2>1, <1>1, WeaveRemove
  <2> QED
    BY <2>2, <1>3, <1>6 DEF RemoveItem
<1>7. ASSUME NEW h \in RingHead, NEW i \in DOMAIN ring[h], NEW n \in RingHead, Split(h, i, n)
      PROVE  RingInv'
  <2>1. i \in 1..Len(ring[h]) /\ h # n /\ ring[n] = <<>>
    BY <1>1, <1>7 DEF Split
  <2>2. Woven(QUEUE_SPLIT(links, h, ring[h][i], n), Node, RingHead,
              [ring EXCEPT ![h] = SubSeq(@, 1, i - 1), ![n] = SubSeq(ring[h], i, Len(ring[h]))])
    BY <2>1, <1>1, WeaveSplit
  <2> QED
    BY <2>2, <1>3, <1>7 DEF Split
<1>8. ASSUME NEW h \in RingHead, NEW n \in RingHead, Join(h, n)
      PROVE  RingInv'
  <2>1. ring[n] # <<>>
    <3> SUFFICES ASSUME ring[n] = <<>> PROVE FALSE
      OBVIOUS
    <3>1. Placed(links, Node, RingHead, ring, n)
      BY <1>1, Places
    <3>2. Len(ring[n]) = 0
      OBVIOUS
    <3>3. links.next[n] = n
      BY <3>1, <3>2 DEF Placed
    <3> QED
      BY <3>3, <1>8 DEF Join, QUEUE_EMPTY
  <2> QED
    BY <2>1, <1>1, <1>3, <1>8, WeaveJoin DEF Join
<1>9. ASSUME NEW h \in RingHead, Clear(h)
      PROVE  RingInv'
  BY <1>1, <1>3, <1>9, WeaveClear DEF Clear
<1>10. CASE UNCHANGED ringVars
  BY <1>3, <1>10 DEF RingInv, ringVars
<1> QED
  BY <1>4, <1>5, <1>6, <1>7, <1>8, <1>9, <1>10 DEF RingNext

(* The pointers of all nodes form, at any time, the rings of the history.  *)
THEOREM RingInvariant == RingSpec => []RingInv
  BY InitRings, NextRings, PTL DEF RingSpec

(* Whatever sequence of macros of queue.h is carried out on whatever       *)
(* rings: no item is linked twice, every ring is linked forwards and       *)
(* backwards, and QUEUE_FOREACH visits all its items in order and stops.   *)
THEOREM PointersFollowRings == RingSpec => []RingsAreLinked
<1>1. RingInv => RingsAreLinked
  <2> SUFFICES ASSUME RingInv PROVE RingsAreLinked
    OBVIOUS
  <2>1. /\ Woven(links, Node, RingHead, ring) /\ Family(Node, RingHead, ring)
        /\ Spread(Node, RingHead, ring)
    BY WovenLeads, FamilySpread DEF RingInv
  <2>2. Apart
    <3> SUFFICES ASSUME NEW h \in RingHead, NEW g \in RingHead,
                        NEW i \in DOMAIN ring[h], NEW j \in DOMAIN ring[g],
                        ring[h][i] = ring[g][j]
                 PROVE  h = g /\ i = j
      BY DEF Apart
    <3>1. ring[h] \in Seq(Node \ RingHead) /\ ring[g] \in Seq(Node \ RingHead)
      BY <2>1 DEF Spread
    <3>2. /\ i \in 1..Len(ring[h]) /\ i \in 0..Len(ring[h])
          /\ j \in 1..Len(ring[g]) /\ j \in 0..Len(ring[g])
      <4>1. DOMAIN ring[h] = 1..Len(ring[h]) /\ DOMAIN ring[g] = 1..Len(ring[g])
        BY <3>1, InSeq
      <4> QED
        BY <4>1, <3>1, InSeq
    <3>3. Spot(ring, h, i) = Spot(ring, g, j)
      BY <3>2, <2>1 DEF Spread
    <3> QED
      BY <3>2, <3>3, <2>1 DEF Spread
  <2>3. IsFiniteSet(Node)
    BY NodeAssumption DEF Node
  <2>4. \A h \in RingHead : QUEUE_FOREACH(links, h) = ring[h]
    BY <2>1, <2>3, ForeachVisits
  <2> QED
    BY <2>1, <2>2, <2>4 DEF RingsAreLinked, Woven
<1> QED
  BY <1>1, RingInvariant, PTL

(* The test of IOPoll::removeEventAwaiter is right for rings of any length:*)
(* the pointers that a removed item keeps are equal exactly if the ring it *)
(* left is empty, and then they lead to the head, whose event is masked.   *)
THEOREM KeptPointersTell == RingSpec => NeighboursTellTheRing
<1>1. RingInv /\ [RingNext]_ringVars =>
        [\A h \in RingHead : \A i \in DOMAIN ring[h] :
           RemoveItem(h, i) =>
             LET q == ring[h][i] IN
             /\ links'.next[q] = links'.prev[q] <=> ring'[h] = <<>>
             /\ ring'[h] = <<>> => links'.next[q] = h]_ringVars
  <2> SUFFICES ASSUME RingInv, NEW h \in RingHead, NEW i \in DOMAIN ring[h], RemoveItem(h, i)
               PROVE  /\ links'.next[ring[h][i]] = links'.prev[ring[h][i]] <=> ring'[h] = <<>>
                      /\ ring'[h] = <<>> => links'.next[ring[h][i]] = h
    OBVIOUS
  <2>1. Woven(links, Node, RingHead, ring) /\ i \in 1..Len(ring[h])
    BY InSeq DEF RingInv, Woven, Family
  <2> QED
    BY <2>1, WeaveRemove DEF RemoveItem
<1> QED
  BY <1>1, RingInvariant, PTL DEF RingSpec, NeighboursTellTheRing

-----------------------------------------------------------------------------
(* WatcherRings: its rings.                                                *)

(* The QUEUEs of different kinds, and of different watchers, are different.*)
LEMMA NodesApart ==
  /\ Dirty \in QueueNode /\ Released \in QueueNode /\ Awaiter \subseteq QueueNode
  /\ Dirty # Released /\ Dirty \notin Awaiter /\ Released \notin Awaiter
  /\ \A b \in Block : /\ ItemOf(b) \in QueueNode
                      /\ ItemOf(b) \notin Awaiter /\ ItemOf(b) # Dirty /\ ItemOf(b) # Released
                      /\ ItemOf(b)[1] = b
  /\ \A b \in Block, e \in Event :
       /\ QueueOf(b, e) \in QueueNode
       /\ QueueOf(b, e) \notin Awaiter /\ QueueOf(b, e) # Dirty /\ QueueOf(b, e) # Released
       /\ QueueOf(b, e)[2] = e
  /\ \A b, c \in Block, e \in Event : ItemOf(b) # QueueOf(c, e)
  /\ \A b, c \in Block : ItemOf(b) = ItemOf(c) => b = c
  /\ \A b, c \in Block, e, f \in Event : QueueOf(b, e) = QueueOf(c, f) => b = c /\ e = f
<1>1. \A b \in Block : Queues(b) \subseteq QueueNode
  BY DEF QueueNode
<1>2. \A b \in Block : ItemOf(b) \in Queues(b) /\ \A e \in Event : QueueOf(b, e) \in Queues(b)
  BY DEF Queues
<1>3. \A b \in Block : \A x \in Queues(b) : x \notin Awaiter /\ x # Dirty /\ x # Released
  BY MemoryAssumption
<1>4. Dirty \in QueueNode /\ Released \in QueueNode /\ Awaiter \subseteq QueueNode
  BY DEF QueueNode
<1>5. Dirty # Released /\ Dirty \notin Awaiter /\ Released \notin Awaiter
  BY MemoryAssumption
<1>6. \A b, c \in Block, e \in Event : ItemOf(b) # QueueOf(c, e)
  BY DEF ItemOf, QueueOf, Event
<1>7. /\ \A b, c \in Block : ItemOf(b) = ItemOf(c) => b = c
      /\ \A b, c \in Block, e, f \in Event : QueueOf(b, e) = QueueOf(c, f) => b = c /\ e = f
      /\ \A b \in Block : ItemOf(b)[1] = b
      /\ \A b \in Block, e \in Event : QueueOf(b, e)[2] = e
  BY DEF ItemOf, QueueOf
<1> QED
  BY <1>1, <1>2, <1>3, <1>4, <1>5, <1>6, <1>7

LEMMA NodesFinite == IsFiniteSet(QueueNode) /\ Loose \notin QueueNode
<1>1. \A b \in Block : IsFiniteSet(Queues(b))
  <2> TAKE b \in Block
  <2> DEFINE S == {ItemOf(b)} \cup {QueueOf(b, "Readability")}
  <2>1. IsFiniteSet({ItemOf(b)})
    BY FS_Singleton
  <2>2. IsFiniteSet(S)
    BY <2>1, FS_AddElement
  <2> HIDE DEF S
  <2>3. IsFiniteSet(S \cup {QueueOf(b, "Writability")})
    BY <2>2, FS_AddElement
  <2>4. Queues(b) = S \cup {QueueOf(b, "Writability")}
    BY DEF Queues, Event, S
  <2> QED
    BY <2>3, <2>4
<1>2. IsFiniteSet({Queues(b) : b \in Block})
  <2> DEFINE T == {Queues(b) : b \in Block}
             f == [b \in Block |-> Queues(b)]
  <2>1. f \in Surjection(Block, T)
    BY DEF Surjection
  <2> HIDE DEF T, f
  <2>2. IsFiniteSet(T)
    BY <2>1, MemoryAssumption, FS_Surjection
  <2> QED
    BY <2>2 DEF T
<1>3. IsFiniteSet(UNION {Queues(b) : b \in Block})
  BY <1>1, <1>2, FS_UNION
<1>4. IsFiniteSet(Awaiter) /\ Loose \notin QueueNode
  BY MemoryAssumption
<1>5. IsFiniteSet(Awaiter \cup {Dirty} \cup {Released})
  BY <1>4, FS_AddElement
<1>6. QueueNode = (Awaiter \cup {Dirty} \cup {Released}) \cup UNION {Queues(b) : b \in Block}
  BY DEF QueueNode
<1> QED
  BY <1>3, <1>4, <1>5, <1>6, FS_Union

(* The heads while the blocks A are in use and the watchers D of them are  *)
(* dirty: the item of a watcher that is not is the head of an empty ring.  *)
AwaiterHeads(A) == {Released} \cup {QueueOf(b, e) : b \in A, e \in Event}
Heads(A, D) == {Dirty} \cup AwaiterHeads(A) \cup {ItemOf(b) : b \in A \ D}

(* The pointers l form the rings r.                                        *)
Meant(l, A, D, r) ==
  /\ A \subseteq Block /\ D \subseteq A
  /\ Woven(l, QueueNode, Heads(A, D), r)
  /\ ToSet(r[Dirty]) = {ItemOf(b) : b \in D}
  /\ \A x \in AwaiterHeads(A) : ToSet(r[x]) \subseteq Awaiter
  /\ \A b \in A \ D : r[ItemOf(b)] = <<>>

(* The pointers l form the queues q of awaiters, and a dirty queue of D.   *)
Shape(l, A, D, q) ==
  \E r : Meant(l, A, D, r) /\ q = [x \in AwaiterHeads(A) |-> r[x]]

HeadKinds(A, D) ==
  /\ Heads(A, D) \subseteq QueueNode /\ Heads(A, D) \cap Awaiter = {}
  /\ AwaiterHeads(A) \subseteq Heads(A, D)
  /\ Dirty \in Heads(A, D) /\ Dirty \notin AwaiterHeads(A)
  /\ Released \in AwaiterHeads(A)
  /\ \A b \in A, e \in Event : QueueOf(b, e) \in AwaiterHeads(A)
  /\ \A b \in Block : ItemOf(b) \in Heads(A, D) <=> b \in A \ D
  /\ \A b \in Block : ItemOf(b) \notin AwaiterHeads(A) /\ ItemOf(b) # Dirty
  /\ \A b \in Block, e \in Event : QueueOf(b, e) \in Heads(A, D) <=> b \in A
  /\ \A x \in Heads(A, D) : \/ x = Dirty \/ x \in AwaiterHeads(A)
                            \/ \E b \in A \ D : x = ItemOf(b)

LEMMA HeadsApart == \A A, D : A \subseteq Block /\ D \subseteq A => HeadKinds(A, D)
<1> SUFFICES ASSUME NEW A, NEW D, A \subseteq Block, D \subseteq A
             PROVE  HeadKinds(A, D)
  OBVIOUS
<1> USE DEF Heads, AwaiterHeads
<1>1. Heads(A, D) \subseteq QueueNode /\ Heads(A, D) \cap Awaiter = {}
  BY NodesApart
<1>2. Dirty \notin AwaiterHeads(A)
  BY NodesApart
<1>3. \A b \in Block : /\ ItemOf(b) \in Heads(A, D) <=> b \in A \ D
                       /\ ItemOf(b) \notin AwaiterHeads(A) /\ ItemOf(b) # Dirty
  BY NodesApart
<1>4. \A b \in Block, e \in Event : QueueOf(b, e) \in Heads(A, D) <=> b \in A
  BY NodesApart
<1> QED
  BY <1>1, <1>2, <1>3, <1>4 DEF HeadKinds

(* Some rings stay, the others are new and empty.                          *)
LEMMA Rewoven ==
  ASSUME NEW l, NEW N, NEW H, NEW r, Woven(l, N, H, r),
         NEW L \in Pointers(N), NEW G, NEW t, Family(N, G, t),
         \A h \in G : \/ h \in H /\ t[h] = r[h] /\ Untouched(l, L, r, h)
                      \/ t[h] = <<>> /\ L.next[h] = h /\ L.prev[h] = h
  PROVE  Woven(L, N, G, t)
<1>1. Leading(l, N, H, r) /\ Spread(N, H, r)
  BY WovenLeads, FamilySpread
<1>2. \A h \in G : Linked(L, h, t[h])
  BY <1>1, StillLinked, EmptyLinked
<1> QED
  BY <1>2 DEF Woven

(* What is at a place is the head or an item of the ring.                  *)
LEMMA SpotsOf ==
  \A N, H, r : Spread(N, H, r) =>
    \A g \in H : \A k \in 0..Len(r[g]) :
      Spot(r, g, k) \in N /\ (Spot(r, g, k) = g \/ Spot(r, g, k) \in ToSet(r[g]))
<1> SUFFICES ASSUME NEW N, NEW H, NEW r, Spread(N, H, r), NEW g \in H, NEW k \in 0..Len(r[g])
             PROVE  Spot(r, g, k) \in N /\ (Spot(r, g, k) = g \/ Spot(r, g, k) \in ToSet(r[g]))
  OBVIOUS
<1>1. /\ r[g] \in Seq(N \ H) /\ Len(r[g]) \in Nat /\ Spot(r, g, 0) = g /\ g \in N
      /\ \A j \in 1..Len(r[g]) : Spot(r, g, j) = r[g][j] /\ r[g][j] \in N
  BY DEF Spread
<1>2. \A j \in 1..Len(r[g]) : r[g][j] \in ToSet(r[g])
  BY <1>1, InSeq
<1>3. k = 0 \/ k \in 1..Len(r[g])
  BY <1>1
<1> QED
  BY <1>1, <1>2, <1>3

(* A head that is none any more.                                           *)
LEMMA Dropped ==
  ASSUME NEW l, NEW N, NEW H, NEW r, Woven(l, N, H, r), NEW G \in SUBSET H
  PROVE  Woven(l, N, G, [x \in G |-> r[x]])
<1> DEFINE t == [x \in G |-> r[x]]
<1>1. l \in Pointers(N) /\ Family(N, H, r)
  BY DEF Woven
<1>2. \A h \in G : h \in H /\ t[h] = r[h] /\ Untouched(l, l, r, h)
  BY DEF Untouched
<1>3. Family(N, G, t)
  <2>1. \A h \in G : t[h] \in Seq(N \ G)
    <3> TAKE h \in G
    <3>1. r[h] \in Seq(N \ H) /\ N \ H \subseteq N \ G
      BY <1>1 DEF Family
    <3> QED
      BY <3>1
  <2> QED
    BY <2>1, <1>1 DEF Family
<1> HIDE DEF t
<1>4. Woven(l, N, G, t)
  BY <1>1, <1>2, <1>3, Rewoven
<1> QED
  BY <1>4 DEF t

(* Nodes that are in no ring that stays become heads of empty rings.       *)
Inserted(l, H, r, S) ==
  Woven(Initialised(l, S), QueueNode, H \cup S,
        [x \in H \cup S |-> IF x \in S THEN <<>> ELSE r[x]])

LEMMA WeaveInit ==
  \A l, H, r, S :
    /\ Woven(l, QueueNode, H, r) /\ S \in SUBSET QueueNode
    /\ \A g \in H \ S : S \cap ToSet(r[g]) = {}
    => Inserted(l, H, r, S)
<1> SUFFICES ASSUME NEW l, NEW H, NEW r, NEW S, S \in SUBSET QueueNode,
                    Woven(l, QueueNode, H, r), \A g \in H \ S : S \cap ToSet(r[g]) = {}
             PROVE  Inserted(l, H, r, S)
  OBVIOUS
<1> DEFINE N == QueueNode
           L == Initialised(l, S)
           G == H \cup S
           t == [x \in G |-> IF x \in S THEN <<>> ELSE r[x]]
<1>1. l \in Pointers(N) /\ Family(N, H, r) /\ Spread(N, H, r)
  BY WovenLeads, FamilySpread
<1>2. L \in Pointers(N)
  BY <1>1 DEF Pointers, Initialised
<1>3. \A h \in H \ S : Untouched(l, L, r, h)
  <2> TAKE h \in H \ S
  <2>1. \A k \in 0..Len(r[h]) : Spot(r, h, k) \in N /\ Spot(r, h, k) \notin S
    BY <1>1, SpotsOf
  <2> QED
    BY <2>1 DEF Untouched, Initialised
<1>4. \A h \in S : t[h] = <<>> /\ L.next[h] = h /\ L.prev[h] = h
  BY DEF Initialised
<1>5. Family(N, G, t)
  <2>1. ASSUME NEW h \in G PROVE t[h] \in Seq(N \ G)
    <3>1. CASE h \in S
      BY <3>1, EmptyQueue
    <3>2. CASE h \notin S
      <4>1. r[h] \in Seq(N \ H) /\ S \cap ToSet(r[h]) = {}
        BY <3>2, <1>1 DEF Family
      <4>2. ToSet(r[h]) \subseteq N \ G
        BY <4>1, InSeq
      <4> QED
        BY <4>1, <4>2, <3>2, SeqOfItsSet
    <3> QED
      BY <3>1, <3>2
  <2>2. \A h \in G : h \in S => t[h] = <<>>
    OBVIOUS
  <2>3. \A h \in G : h \notin S => t[h] = r[h] /\ h \in H
    OBVIOUS
  <2>4. t \in [G -> Seq(N \ G)] /\ G \subseteq N
    BY <2>1, <1>1 DEF Family
  <2> HIDE DEF t, G
  <2>5. \A h \in G : IsInjective(t[h])
    BY <2>2, <2>3, <1>1, EmptyQueue DEF Family
  <2>6. \A h, g \in G : h # g => ToSet(t[h]) \cap ToSet(t[g]) = {}
    BY <2>2, <2>3, <1>1, EmptyQueue DEF Family
  <2> QED
    BY <2>4, <2>5, <2>6 DEF Family
<1>6. \A h \in G : \/ h \in H /\ t[h] = r[h] /\ Untouched(l, L, r, h)
                   \/ t[h] = <<>> /\ L.next[h] = h /\ L.prev[h] = h
  BY <1>3, <1>4
<1> HIDE DEF L, t, G, N
<1>7. Woven(L, N, G, t)
  BY <1>1, <1>2, <1>5, <1>6, Rewoven DEF N
<1> QED
  BY <1>7 DEF Inserted, L, t, G, N

(* What becomes of nodes that are in no ring does not matter.              *)
LEMMA WeaveForget ==
  ASSUME NEW l, NEW H, NEW r, Woven(l, QueueNode, H, r), NEW S,
         S \cap H = {}, \A g \in H : S \cap ToSet(r[g]) = {}
  PROVE  Woven(Forgotten(l, S), QueueNode, H, r)
<1> DEFINE L == Forgotten(l, S)
<1>1. l \in Pointers(QueueNode) /\ Family(QueueNode, H, r) /\ Spread(QueueNode, H, r)
  BY WovenLeads, FamilySpread
<1>2. L \in Pointers(QueueNode)
  BY <1>1 DEF Pointers, Forgotten
<1>3. \A h \in H : Untouched(l, L, r, h)
  <2> TAKE h \in H
  <2>1. \A k \in 0..Len(r[h]) : Spot(r, h, k) \in QueueNode /\ Spot(r, h, k) \notin S
    BY <1>1, SpotsOf
  <2> QED
    BY <2>1 DEF Untouched, Forgotten
<1> HIDE DEF L
<1>4. Woven(L, QueueNode, H, r)
  BY <1>1, <1>2, <1>3, Rewoven
<1> QED
  BY <1>4 DEF L

(* The pointers of an item of a ring lead to another node.                 *)
LEMMA ItemIsLinked ==
  ASSUME NEW l, NEW N, NEW H, NEW r, Woven(l, N, H, r), NEW h \in H, NEW x \in ToSet(r[h])
  PROVE  l.next[x] # x /\ l.next[x] \in N
<1> DEFINE n == Len(r[h])
<1>1. Placed(l, N, H, r, h)
  BY Places
<1>2. /\ n \in Nat /\ r[h] \in Seq(N \ H)
      /\ \A k \in 1..n : Spot(r, h, k) = r[h][k]
      /\ \A k \in Int : Spot(r, h, k) \in N
      /\ \A j, k \in 1..(n + 1) : Spot(r, h, j) = Spot(r, h, k) => j = k
      /\ \A k \in 0..n : l.next[Spot(r, h, k)] = Spot(r, h, k + 1)
  BY <1>1 DEF Placed
<1>3. PICK i \in 1..n : x = r[h][i]
  BY <1>2, InSeq
<1> HIDE DEF n
<1>4. /\ i \in 1..(n + 1) /\ i + 1 \in 1..(n + 1) /\ i # i + 1 /\ i \in 0..n /\ i + 1 \in Int
  BY <1>2
<1> QED
  BY <1>2, <1>3, <1>4

(* A head points to itself exactly if its ring is empty, and to the first  *)
(* item of it otherwise.                                                   *)
LEMMA HeadTells ==
  ASSUME NEW l, NEW N, NEW H, NEW r, Woven(l, N, H, r), NEW h \in H
  PROVE  /\ QUEUE_EMPTY(l, h) <=> r[h] = <<>>
         /\ r[h] # <<>> => Len(r[h]) \in Nat /\ 1 \in 1..Len(r[h]) /\ QUEUE_HEAD(l, h) = r[h][1]
<1> DEFINE n == Len(r[h])
<1>1. Placed(l, N, H, r, h)
  BY Places
<1>2. /\ n \in Nat /\ r[h] \in Seq(N \ H)
      /\ Spot(r, h, 0) = h /\ Spot(r, h, n + 1) = h
      /\ \A k \in 1..n : Spot(r, h, k) = r[h][k]
      /\ \A j, k \in 0..n : Spot(r, h, j) = Spot(r, h, k) => j = k
      /\ \A k \in 0..n : l.next[Spot(r, h, k)] = Spot(r, h, k + 1)
  BY <1>1 DEF Placed
<1>3. n = 0 <=> r[h] = <<>>
  BY <1>2, EmptySeq
<1> HIDE DEF n
<1>4. l.next[h] = Spot(r, h, 1)
  BY <1>2
<1>5. CASE n = 0
  BY <1>2, <1>3, <1>4, <1>5 DEF QUEUE_EMPTY
<1>6. CASE n # 0
  <2>1. 1 \in 1..n /\ 1 \in 0..n /\ 0 \in 0..n
    BY <1>2, <1>6
  <2>2. Spot(r, h, 1) # h
    BY <2>1, <1>2
  <2> QED
    BY <2>1, <2>2, <1>2, <1>3, <1>4, <1>6 DEF QUEUE_EMPTY, QUEUE_HEAD, n
<1> QED
  BY <1>5, <1>6

(* What follows: also, that the items of watchers that are not dirty, the  *)
(* heads of queues and awaiters that do not wait are in no ring.           *)
MeantKinds(l, A, D, r) ==
  LET H == Heads(A, D) IN
  /\ A \subseteq Block /\ D \subseteq A /\ HeadKinds(A, D)
  /\ Woven(l, QueueNode, H, r)
  /\ \A x \in H : r[x] \in Seq(QueueNode) /\ IsInjective(r[x])
  /\ \A x, y \in H : x # y => ToSet(r[x]) \cap ToSet(r[y]) = {}
  /\ ToSet(r[Dirty]) = {ItemOf(b) : b \in D}
  /\ \A x \in AwaiterHeads(A) : ToSet(r[x]) \subseteq Awaiter /\ r[x] \in Seq(Awaiter)
  /\ \A b \in A \ D : r[ItemOf(b)] = <<>>
  /\ \A b \in Block \ D : \A g \in H : ItemOf(b) \notin ToSet(r[g])
  /\ \A b \in Block, e \in Event : \A g \in H : QueueOf(b, e) \notin ToSet(r[g])
  /\ \A a \in Awaiter : (\A x \in AwaiterHeads(A) : a \notin ToSet(r[x])) =>
       \A g \in H : a \notin ToSet(r[g])

LEMMA MeantRings == \A l, A, D, r : Meant(l, A, D, r) => MeantKinds(l, A, D, r)
<1> SUFFICES ASSUME NEW l, NEW A, NEW D, NEW r, Meant(l, A, D, r)
             PROVE  MeantKinds(l, A, D, r)
  OBVIOUS
<1> DEFINE H == Heads(A, D)
<1>1. /\ A \subseteq Block /\ D \subseteq A
      /\ Woven(l, QueueNode, H, r)
      /\ ToSet(r[Dirty]) = {ItemOf(b) : b \in D}
      /\ \A x \in AwaiterHeads(A) : ToSet(r[x]) \subseteq Awaiter
      /\ \A b \in A \ D : r[ItemOf(b)] = <<>>
  BY DEF Meant
<1>2. HeadKinds(A, D)
  BY <1>1, HeadsApart
<1>3. /\ \A x \in H : r[x] \in Seq(QueueNode \ H) /\ IsInjective(r[x])
      /\ \A x, y \in H : x # y => ToSet(r[x]) \cap ToSet(r[y]) = {}
  BY <1>1 DEF Woven, Family
<1>4. \A x \in H : r[x] \in Seq(QueueNode)
  BY <1>3
<1>5. \A x \in AwaiterHeads(A) : r[x] \in Seq(Awaiter)
  <2> TAKE x \in AwaiterHeads(A)
  <2>1. r[x] \in Seq(QueueNode) /\ ToSet(r[x]) \subseteq Awaiter
    BY <1>1, <1>2, <1>4 DEF HeadKinds
  <2> QED
    BY <2>1, SeqOfItsSet
<1> HIDE DEF H
<1>6. \A g \in H : \A x \in ToSet(r[g]) :
        (\E b \in D : x = ItemOf(b)) \/ (x \in Awaiter /\ g \in AwaiterHeads(A))
  <2> TAKE g \in H
  <2> TAKE x \in ToSet(r[g])
  <2>1. g = Dirty \/ g \in AwaiterHeads(A) \/ \E b \in A \ D : g = ItemOf(b)
    BY <1>2 DEF HeadKinds, H
  <2>2. \A b \in A \ D : g # ItemOf(b)
    BY <1>1, EmptyQueue
  <2> QED
    BY <2>1, <2>2, <1>1
<1>7. /\ \A b \in Block \ D : \A g \in H : ItemOf(b) \notin ToSet(r[g])
      /\ \A b \in Block, e \in Event : \A g \in H : QueueOf(b, e) \notin ToSet(r[g])
  <2>1. D \subseteq Block
    BY <1>1
  <2> QED
    BY <2>1, <1>6, NodesApart
<1>8. \A a \in Awaiter : (\A x \in AwaiterHeads(A) : a \notin ToSet(r[x])) =>
        \A g \in H : a \notin ToSet(r[g])
  <2>1. D \subseteq Block
    BY <1>1
  <2> QED
    BY <2>1, <1>6, NodesApart
<1> QED
  BY <1>1, <1>2, <1>3, <1>4, <1>5, <1>7, <1>8 DEF MeantKinds, H

(* A watcher is put into the dirty queue, if it is not there.              *)
LEMMA MarkShape ==
  ASSUME NEW l, NEW A, NEW D, NEW q, Shape(l, A, D, q), NEW b \in A
  PROVE  Shape(MarkDirty(l, b), A, D \cup {b}, q)
<1> DEFINE N == QueueNode
           H == Heads(A, D)
           x == ItemOf(b)
<1>1. PICK r : Meant(l, A, D, r) /\ q = [h \in AwaiterHeads(A) |-> r[h]]
  BY DEF Shape
<1>2. MeantKinds(l, A, D, r)
  BY <1>1, MeantRings
<1>3. CASE b \in D
  <2>1. Dirty \in H /\ x \in ToSet(r[Dirty]) /\ Woven(l, N, H, r)
    BY <1>2, <1>3 DEF MeantKinds, HeadKinds
  <2>2. l.next[x] # x
    BY <2>1, ItemIsLinked
  <2>3. MarkDirty(l, b) = l /\ D \cup {b} = D
    BY <2>2, <1>3 DEF MarkDirty, QUEUE_EMPTY
  <2> QED
    BY <2>3
<1>4. CASE b \notin D
  <2> DEFINE G == Heads(A, D \cup {b})
             s == [h \in G |-> r[h]]
             t == [s EXCEPT ![Dirty] = Append(@, x)]
             L == QUEUE_INSERT_TAIL(l, Dirty, x)
  <2>1. /\ x \in H /\ r[x] = <<>> /\ Woven(l, N, H, r) /\ b \in Block
        /\ D \cup {b} \subseteq A /\ A \subseteq Block
        /\ \A g \in H : x \notin ToSet(r[g])
    BY <1>2, <1>4 DEF MeantKinds, HeadKinds
  <2>2. MarkDirty(l, b) = L
    BY <2>1, HeadTells DEF MarkDirty
  <2>3. HeadKinds(A, D) /\ HeadKinds(A, D \cup {b})
    BY <2>1, <1>2, HeadsApart DEF MeantKinds
  <2>4. Dirty \in G /\ x \in N /\ x \notin G /\ G \in SUBSET H
    <3>1. Dirty \in G /\ x \in N /\ x \notin G
      BY <2>1, <2>3, NodesApart DEF HeadKinds
    <3>2. G \subseteq H
      BY DEF Heads
    <3> QED
      BY <3>1, <3>2
  <2>5. Woven(l, N, G, s)
    BY <2>1, <2>4, Dropped
  <2>6. \A g \in G : x \notin ToSet(s[g])
    BY <2>1, <2>4
  <2> HIDE DEF G, s, L, H, N, x
  <2>7. Woven(L, N, G, t)
    BY <2>4, <2>5, <2>6, WeaveTail DEF L
  <2>8. /\ \A h \in G : h # Dirty => t[h] = r[h]
        /\ t[Dirty] = Append(r[Dirty], x)
    BY <2>4 DEF s
  <2> HIDE DEF t
  <2>9. ToSet(t[Dirty]) = {ItemOf(c) : c \in D \cup {b}}
    <3>1. r[Dirty] \in Seq(N) /\ ToSet(r[Dirty]) = {ItemOf(c) : c \in D}
      BY <1>2 DEF MeantKinds, HeadKinds, N
    <3>2. ToSet(Append(r[Dirty], x)) = ToSet(r[Dirty]) \cup {x}
      BY <3>1, <2>4, AppendQueue
    <3> QED
      BY <3>1, <3>2, <2>8 DEF x
  <2>10. \A h \in AwaiterHeads(A) : t[h] = r[h] /\ ToSet(t[h]) \subseteq Awaiter
    <3>1. \A h \in AwaiterHeads(A) : h \in G /\ h # Dirty /\ ToSet(r[h]) \subseteq Awaiter
      BY <1>2, <2>3 DEF MeantKinds, HeadKinds, G
    <3> QED
      BY <3>1, <2>8
  <2>11. \A c \in A \ (D \cup {b}) : t[ItemOf(c)] = <<>>
    <3>1. \A c \in A \ (D \cup {b}) : ItemOf(c) \in G /\ ItemOf(c) # Dirty /\ r[ItemOf(c)] = <<>>
      BY <1>2, <2>1, <2>3 DEF MeantKinds, HeadKinds, G
    <3> QED
      BY <3>1, <2>8
  <2>12. Meant(L, A, D \cup {b}, t)
    BY <2>1, <2>7, <2>9, <2>10, <2>11 DEF Meant, G, N
  <2>13. q = [h \in AwaiterHeads(A) |-> t[h]]
    BY <1>1, <2>10
  <2> QED
    BY <2>2, <2>12, <2>13 DEF Shape
<1> QED
  BY <1>3, <1>4

(* One queue of awaiters was exchanged for another.                        *)
LEMMA ChangedShape ==
  ASSUME NEW l, NEW A, NEW D, NEW r, Meant(l, A, D, r), NEW x \in AwaiterHeads(A),
         NEW s, ToSet(s) \subseteq Awaiter, NEW L,
         Woven(L, QueueNode, Heads(A, D), [r EXCEPT ![x] = s])
  PROVE  Shape(L, A, D, [[h \in AwaiterHeads(A) |-> r[h]] EXCEPT ![x] = s])
<1> DEFINE t == [r EXCEPT ![x] = s]
<1>1. MeantKinds(l, A, D, r)
  BY MeantRings
<1>2. HeadKinds(A, D) /\ x \in Heads(A, D) /\ x # Dirty /\ \A b \in A : x # ItemOf(b)
  BY <1>1 DEF MeantKinds, HeadKinds
<1>3. r \in [Heads(A, D) -> Seq(QueueNode \ Heads(A, D))]
  BY <1>1 DEF MeantKinds, Woven, Family
<1>4. t[x] = s /\ \A h \in Heads(A, D) : h # x => t[h] = r[h]
  BY <1>2, <1>3
<1> HIDE DEF t
<1>5. /\ ToSet(t[Dirty]) = {ItemOf(b) : b \in D}
      /\ \A h \in AwaiterHeads(A) : ToSet(t[h]) \subseteq Awaiter
      /\ \A b \in A \ D : t[ItemOf(b)] = <<>>
  <2>1. Dirty \in Heads(A, D) /\ AwaiterHeads(A) \subseteq Heads(A, D)
        /\ \A b \in A \ D : ItemOf(b) \in Heads(A, D) /\ b \in A
    BY <1>1, <1>2 DEF MeantKinds, HeadKinds
  <2> QED
    BY <2>1, <1>1, <1>2, <1>4 DEF MeantKinds
<1>6. Meant(L, A, D, t)
  BY <1>1, <1>5 DEF Meant, MeantKinds, t
<1>7. [[h \in AwaiterHeads(A) |-> r[h]] EXCEPT ![x] = s] = [h \in AwaiterHeads(A) |-> t[h]]
  BY <1>2, <1>4 DEF HeadKinds
<1> QED
  BY <1>6, <1>7 DEF Shape

(* The queues of awaiters are sequences without repetitions and apart.     *)
QueuesApart(A, q) ==
  /\ q \in [AwaiterHeads(A) -> Seq(Awaiter)]
  /\ \A x \in AwaiterHeads(A) : IsInjective(q[x])
  /\ \A x, y \in AwaiterHeads(A) : x # y => ToSet(q[x]) \cap ToSet(q[y]) = {}

(* What the pointers tell of the queues.                                   *)
Tells(l, A, D, q) ==
  /\ A \subseteq Block /\ D \subseteq A /\ HeadKinds(A, D) /\ l \in Pointers(QueueNode)
  /\ QueuesApart(A, q)
  /\ \A x \in AwaiterHeads(A) :
       /\ QUEUE_FOREACH(l, x) = q[x]
       /\ QUEUE_EMPTY(l, x) <=> q[x] = <<>>
       /\ q[x] # <<>> => Len(q[x]) \in Nat /\ 1 \in 1..Len(q[x]) /\ QUEUE_HEAD(l, x) = q[x][1]
       /\ \A a \in ToSet(q[x]) : l.next[a] \in QueueNode
  /\ \A b \in A : QUEUE_EMPTY(l, ItemOf(b)) <=> b \notin D
  /\ DirtyIn(l) = D
  /\ ToSet(QUEUE_FOREACH(l, Dirty)) = {ItemOf(b) : b \in D}

LEMMA ShapeTells == \A l, A, D, q : Shape(l, A, D, q) => Tells(l, A, D, q)
<1> SUFFICES ASSUME NEW l, NEW A, NEW D, NEW q, Shape(l, A, D, q)
             PROVE  Tells(l, A, D, q)
  OBVIOUS
<1> DEFINE N == QueueNode
           H == Heads(A, D)
<1>1. PICK r : Meant(l, A, D, r) /\ q = [h \in AwaiterHeads(A) |-> r[h]]
  BY DEF Shape
<1>2. MeantKinds(l, A, D, r)
  BY <1>1, MeantRings
<1>3. /\ A \subseteq Block /\ D \subseteq A /\ HeadKinds(A, D) /\ Woven(l, N, H, r)
      /\ AwaiterHeads(A) \subseteq H /\ Dirty \in H
      /\ ToSet(r[Dirty]) = {ItemOf(b) : b \in D}
  BY <1>2 DEF MeantKinds, HeadKinds
<1>4. l \in Pointers(N)
  BY <1>3 DEF Woven
<1>5. \A x \in AwaiterHeads(A) : q[x] = r[x]
  BY <1>1
<1>6. QueuesApart(A, q)
  BY <1>1, <1>2, <1>3 DEF QueuesApart, MeantKinds
<1>7. \A h \in H : QUEUE_FOREACH(l, h) = r[h]
  BY <1>3, NodesFinite, ForeachVisits
<1>8. ASSUME NEW x \in AwaiterHeads(A)
      PROVE  /\ QUEUE_FOREACH(l, x) = q[x]
             /\ QUEUE_EMPTY(l, x) <=> q[x] = <<>>
             /\ q[x] # <<>> => Len(q[x]) \in Nat /\ 1 \in 1..Len(q[x]) /\ QUEUE_HEAD(l, x) = q[x][1]
             /\ \A a \in ToSet(q[x]) : l.next[a] \in QueueNode
  <2>1. x \in H /\ q[x] = r[x]
    BY <1>3, <1>5
  <2>2. QUEUE_FOREACH(l, x) = r[x]
    BY <2>1, <1>7
  <2>3. /\ QUEUE_EMPTY(l, x) <=> r[x] = <<>>
        /\ r[x] # <<>> => Len(r[x]) \in Nat /\ 1 \in 1..Len(r[x]) /\ QUEUE_HEAD(l, x) = r[x][1]
    BY <2>1, <1>3, HeadTells
  <2>4. \A a \in ToSet(r[x]) : l.next[a] \in QueueNode
    BY <2>1, <1>3, ItemIsLinked
  <2> QED
    BY <2>1, <2>2, <2>3, <2>4
<1>9. ASSUME NEW b \in A
      PROVE  QUEUE_EMPTY(l, ItemOf(b)) <=> b \notin D
  <2>1. CASE b \in D
    <3>1. ItemOf(b) \in ToSet(r[Dirty])
      BY <2>1, <1>3
    <3>2. l.next[ItemOf(b)] # ItemOf(b)
      BY <3>1, <1>3, ItemIsLinked
    <3> QED
      BY <2>1, <3>2 DEF QUEUE_EMPTY
  <2>2. CASE b \notin D
    <3>1. ItemOf(b) \in H /\ r[ItemOf(b)] = <<>>
      BY <2>2, <1>2 DEF MeantKinds, HeadKinds
    <3>2. QUEUE_EMPTY(l, ItemOf(b))
      BY <3>1, <1>3, HeadTells
    <3> QED
      BY <2>2, <3>2
  <2> QED
    BY <2>1, <2>2
<1>10. ToSet(QUEUE_FOREACH(l, Dirty)) = {ItemOf(b) : b \in D}
  BY <1>3, <1>7
<1>11. DirtyIn(l) = D
  <2>1. \A b \in D : ItemOf(b)[1] = b
    BY <1>3, NodesApart
  <2> QED
    BY <2>1, <1>10 DEF DirtyIn
<1> QED
  BY <1>3, <1>4, <1>6, <1>8, <1>9, <1>10, <1>11 DEF Tells

(* What the item of a watcher tells.                                       *)
ItemTells(l, D, b) == QUEUE_EMPTY(l, ItemOf(b)) <=> b \notin D

(* An awaiter that is in no queue goes to the end of one.                  *)
LEMMA AppendShape ==
  ASSUME NEW l, NEW A, NEW D, NEW q, Shape(l, A, D, q), NEW x \in AwaiterHeads(A),
         NEW a \in Awaiter, \A y \in AwaiterHeads(A) : a \notin ToSet(q[y])
  PROVE  Shape(QUEUE_INSERT_TAIL(l, x, a), A, D, [q EXCEPT ![x] = Append(@, a)])
<1>1. PICK r : Meant(l, A, D, r) /\ q = [h \in AwaiterHeads(A) |-> r[h]]
  BY DEF Shape
<1>2. MeantKinds(l, A, D, r)
  BY <1>1, MeantRings
<1>3. /\ Woven(l, QueueNode, Heads(A, D), r) /\ x \in Heads(A, D)
      /\ \A g \in Heads(A, D) : a \notin ToSet(r[g])
      /\ r[x] \in Seq(Awaiter) /\ ToSet(r[x]) \subseteq Awaiter
  <2>1. \A y \in AwaiterHeads(A) : a \notin ToSet(r[y])
    BY <1>1
  <2> QED
    BY <2>1, <1>2 DEF MeantKinds, HeadKinds
<1>4. a \in QueueNode \ Heads(A, D)
  BY <1>2, NodesApart DEF MeantKinds, HeadKinds
<1>5. Woven(QUEUE_INSERT_TAIL(l, x, a), QueueNode, Heads(A, D), [r EXCEPT ![x] = Append(r[x], a)])
  BY <1>3, <1>4, WeaveTail
<1>6. ToSet(Append(r[x], a)) \subseteq Awaiter
  BY <1>3, AppendQueue
<1>7. Shape(QUEUE_INSERT_TAIL(l, x, a), A, D, [q EXCEPT ![x] = Append(r[x], a)])
  <2> DEFINE s == Append(r[x], a)
             L == QUEUE_INSERT_TAIL(l, x, a)
  <2>1. Woven(L, QueueNode, Heads(A, D), [r EXCEPT ![x] = s]) /\ ToSet(s) \subseteq Awaiter
    BY <1>5, <1>6
  <2> HIDE DEF s, L
  <2>2. Shape(L, A, D, [[h \in AwaiterHeads(A) |-> r[h]] EXCEPT ![x] = s])
    BY <2>1, <1>1, ChangedShape
  <2> QED
    BY <2>2, <1>1 DEF s, L
<1> QED
  BY <1>1, <1>7

Removed(l, N, H, r, h, i) ==
  LET L == QUEUE_REMOVE(l, r[h][i])
      t == [r EXCEPT ![h] = RemoveAt(@, i)]
  IN  /\ Woven(L, N, H, t)
      /\ L.next[r[h][i]] = L.prev[r[h][i]] <=> t[h] = <<>>
      /\ t[h] = <<>> => L.next[r[h][i]] = h

LEMMA RemovedRing ==
  \A l, N, H, r : \A h \in H : \A i \in 1..Len(r[h]) :
    Woven(l, N, H, r) => Removed(l, N, H, r, h, i)
<1> SUFFICES ASSUME NEW l, NEW N, NEW H, NEW r, NEW h \in H, NEW i \in 1..Len(r[h]),
                    Woven(l, N, H, r)
             PROVE  Removed(l, N, H, r, h, i)
  OBVIOUS
<1> QED
  BY WeaveRemove DEF Removed

(* An awaiter leaves a queue: its pointers tell whether that is empty now. *)
RemovedShape(l, A, D, q, x, i) ==
  LET L == QUEUE_REMOVE(l, q[x][i]) IN
  /\ Shape(L, A, D, [q EXCEPT ![x] = RemoveAt(q[x], i)])
  /\ L.next[q[x][i]] = L.prev[q[x][i]] <=> RemoveAt(q[x], i) = <<>>
  /\ RemoveAt(q[x], i) = <<>> => L.next[q[x][i]] = x

LEMMA RemoveShape ==
  \A l, A, D, q : Shape(l, A, D, q) =>
    \A x \in AwaiterHeads(A) : \A i \in 1..Len(q[x]) : RemovedShape(l, A, D, q, x, i)
<1> SUFFICES ASSUME NEW l, NEW A, NEW D, NEW q, Shape(l, A, D, q), NEW x \in AwaiterHeads(A),
                    NEW i \in 1..Len(q[x])
             PROVE  RemovedShape(l, A, D, q, x, i)
  OBVIOUS
<1> DEFINE L == QUEUE_REMOVE(l, q[x][i])
<1>1. PICK r : Meant(l, A, D, r) /\ q = [h \in AwaiterHeads(A) |-> r[h]]
  BY DEF Shape
<1>2. MeantKinds(l, A, D, r)
  BY <1>1, MeantRings
<1>3. /\ Woven(l, QueueNode, Heads(A, D), r) /\ x \in Heads(A, D) /\ q[x] = r[x]
      /\ r[x] \in Seq(Awaiter) /\ ToSet(r[x]) \subseteq Awaiter /\ IsInjective(r[x])
      /\ r \in [Heads(A, D) -> Seq(QueueNode \ Heads(A, D))]
  BY <1>1, <1>2 DEF MeantKinds, HeadKinds, Woven, Family
<1>4. i \in 1..Len(r[x]) /\ L = QUEUE_REMOVE(l, r[x][i])
  BY <1>3
<1> HIDE DEF L
<1>5. /\ Woven(L, QueueNode, Heads(A, D), [r EXCEPT ![x] = RemoveAt(@, i)])
      /\ L.next[r[x][i]] = L.prev[r[x][i]] <=> [r EXCEPT ![x] = RemoveAt(@, i)][x] = <<>>
      /\ [r EXCEPT ![x] = RemoveAt(@, i)][x] = <<>> => L.next[r[x][i]] = x
  <2>1. Removed(l, QueueNode, Heads(A, D), r, x, i)
    BY <1>3, <1>4, RemovedRing
  <2> QED
    BY <2>1, <1>4 DEF Removed
<1> DEFINE s == RemoveAt(r[x], i)
<1>6. ToSet(s) \subseteq Awaiter
  BY <1>3, <1>4, RemoveFromQueue
<1>7. Woven(L, QueueNode, Heads(A, D), [r EXCEPT ![x] = s]) /\ [r EXCEPT ![x] = s][x] = s
  BY <1>3, <1>5
<1>8. /\ L.next[r[x][i]] = L.prev[r[x][i]] <=> s = <<>>
      /\ s = <<>> => L.next[r[x][i]] = x
  BY <1>3, <1>5
<1> HIDE DEF s
<1>9. Shape(L, A, D, [[h \in AwaiterHeads(A) |-> r[h]] EXCEPT ![x] = s])
  <2>1. x \in AwaiterHeads(A) /\ Meant(l, A, D, r)
        /\ Woven(L, QueueNode, Heads(A, D), [r EXCEPT ![x] = s])
    BY <1>1, <1>7
  <2> QED
    BY <2>1, <1>6, ChangedShape, SMTT(30)
<1> QED
  BY <1>1, <1>3, <1>8, <1>9 DEF RemovedShape, L, s

(* The items of one queue go to the caller's queue.                        *)
LEMMA MoveShape ==
  ASSUME NEW l, NEW A, NEW D, NEW q, Shape(l, A, D, q), NEW x \in AwaiterHeads(A), x # Released
  PROVE  Shape(Move(l, x), A, D, [q EXCEPT ![Released] = @ \o q[x], ![x] = <<>>])
<1> DEFINE H == Heads(A, D)
<1>1. PICK r : Meant(l, A, D, r) /\ q = [h \in AwaiterHeads(A) |-> r[h]]
  BY DEF Shape
<1>2. MeantKinds(l, A, D, r)
  BY <1>1, MeantRings
<1>3. /\ A \subseteq Block /\ D \subseteq A /\ HeadKinds(A, D)
      /\ Woven(l, QueueNode, H, r) /\ x \in H /\ Released \in H /\ Released \in AwaiterHeads(A)
      /\ Dirty \in H /\ Dirty # x /\ Dirty # Released /\ AwaiterHeads(A) \subseteq H
      /\ \A h \in AwaiterHeads(A) : r[h] \in Seq(Awaiter) /\ ToSet(r[h]) \subseteq Awaiter /\ q[h] = r[h]
      /\ r \in [H -> Seq(QueueNode \ H)]
      /\ \A b \in A \ D : ItemOf(b) \in H /\ ItemOf(b) # x /\ ItemOf(b) # Released
  BY <1>1, <1>2 DEF MeantKinds, HeadKinds, Woven, Family
<1>4. QUEUE_EMPTY(l, x) <=> r[x] = <<>>
  BY <1>3, HeadTells
<1>5. CASE r[x] = <<>>
  <2>1. Move(l, x) = l
    BY <1>4, <1>5 DEF Move
  <2>2. q[Released] \o q[x] = q[Released]
    <3>1. q[Released] \in Seq(Awaiter) /\ q[x] = <<>>
      BY <1>3, <1>5
    <3> QED
      BY <3>1, ConcatEmptySeq
  <2>3. [q EXCEPT ![Released] = @ \o q[x], ![x] = <<>>] = q
    BY <1>1, <1>3, <1>5, <2>2
  <2> QED
    BY <2>1, <2>3
<1>6. CASE r[x] # <<>>
  <2> DEFINE L == QUEUE_INIT(QUEUE_ADD(l, Released, x), x)
             t == [r EXCEPT ![Released] = @ \o r[x], ![x] = <<>>]
  <2>1. Move(l, x) = L
    BY <1>4, <1>6 DEF Move
  <2>2. Woven(L, QueueNode, H, t)
    BY <1>3, <1>6, WeaveJoin
  <2>3. /\ t[Released] = r[Released] \o r[x] /\ t[x] = <<>>
        /\ \A h \in H : h # x /\ h # Released => t[h] = r[h]
    BY <1>3
  <2> HIDE DEF L, t, H
  <2>4. \A h \in AwaiterHeads(A) : ToSet(t[h]) \subseteq Awaiter
    <3>1. ToSet(r[Released] \o r[x]) \subseteq Awaiter
      BY <1>3, ConcatQueue
    <3> QED
      BY <3>1, <2>3, <1>3, EmptyQueue
  <2>5. Meant(L, A, D, t)
    BY <2>2, <2>3, <2>4, <1>2, <1>3 DEF Meant, MeantKinds, H
  <2>6. [q EXCEPT ![Released] = @ \o q[x], ![x] = <<>>] = [h \in AwaiterHeads(A) |-> t[h]]
    <3>1. \A h \in AwaiterHeads(A) : h \in H /\ q[h] = r[h]
      BY <1>3
    <3> QED
      BY <3>1, <2>3, <1>1, <1>3
  <2> QED
    BY <2>1, <2>5, <2>6 DEF Shape
<1> QED
  BY <1>5, <1>6

(* Awaiters that are in no queue are forgotten.                            *)
LEMMA ForgetShape ==
  ASSUME NEW l, NEW A, NEW D, NEW q, Shape(l, A, D, q), NEW S \in SUBSET Awaiter,
         \A x \in AwaiterHeads(A) : S \cap ToSet(q[x]) = {}
  PROVE  Shape(Forgotten(l, S), A, D, q)
<1>1. PICK r : Meant(l, A, D, r) /\ q = [h \in AwaiterHeads(A) |-> r[h]]
  BY DEF Shape
<1>2. MeantKinds(l, A, D, r)
  BY <1>1, MeantRings
<1>3. \A a \in S : \A x \in AwaiterHeads(A) : a \notin ToSet(r[x])
  BY <1>1
<1>4. /\ Woven(l, QueueNode, Heads(A, D), r) /\ S \cap Heads(A, D) = {}
      /\ \A g \in Heads(A, D) : S \cap ToSet(r[g]) = {}
  BY <1>2, <1>3 DEF MeantKinds, HeadKinds
<1>5. Woven(Forgotten(l, S), QueueNode, Heads(A, D), r)
  BY <1>4, WeaveForget
<1>6. Meant(Forgotten(l, S), A, D, r)
  BY <1>1, <1>5 DEF Meant
<1> QED
  BY <1>1, <1>6 DEF Shape

(* The caller takes over its queue.                                        *)
LEMMA HandOverShape ==
  ASSUME NEW l, NEW A, NEW D, NEW q, Shape(l, A, D, q)
  PROVE  Shape(HandOver(l), A, D, [q EXCEPT ![Released] = <<>>])
<1>1. PICK r : Meant(l, A, D, r) /\ q = [h \in AwaiterHeads(A) |-> r[h]]
  BY DEF Shape
<1>2. MeantKinds(l, A, D, r)
  BY <1>1, MeantRings
<1>3. /\ Woven(l, QueueNode, Heads(A, D), r)
      /\ Released \in Heads(A, D) /\ Released \in AwaiterHeads(A)
      /\ ToSet(r[Released]) \in SUBSET Awaiter
      /\ \A x \in AwaiterHeads(A) :
           x # Released => ToSet(r[Released]) \cap ToSet(r[x]) = {}
  BY <1>2 DEF MeantKinds, HeadKinds
<1> DEFINE L == QUEUE_INIT(l, Released)
           p == [q EXCEPT ![Released] = <<>>]
           S == ToSet(r[Released])
<1>4. Shape(L, A, D, p)
  <2>1. Woven(L, QueueNode, Heads(A, D), [r EXCEPT ![Released] = <<>>])
    BY <1>3, WeaveClear
  <2> DEFINE s == <<>>
  <2>2. Woven(L, QueueNode, Heads(A, D), [r EXCEPT ![Released] = s]) /\ ToSet(s) \subseteq Awaiter
    BY <2>1, EmptyQueue
  <2> HIDE DEF s, L
  <2>3. Shape(L, A, D, [[h \in AwaiterHeads(A) |-> r[h]] EXCEPT ![Released] = s])
    BY <2>2, <1>1, <1>3, ChangedShape
  <2> QED
    BY <2>3, <1>1 DEF s
<1>5. \A x \in AwaiterHeads(A) : S \cap ToSet(p[x]) = {}
  BY <1>1, <1>3, EmptyQueue
<1>6. QUEUE_FOREACH(l, Released) = r[Released]
  BY <1>3, NodesFinite, ForeachVisits
<1>7. HandOver(l) = Forgotten(L, S)
  BY <1>6 DEF HandOver
<1> HIDE DEF L, p
<1>8. Shape(Forgotten(L, S), A, D, p)
  BY <1>3, <1>4, <1>5, ForgetShape
<1> QED
  BY <1>7, <1>8 DEF p

(* The QUEUEs of a new watcher.                                            *)
LEMMA CreateShape ==
  ASSUME NEW l, NEW A, NEW D, NEW q, Shape(l, A, D, q), NEW b \in Block \ A
  PROVE  Shape(Initialised(l, Queues(b)), A \cup {b}, D,
               [x \in AwaiterHeads(A \cup {b}) |-> IF x \in Queues(b) THEN <<>> ELSE q[x]])
<1> DEFINE H == Heads(A, D)
           S == Queues(b)
           G == Heads(A \cup {b}, D)
           L == Initialised(l, S)
<1>1. PICK r : Meant(l, A, D, r) /\ q = [h \in AwaiterHeads(A) |-> r[h]]
  BY DEF Shape
<1>2. MeantKinds(l, A, D, r)
  BY <1>1, MeantRings
<1>3. /\ A \subseteq Block /\ D \subseteq A /\ b \in Block /\ b \notin D
      /\ HeadKinds(A, D) /\ HeadKinds(A \cup {b}, D)
      /\ Woven(l, QueueNode, H, r)
  BY <1>2, HeadsApart DEF MeantKinds
<1>4. S \in SUBSET QueueNode /\ \A g \in H : S \cap ToSet(r[g]) = {}
  <2>1. S \subseteq QueueNode
    BY DEF QueueNode
  <2>2. \A g \in H : /\ ItemOf(b) \notin ToSet(r[g])
                     /\ \A e \in Event : QueueOf(b, e) \notin ToSet(r[g])
    BY <1>2, <1>3 DEF MeantKinds
  <2> QED
    BY <2>1, <2>2 DEF Queues
<1>5. H \cup S = G
  BY <1>3 DEF Heads, AwaiterHeads, Queues
<1> DEFINE u == [x \in G |-> IF x \in S THEN <<>> ELSE r[x]]
<1>6. Woven(L, QueueNode, G, u)
  <2> HIDE DEF S, G, H
  <2>1. Inserted(l, H, r, S)
    BY <1>3, <1>4, WeaveInit
  <2> QED
    BY <2>1, <1>5 DEF Inserted, L
<1>7. /\ Dirty \notin S /\ Dirty \in G /\ Dirty \in H /\ AwaiterHeads(A \cup {b}) \subseteq G
      /\ \A x \in AwaiterHeads(A \cup {b}) : x \notin S => x \in AwaiterHeads(A)
      /\ \A c \in (A \cup {b}) \ D : ItemOf(c) \in G /\ (c # b => c \in A \ D)
  <2>1. Dirty \notin S
    BY <1>3, NodesApart DEF Queues
  <2>2. \A x \in AwaiterHeads(A \cup {b}) : x \notin S => x \in AwaiterHeads(A)
    BY DEF AwaiterHeads, Queues
  <2> QED
    BY <2>1, <2>2, <1>3 DEF HeadKinds
<1>8. \A x \in AwaiterHeads(A \cup {b}) : u[x] = IF x \in S THEN <<>> ELSE q[x]
  BY <1>1, <1>7
<1> HIDE DEF H, S, G, L
<1>9. Meant(L, A \cup {b}, D, u)
  <2>1. ToSet(u[Dirty]) = {ItemOf(c) : c \in D}
    BY <1>2, <1>7 DEF MeantKinds
  <2>2. \A x \in AwaiterHeads(A \cup {b}) : ToSet(u[x]) \subseteq Awaiter
    BY <1>2, <1>7, EmptyQueue DEF MeantKinds
  <2>3. \A c \in (A \cup {b}) \ D : u[ItemOf(c)] = <<>>
    <3>1. ItemOf(b) \in S
      BY DEF S, Queues
    <3> QED
      BY <3>1, <1>2, <1>7 DEF MeantKinds
  <2> QED
    BY <2>1, <2>2, <2>3, <1>3, <1>6 DEF Meant, G
<1>10. [x \in AwaiterHeads(A \cup {b}) |-> IF x \in S THEN <<>> ELSE q[x]]
         = [x \in AwaiterHeads(A \cup {b}) |-> u[x]]
  BY <1>8
<1> QED
  BY <1>9, <1>10 DEF Shape, L, S


(* The dirty queue is gone through: its items lead to themselves again.    *)
LEMMA CleanShape ==
  ASSUME NEW l, NEW A, NEW D, NEW q, Shape(l, A, D, q)
  PROVE  Shape(Cleaned(l), A, {}, q)
<1> DEFINE H == Heads(A, D)
           G == Heads(A, {})
<1>1. PICK r : Meant(l, A, D, r) /\ q = [h \in AwaiterHeads(A) |-> r[h]]
  BY DEF Shape
<1>2. MeantKinds(l, A, D, r)
  BY <1>1, MeantRings
<1>3. /\ A \subseteq Block /\ D \subseteq A /\ HeadKinds(A, D) /\ HeadKinds(A, {})
      /\ Woven(l, QueueNode, H, r) /\ Dirty \in H
      /\ ToSet(r[Dirty]) = {ItemOf(b) : b \in D}
      /\ r[Dirty] \in Seq(QueueNode)
  BY <1>2, HeadsApart DEF MeantKinds, HeadKinds
<1> DEFINE S == ToSet(r[Dirty]) \cup {Dirty}
           L == Initialised(l, S)
<1>4. Cleaned(l) = L
  <2>1. QUEUE_FOREACH(l, Dirty) = r[Dirty]
    BY <1>3, NodesFinite, ForeachVisits
  <2> QED
    BY <2>1 DEF Cleaned
<1>5. /\ S \in SUBSET QueueNode
      /\ \A g \in H \ S : S \cap ToSet(r[g]) = {}
  <2>1. S \subseteq QueueNode
    BY <1>3, NodesApart, InSeq
  <2>2. ASSUME NEW g \in H, g # Dirty
        PROVE  ToSet(r[Dirty]) \cap ToSet(r[g]) = {} /\ Dirty \notin ToSet(r[g])
    <3>1. ToSet(r[Dirty]) \cap ToSet(r[g]) = {}
      BY <2>2, <1>2, <1>3 DEF MeantKinds
    <3>2. ToSet(r[g]) \subseteq QueueNode \ H
      <4>1. r[g] \in Seq(QueueNode \ H)
        BY <1>3 DEF Woven, Family
      <4> QED
        BY <4>1, InSeq
    <3> QED
      BY <3>1, <3>2, <1>3
  <2> QED
    BY <2>1, <2>2
<1>6. H \cup S = G
  BY <1>3 DEF Heads
<1> DEFINE u == [x \in G |-> IF x \in S THEN <<>> ELSE r[x]]
<1>7. Woven(L, QueueNode, G, u)
  <2> HIDE DEF S, G, H
  <2>1. Inserted(l, H, r, S)
    BY <1>3, <1>5, WeaveInit
  <2> QED
    BY <2>1, <1>6 DEF Inserted, L
<1>8. /\ Dirty \in S /\ Dirty \in G /\ AwaiterHeads(A) \subseteq G
      /\ \A x \in AwaiterHeads(A) : x \notin S
      /\ \A b \in A : ItemOf(b) \in G /\ (ItemOf(b) \in S \/ b \in A \ D)
  BY <1>3 DEF HeadKinds
<1> HIDE DEF H, S, G, L
<1>9. Meant(L, A, {}, u)
  <2>1. ToSet(u[Dirty]) = {ItemOf(c) : c \in {}}
    BY <1>8, EmptyQueue
  <2>2. \A x \in AwaiterHeads(A) : ToSet(u[x]) \subseteq Awaiter
    BY <1>2, <1>8 DEF MeantKinds
  <2>3. \A c \in A : u[ItemOf(c)] = <<>>
    BY <1>2, <1>8 DEF MeantKinds
  <2> QED
    BY <2>1, <2>2, <2>3, <1>3, <1>7 DEF Meant, G
<1>10. q = [x \in AwaiterHeads(A) |-> u[x]]
  BY <1>1, <1>8
<1> QED
  BY <1>4, <1>9, <1>10 DEF Shape

(* A watcher without awaiters leaves the dirty queue and is freed.         *)
LEMMA DestroyShape ==
  ASSUME NEW l, NEW A, NEW D, NEW q, Shape(l, A, D, q), NEW b \in A,
         \A e \in Event : q[QueueOf(b, e)] = <<>>
  PROVE  Shape(Forgotten(LeaveDirtyQueue(l, b), Queues(b)), A \ {b}, D \ {b},
               [x \in AwaiterHeads(A \ {b}) |-> q[x]])
<1> DEFINE H == Heads(A, D)
           B == A \ {b}
           E == D \ {b}
           G == Heads(B, E)
           S == Queues(b)
           K == LeaveDirtyQueue(l, b)
           L == Forgotten(K, S)
<1>1. PICK r : Meant(l, A, D, r) /\ q = [h \in AwaiterHeads(A) |-> r[h]]
  BY DEF Shape
<1>2. MeantKinds(l, A, D, r)
  BY <1>1, MeantRings
<1>3. /\ A \subseteq Block /\ D \subseteq A /\ HeadKinds(A, D)
      /\ B \subseteq Block /\ E \subseteq B /\ HeadKinds(B, E)
      /\ Woven(l, QueueNode, H, r) /\ b \in Block /\ b \notin E
  BY <1>2, HeadsApart DEF MeantKinds
<1>4. /\ Dirty \in G /\ G \in SUBSET H /\ AwaiterHeads(B) \subseteq AwaiterHeads(A)
      /\ AwaiterHeads(B) \subseteq G
      /\ \A c \in B \ E : ItemOf(c) \in G /\ c \in A \ D
      /\ S \cap G = {}
  <2>1. G \subseteq H /\ AwaiterHeads(B) \subseteq AwaiterHeads(A)
    BY DEF Heads, AwaiterHeads
  <2>2. S \cap G = {}
    <3>1. b \notin B
      OBVIOUS
    <3> HIDE DEF B, E
    <3>2. ItemOf(b) \notin G /\ \A e \in Event : QueueOf(b, e) \notin G
      BY <3>1, <1>3 DEF HeadKinds
    <3> QED
      BY <3>2 DEF Queues
  <2> QED
    BY <2>1, <2>2, <1>3 DEF HeadKinds
<1>5. \E t : /\ Woven(K, QueueNode, H, t)
             /\ \A h \in H : h # Dirty => t[h] = r[h]
             /\ ToSet(t[Dirty]) = {ItemOf(c) : c \in E}
  <2>1. ItemTells(l, D, b)
    BY ShapeTells DEF ItemTells, Tells
  <2>2. CASE b \notin D
    <3>1. K = l /\ E = D
      BY <2>1, <2>2 DEF LeaveDirtyQueue, ItemTells
    <3> QED
      BY <3>1, <1>2, <1>3 DEF MeantKinds
  <2>3. CASE b \in D
    <3>1. K = QUEUE_REMOVE(l, ItemOf(b))
      BY <2>1, <2>3 DEF LeaveDirtyQueue, ItemTells
    <3>2. /\ ItemOf(b) \in ToSet(r[Dirty]) /\ r[Dirty] \in Seq(QueueNode)
          /\ IsInjective(r[Dirty]) /\ Dirty \in H
          /\ ToSet(r[Dirty]) = {ItemOf(c) : c \in D}
      BY <2>3, <1>2, <1>3 DEF MeantKinds, HeadKinds
    <3>3. PICK i \in 1..Len(r[Dirty]) : ItemOf(b) = r[Dirty][i]
      <4>1. ToSet(r[Dirty]) = {r[Dirty][i] : i \in 1..Len(r[Dirty])}
        BY <3>2, InSeq
      <4> QED
        BY <4>1, <3>2
    <3> DEFINE t == [r EXCEPT ![Dirty] = RemoveAt(@, i)]
    <3>4. Removed(l, QueueNode, H, r, Dirty, i)
      BY <3>2, <3>3, <1>3, RemovedRing
    <3>5. Woven(K, QueueNode, H, t)
      BY <3>1, <3>3, <3>4 DEF Removed
    <3>6. ToSet(RemoveAt(r[Dirty], i)) = ToSet(r[Dirty]) \ {ItemOf(b)}
      BY <3>2, <3>3, RemoveFromQueue
    <3>7. {ItemOf(c) : c \in D} \ {ItemOf(b)} = {ItemOf(c) : c \in E}
      <4>1. \A c \in D : c \in Block
        BY <1>3
      <4> QED
        BY <4>1, <1>3, NodesApart
    <3>8. r \in [H -> Seq(QueueNode \ H)]
      BY <1>3 DEF Woven, Family
    <3>9. t[Dirty] = RemoveAt(r[Dirty], i) /\ \A h \in H : h # Dirty => t[h] = r[h]
      BY <3>2, <3>8
    <3> HIDE DEF t
    <3> QED
      BY <3>2, <3>5, <3>6, <3>7, <3>9
  <2> QED
    BY <2>2, <2>3
<1>6. PICK t : /\ Woven(K, QueueNode, H, t)
               /\ \A h \in H : h # Dirty => t[h] = r[h]
               /\ ToSet(t[Dirty]) = {ItemOf(c) : c \in E}
  BY <1>5
<1> DEFINE u == [x \in G |-> t[x]]
<1> HIDE DEF H, B, E, G, S, K
<1>7. Woven(K, QueueNode, G, u)
  BY <1>4, <1>6, Dropped
<1>8. /\ ToSet(u[Dirty]) = {ItemOf(c) : c \in E}
      /\ \A x \in G : x # Dirty => u[x] = r[x]
  BY <1>4, <1>6
<1> HIDE DEF u
<1>9. \A g \in G : S \cap ToSet(u[g]) = {}
  <2>1. \A e \in Event : \A g \in H : QueueOf(b, e) \notin ToSet(r[g])
    BY <1>2, <1>3 DEF MeantKinds, H
  <2>2. \A g \in H : g # Dirty => ItemOf(b) \notin ToSet(r[g])
    <3>1. ASSUME NEW g \in H, g # Dirty PROVE ItemOf(b) \notin ToSet(r[g])
      <4>1. CASE b \in D
        <5>1. ItemOf(b) \in ToSet(r[Dirty]) /\ Dirty \in H
              /\ ToSet(r[Dirty]) \cap ToSet(r[g]) = {}
          BY <3>1, <4>1, <1>2 DEF MeantKinds, HeadKinds, H
        <5> QED
          BY <5>1
      <4>2. CASE b \notin D
        BY <4>2, <1>2, <1>3 DEF MeantKinds, H
      <4> QED
        BY <4>1, <4>2
    <3> QED
      BY <3>1
  <2>3. ItemOf(b) \notin ToSet(u[Dirty]) /\ \A e \in Event : QueueOf(b, e) \notin ToSet(u[Dirty])
    <3>1. \A c \in E : c \in Block /\ c # b
      BY <1>3, <1>4 DEF B
    <3> QED
      BY <3>1, <1>3, <1>8, NodesApart
  <2> QED
    BY <2>1, <2>2, <2>3, <1>4, <1>8 DEF S, Queues
<1>10. Woven(L, QueueNode, G, u)
  BY <1>4, <1>7, <1>9, WeaveForget
<1>11. Meant(L, B, E, u)
  <2>1. \A x \in AwaiterHeads(B) : ToSet(u[x]) \subseteq Awaiter
    <3>1. \A x \in AwaiterHeads(B) : x \in G /\ x # Dirty /\ ToSet(r[x]) \subseteq Awaiter
      BY <1>2, <1>3, <1>4 DEF MeantKinds, HeadKinds
    <3> QED
      BY <3>1, <1>8
  <2>2. \A c \in B \ E : u[ItemOf(c)] = <<>>
    <3>1. \A c \in B \ E : ItemOf(c) \in G /\ ItemOf(c) # Dirty /\ r[ItemOf(c)] = <<>>
      BY <1>2, <1>3, <1>4 DEF MeantKinds, HeadKinds
    <3> QED
      BY <3>1, <1>8
  <2> QED
    BY <2>1, <2>2, <1>3, <1>8, <1>10 DEF Meant, G
<1>12. [x \in AwaiterHeads(B) |-> q[x]] = [x \in AwaiterHeads(B) |-> u[x]]
  <2>1. \A x \in AwaiterHeads(B) : x \in G /\ x # Dirty /\ q[x] = r[x]
    BY <1>1, <1>3, <1>4 DEF HeadKinds
  <2> QED
    BY <2>1, <1>8
<1> QED
  BY <1>11, <1>12 DEF Shape, B, E, S, K, L

-----------------------------------------------------------------------------
(* WatcherRings: the vector of watchers.                                   *)

(* The powers of two are there: the recursive function has a value.        *)
LEMMA PowerTurns ==
  /\ Power[0] = 1
  /\ \A k \in 1..30 : Power[k] = 2 * Power[k - 1]
  /\ \A k \in 0..30 : Power[k] \in Nat \ {0}
<1> DEFINE Double(f) == [k \in 0..30 |-> IF k = 0 THEN 1 ELSE 2 * f[k - 1]]
<1>1. \E f : f = Double(f)
  <2> DEFINE turn == [x \in Nat |-> 2 * x]
  <2>1. turn \in [Nat -> Nat]
    OBVIOUS
  <2>2. CanRun(Nat, 1, turn, 30)
    BY <2>1, LoopRuns
  <2>3. PICK g \in [0..30 -> Nat] : g[0] = 1 /\ \A k \in 1..30 : g[k] = turn[g[k - 1]]
    BY <2>2 DEF CanRun
  <2>4. \A k \in 0..30 : g[k] = IF k = 0 THEN 1 ELSE 2 * g[k - 1]
    <3>1. ASSUME NEW k \in 1..30 PROVE g[k] = 2 * g[k - 1]
      <4>1. k - 1 \in 0..30
        OBVIOUS
      <4>2. g[k - 1] \in Nat
        BY <4>1
      <4> QED
        BY <2>3, <4>2
    <3> QED
      BY <2>3, <3>1
  <2>5. g = Double(g)
    BY <2>4
  <2> QED
    BY <2>5
<1>2. Power = Double(Power)
  <2>1. Power = CHOOSE f : f = Double(f)
    BY DEF Power
  <2> DEFINE P == CHOOSE f : f = Double(f)
  <2>2. P = Double(P)
    BY <1>1
  <2> QED
    BY <2>1, <2>2
<1>3. \A k \in 0..30 : Power[k] = IF k = 0 THEN 1 ELSE 2 * Power[k - 1]
  BY <1>2
<1>4. Power[0] = 1 /\ \A k \in 1..30 : Power[k] = 2 * Power[k - 1]
  BY <1>3
<1> DEFINE S == {k \in Nat : k <= 30 => Power[k] \in Nat \ {0}}
<1>5. 0 \in S
  BY <1>4
<1>6. ASSUME NEW k \in Nat, k \in S PROVE k + 1 \in S
  <2>1. ASSUME k + 1 <= 30 PROVE Power[k + 1] \in Nat \ {0}
    <3>1. k + 1 \in 1..30 /\ (k + 1) - 1 = k /\ Power[k] \in Nat \ {0}
      BY <2>1, <1>6
    <3>2. Power[k + 1] = 2 * Power[k]
      BY <3>1, <1>4
    <3> QED
      BY <3>1, <3>2
  <2> QED
    BY <2>1
<1>7. Nat \subseteq S
  <2> HIDE DEF S
  <2> QED
    BY <1>5, <1>6, NatInSet
<1> QED
  BY <1>4, <1>7

(* NextPowerOfTwo makes room for the places up to n.                       *)
LEMMA NextPower ==
  ASSUME NEW n \in Nat, n < Power[30]
  PROVE  \E k \in 0..30 : NextPowerOfTwo(n + 1) = Power[k] /\ n + 1 <= Power[k]
<1> DEFINE Fits(k) == n + 1 <= Power[k] /\ (k = 0 \/ Power[k - 1] < n + 1)
           S == {k \in Nat : k <= 30 /\ n + 1 <= Power[k] => \E j \in 0..30 : Fits(j)}
<1>1. 0 \in S
  OBVIOUS
<1>2. ASSUME NEW k \in Nat, k \in S PROVE k + 1 \in S
  <2>1. ASSUME k + 1 <= 30, n + 1 <= Power[k + 1] PROVE \E j \in 0..30 : Fits(j)
    <3>1. k \in 0..30 /\ k + 1 \in 0..30 /\ (k + 1) - 1 = k /\ k + 1 # 0 /\ Power[k] \in Nat
      BY <2>1, PowerTurns
    <3>2. CASE n + 1 <= Power[k]
      BY <3>1, <3>2, <1>2
    <3>3. CASE Power[k] < n + 1
      BY <3>1, <3>3, <2>1
    <3> QED
      BY <3>1, <3>2, <3>3
  <2> QED
    BY <2>1
<1>3. Nat \subseteq S
  <2> HIDE DEF S
  <2> QED
    BY <1>1, <1>2, NatInSet
<1>4. n + 1 <= Power[30]
  <2>1. Power[30] \in Nat
    BY PowerTurns
  <2> QED
    BY <2>1
<1>5. \E k \in 0..30 : Fits(k)
  BY <1>3, <1>4
<1> DEFINE c == CHOOSE k \in 0..30 : Fits(k)
<1>6. c \in 0..30 /\ Fits(c)
  BY <1>5
<1>7. NextPowerOfTwo(n + 1) = Power[c]
  BY DEF NextPowerOfTwo
<1> QED
  BY <1>6, <1>7

(* The vector w has a power of two places, or none.                        *)
VectorOK(w) ==
  \E s \in Nat : (s = 0 \/ \E k \in 0..30 : s = Power[k]) /\ DOMAIN w = 0..(s - 1)

LEMMA VectorSize ==
  ASSUME NEW w, NEW s \in Nat, DOMAIN w = 0..(s - 1)
  PROVE  Cardinality(DOMAIN w) = s
<1>1. Cardinality(0..(s - 1)) = IF 0 > s - 1 THEN 0 ELSE (s - 1) - 0 + 1
  BY FS_Interval
<1> QED
  BY <1>1

LEMMA GrownVector ==
  ASSUME VectorOK(watchers), NEW n \in FD
  PROVE  /\ VectorOK(Resized(n)) /\ n \in DOMAIN Resized(n)
         /\ DOMAIN watchers \subseteq DOMAIN Resized(n)
         /\ \A i \in DOMAIN Resized(n) :
              Resized(n)[i] = IF i \in DOMAIN watchers THEN watchers[i] ELSE Null
<1>1. PICK s \in Nat : (s = 0 \/ \E k \in 0..30 : s = Power[k]) /\ DOMAIN watchers = 0..(s - 1)
  BY DEF VectorOK
<1>2. Size = s
  BY <1>1, VectorSize DEF Size
<1>3. n \in Nat /\ n < Power[30]
  BY DescriptorAssumption
<1>4. CASE n < s
  <2>1. Resized(n) = watchers
    BY <1>2, <1>4 DEF Resized
  <2>2. n \in 0..(s - 1)
    BY <1>3, <1>4
  <2> QED
    BY <2>1, <2>2, <1>1
<1>5. CASE ~(n < s)
  <2>1. PICK k \in 0..30 : NextPowerOfTwo(n + 1) = Power[k] /\ n + 1 <= Power[k]
    BY <1>3, NextPower
  <2>2. Power[k] \in Nat
    BY PowerTurns
  <2> DEFINE p == Power[k]
             w == [i \in 0..(p - 1) |-> IF i < s THEN watchers[i] ELSE Null]
  <2>3. Resized(n) = w
    BY <2>1, <1>2, <1>5 DEF Resized
  <2>4. DOMAIN w = 0..(p - 1)
    OBVIOUS
  <2>5. VectorOK(w)
    BY <2>2, <2>4 DEF VectorOK
  <2>6. n \in 0..(p - 1) /\ 0..(s - 1) \subseteq 0..(p - 1)
    BY <2>1, <2>2, <1>3, <1>5
  <2>7. \A i \in 0..(p - 1) : i < s <=> i \in 0..(s - 1)
    OBVIOUS
  <2> QED
    BY <2>3, <2>4, <2>5, <2>6, <2>7, <1>1
<1> QED
  BY <1>4, <1>5

-----------------------------------------------------------------------------
(* WatcherRings: what a poller of module IOPoll is to see.                 *)

(* The vector w leads to the blocks A, each the watcher of one descriptor. *)
Seated(w, A, d) ==
  /\ VectorOK(w) /\ A \subseteq Block /\ d \in [Block -> FD \cup {Null}]
  /\ \A i \in DOMAIN w : w[i] # Null => i \in FD /\ w[i] \in A /\ d[w[i]] = i
  /\ \A b \in A : d[b] \in FD /\ d[b] \in DOMAIN w /\ w[d[b]] = b

(* PollView with the queues q and the dirty watchers D known.              *)
View(w, f, p, D, q) ==
  [watchers |-> {n \in FD : WatcherAt(w, n) # {}},
   eventFlags |-> [n \in FD |-> UNION {f[b] : b \in WatcherAt(w, n)}],
   pending |-> [n \in FD |-> UNION {p[b] : b \in WatcherAt(w, n)}],
   queues |-> [n \in FD |-> [e \in Event |->
                 IF WatcherAt(w, n) = {} THEN <<>> ELSE q[QueueOf(w[n], e)]]],
   dirty |-> {n \in FD : WatcherAt(w, n) \cap D # {}},
   released |-> q[Released]]

SeatedBits(w, A, d) ==
  /\ \A n \in FD : \/ WatcherAt(w, n) = {}
                   \/ \E b \in A : WatcherAt(w, n) = {b} /\ w[n] = b /\ d[b] = n
  /\ \A b \in A : b \in Block /\ d[b] \in FD /\ WatcherAt(w, d[b]) = {b} /\ w[d[b]] = b
  /\ \A n \in FD : \A b : WatcherAt(w, n) = {b} => b \in A /\ w[n] = b /\ d[b] = n

LEMMA SeatedTells == \A w, A, d : Seated(w, A, d) => SeatedBits(w, A, d)
<1> SUFFICES ASSUME NEW w, NEW A, NEW d, Seated(w, A, d)
             PROVE  SeatedBits(w, A, d)
  OBVIOUS
<1>1. \A n \in FD : \/ WatcherAt(w, n) = {}
                    \/ \E b \in A : WatcherAt(w, n) = {b} /\ w[n] = b /\ d[b] = n
  BY DEF Seated, WatcherAt
<1>2. \A b \in A : b \in Block /\ b # Null
  BY MemoryAssumption DEF Seated
<1>3. \A b \in A : d[b] \in FD /\ WatcherAt(w, d[b]) = {b} /\ w[d[b]] = b
  BY <1>2 DEF Seated, WatcherAt
<1> QED
  BY <1>1, <1>2, <1>3 DEF SeatedBits

LEMMA ViewSeen ==
  \A w, A, d, f, p, l, D, q :
    Seated(w, A, d) /\ Shape(l, A, D, q) => PollView(w, f, p, l) = View(w, f, p, D, q)
<1> SUFFICES ASSUME NEW w, NEW A, NEW d, NEW f, NEW p, NEW l, NEW D, NEW q,
                    Seated(w, A, d), Shape(l, A, D, q)
             PROVE  PollView(w, f, p, l) = View(w, f, p, D, q)
  OBVIOUS
<1>1. /\ HeadKinds(A, D) /\ DirtyIn(l) = D
      /\ \A x \in AwaiterHeads(A) : QUEUE_FOREACH(l, x) = q[x]
  BY ShapeTells DEF Tells
<1>2. QUEUE_FOREACH(l, Released) = q[Released]
  BY <1>1 DEF HeadKinds
<1>3. ASSUME NEW n \in FD, NEW e \in Event, WatcherAt(w, n) # {}
      PROVE  QUEUE_FOREACH(l, QueueOf(w[n], e)) = q[QueueOf(w[n], e)]
  <2>1. w[n] \in A
    BY <1>3, SeatedTells DEF SeatedBits
  <2> QED
    BY <2>1, <1>1 DEF HeadKinds
<1>4. [n \in FD |-> [e \in Event |->
         IF WatcherAt(w, n) = {} THEN <<>> ELSE QUEUE_FOREACH(l, QueueOf(w[n], e))]]
      = [n \in FD |-> [e \in Event |->
         IF WatcherAt(w, n) = {} THEN <<>> ELSE q[QueueOf(w[n], e)]]]
  BY <1>3
<1> QED
  BY <1>1, <1>2, <1>4 DEF PollView, View

(* The fields of a view, for a descriptor with the watcher b.              *)
Fields(v, f, p, D, q, n, b) ==
  /\ n \in v.watchers /\ v.eventFlags[n] = f[b] /\ v.pending[n] = p[b]
  /\ v.queues[n] = [e \in Event |-> q[QueueOf(b, e)]]
  /\ \A e \in Event : v.queues[n][e] = q[QueueOf(b, e)]
  /\ n \in v.dirty <=> b \in D

LEMMA ViewFields ==
  \A w, A, d, f, p, D, q : Seated(w, A, d) =>
    \A n \in FD : \A b : WatcherAt(w, n) = {b} => Fields(View(w, f, p, D, q), f, p, D, q, n, b)
<1> SUFFICES ASSUME NEW w, NEW A, NEW d, NEW f, NEW p, NEW D, NEW q, Seated(w, A, d),
                    NEW n \in FD, NEW b, WatcherAt(w, n) = {b}
             PROVE  Fields(View(w, f, p, D, q), f, p, D, q, n, b)
  OBVIOUS
<1>1. w[n] = b
  BY SeatedTells DEF SeatedBits
<1>2. UNION {f[c] : c \in WatcherAt(w, n)} = f[b] /\ UNION {p[c] : c \in WatcherAt(w, n)} = p[b]
  OBVIOUS
<1>3. WatcherAt(w, n) # {} /\ (WatcherAt(w, n) \cap D # {} <=> b \in D)
  OBVIOUS
<1> DEFINE v == View(w, f, p, D, q)
<1>4. n \in v.watchers /\ v.eventFlags[n] = f[b] /\ v.pending[n] = p[b] /\ (n \in v.dirty <=> b \in D)
  BY <1>2, <1>3 DEF View
<1>5. v.queues[n] = [e \in Event |-> q[QueueOf(b, e)]]
  BY <1>1, <1>3 DEF View
<1> QED
  BY <1>4, <1>5 DEF Fields

(* The flags and queues of the watcher b of n, and the caller's queue,     *)
(* were changed.                                                           *)
ViewChanged(w, f, p, D, q, n, b, P, E, u) ==
  LET v == View(w, f, p, D, q)
      V == View(w, f, [p EXCEPT ![b] = P], E, u)
  IN  /\ V.watchers = v.watchers /\ V.eventFlags = v.eventFlags
      /\ V.pending = [v.pending EXCEPT ![n] = P]
      /\ V.queues = [v.queues EXCEPT ![n] = [e \in Event |-> u[QueueOf(b, e)]]]
      /\ V.dirty = IF b \in E THEN v.dirty \cup {n} ELSE v.dirty \ {n}
      /\ V.released = u[Released] /\ v.released = q[Released]

LEMMA ViewEdited ==
  \A w, A, d, f, p, D, q, b, P, E, u : \A n \in FD :
    /\ Seated(w, A, d) /\ WatcherAt(w, n) = {b} /\ p \in [Block -> SUBSET Event]
    /\ \A c : c # b => (c \in D <=> c \in E)
    /\ \A c \in A \ {b}, e \in Event : u[QueueOf(c, e)] = q[QueueOf(c, e)]
    => ViewChanged(w, f, p, D, q, n, b, P, E, u)
<1> SUFFICES ASSUME NEW w, NEW A, NEW d, NEW f, NEW p, NEW D, NEW q, NEW b, NEW P, NEW E, NEW u,
                    NEW n \in FD, Seated(w, A, d), WatcherAt(w, n) = {b},
                    p \in [Block -> SUBSET Event],
                    \A c : c # b => (c \in D <=> c \in E),
                    \A c \in A \ {b}, e \in Event : u[QueueOf(c, e)] = q[QueueOf(c, e)]
             PROVE  ViewChanged(w, f, p, D, q, n, b, P, E, u)
  OBVIOUS
<1> DEFINE r == [p EXCEPT ![b] = P]
           v == View(w, f, p, D, q)
           V == View(w, f, r, E, u)
<1>0. SeatedBits(w, A, d)
  BY SeatedTells
<1>1. b \in Block /\ b \in A /\ w[n] = b /\ d[b] = n
  BY <1>0 DEF SeatedBits, Seated
<1>2. r[b] = P /\ \A c \in A : c # b => r[c] = p[c]
  <2>1. A \subseteq Block
    BY DEF Seated
  <2> QED
    BY <2>1, <1>1
<1> HIDE DEF r
<1>3. ASSUME NEW m \in FD, m # n
      PROVE  \/ WatcherAt(w, m) = {}
             \/ \E c \in A : c # b /\ WatcherAt(w, m) = {c} /\ w[m] = c
  BY <1>0, <1>1, <1>3 DEF SeatedBits
<1>4. V.pending = [v.pending EXCEPT ![n] = P]
  <2>1. UNION {r[c] : c \in WatcherAt(w, n)} = P
    BY <1>2
  <2>2. \A m \in FD : m # n => UNION {r[c] : c \in WatcherAt(w, m)} = UNION {p[c] : c \in WatcherAt(w, m)}
    <3> TAKE m \in FD
    <3> HAVE m # n
    <3>1. \A c \in WatcherAt(w, m) : r[c] = p[c]
      BY <1>2, <1>3
    <3> QED
      BY <3>1
  <2> QED
    BY <2>1, <2>2 DEF View
<1>5. V.queues = [v.queues EXCEPT ![n] = [e \in Event |-> u[QueueOf(b, e)]]]
  <2>1. \A m \in FD : m # n =>
          [e \in Event |-> IF WatcherAt(w, m) = {} THEN <<>> ELSE u[QueueOf(w[m], e)]]
          = [e \in Event |-> IF WatcherAt(w, m) = {} THEN <<>> ELSE q[QueueOf(w[m], e)]]
    BY <1>3
  <2>2. [e \in Event |-> IF WatcherAt(w, n) = {} THEN <<>> ELSE u[QueueOf(w[n], e)]]
        = [e \in Event |-> u[QueueOf(b, e)]]
    BY <1>1
  <2> QED
    BY <2>1, <2>2 DEF View
<1>6. V.dirty = IF b \in E THEN v.dirty \cup {n} ELSE v.dirty \ {n}
  <2>1. \A m \in FD : m # n => (WatcherAt(w, m) \cap E # {} <=> WatcherAt(w, m) \cap D # {})
    BY <1>3
  <2>2. WatcherAt(w, n) \cap E # {} <=> b \in E
    OBVIOUS
  <2>3. \A m \in FD : m # n => (m \in V.dirty <=> m \in v.dirty)
    BY <2>1 DEF View
  <2>4. n \in V.dirty <=> b \in E
    BY <2>2 DEF View
  <2>5. V.dirty \subseteq FD /\ v.dirty \subseteq FD
    BY DEF View
  <2> HIDE DEF V, v
  <2> QED
    BY <2>3, <2>4, <2>5
<1>7. /\ V.watchers = v.watchers /\ V.eventFlags = v.eventFlags
      /\ V.released = u[Released] /\ v.released = q[Released]
  BY DEF View
<1> QED
  BY <1>4, <1>5, <1>6, <1>7 DEF ViewChanged, r

-----------------------------------------------------------------------------
(* WatcherRings: removeEventAwaiter and removeEventAwaiters.               *)

States == [links : Pointers(QueueNode), pending : [Block -> SUBSET Event]]

(* The rings of the state s are the queues q and a dirty queue of D.       *)
Holds(s, A, D, q) == s \in States /\ Shape(s.links, A, D, q)

(* From s to t: the awaiter i of b for e has left; b no longer asks for e, *)
(* and is dirty, if that was the last.                                     *)
AwaiterLeft(s, t, A, D, q, b, e, i) ==
  LET x == QueueOf(b, e)
      u == [q EXCEPT ![x] = RemoveAt(q[x], i)]
  IN  /\ Holds(t, A, IF u[x] = <<>> THEN D \cup {b} ELSE D, u)
      /\ t.pending = [s.pending EXCEPT ![b] = IF u[x] = <<>> THEN @ \ {e} ELSE @]

LEMMA RemoveAwaiterHolds ==
  \A s, A, D, q : \A b \in A, e \in Event : \A i \in 1..Len(q[QueueOf(b, e)]) :
    Holds(s, A, D, q) =>
      AwaiterLeft(s, RemoveAwaiter(s, q[QueueOf(b, e)][i], b), A, D, q, b, e, i)
<1> SUFFICES ASSUME NEW s, NEW A, NEW D, NEW q, NEW b \in A, NEW e \in Event,
                    NEW i \in 1..Len(q[QueueOf(b, e)]), Holds(s, A, D, q)
             PROVE  AwaiterLeft(s, RemoveAwaiter(s, q[QueueOf(b, e)][i], b), A, D, q, b, e, i)
  OBVIOUS
<1> DEFINE x == QueueOf(b, e)
           a == q[x][i]
           v == RemoveAt(q[x], i)
           u == [q EXCEPT ![x] = v]
           l == QUEUE_REMOVE(s.links, a)
           t == RemoveAwaiter(s, a, b)
<1>1. Tells(s.links, A, D, q)
  BY ShapeTells DEF Holds
<1>2. /\ A \subseteq Block /\ b \in Block /\ x \in AwaiterHeads(A)
      /\ q \in [AwaiterHeads(A) -> Seq(Awaiter)]
  BY <1>1 DEF Tells, HeadKinds, QueuesApart
<1>3. /\ Shape(l, A, D, u)
      /\ l.next[a] = l.prev[a] <=> v = <<>>
      /\ v = <<>> => l.next[a] = x
  <2>1. Shape(s.links, A, D, q) /\ i \in 1..Len(q[x])
    BY DEF Holds
  <2> HIDE DEF x
  <2>2. RemovedShape(s.links, A, D, q, x, i)
    BY <2>1, <1>2, RemoveShape
  <2> QED
    BY <2>2 DEF RemovedShape
<1>4. u[x] = v /\ x[2] = e
  BY <1>2, NodesApart
<1>5. s \in States
  BY DEF Holds
<1>6. l \in Pointers(QueueNode)
  BY <1>3, ShapeTells DEF Tells
<1>7. t = IF l.next[a] = l.prev[a]
            THEN [links |-> MarkDirty(l, b),
                  pending |-> [s.pending EXCEPT ![b] = @ \ {l.next[a][2]}]]
            ELSE [s EXCEPT !.links = l]
  BY DEF RemoveAwaiter, EmptiedBy
<1> HIDE DEF x, a, v, l, t, u
<1>8. CASE v = <<>>
  <2>1. /\ l.next[a] = l.prev[a] /\ l.next[a][2] = e
        /\ t = [links |-> MarkDirty(l, b), pending |-> [s.pending EXCEPT ![b] = @ \ {e}]]
    BY <1>3, <1>4, <1>7, <1>8
  <2>2. Shape(MarkDirty(l, b), A, D \cup {b}, u)
    BY <1>3, MarkShape
  <2>3. MarkDirty(l, b) \in Pointers(QueueNode)
    BY <2>2, ShapeTells DEF Tells
  <2>4. t \in States
    BY <2>1, <2>3, <1>5 DEF States
  <2>5. Holds(t, A, D \cup {b}, u)
    BY <2>1, <2>2, <2>4 DEF Holds
  <2> QED
    BY <2>1, <2>5, <1>4, <1>8 DEF AwaiterLeft, t, u, x, v, a
<1>9. CASE v # <<>>
  <2>1. t = [s EXCEPT !.links = l]
    BY <1>3, <1>7, <1>9
  <2>2. t \in States /\ t.links = l /\ t.pending = s.pending
    BY <2>1, <1>5, <1>6 DEF States
  <2>3. Holds(t, A, D, u)
    BY <2>2, <1>3 DEF Holds
  <2>4. s.pending = [s.pending EXCEPT ![b] = @]
    BY <1>5 DEF States
  <2>5. t.pending = [s.pending EXCEPT ![b] = @]
    BY <2>2, <2>4
  <2> QED
    BY <2>3, <2>5, <1>4, <1>9 DEF AwaiterLeft, t, u, x, v, a
<1> QED
  BY <1>8, <1>9

(* Who asks for an event has an awaiter for it.                            *)
Asking(s, q, b) == \A e \in Event : e \in s.pending[b] <=> q[QueueOf(b, e)] # <<>>

(* The queues with those of b at the end of the caller's.                  *)
Emptied(q, b) ==
  LET R == QueueOf(b, "Readability")
      W == QueueOf(b, "Writability")
  IN  [q EXCEPT ![Released] = (q[Released] \o q[R]) \o q[W], ![R] = <<>>, ![W] = <<>>]

(* From s to t: nobody waits any more for b.                               *)
AllLeft(s, t, A, D, q, b) ==
  /\ Holds(t, A, IF s.pending[b] = {} THEN D ELSE D \cup {b}, Emptied(q, b))
  /\ t.pending = [s.pending EXCEPT ![b] = {}]

LEMMA RemoveAwaitersHolds ==
  \A s, A, D, q : \A b \in A :
    Holds(s, A, D, q) /\ Asking(s, q, b) => AllLeft(s, RemoveAwaiters(s, b), A, D, q, b)
<1> SUFFICES ASSUME NEW s, NEW A, NEW D, NEW q, NEW b \in A,
                    Holds(s, A, D, q), Asking(s, q, b)
             PROVE  AllLeft(s, RemoveAwaiters(s, b), A, D, q, b)
  OBVIOUS
<1> DEFINE R == QueueOf(b, "Readability")
           W == QueueOf(b, "Writability")
           t == RemoveAwaiters(s, b)
           u == Emptied(q, b)
<1>1. Tells(s.links, A, D, q)
  BY ShapeTells DEF Holds
<1>2. /\ A \subseteq Block /\ b \in Block /\ s \in States /\ s.pending[b] \subseteq Event
      /\ s.pending \in [Block -> SUBSET Event]
      /\ "Readability" \in Event /\ "Writability" \in Event
      /\ R \in AwaiterHeads(A) /\ W \in AwaiterHeads(A) /\ Released \in AwaiterHeads(A)
      /\ q \in [AwaiterHeads(A) -> Seq(Awaiter)]
  <2>1. A \subseteq Block /\ q \in [AwaiterHeads(A) -> Seq(Awaiter)]
    BY <1>1 DEF Tells, QueuesApart
  <2>2. "Readability" \in Event /\ "Writability" \in Event
    BY DEF Event
  <2>3. s \in States /\ s.pending \in [Block -> SUBSET Event]
    BY DEF Holds, States
  <2> QED
    BY <1>1, <2>1, <2>2, <2>3 DEF Tells, HeadKinds
<1>3. R # Released /\ W # Released /\ R # W
  BY <1>2, NodesApart
<1>4. CASE s.pending[b] = {}
  <2>1. t = s
    BY <1>4 DEF RemoveAwaiters
  <2>2. q[R] = <<>> /\ q[W] = <<>>
    BY <1>2, <1>4 DEF Asking
  <2>3. (q[Released] \o q[R]) \o q[W] = q[Released]
    <3>1. q[Released] \in Seq(Awaiter)
      BY <1>2
    <3> QED
      BY <2>2, <3>1, ConcatEmptySeq
  <2>4. u = q
    BY <2>2, <2>3, <1>2, <1>3 DEF Emptied
  <2>5. s.pending = [s.pending EXCEPT ![b] = {}]
    BY <1>2, <1>4
  <2> QED
    BY <2>1, <2>4, <2>5, <1>4 DEF AllLeft
<1>5. CASE s.pending[b] # {}
  <2> DEFINE q1 == [q EXCEPT ![Released] = q[Released] \o q[R], ![R] = <<>>]
             q2 == [q1 EXCEPT ![Released] = q1[Released] \o q1[W], ![W] = <<>>]
             l1 == Move(s.links, R)
             l2 == Move(l1, W)
             l3 == MarkDirty(l2, b)
  <2>1. t = [links |-> l3, pending |-> [s.pending EXCEPT ![b] = {}]]
    BY <1>5 DEF RemoveAwaiters
  <2>2. Shape(l1, A, D, q1)
    <3>1. Shape(s.links, A, D, q)
      BY DEF Holds
    <3> QED
      BY <3>1, <1>2, <1>3, MoveShape
  <2>3. q2 = u
    BY <1>2, <1>3 DEF Emptied
  <2> HIDE DEF l1, q1, R, W
  <2>4. Shape(l2, A, D, q2)
    BY <2>2, <1>2, <1>3, MoveShape
  <2> HIDE DEF l2, q2
  <2>5. Shape(l3, A, D \cup {b}, q2)
    BY <2>4, MarkShape
  <2>6. l3 \in Pointers(QueueNode)
    BY <2>5, ShapeTells DEF Tells
  <2> HIDE DEF l3, u, t
  <2>7. t \in States /\ t.links = l3 /\ t.pending = [s.pending EXCEPT ![b] = {}]
    BY <2>1, <2>6, <1>2 DEF States
  <2> QED
    BY <2>3, <2>5, <2>7, <1>5 DEF AllLeft, Holds, t, u
<1> QED
  BY <1>4, <1>5

-----------------------------------------------------------------------------
(* WatcherRings: an event releases the first awaiter for it.               *)

(* Taking the first item out is to keep the rest.                          *)
LEMMA FirstOut ==
  \A S : \A s \in Seq(S) : s # <<>> =>
    /\ 1 \in 1..Len(s) /\ s[1] = Head(s) /\ RemoveAt(s, 1) = Tail(s)
<1> SUFFICES ASSUME NEW S, NEW s \in Seq(S), s # <<>>
             PROVE  1 \in 1..Len(s) /\ s[1] = Head(s) /\ RemoveAt(s, 1) = Tail(s)
  OBVIOUS
<1>1. Len(s) \in Nat \ {0} /\ 1 \in 1..Len(s)
  BY EmptySeq
<1>2. Tail(s) = SubSeq(s, 2, Len(s)) /\ Tail(s) \in Seq(S) /\ SubSeq(s, 1, 0) = <<>>
  BY TailIsSubSeq, HeadTailProperties, SubSeqEmpty
<1>3. RemoveAt(s, 1) = Tail(s)
  BY <1>2, ConcatEmptySeq DEF RemoveAt
<1> QED
  BY <1>1, <1>3

(* The queues without the first awaiter of b for e.                        *)
Served(q, b, e) ==
  LET x == QueueOf(b, e)
  IN  [q EXCEPT ![x] = Tail(q[x]), ![Released] = Append(q[Released], Head(q[x]))]

(* From s to t: if given, the first awaiter of b for e has left for the    *)
(* caller.                                                                 *)
FirstLeft(s, t, A, D, q, b, e, given) ==
  LET gone == given /\ Tail(q[QueueOf(b, e)]) = <<>>
  IN  /\ Holds(t, A, IF gone THEN D \cup {b} ELSE D, IF given THEN Served(q, b, e) ELSE q)
      /\ t.pending = [s.pending EXCEPT ![b] = IF gone THEN @ \ {e} ELSE @]

LEMMA ReleaseHolds ==
  \A s, A, D, q : \A n \in FD, e \in Event :
    /\ Holds(s, A, D, q) /\ dataPtr[n] \in A
    /\ e \in revents[n] => q[QueueOf(dataPtr[n], e)] # <<>>
    => FirstLeft(s, Release(s, n, e), A, D, q, dataPtr[n], e, e \in revents[n])
<1> TAKE s, A, D, q
<1> TAKE n \in FD, e \in Event
<1> HAVE /\ Holds(s, A, D, q) /\ dataPtr[n] \in A
         /\ e \in revents[n] => q[QueueOf(dataPtr[n], e)] # <<>>
<1> DEFINE b == dataPtr[n]
           x == QueueOf(b, e)
           t == Release(s, n, e)
<1>1. Tells(s.links, A, D, q)
  BY ShapeTells DEF Holds
<1>2. /\ A \subseteq Block /\ b \in Block /\ x \in AwaiterHeads(A) /\ Released \in AwaiterHeads(A)
      /\ QueuesApart(A, q) /\ x # Released
      /\ q[x] # <<>> => QUEUE_HEAD(s.links, x) = q[x][1]
  BY <1>1, NodesApart DEF Tells, HeadKinds
<1>3. s \in States
  BY DEF Holds
<1>4. CASE e \notin revents[n]
  <2>1. t = s
    BY <1>4 DEF Release
  <2>2. s.pending = [s.pending EXCEPT ![b] = @]
    BY <1>3 DEF States
  <2> QED
    BY <2>1, <2>2, <1>4 DEF FirstLeft
<1>5. CASE e \in revents[n]
  <2> DEFINE a == q[x][1]
             r == RemoveAwaiter(s, a, b)
             u == [q EXCEPT ![x] = Tail(q[x])]
             E == IF Tail(q[x]) = <<>> THEN D \cup {b} ELSE D
             L == QUEUE_INSERT_TAIL(r.links, Released, a)
  <2>1. q[x] \in Seq(Awaiter) /\ q[x] # <<>> /\ IsInjective(q[x])
        /\ q \in [AwaiterHeads(A) -> Seq(Awaiter)]
    BY <1>2, <1>5 DEF QueuesApart
  <2>2. 1 \in 1..Len(q[x]) /\ a = Head(q[x]) /\ RemoveAt(q[x], 1) = Tail(q[x])
    <3> HIDE DEF x
    <3> QED
      BY <2>1, FirstOut
  <2>3. t = [r EXCEPT !.links = L]
    BY <2>1, <1>2, <1>5 DEF Release
  <2>4. AwaiterLeft(s, r, A, D, q, b, e, 1)
    <3> HIDE DEF b, r
    <3> QED
      BY <2>2, RemoveAwaiterHolds DEF r, b
  <2>5. u[x] = Tail(q[x])
    BY <2>1, <1>2
  <2>6. /\ Holds(r, A, E, u)
        /\ r.pending = [s.pending EXCEPT ![b] = IF Tail(q[x]) = <<>> THEN @ \ {e} ELSE @]
    BY <2>2, <2>4, <2>5 DEF AwaiterLeft
  <2>7. a \in Awaiter /\ \A y \in AwaiterHeads(A) : a \notin ToSet(u[y])
    <3>1. a \in ToSet(q[x]) /\ ToSet(q[x]) \subseteq Awaiter
          /\ ToSet(Tail(q[x])) = ToSet(q[x]) \ {Head(q[x])}
      <4> HIDE DEF x, a
      <4> QED
        BY <2>1, <2>2, HeadTailQueue, InSeq
    <3>2. ASSUME NEW y \in AwaiterHeads(A), y # x
          PROVE  a \notin ToSet(u[y])
      <4>1. u[y] = q[y] /\ ToSet(q[y]) \cap ToSet(q[x]) = {}
        BY <3>2, <2>1, <1>2 DEF QueuesApart
      <4> QED
        BY <4>1, <3>1
    <3> HIDE DEF u, a
    <3> QED
      BY <3>1, <3>2, <2>2, <2>5
  <2>8. u[Released] = q[Released]
    BY <2>1, <1>2
  <2>9. [u EXCEPT ![Released] = Append(@, a)] = Served(q, b, e)
    BY <2>1, <2>2, <2>8, <1>2 DEF Served
  <2> HIDE DEF a, r, u, E, t, x
  <2>10. Shape(L, A, E, [u EXCEPT ![Released] = Append(@, a)])
    <3>1. Shape(r.links, A, E, u)
      BY <2>6 DEF Holds
    <3> QED
      BY <3>1, <2>7, <1>2, AppendShape
  <2>11. L \in Pointers(QueueNode)
    BY <2>10, ShapeTells DEF Tells
  <2> HIDE DEF L
  <2>12. t \in States /\ t.links = L /\ t.pending = r.pending
    BY <2>3, <2>6, <2>11 DEF Holds, States
  <2>13. Holds(t, A, E, Served(q, b, e))
    BY <2>9, <2>10, <2>12 DEF Holds
  <2> QED
    BY <2>6, <2>12, <2>13, <1>5 DEF FirstLeft, E, x, t
<1> QED
  BY <1>4, <1>5

-----------------------------------------------------------------------------
(* WatcherRings: its steps are those of module IOPoll.                     *)

PP == INSTANCE IOPollProofs WITH
  watchers <- poll.watchers, eventFlags <- poll.eventFlags,
  pendingEventFlags <- poll.pending, eventAwaiterQueues <- poll.queues,
  dirtyWatcherQueue <- poll.dirty, eventAwaiterQueue <- poll.released

PollOK == PP!Inv /\ PP!LinksOK

LEMMA MaxEventsOK == MaxEvents \in Nat \ {0}
<1> QED
  BY DescriptorAssumption

LEMMA SamePollStart == Poll!Init => PP!Init
<1> QED
  BY DEF Poll!Init, PP!Init, Poll!NoQueues, PP!NoQueues, Poll!Event, PP!Event,
         Poll!NothingReported, PP!NothingReported

LEMMA SamePollSteps == Poll!Next => PP!Next
<1> USE DEF Poll!Ready, PP!Ready, Poll!NoQueues, PP!NoQueues, Poll!Event, PP!Event,
            Poll!waitVars, PP!waitVars, Poll!watcherVars, PP!watcherVars
<1>1. ASSUME NEW n \in FD, Poll!CreateWatcher(n) PROVE PP!CreateWatcher(n)
  BY <1>1 DEF Poll!CreateWatcher, PP!CreateWatcher
<1>2. ASSUME NEW n \in FD, Poll!DestroyWatcher(n) PROVE PP!DestroyWatcher(n)
  BY <1>2 DEF Poll!DestroyWatcher, PP!DestroyWatcher, Poll!LeaveDirtyQueue,
              PP!LeaveDirtyQueue, Poll!Unregister, PP!Unregister
<1>3. ASSUME NEW a \in Awaiter, NEW n \in FD, NEW e \in PP!Event,
             Poll!AddEventAwaiter(a, n, e)
      PROVE  PP!AddEventAwaiter(a, n, e)
  BY <1>3 DEF Poll!AddEventAwaiter, PP!AddEventAwaiter, Poll!AsksFor, PP!AsksFor,
              Poll!Waiting, PP!Waiting, Poll!AwaitersOf, PP!AwaitersOf, Poll!ToSet, PP!ToSet
<1>4. ASSUME NEW a \in Awaiter, NEW n \in FD, Poll!RemoveEventAwaiter(a, n)
      PROVE  PP!RemoveEventAwaiter(a, n)
  BY <1>4, Zenon DEF Poll!RemoveAt, PP!RemoveAt, Poll!RemoveEventAwaiter,
     PP!RemoveEventAwaiter, Poll!SetQueues, PP!SetQueues,
     Poll!Emptied, PP!Emptied, Poll!DirtyNow, PP!DirtyNow
<1>5. ASSUME Poll!FlushDirtyWatchers PROVE PP!FlushDirtyWatchers
  BY <1>5 DEF Poll!FlushDirtyWatchers, PP!FlushDirtyWatchers, Poll!Stale, PP!Stale,
              Poll!CtlFails, PP!CtlFails
<1>6. ASSUME NEW r \in Poll!Reports, Poll!EpollWait(r) PROVE r \in PP!Reports /\ PP!EpollWait(r)
  BY <1>6, Zenon DEF Poll!EpollWait, PP!EpollWait, Poll!Reports, PP!Reports,
     Poll!Revent, PP!Revent, Poll!Cardinality, PP!Cardinality, Poll!IsFiniteSet, PP!IsFiniteSet
<1>7. ASSUME Poll!Interrupted PROVE PP!Interrupted
  BY <1>7 DEF Poll!Interrupted, PP!Interrupted
<1>8. ASSUME NEW n \in FD, Poll!HandleError(n) PROVE PP!HandleError(n)
  BY <1>8 DEF Poll!HandleError, PP!HandleError, Poll!ReleasedByError, PP!ReleasedByError,
              Poll!AwaitersOf, PP!AwaitersOf
<1>9. ASSUME NEW n \in FD, Poll!HandleReadiness(n) PROVE PP!HandleReadiness(n)
  BY <1>9 DEF Poll!HandleReadiness, PP!HandleReadiness, Poll!SetQueues, PP!SetQueues,
              Poll!Emptied, PP!Emptied, Poll!DirtyNow, PP!DirtyNow
<1>10. ASSUME Poll!EndWait PROVE PP!EndWait
  BY <1>10 DEF Poll!EndWait, PP!EndWait, Poll!NothingReported, PP!NothingReported
<1> QED
  BY <1>1, <1>2, <1>3, <1>4, <1>5, <1>6, <1>7, <1>8, <1>9, <1>10, Zenon DEF Poll!Next, PP!Next

(* The invariant of IOPoll, kept by its steps.                             *)
LEMMA PollKept == PollOK /\ [Poll!Next]_(Poll!vars) => PollOK'
<1> SUFFICES ASSUME PollOK, [Poll!Next]_(Poll!vars) PROVE PollOK'
  OBVIOUS
<1>1. [PP!Next]_(PP!vars)
  <2>1. CASE Poll!Next
    BY <2>1, SamePollSteps
  <2>2. CASE UNCHANGED Poll!vars
    BY <2>2 DEF Poll!vars, PP!vars, Poll!waitVars, PP!waitVars, Poll!watcherVars, PP!watcherVars
  <2> QED
    BY <2>1, <2>2
<1>2. PP!Inv' /\ PP!LinksOK'
  BY <1>1, MaxEventsOK, PP!NextInv, PP!NextLinks DEF PollOK
<1> QED
  BY <1>2 DEF PollOK

LEMMA PollStarts == Poll!Init => PollOK
<1> QED
  BY SamePollStart, MaxEventsOK, PP!InitInv, PP!InitLinks DEF PollOK

-----------------------------------------------------------------------------
(* WatcherRings: its invariant.                                            *)

(* The kernel has the address of the watcher of each descriptor that is    *)
(* registered, and no other.                                               *)
KernelPoints(w, i, k) ==
  /\ k \in [FD -> Block \cup {Null}]
  /\ \A n \in FD : IF i[n] = {} THEN k[n] = Null ELSE WatcherAt(w, n) = {k[n]}

FlagMap == [Block -> SUBSET Event]

(* The memory forms the queues q and the dirty queue of D.                 *)
Stored(D, q) ==
  /\ Seated(watchers, inUse, fd)
  /\ eventFlags \in FlagMap /\ Holds(Current, inUse, D, q)
  /\ KernelPoints(watchers, interest, dataPtr)
  /\ poll = View(watchers, eventFlags, pendingEventFlags, D, q)

(* What is reported is of descriptors that are registered.                 *)
Reported == phase = "handling" => \A n \in FD : revents[n] # {} => interest[n] # {}

WatcherInv == PollOK /\ Reported /\ \E D, q : Stored(D, q)

(* A step leads to memory that forms them.                                 *)
StoredNext(D, q) ==
  /\ Seated(watchers', inUse', fd')
  /\ eventFlags' \in FlagMap /\ Holds([links |-> pointers', pending |-> pendingEventFlags'], inUse', D, q)
  /\ KernelPoints(watchers', interest', dataPtr')

(* poll is what the poller of module IOPoll sees after a step.             *)
Seen == poll' = PollView(watchers', eventFlags', pendingEventFlags', pointers')

StillStored == \E D, q : Stored(D, q)'

LEMMA StoredAfter ==
  \A D, q : StoredNext(D, q) /\ Seen =>
    /\ poll' = View(watchers', eventFlags', pendingEventFlags', D, q)
    /\ StillStored
<1> SUFFICES ASSUME NEW D, NEW q, StoredNext(D, q), Seen
             PROVE  /\ poll' = View(watchers', eventFlags', pendingEventFlags', D, q)
                    /\ StillStored
  OBVIOUS
<1>1. Seated(watchers', inUse', fd') /\ Shape(pointers', inUse', D, q)
  BY DEF StoredNext, Holds
<1>2. poll' = View(watchers', eventFlags', pendingEventFlags', D, q)
  BY <1>1, ViewSeen DEF Seen
<1>3. Current' = [links |-> pointers', pending |-> pendingEventFlags']
  BY DEF Current
<1>4. Stored(D, q)'
  BY <1>2, <1>3 DEF StoredNext, Stored
<1> QED
  BY <1>2, <1>4 DEF StillStored

-----------------------------------------------------------------------------
(* WatcherRings: awaiters come and go.                                     *)

(* What the poller of module IOPoll keeps.                                 *)
PollBits ==
  /\ ~aborted /\ interest = poll.eventFlags
  /\ interest \in [FD -> SUBSET Event] /\ revents \in [FD -> SUBSET Poll!Revent]
  /\ \A n \in FD, e \in Event : e \in poll.pending[n] <=> poll.queues[n][e] # <<>>
  /\ phase # "handling" => poll.released = <<>>
  /\ phase = "handling" =>
       \A n \in FD, e \in Event : e \in revents[n] => poll.queues[n][e] # <<>>

LEMMA PollTells == PollOK => PollBits
<1> SUFFICES ASSUME PollOK PROVE PollBits
  OBVIOUS
<1> USE DEF PollOK, PP!Inv
<1>1. PP!Event = Event /\ PP!Revent = Poll!Revent
  BY DEF PP!Event, Event, PP!Revent, Poll!Revent, Poll!Event
<1>2. ~aborted /\ interest = poll.eventFlags
  BY DEF PP!KernelInSync
<1>3. interest \in [FD -> SUBSET Event] /\ revents \in [FD -> SUBSET Poll!Revent]
  BY <1>1 DEF PP!TypeOK
<1>4. \A n \in FD, e \in Event : e \in poll.pending[n] <=> poll.queues[n][e] # <<>>
  BY <1>1 DEF PP!PendingIffAwaited
<1>5. phase # "handling" => poll.released = <<>>
  BY DEF PP!LinksOK, PP!HandedWhileHandling
<1>6. phase = "handling" =>
        \A n \in FD, e \in Event : e \in revents[n] => poll.queues[n][e] # <<>>
  BY <1>1 DEF PP!EventsHaveAwaiters
<1> QED
  BY <1>2, <1>3, <1>4, <1>5, <1>6 DEF PollBits

(* What the memory tells of the watcher b of n.                            *)
StoredBits(D, q, n, b) ==
  /\ b \in inUse /\ b \in Block /\ inUse \subseteq Block /\ fd[b] = n /\ watchers[n] = b
  /\ Holds(Current, inUse, D, q) /\ Tells(pointers, inUse, D, q)
  /\ pendingEventFlags \in FlagMap /\ eventFlags \in FlagMap
  /\ Fields(poll, eventFlags, pendingEventFlags, D, q, n, b)
  /\ poll.released = q[Released] /\ poll.watchers \subseteq FD
  /\ \A e \in Event : QueueOf(b, e) \in AwaiterHeads(inUse)

LEMMA StoredTells ==
  \A D, q : \A n \in FD : \A b : Stored(D, q) /\ WatcherOf(n) = {b} => StoredBits(D, q, n, b)
<1> SUFFICES ASSUME NEW D, NEW q, NEW n \in FD, NEW b, Stored(D, q), WatcherOf(n) = {b}
             PROVE  StoredBits(D, q, n, b)
  OBVIOUS
<1>1. Seated(watchers, inUse, fd) /\ WatcherAt(watchers, n) = {b}
  BY DEF Stored, WatcherOf
<1>2. b \in inUse /\ b \in Block /\ inUse \subseteq Block /\ fd[b] = n /\ watchers[n] = b
  <2>1. SeatedBits(watchers, inUse, fd)
    BY <1>1, SeatedTells
  <2> QED
    BY <2>1, <1>1 DEF SeatedBits, Seated
<1>3. Holds(Current, inUse, D, q) /\ Tells(pointers, inUse, D, q)
  BY ShapeTells DEF Stored, Holds, Current
<1>4. pendingEventFlags \in FlagMap /\ eventFlags \in FlagMap
  BY DEF Stored, Holds, States, Current, FlagMap
<1>5. poll = View(watchers, eventFlags, pendingEventFlags, D, q)
  BY DEF Stored
<1>6. Fields(poll, eventFlags, pendingEventFlags, D, q, n, b)
  BY <1>1, <1>5, ViewFields
<1>7. poll.released = q[Released] /\ poll.watchers \subseteq FD
  BY <1>5 DEF View
<1>8. \A e \in Event : QueueOf(b, e) \in AwaiterHeads(inUse)
  BY <1>2, <1>3 DEF Tells, HeadKinds
<1> QED
  BY <1>2, <1>3, <1>4, <1>6, <1>7, <1>8 DEF StoredBits

(* A step changed what b asks for to P, its queues and the caller's to     *)
(* those of u, and the dirty watchers to E.                                *)
EditedTo(D, q, n, b, P, E, u) ==
  /\ Stored(D, q) /\ n \in FD /\ WatcherOf(n) = {b} /\ Seen
  /\ UNCHANGED <<tableVars, eventFlags, interest, dataPtr>>
  /\ pendingEventFlags' = [pendingEventFlags EXCEPT ![b] = P]
  /\ Holds([links |-> pointers', pending |-> pendingEventFlags'], inUse, E, u)
  /\ \A c : c # b => (c \in D <=> c \in E)
  /\ \A c \in inUse \ {b}, e \in Event : u[QueueOf(c, e)] = q[QueueOf(c, e)]

(* So the poller of module IOPoll sees it.                                 *)
EditSeen(n, b, P, E, u) ==
  /\ StillStored
  /\ poll'.watchers = poll.watchers /\ poll'.eventFlags = poll.eventFlags
  /\ poll'.pending = [poll.pending EXCEPT ![n] = P]
  /\ poll'.queues = [poll.queues EXCEPT ![n] = [e \in Event |-> u[QueueOf(b, e)]]]
  /\ poll'.dirty = IF b \in E THEN poll.dirty \cup {n} ELSE poll.dirty \ {n}
  /\ poll'.released = u[Released]

LEMMA EditedStep ==
  \A D, q, n, b, P, E, u : EditedTo(D, q, n, b, P, E, u) => EditSeen(n, b, P, E, u)
<1> SUFFICES ASSUME NEW D, NEW q, NEW n, NEW b, NEW P, NEW E, NEW u,
                    EditedTo(D, q, n, b, P, E, u)
             PROVE  EditSeen(n, b, P, E, u)
  OBVIOUS
<1>1. /\ Stored(D, q) /\ n \in FD /\ WatcherAt(watchers, n) = {b} /\ Seen
      /\ pendingEventFlags' = [pendingEventFlags EXCEPT ![b] = P]
      /\ Holds([links |-> pointers', pending |-> pendingEventFlags'], inUse, E, u)
      /\ \A c : c # b => (c \in D <=> c \in E)
      /\ \A c \in inUse \ {b}, e \in Event : u[QueueOf(c, e)] = q[QueueOf(c, e)]
  BY DEF EditedTo, WatcherOf
<1>2. watchers' = watchers /\ inUse' = inUse /\ fd' = fd /\ eventFlags' = eventFlags
      /\ interest' = interest /\ dataPtr' = dataPtr
  BY DEF EditedTo, tableVars
<1>3. StoredNext(E, u)
  BY <1>1, <1>2 DEF StoredNext, Stored
<1>4. /\ poll' = View(watchers, eventFlags, [pendingEventFlags EXCEPT ![b] = P], E, u)
      /\ StillStored
  BY <1>1, <1>2, <1>3, StoredAfter
<1>5. Seated(watchers, inUse, fd) /\ pendingEventFlags \in [Block -> SUBSET Event]
      /\ poll = View(watchers, eventFlags, pendingEventFlags, D, q)
  BY <1>1 DEF Stored, Holds, States, Current
<1>6. ViewChanged(watchers, eventFlags, pendingEventFlags, D, q, n, b, P, E, u)
  BY <1>1, <1>5, ViewEdited
<1> QED
  BY <1>4, <1>5, <1>6 DEF ViewChanged, EditSeen

(* A descriptor has one watcher or none.                                   *)
LEMMA OneWatcher ==
  \A D, q : Stored(D, q) =>
    \A n \in FD : \A b \in WatcherOf(n) : WatcherOf(n) = {b}
<1> SUFFICES ASSUME NEW D, NEW q, Stored(D, q), NEW n \in FD, NEW b \in WatcherOf(n)
             PROVE  WatcherOf(n) = {b}
  OBVIOUS
<1>1. SeatedBits(watchers, inUse, fd)
  BY SeatedTells DEF Stored
<1> QED
  BY <1>1 DEF SeatedBits, WatcherOf

(* Who is in no ring does not wait.                                        *)
LEMMA NotWaiting ==
  \A D, q : Stored(D, q) =>
    \A a : (\A x \in AwaiterHeads(inUse) : a \notin ToSet(q[x])) => a \notin Poll!Waiting
<1> SUFFICES ASSUME NEW D, NEW q, Stored(D, q), NEW a,
                    \A x \in AwaiterHeads(inUse) : a \notin ToSet(q[x])
             PROVE  a \notin Poll!Waiting
  OBVIOUS
<1> SUFFICES ASSUME NEW n \in FD
             PROVE  a \notin ToSet(poll.queues[n]["Readability"] \o poll.queues[n]["Writability"])
  <2>1. \A s : Poll!ToSet(s) = ToSet(s)
    BY DEF Poll!ToSet, ToSet
  <2> QED
    BY <2>1 DEF Poll!Waiting, Poll!AwaitersOf
<1> DEFINE s == poll.queues[n]["Readability"]
           t == poll.queues[n]["Writability"]
<1>1. /\ s \in Seq(Awaiter) /\ a \notin ToSet(s)
      /\ t \in Seq(Awaiter) /\ a \notin ToSet(t)
  <2>1. "Readability" \in Event /\ "Writability" \in Event
    BY DEF Event
  <2>2. CASE WatcherOf(n) = {}
    <3>1. s = <<>> /\ t = <<>>
      BY <2>1, <2>2 DEF Stored, View, WatcherOf
    <3> QED
      BY <3>1, EmptyQueue
  <2>3. ASSUME NEW b \in WatcherOf(n)
        PROVE  /\ s \in Seq(Awaiter) /\ a \notin ToSet(s)
               /\ t \in Seq(Awaiter) /\ a \notin ToSet(t)
    <3>1. StoredBits(D, q, n, b)
      BY <2>3, OneWatcher, StoredTells
    <3>2. s = q[QueueOf(b, "Readability")] /\ t = q[QueueOf(b, "Writability")]
      BY <3>1, <2>1 DEF StoredBits, Fields
    <3>3. /\ QueueOf(b, "Readability") \in AwaiterHeads(inUse)
          /\ QueueOf(b, "Writability") \in AwaiterHeads(inUse)
          /\ q \in [AwaiterHeads(inUse) -> Seq(Awaiter)]
      BY <3>1, <2>1 DEF StoredBits, Tells, QueuesApart
    <3> QED
      BY <3>2, <3>3
  <2> QED
    BY <2>2, <2>3
<1> HIDE DEF s, t
<1>2. a \notin ToSet(s \o t)
  BY <1>1, ConcatQueue
<1> QED
  BY <1>2 DEF s, t

LEMMA AddStep ==
  ASSUME WatcherInv, NEW a \in Awaiter, NEW n \in FD, NEW e \in Event,
         AddEventAwaiter(a, n, e), Seen
  PROVE  StillStored /\ Poll!AddEventAwaiter(a, n, e)
<1>1. PICK D, q : Stored(D, q)
  BY DEF WatcherInv
<1>2. PICK b \in WatcherOf(n) :
        LET l == QUEUE_INSERT_TAIL(pointers, QueueOf(b, e), a) IN
        IF e \in pendingEventFlags[b] THEN Become([Current EXCEPT !.links = l])
        ELSE Become([links |-> MarkDirty(l, b),
                     pending |-> [pendingEventFlags EXCEPT ![b] = @ \cup {e}]])
  BY DEF AddEventAwaiter
<1>3. WatcherOf(n) = {b} /\ StoredBits(D, q, n, b)
  BY <1>1, <1>2, OneWatcher, StoredTells
<1> DEFINE x == QueueOf(b, e)
           l == QUEUE_INSERT_TAIL(pointers, x, a)
           u == [q EXCEPT ![x] = Append(@, a)]
           P == pendingEventFlags[b] \cup {e}
           E == IF e \in pendingEventFlags[b] THEN D ELSE D \cup {b}
<1>4. /\ b \in inUse /\ b \in Block /\ inUse \subseteq Block
      /\ x \in AwaiterHeads(inUse) /\ Shape(pointers, inUse, D, q)
      /\ q \in [AwaiterHeads(inUse) -> Seq(Awaiter)]
      /\ Released \in AwaiterHeads(inUse)
      /\ pendingEventFlags \in FlagMap
  BY <1>3 DEF StoredBits, Holds, Current, Tells, QueuesApart, HeadKinds
<1>5. \A y \in AwaiterHeads(inUse) : a \notin ToSet(q[y])
  <2>1. \A y \in AwaiterHeads(inUse) : a \in ToSet(q[y]) => pointers.next[a] \in QueueNode
    BY <1>3 DEF StoredBits, Tells
  <2> QED
    BY <2>1, NodesFinite DEF AddEventAwaiter
<1>6. Shape(l, inUse, D, u)
  <2> HIDE DEF x
  <2> QED
    BY <1>4, <1>5, AppendShape
<1>7. /\ pendingEventFlags' = [pendingEventFlags EXCEPT ![b] = P]
      /\ Shape(pointers', inUse, E, u)
  <2>1. CASE e \in pendingEventFlags[b]
    <3>1. pointers' = l /\ pendingEventFlags' = pendingEventFlags
      BY <1>2, <2>1 DEF Become, Current
    <3>2. P = pendingEventFlags[b]
      BY <2>1
    <3>3. pendingEventFlags = [pendingEventFlags EXCEPT ![b] = pendingEventFlags[b]]
      BY <1>4 DEF FlagMap
    <3> QED
      BY <3>1, <3>2, <3>3, <2>1, <1>6
  <2>2. CASE e \notin pendingEventFlags[b]
    <3>1. pointers' = MarkDirty(l, b)
          /\ pendingEventFlags' = [pendingEventFlags EXCEPT ![b] = P]
      BY <1>2, <2>2 DEF Become
    <3> HIDE DEF l, u
    <3> QED
      BY <3>1, <2>2, <1>4, <1>6, MarkShape
  <2> QED
    BY <2>1, <2>2
<1>8. UNCHANGED <<tableVars, eventFlags, interest, dataPtr, aborted, phase, revents>>
  BY DEF AddEventAwaiter, kernelVars, waitVars
<1>9. Holds([links |-> pointers', pending |-> pendingEventFlags'], inUse, E, u)
  <2>1. pointers' \in Pointers(QueueNode)
    BY <1>7, ShapeTells DEF Tells
  <2>2. pendingEventFlags' \in [Block -> SUBSET Event]
    BY <1>4, <1>7 DEF FlagMap
  <2> QED
    BY <2>1, <2>2, <1>7 DEF Holds, States
<1>10. /\ \A c : c # b => (c \in D <=> c \in E)
       /\ \A c \in inUse \ {b}, d \in Event : u[QueueOf(c, d)] = q[QueueOf(c, d)]
       /\ u[x] = Append(q[x], a) /\ u[Released] = q[Released]
       /\ \A d \in Event : d # e => u[QueueOf(b, d)] = q[QueueOf(b, d)]
  BY <1>4, NodesApart
<1> HIDE DEF u, E, P, l, x
<1>11. EditSeen(n, b, P, E, u)
  <2>1. EditedTo(D, q, n, b, P, E, u)
    BY <1>1, <1>3, <1>7, <1>8, <1>9, <1>10 DEF EditedTo
  <2> QED
    BY <2>1, EditedStep
<1>12. Poll!AddEventAwaiter(a, n, e)
  <2>1. Fields(poll, eventFlags, pendingEventFlags, D, q, n, b) /\ poll.released = q[Released]
    BY <1>3 DEF StoredBits
  <2>2. phase = "idle" /\ ~aborted
    BY DEF AddEventAwaiter, Ready
  <2>3. a \notin Poll!Waiting
    BY <1>1, <1>5, NotWaiting
  <2>4. poll'.queues = [poll.queues EXCEPT ![n][e] = Append(@, a)]
    <3>1. [d \in Event |-> u[QueueOf(b, d)]] = [poll.queues[n] EXCEPT ![e] = Append(@, a)]
      BY <2>1, <1>10 DEF Fields, x
    <3>2. poll'.queues = [poll.queues EXCEPT ![n] = [d \in Event |-> u[QueueOf(b, d)]]]
      BY <1>11 DEF EditSeen
    <3> QED
      BY <3>1, <3>2
  <2>5. poll'.pending = [poll.pending EXCEPT ![n] = @ \cup {e}]
    BY <2>1, <1>11 DEF EditSeen, Fields, P
  <2>6. poll'.dirty = IF e \in poll.pending[n] THEN poll.dirty ELSE poll.dirty \cup {n}
    <3>1. /\ n \in poll.dirty <=> b \in D
          /\ poll'.dirty = IF b \in E THEN poll.dirty \cup {n} ELSE poll.dirty \ {n}
          /\ e \in poll.pending[n] <=> e \in pendingEventFlags[b]
      BY <2>1, <1>11 DEF EditSeen, Fields
    <3>2. b \in E <=> b \in D \/ e \notin pendingEventFlags[b]
      BY DEF E
    <3>3. poll.dirty \ {n} = IF n \in poll.dirty THEN poll.dirty \ {n} ELSE poll.dirty
      OBVIOUS
    <3> QED
      BY <3>1, <3>2, <3>3
  <2>7. poll'.watchers = poll.watchers /\ poll'.eventFlags = poll.eventFlags
        /\ poll'.released = poll.released /\ n \in poll.watchers
    BY <2>1, <1>10, <1>11 DEF EditSeen, Fields
  <2> QED
    BY <2>2, <2>3, <2>4, <2>5, <2>6, <2>7, <1>8
    DEF Poll!AddEventAwaiter, Poll!Ready, Poll!AsksFor, Poll!waitVars
<1> QED
  BY <1>11, <1>12 DEF EditSeen

(* The events for which the queue of b is empty in u, but was not in q.    *)
Ended(q, u, b) == {e \in Event : q[QueueOf(b, e)] # <<>> /\ u[QueueOf(b, e)] = <<>>}

LEMMA QueuesSeen ==
  ASSUME NEW D, NEW q, NEW n \in FD, NEW b, NEW u, StoredBits(D, q, n, b),
         EditSeen(n, b, pendingEventFlags[b] \ Ended(q, u, b),
                  IF Ended(q, u, b) = {} THEN D ELSE D \cup {b}, u)
  PROVE  Poll!SetQueues(n, [e \in Event |-> u[QueueOf(b, e)]])
<1> DEFINE G == Ended(q, u, b)
           Q == [e \in Event |-> u[QueueOf(b, e)]]
<1>1. /\ poll.queues[n] = [e \in Event |-> q[QueueOf(b, e)]]
      /\ n \in poll.dirty <=> b \in D
      /\ poll.pending[n] = pendingEventFlags[b]
  BY DEF StoredBits, Fields
<1>2. Poll!Emptied(poll.queues[n], Q) = G
  BY <1>1 DEF Poll!Emptied, Poll!Event, Event, Ended
<1>3. /\ poll'.queues = [poll.queues EXCEPT ![n] = Q]
      /\ poll'.pending = [poll.pending EXCEPT ![n] = pendingEventFlags[b] \ G]
      /\ poll'.dirty = IF b \in (IF G = {} THEN D ELSE D \cup {b})
                         THEN poll.dirty \cup {n} ELSE poll.dirty \ {n}
  BY DEF EditSeen
<1> HIDE DEF G, Q
<1>4. poll'.dirty = IF G = {} THEN poll.dirty ELSE poll.dirty \cup {n}
  <2>1. poll.dirty \ {n} = IF n \in poll.dirty THEN poll.dirty \ {n} ELSE poll.dirty
    OBVIOUS
  <2>2. CASE G = {}
    BY <2>1, <2>2, <1>1, <1>3
  <2>3. CASE G # {}
    BY <2>3, <1>1, <1>3
  <2> QED
    BY <2>2, <2>3
<1>5. Poll!SetQueues(n, Q)
  BY <1>1, <1>2, <1>3, <1>4 DEF Poll!SetQueues, Poll!DirtyNow
<1> QED
  BY <1>5 DEF Q

LEMMA RemoveStep ==
  ASSUME WatcherInv, NEW a \in Awaiter, NEW n \in FD, RemoveEventAwaiter(a, n), Seen
  PROVE  StillStored /\ Poll!RemoveEventAwaiter(a, n)
<1>1. PICK D, q : Stored(D, q)
  BY DEF WatcherInv
<1>2. PICK b \in WatcherOf(n) :
        /\ \E e \in Event : a \in ToSet(QUEUE_FOREACH(pointers, QueueOf(b, e)))
        /\ LET s == RemoveAwaiter(Current, a, b)
           IN  Become([s EXCEPT !.links = Forgotten(@, {a})])
  BY DEF RemoveEventAwaiter
<1>3. WatcherOf(n) = {b} /\ StoredBits(D, q, n, b)
  BY <1>1, <1>2, OneWatcher, StoredTells
<1>4. PICK e \in Event : a \in ToSet(QUEUE_FOREACH(pointers, QueueOf(b, e)))
  BY <1>2
<1> DEFINE x == QueueOf(b, e)
<1>5. /\ b \in inUse /\ b \in Block /\ inUse \subseteq Block
      /\ x \in AwaiterHeads(inUse) /\ Released \in AwaiterHeads(inUse)
      /\ q \in [AwaiterHeads(inUse) -> Seq(Awaiter)]
      /\ QueuesApart(inUse, q) /\ a \in ToSet(q[x])
      /\ Holds(Current, inUse, D, q) /\ pendingEventFlags \in FlagMap
      /\ \A d \in Event : QueueOf(b, d) \in AwaiterHeads(inUse)
  BY <1>3, <1>4 DEF StoredBits, Tells, QueuesApart, HeadKinds
<1>6. PICK i \in 1..Len(q[x]) : a = q[x][i]
  <2>1. ToSet(q[x]) = {q[x][i] : i \in 1..Len(q[x])}
    BY <1>5, InSeq
  <2> QED
    BY <2>1, <1>5
<1> DEFINE s == RemoveAwaiter(Current, a, b)
           v == RemoveAt(q[x], i)
           u == [q EXCEPT ![x] = v]
           E == IF u[x] = <<>> THEN D \cup {b} ELSE D
           P == IF u[x] = <<>> THEN pendingEventFlags[b] \ {e} ELSE pendingEventFlags[b]
           l == Forgotten(s.links, {a})
<1>7. Holds(s, inUse, E, u) /\ s.pending = [pendingEventFlags EXCEPT ![b] = P]
  <2> HIDE DEF s
  <2>1. AwaiterLeft(Current, s, inUse, D, q, b, e, i)
    BY <1>5, <1>6, RemoveAwaiterHolds DEF s
  <2> QED
    BY <2>1 DEF AwaiterLeft, Current
<1>8. /\ u[x] = v /\ u[Released] = q[Released]
      /\ \A y \in AwaiterHeads(inUse) : y # x => u[y] = q[y]
      /\ \A c \in inUse \ {b}, d \in Event : u[QueueOf(c, d)] = q[QueueOf(c, d)]
      /\ \A d \in Event : d # e => u[QueueOf(b, d)] = q[QueueOf(b, d)]
  BY <1>5, NodesApart
<1>9. /\ v \in Seq(Awaiter) /\ ToSet(v) = ToSet(q[x]) \ {a}
  <2>1. q[x] \in Seq(Awaiter) /\ IsInjective(q[x])
    BY <1>5 DEF QueuesApart
  <2> HIDE DEF x
  <2> QED
    BY <2>1, <1>6, RemoveFromQueue
<1> HIDE DEF s, v, u, x
<1>10. \A y \in AwaiterHeads(inUse) : {a} \cap ToSet(u[y]) = {}
  <2>1. \A y \in AwaiterHeads(inUse) : y # x => a \notin ToSet(q[y])
    BY <1>5 DEF QueuesApart
  <2> QED
    BY <2>1, <1>8, <1>9
<1>11. pointers' = l /\ pendingEventFlags' = [pendingEventFlags EXCEPT ![b] = P]
  <2>1. s \in States
    BY <1>7 DEF Holds
  <2>2. Become([s EXCEPT !.links = l])
    BY <1>2 DEF s
  <2> HIDE DEF l, E, P
  <2> QED
    BY <2>1, <2>2, <1>7 DEF Become, States
<1>12. Shape(l, inUse, E, u)
  <2>1. Shape(s.links, inUse, E, u) /\ {a} \in SUBSET Awaiter
    BY <1>7 DEF Holds
  <2> HIDE DEF E
  <2> QED
    BY <2>1, <1>10, ForgetShape
<1>13. Holds([links |-> pointers', pending |-> pendingEventFlags'], inUse, E, u)
  <2> HIDE DEF E
  <2>1. l \in Pointers(QueueNode)
    BY <1>12, ShapeTells DEF Tells
  <2>2. pendingEventFlags' \in [Block -> SUBSET Event]
    BY <1>5, <1>11 DEF FlagMap
  <2> HIDE DEF l
  <2> QED
    BY <2>1, <2>2, <1>11, <1>12 DEF Holds, States
<1>14. UNCHANGED <<tableVars, eventFlags, interest, dataPtr, aborted, phase, revents>>
  BY DEF RemoveEventAwaiter, kernelVars, waitVars
<1>15. q[x] # <<>>
  BY <1>5, EmptyQueue
<1>16. Ended(q, u, b) = IF u[x] = <<>> THEN {e} ELSE {}
  BY <1>8, <1>15 DEF Ended, x
<1>17. P = pendingEventFlags[b] \ Ended(q, u, b) /\ E = IF Ended(q, u, b) = {} THEN D ELSE D \cup {b}
  BY <1>16
<1>18. \A c : c # b => (c \in D <=> c \in E)
  OBVIOUS
<1> HIDE DEF E, P, l
<1>19. EditSeen(n, b, P, E, u)
  <2>1. EditedTo(D, q, n, b, P, E, u)
    BY <1>1, <1>3, <1>8, <1>11, <1>13, <1>14, <1>18 DEF EditedTo
  <2> QED
    BY <2>1, EditedStep
<1>20. Poll!RemoveEventAwaiter(a, n)
  <2>1. Fields(poll, eventFlags, pendingEventFlags, D, q, n, b) /\ poll.released = q[Released]
    BY <1>3 DEF StoredBits
  <2>2. phase = "idle" /\ ~aborted
    BY DEF RemoveEventAwaiter, Ready
  <2>3. Poll!SetQueues(n, [d \in Event |-> u[QueueOf(b, d)]])
    BY <1>3, <1>17, <1>19, QueuesSeen
  <2>4. [d \in Event |-> u[QueueOf(b, d)]] = [poll.queues[n] EXCEPT ![e] = Poll!RemoveAt(@, i)]
    <3>1. Poll!RemoveAt(q[x], i) = v
      BY DEF Poll!RemoveAt, RemoveAt, v
    <3> QED
      BY <3>1, <2>1, <1>8 DEF Fields, x
  <2>5. i \in DOMAIN poll.queues[n][e] /\ poll.queues[n][e][i] = a
    <3>1. poll.queues[n][e] = q[x] /\ q[x] \in Seq(Awaiter)
      BY <2>1, <1>5 DEF Fields, x
    <3> QED
      BY <3>1, <1>6, InSeq
  <2>6. poll'.watchers = poll.watchers /\ poll'.eventFlags = poll.eventFlags
        /\ poll'.released = poll.released /\ n \in poll.watchers /\ e \in Poll!Event
    BY <2>1, <1>8, <1>19 DEF EditSeen, Fields, Poll!Event, Event
  <2>7. \E d \in Poll!Event : \E j \in DOMAIN poll.queues[n][d] :
          /\ poll.queues[n][d][j] = a
          /\ Poll!SetQueues(n, [poll.queues[n] EXCEPT ![d] = Poll!RemoveAt(@, j)])
    BY <2>3, <2>4, <2>5, <2>6
  <2> QED
    BY <2>2, <2>6, <2>7, <1>14 DEF Poll!RemoveEventAwaiter, Poll!Ready, Poll!waitVars
<1> QED
  BY <1>19, <1>20 DEF EditSeen

-----------------------------------------------------------------------------
(* WatcherRings: events are handled.                                       *)

(* A step of which memory, flags and registrations know nothing.           *)
LEMMA QuietStep ==
  ASSUME NEW D, NEW q, Stored(D, q), Seen,
         UNCHANGED <<tableVars, queueVars, eventFlags, interest, dataPtr>>
  PROVE  StillStored /\ poll' = poll
<1>1. /\ watchers' = watchers /\ inUse' = inUse /\ fd' = fd /\ eventFlags' = eventFlags
      /\ pointers' = pointers /\ pendingEventFlags' = pendingEventFlags
      /\ interest' = interest /\ dataPtr' = dataPtr
  BY DEF tableVars, queueVars
<1>2. StoredNext(D, q)
  BY <1>1 DEF StoredNext, Stored, Current
<1>3. poll' = View(watchers, eventFlags, pendingEventFlags, D, q) /\ StillStored
  BY <1>1, <1>2, StoredAfter
<1> QED
  BY <1>3 DEF Stored

(* A report is of a watcher, by its address.                               *)
LEMMA ReportedWatcher ==
  ASSUME WatcherInv, NEW D, NEW q, Stored(D, q), NEW n \in FD,
         phase = "handling", revents[n] # {}
  PROVE  /\ WatcherOf(n) = {dataPtr[n]} /\ StoredBits(D, q, n, dataPtr[n])
         /\ Asking(Current, q, dataPtr[n])
         /\ \A e \in Event : e \in revents[n] => q[QueueOf(dataPtr[n], e)] # <<>>
<1>1. interest[n] # {}
  BY DEF WatcherInv, Reported
<1>2. WatcherOf(n) = {dataPtr[n]}
  BY <1>1 DEF Stored, KernelPoints, WatcherOf
<1>3. StoredBits(D, q, n, dataPtr[n])
  BY <1>2, StoredTells
<1>4. PollBits
  BY PollTells DEF WatcherInv
<1>5. \A e \in Event : poll.queues[n][e] = q[QueueOf(dataPtr[n], e)]
  BY <1>3 DEF StoredBits, Fields
<1>6. poll.pending[n] = pendingEventFlags[dataPtr[n]]
  BY <1>3 DEF StoredBits, Fields
<1> QED
  BY <1>2, <1>3, <1>4, <1>5, <1>6 DEF PollBits, Asking, Current

LEMMA ErrorStep ==
  ASSUME WatcherInv, NEW n \in FD, HandleError(n), Seen
  PROVE  StillStored /\ Poll!HandleError(n)
<1>1. PICK D, q : Stored(D, q)
  BY DEF WatcherInv
<1> DEFINE b == dataPtr[n]
           t == RemoveAwaiters(Current, b)
           u == Emptied(q, b)
           E == IF pendingEventFlags[b] = {} THEN D ELSE D \cup {b}
<1>2. /\ phase = "handling" /\ "Error" \in revents[n] /\ Become(t)
      /\ revents' = [revents EXCEPT ![n] = {}]
      /\ UNCHANGED <<tableVars, eventFlags, interest, dataPtr, aborted, phase>>
  BY DEF HandleError, Handle, kernelVars
<1>3. WatcherOf(n) = {b} /\ StoredBits(D, q, n, b) /\ Asking(Current, q, b)
  <2>1. revents[n] # {}
    BY <1>2
  <2> QED
    BY <2>1, <1>1, <1>2, ReportedWatcher
<1>4. /\ b \in inUse /\ b \in Block /\ inUse \subseteq Block
      /\ Released \in AwaiterHeads(inUse)
      /\ q \in [AwaiterHeads(inUse) -> Seq(Awaiter)]
      /\ Holds(Current, inUse, D, q) /\ pendingEventFlags \in FlagMap
      /\ \A e \in Event : QueueOf(b, e) \in AwaiterHeads(inUse)
      /\ Fields(poll, eventFlags, pendingEventFlags, D, q, n, b) /\ poll.released = q[Released]
  BY <1>3 DEF StoredBits, Tells, QueuesApart, HeadKinds
<1>5. /\ n \in poll.watchers /\ poll.pending[n] = pendingEventFlags[b]
      /\ \A e \in Event : poll.queues[n][e] = q[QueueOf(b, e)]
      /\ n \in poll.dirty <=> b \in D
  BY <1>4 DEF Fields
<1>6. CASE pendingEventFlags[b] = {}
  <2>1. t = Current
    BY <1>6 DEF RemoveAwaiters, Current
  <2>2. UNCHANGED queueVars
    BY <2>1, <1>2 DEF Become, Current, queueVars
  <2>3. StillStored /\ poll' = poll
    BY <2>2, <1>1, <1>2, QuietStep
  <2>4. Poll!HandleError(n)
    BY <2>3, <1>2, <1>5, <1>6 DEF Poll!HandleError, Poll!watcherVars
  <2> QED
    BY <2>3, <2>4
<1>7. CASE pendingEventFlags[b] # {}
  <2>0. Current.pending = pendingEventFlags
    BY DEF Current
  <2>1. Holds(t, inUse, E, u) /\ t.pending = [pendingEventFlags EXCEPT ![b] = {}]
    <3> HIDE DEF b, t
    <3>1. AllLeft(Current, t, inUse, D, q, b)
      BY <1>3, <1>4, RemoveAwaitersHolds DEF t
    <3> QED
      BY <3>1, <2>0 DEF AllLeft
  <2> DEFINE R == QueueOf(b, "Readability")
             W == QueueOf(b, "Writability")
  <2>2. /\ R \in AwaiterHeads(inUse) /\ W \in AwaiterHeads(inUse)
        /\ R # Released /\ W # Released /\ R # W
        /\ "Readability" \in Event /\ "Writability" \in Event
    <3>1. "Readability" \in Event /\ "Writability" \in Event
      BY DEF Event
    <3> QED
      BY <3>1, <1>4, NodesApart
  <2>3. /\ \A e \in Event : u[QueueOf(b, e)] = <<>>
        /\ \A c \in inUse \ {b}, e \in Event : u[QueueOf(c, e)] = q[QueueOf(c, e)]
        /\ u[Released] = (q[Released] \o q[R]) \o q[W]
    <3>1. \A y \in AwaiterHeads(inUse) : y # R /\ y # W /\ y # Released => u[y] = q[y]
      BY <1>4 DEF Emptied
    <3>2. u[R] = <<>> /\ u[W] = <<>> /\ u[Released] = (q[Released] \o q[R]) \o q[W]
      BY <2>2, <1>4 DEF Emptied
    <3>3. \A e \in Event : QueueOf(b, e) = R \/ QueueOf(b, e) = W
      BY DEF Event
    <3>4. \A c \in inUse \ {b}, e \in Event :
            /\ QueueOf(c, e) \in AwaiterHeads(inUse)
            /\ QueueOf(c, e) # R /\ QueueOf(c, e) # W /\ QueueOf(c, e) # Released
      <4>1. \A c \in inUse, e \in Event : QueueOf(c, e) \in AwaiterHeads(inUse)
        BY DEF AwaiterHeads
      <4> QED
        BY <4>1, <2>2, <1>4, NodesApart
    <3> HIDE DEF u, R, W
    <3> QED
      BY <3>1, <3>2, <3>3, <3>4
  <2>4. Holds([links |-> pointers', pending |-> pendingEventFlags'], inUse, E, u)
        /\ pendingEventFlags' = [pendingEventFlags EXCEPT ![b] = {}]
    <3>1. t \in States /\ pointers' = t.links /\ pendingEventFlags' = t.pending
      BY <2>1, <1>2 DEF Holds, Become
    <3>2. t = [links |-> t.links, pending |-> t.pending]
      BY <3>1 DEF States
    <3> HIDE DEF t
    <3> QED
      BY <3>1, <3>2, <2>1
  <2>5. EditSeen(n, b, {}, E, u)
    <3>1. \A c : c # b => (c \in D <=> c \in E)
      OBVIOUS
    <3> HIDE DEF b, u, E
    <3>2. EditedTo(D, q, n, b, {}, E, u)
      BY <3>1, <2>3, <2>4, <1>1, <1>2, <1>3 DEF EditedTo
    <3> QED
      BY <3>2, EditedStep
  <2>6. poll'.released = poll.released \o Poll!AwaitersOf(n)
    <3>1. q[Released] \in Seq(Awaiter) /\ q[R] \in Seq(Awaiter) /\ q[W] \in Seq(Awaiter)
      BY <2>2, <1>4
    <3>2. (q[Released] \o q[R]) \o q[W] = q[Released] \o (q[R] \o q[W])
      <4>1. \A x, y, z \in Seq(Awaiter) : (x \o y) \o z = x \o (y \o z)
        BY ConcatAssociative
      <4> HIDE DEF R, W
      <4> QED
        BY <3>1, <4>1
    <3>3. Poll!AwaitersOf(n) = q[R] \o q[W]
      BY <2>2, <1>5 DEF Poll!AwaitersOf
    <3> QED
      BY <3>2, <3>3, <2>3, <2>5, <1>4 DEF EditSeen
  <2>7. [e \in Event |-> u[QueueOf(b, e)]] = Poll!NoQueues
    BY <2>3 DEF Poll!NoQueues, Poll!Event, Event
  <2>8. b \in E
    BY <1>7
  <2> HIDE DEF u, E
  <2>9. /\ poll'.watchers = poll.watchers /\ poll'.eventFlags = poll.eventFlags
        /\ poll'.pending = [poll.pending EXCEPT ![n] = {}]
        /\ poll'.queues = [poll.queues EXCEPT ![n] = Poll!NoQueues]
        /\ poll'.dirty = poll.dirty \cup {n}
    BY <2>5, <2>7, <2>8 DEF EditSeen
  <2>10. Poll!HandleError(n)
    BY <2>6, <2>9, <1>2, <1>5, <1>7 DEF Poll!HandleError, Poll!ReleasedByError
  <2> QED
    BY <2>5, <2>10 DEF EditSeen
<1> QED
  BY <1>6, <1>7

(* What is left of the queue s if its first item is given, and what is     *)
(* given then.                                                             *)
Rest(s, given) == IF given THEN Tail(s) ELSE s
First(s, given) == IF given THEN <<Head(s)>> ELSE <<>>

(* From q to u: the first awaiter of b for e left for the caller, if given.*)
Serves(A, q, u, b, e, given) ==
  /\ u \in [AwaiterHeads(A) -> Seq(Awaiter)]
  /\ u[QueueOf(b, e)] = Rest(q[QueueOf(b, e)], given)
  /\ u[Released] = q[Released] \o First(q[QueueOf(b, e)], given)
  /\ \A x \in AwaiterHeads(A) : x # Released /\ x # QueueOf(b, e) => u[x] = q[x]

LEMMA ServedQueues ==
  \A A, q, given : \A b \in A, e \in Event :
    /\ A \subseteq Block /\ q \in [AwaiterHeads(A) -> Seq(Awaiter)] /\ given \in BOOLEAN
    /\ given => q[QueueOf(b, e)] # <<>>
    => Serves(A, q, IF given THEN Served(q, b, e) ELSE q, b, e, given)
<1> SUFFICES ASSUME NEW A, NEW q, NEW given \in BOOLEAN, NEW b \in A, NEW e \in Event,
                    A \subseteq Block, q \in [AwaiterHeads(A) -> Seq(Awaiter)],
                    given => q[QueueOf(b, e)] # <<>>
             PROVE  Serves(A, q, IF given THEN Served(q, b, e) ELSE q, b, e, given)
  OBVIOUS
<1> DEFINE x == QueueOf(b, e)
<1>1. /\ x \in AwaiterHeads(A) /\ Released \in AwaiterHeads(A) /\ x # Released
      /\ q[x] \in Seq(Awaiter) /\ q[Released] \in Seq(Awaiter)
  <2>1. x \in AwaiterHeads(A) /\ Released \in AwaiterHeads(A) /\ x # Released
    BY NodesApart DEF AwaiterHeads
  <2> QED
    BY <2>1
<1> HIDE DEF x
<1>2. CASE given
  <2> DEFINE y == Head(q[x])
  <2>1. y \in Awaiter /\ Tail(q[x]) \in Seq(Awaiter)
    <3>1. q[x] # <<>>
      BY <1>2 DEF x
    <3> QED
      BY <3>1, <1>1, HeadTailProperties
  <2>2. Append(q[Released], y) = q[Released] \o <<y>> /\ Append(q[Released], y) \in Seq(Awaiter)
    <3> HIDE DEF y
    <3>1. \A s \in Seq(Awaiter) : Append(s, y) = s \o <<y>> /\ Append(s, y) \in Seq(Awaiter)
      BY <2>1, AppendIsConcat, AppendProperties
    <3> QED
      BY <3>1, <1>1
  <2>3. Served(q, b, e) = [q EXCEPT ![x] = Tail(q[x]), ![Released] = Append(q[Released], y)]
    BY DEF Served, x
  <2> QED
    BY <2>1, <2>2, <2>3, <1>1, <1>2 DEF Serves, Rest, First, x
<1>3. CASE ~given
  <2>1. q[Released] \o <<>> = q[Released]
    <3>1. \A s \in Seq(Awaiter) : s \o <<>> = s
      BY ConcatEmptySeq
    <3> QED
      BY <3>1, <1>1
  <2> QED
    BY <2>1, <1>1, <1>3 DEF Serves, Rest, First, x
<1> QED
  BY <1>2, <1>3

LEMMA ReadinessStep ==
  ASSUME WatcherInv, NEW n \in FD, HandleReadiness(n), Seen
  PROVE  StillStored /\ Poll!HandleReadiness(n)
<1>1. PICK D, q : Stored(D, q)
  BY DEF WatcherInv
<1> DEFINE b == dataPtr[n]
           R == QueueOf(b, "Readability")
           W == QueueOf(b, "Writability")
           rd == "Readability" \in revents[n]
           wr == "Writability" \in revents[n]
           t1 == Release(Current, n, "Readability")
           t2 == Release(t1, n, "Writability")
           q1 == IF rd THEN Served(q, b, "Readability") ELSE q
           u == IF wr THEN Served(q1, b, "Writability") ELSE q1
<1>2. /\ phase = "handling" /\ revents[n] # {} /\ "Error" \notin revents[n] /\ Become(t2)
      /\ revents' = [revents EXCEPT ![n] = {}]
      /\ UNCHANGED <<tableVars, eventFlags, interest, dataPtr, aborted, phase>>
  BY DEF HandleReadiness, Handle, kernelVars
<1>3. WatcherOf(n) = {b} /\ StoredBits(D, q, n, b)
      /\ \A e \in Event : e \in revents[n] => q[QueueOf(b, e)] # <<>>
  BY <1>1, <1>2, ReportedWatcher
<1>4. /\ b \in inUse /\ b \in Block /\ inUse \subseteq Block
      /\ Released \in AwaiterHeads(inUse)
      /\ q \in [AwaiterHeads(inUse) -> Seq(Awaiter)]
      /\ Holds(Current, inUse, D, q) /\ pendingEventFlags \in FlagMap
      /\ Fields(poll, eventFlags, pendingEventFlags, D, q, n, b) /\ poll.released = q[Released]
  BY <1>3 DEF StoredBits, Tells, QueuesApart, HeadKinds
<1>5. /\ R \in AwaiterHeads(inUse) /\ W \in AwaiterHeads(inUse)
      /\ R # Released /\ W # Released /\ R # W
      /\ "Readability" \in Event /\ "Writability" \in Event
      /\ \A c \in inUse \ {b}, e \in Event :
           /\ QueueOf(c, e) \in AwaiterHeads(inUse)
           /\ QueueOf(c, e) # R /\ QueueOf(c, e) # W /\ QueueOf(c, e) # Released
  <2>1. "Readability" \in Event /\ "Writability" \in Event
    BY DEF Event
  <2>2. \A c \in inUse, e \in Event : QueueOf(c, e) \in AwaiterHeads(inUse)
    BY DEF AwaiterHeads
  <2> QED
    BY <2>1, <2>2, <1>4, NodesApart
<1>6. FirstLeft(Current, t1, inUse, D, q, b, "Readability", rd)
  <2>1. rd => q[R] # <<>>
    BY <1>3, <1>5
  <2> QED
    BY <2>1, <1>4, <1>5, ReleaseHolds
<1> HIDE DEF t1, t2
<1>60. Serves(inUse, q, q1, b, "Readability", rd)
  <2>1. (rd => q[R] # <<>>) /\ rd \in BOOLEAN
    BY <1>3, <1>5
  <2> HIDE DEF rd, b
  <2> QED
    BY <2>1, <1>4, <1>5, ServedQueues
<1> DEFINE D1 == IF rd /\ Tail(q[R]) = <<>> THEN D \cup {b} ELSE D
<1> HIDE DEF q1, R, W
<1>7. /\ Holds(t1, inUse, D1, q1)
      /\ q1 \in [AwaiterHeads(inUse) -> Seq(Awaiter)] /\ q1[W] = q[W]
      /\ q1[R] = Rest(q[R], rd) /\ q1[Released] = q[Released] \o First(q[R], rd)
      /\ \A x \in AwaiterHeads(inUse) : x # Released /\ x # R => q1[x] = q[x]
      /\ t1.pending = [pendingEventFlags EXCEPT
                         ![b] = IF rd /\ Tail(q[R]) = <<>> THEN @ \ {"Readability"} ELSE @]
  BY <1>5, <1>6, <1>60 DEF FirstLeft, Serves, Current, q1, R
<1>8. wr => q1[W] # <<>>
  BY <1>3, <1>5, <1>7 DEF W
<1>80. FirstLeft(t1, t2, inUse, D1, q1, b, "Writability", wr)
  <2>1. wr => q1[QueueOf(dataPtr[n], "Writability")] # <<>>
    BY <1>8 DEF W
  <2> HIDE DEF D1
  <2> QED
    BY <2>1, <1>4, <1>5, <1>7, ReleaseHolds DEF t2
<1>81. Serves(inUse, q1, u, b, "Writability", wr)
  <2>1. wr \in BOOLEAN
    OBVIOUS
  <2> HIDE DEF wr, b
  <2> QED
    BY <2>1, <1>4, <1>5, <1>7, <1>8, ServedQueues DEF W
<1> DEFINE E == IF wr /\ Tail(q[W]) = <<>> THEN D1 \cup {b} ELSE D1
<1> HIDE DEF u
<1>9. /\ Holds(t2, inUse, E, u)
      /\ u[W] = Rest(q[W], wr) /\ u[Released] = q1[Released] \o First(q[W], wr)
      /\ \A x \in AwaiterHeads(inUse) : x # Released /\ x # W => u[x] = q1[x]
      /\ t2.pending = [t1.pending EXCEPT
                         ![b] = IF wr /\ Tail(q[W]) = <<>> THEN @ \ {"Writability"} ELSE @]
  BY <1>5, <1>7, <1>80, <1>81 DEF FirstLeft, Serves, u, W
<1>10. /\ u[R] = Rest(q[R], rd) /\ u[W] = Rest(q[W], wr)
       /\ u[Released] = (q[Released] \o First(q[R], rd)) \o First(q[W], wr)
       /\ \A c \in inUse \ {b}, e \in Event : u[QueueOf(c, e)] = q[QueueOf(c, e)]
  <2>1. u[R] = q1[R] /\ u[Released] = q1[Released] \o First(q[W], wr) /\ u[W] = Rest(q[W], wr)
    BY <1>5, <1>9
  <2>2. q1[R] = Rest(q[R], rd) /\ q1[Released] = q[Released] \o First(q[R], rd)
    BY <1>7
  <2>3. ASSUME NEW c \in inUse \ {b}, NEW e \in Event
        PROVE  u[QueueOf(c, e)] = q[QueueOf(c, e)]
    <3> DEFINE x == QueueOf(c, e)
    <3>1. x \in AwaiterHeads(inUse) /\ x # R /\ x # W /\ x # Released
      BY <1>5
    <3> HIDE DEF x
    <3>2. u[x] = q1[x]
      BY <3>1, <1>9
    <3>3. q1[x] = q[x]
      BY <3>1, <1>7
    <3> QED
      BY <3>2, <3>3 DEF x
  <2> QED
    BY <2>1, <2>2, <2>3
<1> DEFINE G == Ended(q, u, b)
           P == pendingEventFlags[b] \ G
<1>11. \A e \in Event : /\ u[QueueOf(b, e)] = Rest(q[QueueOf(b, e)], e \in revents[n])
                        /\ e \in G <=> e \in revents[n] /\ Tail(q[QueueOf(b, e)]) = <<>>
  <2>1. \A e \in Event : u[QueueOf(b, e)] = Rest(q[QueueOf(b, e)], e \in revents[n])
    BY <1>10 DEF Event, R, W
  <2> QED
    BY <2>1, <1>3 DEF Ended, Rest
<1>12. /\ "Readability" \in G <=> rd /\ Tail(q[R]) = <<>>
       /\ "Writability" \in G <=> wr /\ Tail(q[W]) = <<>>
       /\ G \subseteq {"Readability", "Writability"}
  BY <1>5, <1>11 DEF R, W, Ended, Event
<1>13. t2.pending = [pendingEventFlags EXCEPT ![b] = P]
  <2>1. pendingEventFlags \in [Block -> SUBSET Event]
    BY <1>4 DEF FlagMap
  <2> DEFINE X == IF rd /\ Tail(q[R]) = <<>> THEN pendingEventFlags[b] \ {"Readability"}
                                             ELSE pendingEventFlags[b]
             Y == IF wr /\ Tail(q[W]) = <<>> THEN X \ {"Writability"} ELSE X
  <2>2. Y = P
    <3> HIDE DEF G
    <3> QED
      BY <1>12
  <2>3. t1.pending = [pendingEventFlags EXCEPT ![b] = X]
    BY <1>7
  <2>4. t2.pending = [t1.pending EXCEPT ![b] = IF wr /\ Tail(q[W]) = <<>> THEN @ \ {"Writability"} ELSE @]
    BY <1>9
  <2> HIDE DEF X, P
  <2>5. t1.pending[b] = X
    BY <2>1, <2>3, <1>4
  <2>6. t2.pending = [t1.pending EXCEPT ![b] = Y]
    BY <2>4, <2>5
  <2> HIDE DEF Y
  <2> QED
    BY <2>1, <2>2, <2>3, <2>6
<1>14. E = IF G = {} THEN D ELSE D \cup {b}
  <2> HIDE DEF G
  <2>1. G = {} <=> ~("Readability" \in G) /\ ~("Writability" \in G)
    BY <1>12
  <2> QED
    BY <2>1, <1>12
<1> HIDE DEF G, P, E, D1
<1>15. Holds([links |-> pointers', pending |-> pendingEventFlags'], inUse, E, u)
       /\ pendingEventFlags' = [pendingEventFlags EXCEPT ![b] = P]
  <2>1. t2 \in States /\ pointers' = t2.links /\ pendingEventFlags' = t2.pending
    BY <1>2, <1>9 DEF Holds, Become, t2
  <2>2. t2 = [links |-> t2.links, pending |-> t2.pending]
    BY <2>1 DEF States
  <2> QED
    BY <2>1, <2>2, <1>9, <1>13
<1>16. EditSeen(n, b, P, E, u)
  <2>1. \A c : c # b => (c \in D <=> c \in E)
    BY <1>14
  <2> HIDE DEF b
  <2>2. EditedTo(D, q, n, b, P, E, u)
    BY <2>1, <1>1, <1>2, <1>3, <1>10, <1>15 DEF EditedTo
  <2> QED
    BY <2>2, EditedStep
<1>17. Poll!HandleReadiness(n)
  <2>1. Poll!SetQueues(n, [e \in Event |-> u[QueueOf(b, e)]])
    <3> HIDE DEF b
    <3> QED
      BY <1>3, <1>14, <1>16, QueuesSeen DEF P, G
  <2>2. /\ \A e \in Event : poll.queues[n][e] = q[QueueOf(b, e)]
        /\ poll.released = q[Released]
    BY <1>4 DEF Fields
  <2>3. [e \in Event |-> u[QueueOf(b, e)]]
        = [e \in Poll!Event |-> IF e \in revents[n] THEN Tail(poll.queues[n][e]) ELSE poll.queues[n][e]]
    <3>1. Poll!Event = Event
      BY DEF Poll!Event, Event
    <3> QED
      BY <3>1, <2>2, <1>11 DEF Rest
  <2>4. poll'.released = (poll.released \o (IF rd THEN <<Head(poll.queues[n]["Readability"])>> ELSE <<>>))
                           \o (IF wr THEN <<Head(poll.queues[n]["Writability"])>> ELSE <<>>)
    BY <2>2, <1>5, <1>10, <1>16 DEF EditSeen, First, R, W
  <2>5. poll'.watchers = poll.watchers /\ poll'.eventFlags = poll.eventFlags
    BY <1>16 DEF EditSeen
  <2> QED
    BY <2>1, <2>3, <2>4, <2>5, <1>2 DEF Poll!HandleReadiness
<1> QED
  BY <1>16, <1>17 DEF EditSeen

-----------------------------------------------------------------------------
(* WatcherRings: watchers come and go.                                     *)

(* The descriptor m is as it was, from w, f, p, D, q to W, F, P, E, u.     *)
SameSeat(w, f, p, D, q, W, F, P, E, u, m) ==
  \/ WatcherAt(w, m) = {} /\ WatcherAt(W, m) = {}
  \/ \E c : /\ WatcherAt(w, m) = {c} /\ WatcherAt(W, m) = {c} /\ w[m] = c /\ W[m] = c
            /\ F[c] = f[c] /\ P[c] = p[c] /\ (c \in D <=> c \in E)
            /\ \A e \in Event : u[QueueOf(c, e)] = q[QueueOf(c, e)]

(* The descriptor n has no watcher, or one nobody has used.                *)
BlankSeat(W, F, P, E, u, n) ==
  \/ WatcherAt(W, n) = {}
  \/ \E c : /\ WatcherAt(W, n) = {c} /\ W[n] = c
            /\ F[c] = {} /\ P[c] = {} /\ c \notin E
            /\ \A e \in Event : u[QueueOf(c, e)] = <<>>

Renewed(v, V, n) ==
  /\ V.eventFlags = [v.eventFlags EXCEPT ![n] = {}]
  /\ V.pending = [v.pending EXCEPT ![n] = {}]
  /\ V.queues = [v.queues EXCEPT ![n] = Poll!NoQueues]
  /\ V.dirty = v.dirty \ {n}
  /\ V.watchers \ {n} = v.watchers \ {n}

LEMMA ViewRenewed ==
  \A w, f, p, D, q, W, F, P, E, u : \A n \in FD :
    /\ \A m \in FD : m # n => SameSeat(w, f, p, D, q, W, F, P, E, u, m)
    /\ BlankSeat(W, F, P, E, u, n)
    => Renewed(View(w, f, p, D, q), View(W, F, P, E, u), n)
<1> SUFFICES ASSUME NEW w, NEW f, NEW p, NEW D, NEW q, NEW W, NEW F, NEW P, NEW E, NEW u,
                    NEW n \in FD,
                    \A m \in FD : m # n => SameSeat(w, f, p, D, q, W, F, P, E, u, m),
                    BlankSeat(W, F, P, E, u, n)
             PROVE  Renewed(View(w, f, p, D, q), View(W, F, P, E, u), n)
  OBVIOUS
<1> DEFINE v == View(w, f, p, D, q)
           V == View(W, F, P, E, u)
<1>1. ASSUME NEW m \in FD, m # n
      PROVE  /\ WatcherAt(W, m) = WatcherAt(w, m)
             /\ UNION {F[c] : c \in WatcherAt(W, m)} = UNION {f[c] : c \in WatcherAt(w, m)}
             /\ UNION {P[c] : c \in WatcherAt(W, m)} = UNION {p[c] : c \in WatcherAt(w, m)}
             /\ WatcherAt(W, m) \cap E # {} <=> WatcherAt(w, m) \cap D # {}
             /\ \A e \in Event : WatcherAt(w, m) # {} => u[QueueOf(W[m], e)] = q[QueueOf(w[m], e)]
  <2>1. SameSeat(w, f, p, D, q, W, F, P, E, u, m)
    BY <1>1
  <2>2. WatcherAt(W, m) = WatcherAt(w, m)
    BY <2>1 DEF SameSeat
  <2>3. \A c \in WatcherAt(w, m) : F[c] = f[c] /\ P[c] = p[c] /\ (c \in D <=> c \in E)
    BY <2>1 DEF SameSeat
  <2>4. \A e \in Event : WatcherAt(w, m) # {} => u[QueueOf(W[m], e)] = q[QueueOf(w[m], e)]
    BY <2>1 DEF SameSeat
  <2> QED
    BY <2>2, <2>3, <2>4
<1>2. /\ UNION {F[c] : c \in WatcherAt(W, n)} = {} /\ UNION {P[c] : c \in WatcherAt(W, n)} = {}
      /\ WatcherAt(W, n) \cap E = {}
      /\ \A e \in Event : WatcherAt(W, n) # {} => u[QueueOf(W[n], e)] = <<>>
  <2>1. \A c \in WatcherAt(W, n) : F[c] = {} /\ P[c] = {} /\ c \notin E
    BY DEF BlankSeat
  <2>2. \A e \in Event : WatcherAt(W, n) # {} => u[QueueOf(W[n], e)] = <<>>
    BY DEF BlankSeat
  <2> QED
    BY <2>1, <2>2
<1>3. V.eventFlags = [v.eventFlags EXCEPT ![n] = {}]
  BY <1>1, <1>2 DEF View
<1>4. V.pending = [v.pending EXCEPT ![n] = {}]
  BY <1>1, <1>2 DEF View
<1>5. V.queues = [v.queues EXCEPT ![n] = Poll!NoQueues]
  <2>1. \A m \in FD : m # n =>
          [e \in Event |-> IF WatcherAt(W, m) = {} THEN <<>> ELSE u[QueueOf(W[m], e)]]
          = [e \in Event |-> IF WatcherAt(w, m) = {} THEN <<>> ELSE q[QueueOf(w[m], e)]]
    BY <1>1
  <2>2. [e \in Event |-> IF WatcherAt(W, n) = {} THEN <<>> ELSE u[QueueOf(W[n], e)]]
        = [e \in Event |-> <<>>]
    BY <1>2
  <2>3. Poll!NoQueues = [e \in Event |-> <<>>]
    BY DEF Poll!NoQueues, Poll!Event, Event
  <2>4. V.queues = [v.queues EXCEPT ![n] = [e \in Event |-> <<>>]]
    BY <2>1, <2>2 DEF View
  <2> QED
    BY <2>3, <2>4
<1>6. V.dirty = v.dirty \ {n}
  <2>1. \A m \in FD : m \in V.dirty <=> m # n /\ m \in v.dirty
    BY <1>1, <1>2 DEF View
  <2>2. V.dirty \subseteq FD /\ v.dirty \subseteq FD
    BY DEF View
  <2> HIDE DEF v, V
  <2> QED
    BY <2>1, <2>2
<1>7. V.watchers \ {n} = v.watchers \ {n}
  <2>1. \A m \in FD : m # n => (m \in V.watchers <=> m \in v.watchers)
    BY <1>1 DEF View
  <2>2. V.watchers \subseteq FD /\ v.watchers \subseteq FD
    BY DEF View
  <2> HIDE DEF v, V
  <2> QED
    BY <2>1, <2>2
<1> QED
  BY <1>3, <1>4, <1>5, <1>6, <1>7 DEF Renewed

(* The descriptor n gets the watcher b, a block that was free.             *)
Joined(n, b) ==
  LET W == [Resized(n) EXCEPT ![n] = b] IN
  /\ Seated(W, inUse \cup {b}, [fd EXCEPT ![b] = n])
  /\ WatcherAt(W, n) = {b} /\ W[n] = b
  /\ \A m \in FD : m # n => /\ WatcherAt(W, m) = WatcherAt(watchers, m)
                            /\ m \in DOMAIN watchers => W[m] = watchers[m]

LEMMA SeatTaken ==
  ASSUME Seated(watchers, inUse, fd), NEW n \in FD, WatcherAt(watchers, n) = {},
         NEW b \in Block \ inUse
  PROVE  Joined(n, b)
<1> DEFINE r == Resized(n)
           W == [r EXCEPT ![n] = b]
           A == inUse \cup {b}
           d == [fd EXCEPT ![b] = n]
<1>1. /\ VectorOK(watchers) /\ inUse \subseteq Block /\ fd \in [Block -> FD \cup {Null}]
      /\ \A i \in DOMAIN watchers : watchers[i] # Null =>
           i \in FD /\ watchers[i] \in inUse /\ fd[watchers[i]] = i
      /\ \A c \in inUse : fd[c] \in FD /\ fd[c] \in DOMAIN watchers /\ watchers[fd[c]] = c
  BY DEF Seated
<1>2. /\ VectorOK(r) /\ n \in DOMAIN r /\ DOMAIN watchers \subseteq DOMAIN r
      /\ \A i \in DOMAIN r : r[i] = IF i \in DOMAIN watchers THEN watchers[i] ELSE Null
  BY <1>1, GrownVector
<1>3. b \in Block /\ b \notin inUse /\ b # Null /\ \A c \in inUse : c # Null
  BY <1>1, MemoryAssumption
<1> HIDE DEF r
<1>4. /\ DOMAIN W = DOMAIN r /\ W[n] = b
      /\ \A i \in DOMAIN r : i # n => W[i] = IF i \in DOMAIN watchers THEN watchers[i] ELSE Null
  BY <1>2
<1>5. d \in [Block -> FD \cup {Null}] /\ d[b] = n /\ \A c \in inUse : d[c] = fd[c]
  BY <1>1, <1>3
<1> HIDE DEF W, d
<1>6. VectorOK(W)
  BY <1>2, <1>4 DEF VectorOK
<1>7. \A c \in inUse : fd[c] # n
  BY <1>1, <1>3 DEF WatcherAt
<1>8. Seated(W, A, d)
  <2>1. \A i \in DOMAIN W : W[i] # Null => i \in FD /\ W[i] \in A /\ d[W[i]] = i
    <3> SUFFICES ASSUME NEW i \in DOMAIN W, W[i] # Null
                 PROVE  i \in FD /\ W[i] \in A /\ d[W[i]] = i
      OBVIOUS
    <3>1. CASE i = n
      BY <3>1, <1>4, <1>5
    <3>2. CASE i # n
      BY <3>2, <1>1, <1>4, <1>5
    <3> QED
      BY <3>1, <3>2
  <2>2. \A c \in A : d[c] \in FD /\ d[c] \in DOMAIN W /\ W[d[c]] = c
    <3>1. \A c \in inUse : d[c] \in FD /\ d[c] \in DOMAIN W /\ W[d[c]] = c
      BY <1>1, <1>2, <1>4, <1>5, <1>7
    <3> QED
      BY <3>1, <1>2, <1>4, <1>5
  <2> QED
    BY <2>1, <2>2, <1>1, <1>3, <1>5, <1>6 DEF Seated
<1>9. WatcherAt(W, n) = {b}
  BY <1>2, <1>3, <1>4 DEF WatcherAt
<1>10. \A m \in FD : m # n => /\ WatcherAt(W, m) = WatcherAt(watchers, m)
                              /\ m \in DOMAIN watchers => W[m] = watchers[m]
  BY <1>2, <1>4 DEF WatcherAt
<1> QED
  BY <1>4, <1>8, <1>9, <1>10 DEF Joined, W, d, r

LEMMA CreateStep ==
  ASSUME WatcherInv, NEW n \in FD, CreateWatcher(n), Seen
  PROVE  StillStored /\ Poll!CreateWatcher(n)
<1>1. PICK D, q : Stored(D, q)
  BY DEF WatcherInv
<1>2. /\ phase = "idle" /\ ~aborted /\ WatcherAt(watchers, n) = {}
      /\ UNCHANGED <<interest, dataPtr, aborted, phase, revents>>
  BY DEF CreateWatcher, Ready, WatcherOf, kernelVars, waitVars
<1>3. PICK b \in Block \ inUse :
       /\ inUse' = inUse \cup {b}
       /\ watchers' = [Resized(n) EXCEPT ![n] = b]
       /\ fd' = [fd EXCEPT ![b] = n]
       /\ eventFlags' = [eventFlags EXCEPT ![b] = {}]
       /\ Become([links |-> Initialised(pointers, Queues(b)),
                  pending |-> [pendingEventFlags EXCEPT ![b] = {}]])
  BY DEF CreateWatcher
<1> DEFINE A == inUse \cup {b}
           L == Initialised(pointers, Queues(b))
           u == [x \in AwaiterHeads(A) |-> IF x \in Queues(b) THEN <<>> ELSE q[x]]
<1>4. /\ pointers' = L /\ pendingEventFlags' = [pendingEventFlags EXCEPT ![b] = {}]
  BY <1>3 DEF Become
<1>5. /\ Seated(watchers, inUse, fd) /\ Shape(pointers, inUse, D, q)
      /\ eventFlags \in FlagMap /\ pendingEventFlags \in FlagMap
      /\ KernelPoints(watchers, interest, dataPtr)
      /\ poll = View(watchers, eventFlags, pendingEventFlags, D, q)
  BY <1>1 DEF Stored, Holds, States, Current, FlagMap
<1>6. Tells(pointers, inUse, D, q) /\ D \subseteq inUse /\ inUse \subseteq Block
  BY <1>5, ShapeTells DEF Tells
<1>7. Joined(n, b)
  BY <1>2, <1>5, SeatTaken
<1>8. /\ Seated(watchers', inUse', fd') /\ WatcherAt(watchers', n) = {b} /\ watchers'[n] = b
      /\ \A m \in FD : m # n => /\ WatcherAt(watchers', m) = WatcherAt(watchers, m)
                                /\ m \in DOMAIN watchers => watchers'[m] = watchers[m]
  BY <1>3, <1>7 DEF Joined
<1>9. Shape(L, A, D, u)
  BY <1>5, CreateShape
<1>10. Holds([links |-> pointers', pending |-> pendingEventFlags'], inUse', D, u)
  <2>1. L \in Pointers(QueueNode)
    BY <1>9, ShapeTells DEF Tells
  <2>2. pendingEventFlags' \in [Block -> SUBSET Event]
    BY <1>4, <1>5 DEF FlagMap
  <2> HIDE DEF L, u
  <2> QED
    BY <2>1, <2>2, <1>3, <1>4, <1>9 DEF Holds, States
<1>11. /\ u[Released] = q[Released] /\ \A e \in Event : u[QueueOf(b, e)] = <<>>
       /\ \A c \in inUse, e \in Event : u[QueueOf(c, e)] = q[QueueOf(c, e)]
  <2>1. /\ Released \in AwaiterHeads(A)
        /\ \A c \in A, e \in Event : QueueOf(c, e) \in AwaiterHeads(A)
    BY DEF AwaiterHeads
  <2>2. Released \notin Queues(b) /\ \A e \in Event : QueueOf(b, e) \in Queues(b)
    BY NodesApart DEF Queues
  <2>3. \A c \in inUse, e \in Event : QueueOf(c, e) \notin Queues(b)
    <3>1. \A c \in inUse : c \in Block /\ c # b
      BY <1>6
    <3> QED
      BY <3>1, NodesApart DEF Queues
  <2> QED
    BY <2>1, <2>2, <2>3
<1> HIDE DEF u, L
<1>12. KernelPoints(watchers', interest', dataPtr') /\ interest[n] = {}
  <2>1. interest[n] = {}
    BY <1>2, <1>5 DEF KernelPoints
  <2> QED
    BY <2>1, <1>2, <1>5, <1>8 DEF KernelPoints
<1>13. eventFlags' \in FlagMap
  BY <1>3, <1>5 DEF FlagMap
<1>14. StoredNext(D, u)
  BY <1>8, <1>10, <1>12, <1>13 DEF StoredNext
<1>15. /\ poll' = View(watchers', eventFlags', pendingEventFlags', D, u)
       /\ StillStored
  BY <1>14, StoredAfter
<1>16. Renewed(poll, poll', n)
  <2>1. ASSUME NEW m \in FD, m # n
        PROVE  SameSeat(watchers, eventFlags, pendingEventFlags, D, q,
                        watchers', eventFlags', pendingEventFlags', D, u, m)
    <3>1. CASE WatcherAt(watchers, m) = {}
      BY <3>1, <2>1, <1>8 DEF SameSeat
    <3>2. ASSUME NEW c \in inUse, WatcherAt(watchers, m) = {c}, watchers[m] = c
          PROVE  SameSeat(watchers, eventFlags, pendingEventFlags, D, q,
                          watchers', eventFlags', pendingEventFlags', D, u, m)
      <4>1. m \in DOMAIN watchers
        BY <3>2 DEF WatcherAt
      <4>2. c \in Block /\ c # b
        BY <1>6
      <4>3. eventFlags'[c] = eventFlags[c] /\ pendingEventFlags'[c] = pendingEventFlags[c]
        BY <4>2, <1>3, <1>4, <1>5 DEF FlagMap
      <4> QED
        BY <4>1, <4>3, <3>2, <2>1, <1>8, <1>11 DEF SameSeat
    <3> QED
      BY <3>1, <3>2, <1>5, SeatedTells DEF SeatedBits
  <2>2. BlankSeat(watchers', eventFlags', pendingEventFlags', D, u, n)
    <3>1. eventFlags'[b] = {} /\ pendingEventFlags'[b] = {} /\ b \notin D
      BY <1>3, <1>4, <1>5, <1>6 DEF FlagMap
    <3> QED
      BY <3>1, <1>8, <1>11 DEF BlankSeat
  <2> QED
    BY <2>1, <2>2, <1>5, <1>15, ViewRenewed
<1>17. Poll!CreateWatcher(n)
  <2>1. n \notin poll.watchers /\ n \notin poll.dirty /\ poll.released = q[Released]
    BY <1>2, <1>5 DEF View
  <2>2. n \in poll'.watchers /\ poll'.released = u[Released]
    BY <1>8, <1>15 DEF View
  <2>3. poll'.watchers = poll.watchers \cup {n}
    BY <2>1, <2>2, <1>16 DEF Renewed
  <2>4. poll'.dirty = poll.dirty /\ poll'.released = poll.released
    BY <2>1, <2>2, <1>11, <1>16 DEF Renewed
  <2> QED
    BY <2>1, <2>3, <2>4, <1>2, <1>16 DEF Poll!CreateWatcher, Poll!Ready, Poll!waitVars, Renewed
<1> QED
  BY <1>15, <1>17

(* The descriptor n loses its watcher b.                                   *)
Parted(n, b) ==
  LET W == [watchers EXCEPT ![n] = Null] IN
  /\ Seated(W, inUse \ {b}, [fd EXCEPT ![b] = Null])
  /\ WatcherAt(W, n) = {}
  /\ \A m \in FD : m # n => /\ WatcherAt(W, m) = WatcherAt(watchers, m)
                            /\ W[m] = watchers[m]

LEMMA SeatLeft ==
  ASSUME Seated(watchers, inUse, fd), NEW n \in FD, NEW b, WatcherAt(watchers, n) = {b}
  PROVE  Parted(n, b)
<1> DEFINE W == [watchers EXCEPT ![n] = Null]
           A == inUse \ {b}
           d == [fd EXCEPT ![b] = Null]
<1>1. /\ VectorOK(watchers) /\ inUse \subseteq Block /\ fd \in [Block -> FD \cup {Null}]
      /\ \A i \in DOMAIN watchers : watchers[i] # Null =>
           i \in FD /\ watchers[i] \in inUse /\ fd[watchers[i]] = i
      /\ \A c \in inUse : fd[c] \in FD /\ fd[c] \in DOMAIN watchers /\ watchers[fd[c]] = c
  BY DEF Seated
<1>2. n \in DOMAIN watchers /\ watchers[n] = b /\ b # Null /\ b \in inUse /\ fd[b] = n /\ b \in Block
  BY <1>1 DEF WatcherAt
<1>3. /\ DOMAIN W = DOMAIN watchers /\ W[n] = Null
      /\ \A i : i # n => W[i] = watchers[i]
  BY <1>2
<1>4. d \in [Block -> FD \cup {Null}] /\ \A c \in inUse : c # b => d[c] = fd[c]
  BY <1>1
<1> HIDE DEF W, d
<1>5. VectorOK(W)
  BY <1>1, <1>3 DEF VectorOK
<1>6. \A c \in A : fd[c] # n
  BY <1>1, <1>2
<1>7. Seated(W, A, d)
  <2>1. \A i \in DOMAIN W : W[i] # Null => i \in FD /\ W[i] \in A /\ d[W[i]] = i
    <3> SUFFICES ASSUME NEW i \in DOMAIN W, W[i] # Null
                 PROVE  i \in FD /\ W[i] \in A /\ d[W[i]] = i
      OBVIOUS
    <3>1. i # n /\ W[i] = watchers[i] /\ i \in DOMAIN watchers
      BY <1>3
    <3>2. i \in FD /\ W[i] \in inUse /\ fd[W[i]] = i /\ W[i] # b
      BY <3>1, <1>1, <1>2
    <3> QED
      BY <3>2, <1>4
  <2>2. \A c \in A : d[c] \in FD /\ d[c] \in DOMAIN W /\ W[d[c]] = c
    BY <1>1, <1>3, <1>4, <1>6
  <2> QED
    BY <2>1, <2>2, <1>1, <1>4, <1>5 DEF Seated
<1>8. WatcherAt(W, n) = {}
  BY <1>3 DEF WatcherAt
<1>9. \A m \in FD : m # n => WatcherAt(W, m) = WatcherAt(watchers, m) /\ W[m] = watchers[m]
  BY <1>3 DEF WatcherAt
<1> QED
  BY <1>7, <1>8, <1>9 DEF Parted, W, d

LEMMA DestroyStep ==
  ASSUME WatcherInv, NEW n \in FD, DestroyWatcher(n), Seen
  PROVE  StillStored /\ Poll!DestroyWatcher(n)
<1>1. PICK D, q : Stored(D, q)
  BY DEF WatcherInv
<1>2. phase = "idle" /\ ~aborted /\ UNCHANGED <<phase, revents>>
  BY DEF DestroyWatcher, Ready, waitVars
<1>3. PICK b \in WatcherOf(n) :
        LET s == RemoveAwaiters(Current, b) IN
        /\ watchers' = [watchers EXCEPT ![n] = Null]
        /\ pointers' = Forgotten(LeaveDirtyQueue(HandOver(s.links), b), Queues(b))
        /\ Unregister(n, b)
        /\ inUse' = inUse \ {b}
        /\ fd' = [fd EXCEPT ![b] = Null]
        /\ eventFlags' = [eventFlags EXCEPT ![b] = {}]
        /\ pendingEventFlags' = s.pending
  BY DEF DestroyWatcher
<1>4. WatcherOf(n) = {b} /\ StoredBits(D, q, n, b)
  BY <1>1, <1>3, OneWatcher, StoredTells
<1> DEFINE A == inUse \ {b}
           s == RemoveAwaiters(Current, b)
           k == HandOver(s.links)
           L == Forgotten(LeaveDirtyQueue(k, b), Queues(b))
           t == Emptied(q, b)
           v == [t EXCEPT ![Released] = <<>>]
           u == [x \in AwaiterHeads(A) |-> v[x]]
           C == IF pendingEventFlags[b] = {} THEN D ELSE D \cup {b}
           E == C \ {b}
<1>5. /\ Seated(watchers, inUse, fd) /\ Holds(Current, inUse, D, q)
      /\ eventFlags \in FlagMap /\ pendingEventFlags \in FlagMap
      /\ KernelPoints(watchers, interest, dataPtr)
      /\ poll = View(watchers, eventFlags, pendingEventFlags, D, q)
      /\ b \in inUse /\ b \in Block /\ inUse \subseteq Block
      /\ Released \in AwaiterHeads(inUse)
      /\ q \in [AwaiterHeads(inUse) -> Seq(Awaiter)]
      /\ \A e \in Event : QueueOf(b, e) \in AwaiterHeads(inUse)
      /\ poll.pending[n] = pendingEventFlags[b] /\ poll.eventFlags[n] = eventFlags[b]
      /\ n \in poll.watchers
      /\ \A e \in Event : poll.queues[n][e] = q[QueueOf(b, e)]
  BY <1>1, <1>4 DEF Stored, StoredBits, Tells, QueuesApart, HeadKinds, Fields
<1>6. PollBits
  BY PollTells DEF WatcherInv
<1>7. Asking(Current, q, b)
  BY <1>5, <1>6 DEF PollBits, Asking, Current
<1>8. Holds(s, inUse, C, t) /\ s.pending = [pendingEventFlags EXCEPT ![b] = {}]
  <2> HIDE DEF s
  <2>1. AllLeft(Current, s, inUse, D, q, b)
    BY <1>5, <1>7, RemoveAwaitersHolds DEF s
  <2>2. Current.pending = pendingEventFlags
    BY DEF Current
  <2> QED
    BY <2>1, <2>2 DEF AllLeft
<1>9. /\ t \in [AwaiterHeads(inUse) -> Seq(Awaiter)]
      /\ \A e \in Event : t[QueueOf(b, e)] = <<>>
      /\ \A c \in A, e \in Event : t[QueueOf(c, e)] = q[QueueOf(c, e)]
  <2> DEFINE R == QueueOf(b, "Readability")
             W == QueueOf(b, "Writability")
  <2>1. /\ R \in AwaiterHeads(inUse) /\ W \in AwaiterHeads(inUse)
        /\ R # Released /\ W # Released /\ R # W
    <3>1. "Readability" \in Event /\ "Writability" \in Event
      BY DEF Event
    <3> QED
      BY <3>1, <1>5, NodesApart
  <2>2. t \in [AwaiterHeads(inUse) -> Seq(Awaiter)]
    BY <1>8, ShapeTells DEF Holds, Tells, QueuesApart
  <2>3. t[R] = <<>> /\ t[W] = <<>> /\ \A y \in AwaiterHeads(inUse) : y # R /\ y # W /\ y # Released => t[y] = q[y]
    BY <2>1, <1>5 DEF Emptied
  <2>4. \A e \in Event : QueueOf(b, e) = R \/ QueueOf(b, e) = W
    BY DEF Event
  <2>5. \A c \in A, e \in Event :
          /\ QueueOf(c, e) \in AwaiterHeads(inUse)
          /\ QueueOf(c, e) # R /\ QueueOf(c, e) # W /\ QueueOf(c, e) # Released
    <3>1. \A c \in inUse, e \in Event : QueueOf(c, e) \in AwaiterHeads(inUse)
      BY DEF AwaiterHeads
    <3>2. "Readability" \in Event /\ "Writability" \in Event
      BY DEF Event
    <3> QED
      BY <3>1, <3>2, <1>5, NodesApart
  <2> HIDE DEF t, R, W
  <2> QED
    BY <2>2, <2>3, <2>4, <2>5
<1> HIDE DEF s, t, C
<1>10. Shape(k, inUse, C, v)
  <2>1. Shape(s.links, inUse, C, t)
    BY <1>8 DEF Holds
  <2> QED
    BY <2>1, HandOverShape
<1>11. /\ v[Released] = <<>>
       /\ \A e \in Event : v[QueueOf(b, e)] = <<>>
       /\ \A c \in A, e \in Event : v[QueueOf(c, e)] = q[QueueOf(c, e)]
  <2>1. \A c \in inUse, e \in Event : QueueOf(c, e) # Released
    BY <1>5, NodesApart
  <2> QED
    BY <2>1, <1>5, <1>9
<1> HIDE DEF k, v
<1>12. Shape(L, A, E, u)
  <2>1. b \in inUse /\ Shape(k, inUse, C, v) /\ \A e \in Event : v[QueueOf(b, e)] = <<>>
    BY <1>5, <1>10, <1>11
  <2>2. Shape(Forgotten(LeaveDirtyQueue(k, b), Queues(b)), inUse \ {b}, C \ {b},
              [x \in AwaiterHeads(inUse \ {b}) |-> v[x]])
    BY <2>1, DestroyShape
  <2> QED
    BY <2>2
<1>13. /\ u[Released] = <<>>
       /\ \A c \in A, e \in Event : u[QueueOf(c, e)] = q[QueueOf(c, e)]
  <2>1. Released \in AwaiterHeads(A) /\ \A c \in A, e \in Event : QueueOf(c, e) \in AwaiterHeads(A)
    BY DEF AwaiterHeads
  <2> QED
    BY <2>1, <1>11
<1>14. /\ pointers' = L /\ inUse' = A /\ watchers' = [watchers EXCEPT ![n] = Null]
       /\ fd' = [fd EXCEPT ![b] = Null] /\ eventFlags' = [eventFlags EXCEPT ![b] = {}]
       /\ pendingEventFlags' = [pendingEventFlags EXCEPT ![b] = {}]
       /\ Unregister(n, b)
  BY <1>3, <1>8 DEF s, k
<1>15. \A c \in A : c \in D <=> c \in E
  BY DEF C
<1> HIDE DEF u, L, E
<1>16. Holds([links |-> pointers', pending |-> pendingEventFlags'], inUse', E, u)
  <2>1. L \in Pointers(QueueNode)
    BY <1>12, ShapeTells DEF Tells
  <2>2. pendingEventFlags' \in [Block -> SUBSET Event]
    BY <1>5, <1>14 DEF FlagMap
  <2> QED
    BY <2>1, <2>2, <1>12, <1>14 DEF Holds, States
<1>17. Parted(n, b)
  BY <1>4, <1>5, SeatLeft DEF WatcherOf
<1>18. /\ Seated(watchers', inUse', fd') /\ WatcherAt(watchers', n) = {}
       /\ \A m \in FD : m # n => /\ WatcherAt(watchers', m) = WatcherAt(watchers, m)
                                 /\ watchers'[m] = watchers[m]
  BY <1>14, <1>17 DEF Parted
<1>19. interest = poll.eventFlags /\ interest[n] = eventFlags[b] /\ poll.released = <<>>
  BY <1>2, <1>5, <1>6 DEF PollBits
<1>20. KernelPoints(watchers', interest', dataPtr')
  <2>1. /\ dataPtr \in [FD -> Block \cup {Null}] /\ interest \in [FD -> SUBSET Event]
        /\ \A m \in FD : IF interest[m] = {} THEN dataPtr[m] = Null
                                             ELSE WatcherAt(watchers, m) = {dataPtr[m]}
    BY <1>5, <1>6 DEF KernelPoints, PollBits
  <2>2. CASE eventFlags[b] = {}
    <3>1. interest' = interest /\ dataPtr' = dataPtr
      BY <2>2, <1>14 DEF Unregister, kernelVars
    <3> QED
      BY <3>1, <2>1, <2>2, <1>18, <1>19 DEF KernelPoints
  <2>3. CASE eventFlags[b] # {}
    <3>1. interest' = [interest EXCEPT ![n] = {}] /\ dataPtr' = [dataPtr EXCEPT ![n] = Null]
      BY <2>3, <1>14 DEF Unregister
    <3> QED
      BY <3>1, <2>1, <1>18 DEF KernelPoints
  <2> QED
    BY <2>2, <2>3
<1>21. StoredNext(E, u)
  <2>1. eventFlags' \in FlagMap
    BY <1>5, <1>14 DEF FlagMap
  <2> QED
    BY <2>1, <1>16, <1>18, <1>20 DEF StoredNext
<1>22. /\ poll' = View(watchers', eventFlags', pendingEventFlags', E, u)
       /\ StillStored
  BY <1>21, StoredAfter
<1>23. Renewed(poll, poll', n)
  <2>1. ASSUME NEW m \in FD, m # n
        PROVE  SameSeat(watchers, eventFlags, pendingEventFlags, D, q,
                        watchers', eventFlags', pendingEventFlags', E, u, m)
    <3>1. CASE WatcherAt(watchers, m) = {}
      BY <3>1, <2>1, <1>18 DEF SameSeat
    <3>2. ASSUME NEW c \in inUse, WatcherAt(watchers, m) = {c}, watchers[m] = c, fd[c] = m
          PROVE  SameSeat(watchers, eventFlags, pendingEventFlags, D, q,
                          watchers', eventFlags', pendingEventFlags', E, u, m)
      <4>1. c \in A /\ c \in Block /\ c # b
        BY <3>2, <2>1, <1>4, <1>5 DEF StoredBits
      <4>2. eventFlags'[c] = eventFlags[c] /\ pendingEventFlags'[c] = pendingEventFlags[c]
        BY <4>1, <1>5, <1>14 DEF FlagMap
      <4> QED
        BY <4>1, <4>2, <3>2, <2>1, <1>13, <1>15, <1>18 DEF SameSeat
    <3> QED
      BY <3>1, <3>2, <1>5, SeatedTells DEF SeatedBits
  <2>2. BlankSeat(watchers', eventFlags', pendingEventFlags', E, u, n)
    BY <1>18 DEF BlankSeat
  <2> QED
    BY <2>1, <2>2, <1>5, <1>22, ViewRenewed
<1>24. Poll!DestroyWatcher(n)
  <2>1. n \notin poll'.watchers /\ poll'.released = <<>>
    BY <1>13, <1>18, <1>22 DEF View
  <2>2. poll'.watchers = poll.watchers \ {n}
    BY <2>1, <1>23 DEF Renewed
  <2>3. Poll!LeaveDirtyQueue(n)
    BY <1>23 DEF Renewed, Poll!LeaveDirtyQueue
  <2>4. Poll!Unregister(n)
    BY <1>5, <1>14 DEF Unregister, kernelVars, Poll!Unregister
  <2> QED
    BY <2>1, <2>2, <2>3, <2>4, <1>2, <1>5, <1>19, <1>23
    DEF Poll!DestroyWatcher, Poll!Ready, Poll!waitVars, Renewed
<1> QED
  BY <1>22, <1>24

-----------------------------------------------------------------------------
(* WatcherRings: the wait.                                                 *)

(* The dirty watchers the kernel must be told of, and those of n.          *)
Changed == {b \in DirtyBlocks : eventFlags[b] # pendingEventFlags[b]}
Told(n) == {b \in Changed : fd[b] = n}

(* What is told of n is what the poller of module IOPoll tells of it.      *)
ToldSeen(n) ==
  \/ Told(n) = {} /\ n \notin Poll!Stale
  \/ \E c \in Changed : /\ Told(n) = {c} /\ WatcherAt(watchers, n) = {c} /\ n \in Poll!Stale
                        /\ poll.pending[n] = pendingEventFlags[c]

LEMMA TellsWhatIsSeen ==
  \A D, q : Stored(D, q) =>
    /\ DirtyBlocks = D
    /\ \A n \in FD : ToldSeen(n)
    /\ \A b \in Changed : /\ fd[b] \in FD /\ poll.eventFlags[fd[b]] = eventFlags[b]
                          /\ b \in Told(fd[b]) /\ WatcherAt(watchers, fd[b]) = {b}
<1> SUFFICES ASSUME NEW D, NEW q, Stored(D, q)
             PROVE  /\ DirtyBlocks = D
                    /\ \A n \in FD : ToldSeen(n)
                    /\ \A b \in Changed :
                         /\ fd[b] \in FD /\ poll.eventFlags[fd[b]] = eventFlags[b]
                         /\ b \in Told(fd[b]) /\ WatcherAt(watchers, fd[b]) = {b}
  OBVIOUS
<1>1. Seated(watchers, inUse, fd) /\ SeatedBits(watchers, inUse, fd)
  BY SeatedTells DEF Stored
<1>2. DirtyBlocks = D /\ D \subseteq inUse
  BY ShapeTells DEF Stored, Holds, Current, Tells, DirtyBlocks
<1>3. \A n \in FD : \A c : WatcherAt(watchers, n) = {c} => StoredBits(D, q, n, c)
  BY StoredTells DEF WatcherOf
<1>4. ASSUME NEW b \in Changed
      PROVE  /\ fd[b] \in FD /\ b \in Told(fd[b]) /\ WatcherAt(watchers, fd[b]) = {b}
             /\ StoredBits(D, q, fd[b], b)
  <2>1. b \in inUse
    BY <1>2 DEF Changed
  <2>2. fd[b] \in FD /\ WatcherAt(watchers, fd[b]) = {b}
    BY <2>1, <1>1 DEF SeatedBits
  <2> QED
    BY <2>2, <1>3 DEF Told
<1>5. ASSUME NEW b \in Changed
      PROVE  /\ poll.eventFlags[fd[b]] = eventFlags[b] /\ fd[b] \in Poll!Stale
             /\ poll.pending[fd[b]] = pendingEventFlags[b]
  <2>1. Fields(poll, eventFlags, pendingEventFlags, D, q, fd[b], b)
    BY <1>4 DEF StoredBits
  <2>2. b \in D /\ eventFlags[b] # pendingEventFlags[b]
    BY <1>2 DEF Changed
  <2> QED
    BY <2>1, <2>2 DEF Fields, Poll!Stale
<1>6. ASSUME NEW n \in FD PROVE ToldSeen(n)
  <2>1. ASSUME NEW c \in Told(n) PROVE ToldSeen(n)
    <3>1. c \in Changed /\ fd[c] = n
      BY DEF Told
    <3>2. \A d \in Told(n) : d = c
      <4>1. \A d \in Told(n) : WatcherAt(watchers, n) = {d}
        BY <1>4 DEF Told
      <4> QED
        BY <4>1
    <3>3. Told(n) = {c}
      BY <3>2
    <3> QED
      BY <3>1, <3>3, <1>4, <1>5 DEF ToldSeen
  <2>2. ASSUME n \in Poll!Stale PROVE Told(n) # {}
    <3>1. n \in poll.dirty /\ poll.eventFlags[n] # poll.pending[n]
      BY <2>2 DEF Poll!Stale
    <3>2. WatcherAt(watchers, n) # {}
      BY <3>1 DEF Stored, View
    <3>3. PICK c \in inUse : WatcherAt(watchers, n) = {c} /\ fd[c] = n
      BY <3>2, <1>1 DEF SeatedBits
    <3>4. Fields(poll, eventFlags, pendingEventFlags, D, q, n, c)
      BY <3>3, <1>3 DEF StoredBits
    <3>5. c \in D /\ eventFlags[c] # pendingEventFlags[c]
      BY <3>1, <3>4 DEF Fields
    <3> QED
      BY <3>3, <3>5, <1>2 DEF Told, Changed
  <2> QED
    BY <2>1, <2>2 DEF ToldSeen
<1> QED
  BY <1>2, <1>4, <1>5, <1>6

LEMMA FlushStep ==
  ASSUME WatcherInv, FlushDirtyWatchers, Seen
  PROVE  StillStored /\ Poll!FlushDirtyWatchers
<1>1. PICK D, q : Stored(D, q)
  BY DEF WatcherInv
<1>2. /\ phase = "idle" /\ ~aborted /\ phase' = "waiting" /\ pointers' = Cleaned(pointers)
      /\ eventFlags' = [b \in Block |-> IF b \in Changed THEN pendingEventFlags[b] ELSE eventFlags[b]]
      /\ interest' = [n \in FD |-> IF Told(n) = {} THEN interest[n]
                                   ELSE UNION {pendingEventFlags[b] : b \in Told(n)}]
      /\ dataPtr' = [n \in FD |->
                       IF Told(n) = {} THEN dataPtr[n]
                       ELSE IF interest'[n] = {} THEN Null ELSE CHOOSE b \in Told(n) : TRUE]
      /\ aborted' = (\E b \in Changed : (eventFlags[b] = {}) # (interest[fd[b]] = {}))
      /\ UNCHANGED <<watchers, inUse, fd, pendingEventFlags, revents>>
  BY DEF FlushDirtyWatchers, Ready, tableVars, Changed, Told
<1>3. /\ Seated(watchers, inUse, fd) /\ Holds(Current, inUse, D, q)
      /\ eventFlags \in FlagMap /\ pendingEventFlags \in FlagMap
      /\ KernelPoints(watchers, interest, dataPtr)
      /\ poll = View(watchers, eventFlags, pendingEventFlags, D, q)
      /\ Shape(pointers, inUse, D, q)
  BY <1>1 DEF Stored, Holds, States, Current, FlagMap
<1>4. PollBits
  BY PollTells DEF WatcherInv
<1>5. /\ \A n \in FD : ToldSeen(n)
      /\ \A b \in Changed : /\ fd[b] \in FD /\ poll.eventFlags[fd[b]] = eventFlags[b]
                            /\ b \in Told(fd[b]) /\ WatcherAt(watchers, fd[b]) = {b}
  BY <1>1, TellsWhatIsSeen
<1>6. ASSUME NEW n \in FD
      PROVE  interest'[n] = IF n \in Poll!Stale THEN poll.pending[n] ELSE interest[n]
  <2>1. CASE Told(n) = {} /\ n \notin Poll!Stale
    BY <2>1, <1>2
  <2>2. ASSUME NEW c, Told(n) = {c}, n \in Poll!Stale, poll.pending[n] = pendingEventFlags[c]
        PROVE  interest'[n] = poll.pending[n]
    <3>1. UNION {pendingEventFlags[b] : b \in Told(n)} = pendingEventFlags[c]
      BY <2>2
    <3> QED
      BY <3>1, <2>2, <1>2
  <2> QED
    BY <2>1, <2>2, <1>5 DEF ToldSeen
<1>7. ~aborted' /\ \A n \in Poll!Stale : ~Poll!CtlFails(n)
  <2>1. interest = poll.eventFlags
    BY <1>4 DEF PollBits
  <2>2. \A b \in Changed : interest[fd[b]] = eventFlags[b]
    BY <2>1, <1>5
  <2>3. \A b \in Changed : ~((eventFlags[b] = {}) # (interest[fd[b]] = {}))
    BY <2>2
  <2> QED
    BY <2>1, <2>3, <1>2 DEF Poll!CtlFails
<1>8. KernelPoints(watchers', interest', dataPtr')
  <2> SUFFICES ASSUME NEW n \in FD
               PROVE  /\ dataPtr'[n] \in Block \cup {Null}
                      /\ IF interest'[n] = {} THEN dataPtr'[n] = Null
                                              ELSE WatcherAt(watchers, n) = {dataPtr'[n]}
    BY <1>2 DEF KernelPoints
  <2>1. CASE Told(n) = {}
    BY <2>1, <1>2, <1>3 DEF KernelPoints
  <2>2. ASSUME NEW c \in Changed, Told(n) = {c}, WatcherAt(watchers, n) = {c}
        PROVE  /\ dataPtr'[n] \in Block \cup {Null}
               /\ IF interest'[n] = {} THEN dataPtr'[n] = Null
                                       ELSE WatcherAt(watchers, n) = {dataPtr'[n]}
    <3>1. dataPtr'[n] = IF interest'[n] = {} THEN Null ELSE c
      BY <2>2, <1>2
    <3>2. c \in Block
      BY <2>2, <1>3, SeatedTells DEF SeatedBits
    <3> QED
      BY <3>1, <3>2, <2>2
  <2> QED
    BY <2>1, <2>2, <1>5 DEF ToldSeen
<1>9. StoredNext({}, q)
  <2>1. Shape(pointers', inUse', {}, q)
    BY <1>2, <1>3, CleanShape
  <2>2. pointers' \in Pointers(QueueNode)
    BY <2>1, ShapeTells DEF Tells
  <2>3. Holds([links |-> pointers', pending |-> pendingEventFlags'], inUse', {}, q)
    BY <2>1, <2>2, <1>2, <1>3 DEF Holds, States, FlagMap
  <2>4. eventFlags' \in FlagMap
    BY <1>2, <1>3 DEF FlagMap
  <2> QED
    BY <2>3, <2>4, <1>2, <1>3, <1>8 DEF StoredNext
<1>10. poll' = View(watchers, eventFlags', pendingEventFlags, {}, q) /\ StillStored
  BY <1>2, <1>9, StoredAfter
<1>11. ASSUME NEW n \in FD
       PROVE  UNION {eventFlags'[c] : c \in WatcherAt(watchers, n)}
              = IF n \in Poll!Stale THEN poll.pending[n] ELSE poll.eventFlags[n]
  <2>1. CASE WatcherAt(watchers, n) = {}
    <3>1. n \notin Poll!Stale /\ poll.eventFlags[n] = {}
      BY <2>1, <1>3, <1>5 DEF ToldSeen, View
    <3> QED
      BY <3>1, <2>1
  <2>2. ASSUME NEW c \in inUse, WatcherAt(watchers, n) = {c}, fd[c] = n
        PROVE  UNION {eventFlags'[d] : d \in WatcherAt(watchers, n)}
               = IF n \in Poll!Stale THEN poll.pending[n] ELSE poll.eventFlags[n]
    <3>1. UNION {eventFlags'[d] : d \in WatcherAt(watchers, n)} = eventFlags'[c] /\ c \in Block
      BY <2>2, <1>3 DEF Seated
    <3>2. poll.eventFlags[n] = eventFlags[c] /\ poll.pending[n] = pendingEventFlags[c]
      <4>1. StoredBits(D, q, n, c)
        BY <2>2, <1>1, StoredTells DEF WatcherOf
      <4> QED
        BY <4>1 DEF StoredBits, Fields
    <3>3. c \in Changed <=> n \in Poll!Stale
      <4>1. c \in Changed <=> c \in Told(n)
        BY <2>2 DEF Told
      <4> QED
        BY <4>1, <2>2, <1>5 DEF ToldSeen
    <3> QED
      BY <3>1, <3>2, <3>3, <1>2
  <2> QED
    BY <2>1, <2>2, <1>3, SeatedTells DEF SeatedBits
<1>12. Poll!FlushDirtyWatchers
  <2>1. poll'.eventFlags = [n \in FD |-> IF n \in Poll!Stale THEN poll.pending[n] ELSE poll.eventFlags[n]]
    BY <1>10, <1>11 DEF View
  <2>2. interest' = [n \in FD |-> IF n \in Poll!Stale THEN poll.pending[n] ELSE interest[n]]
    BY <1>2, <1>6
  <2>3. /\ poll'.watchers = poll.watchers /\ poll'.pending = poll.pending
        /\ poll'.queues = poll.queues /\ poll'.released = poll.released
    BY <1>3, <1>10 DEF View
  <2>4. poll'.dirty = {}
    BY <1>10 DEF View
  <2>5. aborted' = (\E n \in Poll!Stale : Poll!CtlFails(n))
    <3>1. aborted' \in BOOLEAN
      BY <1>2
    <3> QED
      BY <3>1, <1>7
  <2> QED
    BY <2>1, <2>2, <2>3, <2>4, <2>5, <1>2 DEF Poll!FlushDirtyWatchers, Poll!Ready
<1> QED
  BY <1>10, <1>12

LEMMA EpollStep ==
  ASSUME WatcherInv, EpollWait, Seen
  PROVE  /\ StillStored
         /\ (\E r \in Poll!Reports : Poll!EpollWait(r)) \/ Poll!Interrupted
<1>1. PICK D, q : Stored(D, q)
  BY DEF WatcherInv
<1>2. /\ phase = "waiting" /\ ~aborted
      /\ \/ phase' = "handling" /\ revents' \in Poll!Reports
         \/ phase' = "idle" /\ UNCHANGED revents
      /\ UNCHANGED <<tableVars, queueVars, eventFlags, interest, dataPtr, aborted>>
  BY DEF EpollWait, kernelVars
<1>3. StillStored /\ poll' = poll
  BY <1>1, <1>2, QuietStep
<1> QED
  BY <1>2, <1>3 DEF Poll!EpollWait, Poll!Interrupted, Poll!watcherVars

LEMMA EndStep ==
  ASSUME WatcherInv, EndWait, Seen
  PROVE  StillStored /\ Poll!EndWait
<1>1. PICK D, q : Stored(D, q)
  BY DEF WatcherInv
<1>2. /\ phase = "handling" /\ revents = Poll!NothingReported /\ phase' = "idle"
      /\ pointers' = HandOver(pointers)
      /\ UNCHANGED <<watchers, inUse, fd, pendingEventFlags, eventFlags, interest, dataPtr,
                     aborted, revents>>
  BY DEF EndWait, tableVars, kernelVars
<1> DEFINE u == [q EXCEPT ![Released] = <<>>]
<1>3. /\ Seated(watchers, inUse, fd) /\ Shape(pointers, inUse, D, q)
      /\ eventFlags \in FlagMap /\ pendingEventFlags \in FlagMap
      /\ KernelPoints(watchers, interest, dataPtr)
      /\ poll = View(watchers, eventFlags, pendingEventFlags, D, q)
  BY <1>1 DEF Stored, Holds, States, Current, FlagMap
<1>4. /\ inUse \subseteq Block /\ Released \in AwaiterHeads(inUse)
      /\ q \in [AwaiterHeads(inUse) -> Seq(Awaiter)]
  BY <1>3, ShapeTells DEF Tells, HeadKinds, QueuesApart
<1>5. u[Released] = <<>> /\ \A c \in inUse, e \in Event : u[QueueOf(c, e)] = q[QueueOf(c, e)]
  <2>1. \A c \in inUse, e \in Event : QueueOf(c, e) # Released
    BY <1>4, NodesApart
  <2> QED
    BY <2>1, <1>4
<1>6. Shape(pointers', inUse, D, u)
  BY <1>2, <1>3, HandOverShape
<1> HIDE DEF u
<1>7. StoredNext(D, u)
  <2>1. pointers' \in Pointers(QueueNode)
    BY <1>6, ShapeTells DEF Tells
  <2>2. Holds([links |-> pointers', pending |-> pendingEventFlags'], inUse', D, u)
    BY <2>1, <1>2, <1>3, <1>6 DEF Holds, States, FlagMap
  <2> QED
    BY <2>2, <1>2, <1>3 DEF StoredNext
<1>8. poll' = View(watchers, eventFlags, pendingEventFlags, D, u) /\ StillStored
  BY <1>2, <1>7, StoredAfter
<1>9. poll'.queues = poll.queues
  <2>1. \A n \in FD, e \in Event : WatcherAt(watchers, n) # {} =>
          u[QueueOf(watchers[n], e)] = q[QueueOf(watchers[n], e)]
    BY <1>3, <1>5, SeatedTells DEF SeatedBits
  <2> QED
    BY <2>1, <1>3, <1>8 DEF View
<1>10. /\ poll'.watchers = poll.watchers /\ poll'.eventFlags = poll.eventFlags
       /\ poll'.pending = poll.pending /\ poll'.dirty = poll.dirty /\ poll'.released = <<>>
  BY <1>3, <1>5, <1>8 DEF View
<1> QED
  BY <1>2, <1>8, <1>9, <1>10 DEF Poll!EndWait, Poll!watcherVars

(* Events are reported of registered descriptors only.                     *)
LEMMA ReportedStep ==
  ASSUME WatcherInv, Step
  PROVE  Reported'
<1>1. Reported /\ revents \in [FD -> SUBSET Poll!Revent]
  BY PollTells DEF WatcherInv, PollBits
<1>2. CASE EpollWait
  <2>1. CASE revents' \in Poll!Reports
    <3>1. interest' = interest
      BY <1>2 DEF EpollWait, kernelVars
    <3>2. \A n \in FD : revents'[n] \subseteq (IF interest[n] = {} THEN {} ELSE interest[n] \cup {"Error"})
      BY <2>1 DEF Poll!Reports
    <3> QED
      BY <3>1, <3>2 DEF Reported
  <2>2. CASE phase' = "idle"
    BY <2>2 DEF Reported
  <2> QED
    BY <2>1, <2>2, <1>2 DEF EpollWait
<1>3. ASSUME NEW n \in FD, NEW s, Handle(n, s) PROVE Reported'
  <2>1. /\ phase = "handling" /\ revents' = [revents EXCEPT ![n] = {}] /\ interest' = interest
    BY <1>3 DEF Handle, kernelVars
  <2>2. \A m \in FD : revents'[m] # {} => revents[m] # {}
    BY <2>1, <1>1
  <2> QED
    BY <2>1, <2>2, <1>1 DEF Reported
<1>4. ASSUME NEW n \in FD, HandleError(n) \/ HandleReadiness(n) PROVE Reported'
  BY <1>3, <1>4 DEF HandleError, HandleReadiness
<1>5. ASSUME phase = "idle", phase' = phase PROVE Reported'
  BY <1>5 DEF Reported
<1>6. ASSUME NEW n \in FD, CreateWatcher(n) PROVE Reported'
  BY <1>5, <1>6 DEF CreateWatcher, Ready, waitVars
<1>7. ASSUME NEW n \in FD, DestroyWatcher(n) PROVE Reported'
  BY <1>5, <1>7 DEF DestroyWatcher, Ready, waitVars
<1>8. ASSUME NEW n \in FD, NEW a \in Awaiter, NEW e \in Event, AddEventAwaiter(a, n, e)
      PROVE  Reported'
  BY <1>5, <1>8 DEF AddEventAwaiter, Ready, waitVars
<1>9. ASSUME NEW n \in FD, NEW a \in Awaiter, RemoveEventAwaiter(a, n) PROVE Reported'
  BY <1>5, <1>9 DEF RemoveEventAwaiter, Ready, waitVars
<1>10. CASE FlushDirtyWatchers
  BY <1>10 DEF FlushDirtyWatchers, Reported
<1>11. CASE EndWait
  BY <1>11 DEF EndWait, Reported
<1> QED
  BY <1>2, <1>4, <1>6, <1>7, <1>8, <1>9, <1>10, <1>11 DEF Step

(* Every step is one of the poller of module IOPoll.                       *)
LEMMA StepSeen ==
  ASSUME WatcherInv, WatcherNext
  PROVE  StillStored /\ Reported' /\ Poll!Next
<1>1. Step /\ Seen
  BY DEF WatcherNext, Seen
<1>2. Reported'
  BY <1>1, ReportedStep
<1>3. Poll!Event = Event
  BY DEF Poll!Event, Event
<1>4. ASSUME NEW n \in FD, CreateWatcher(n) PROVE StillStored /\ Poll!Next
  BY <1>1, <1>4, CreateStep DEF Poll!Next
<1>5. ASSUME NEW n \in FD, DestroyWatcher(n) PROVE StillStored /\ Poll!Next
  BY <1>1, <1>5, DestroyStep DEF Poll!Next
<1>6. ASSUME NEW n \in FD, HandleError(n) PROVE StillStored /\ Poll!Next
  BY <1>1, <1>6, ErrorStep DEF Poll!Next
<1>7. ASSUME NEW n \in FD, HandleReadiness(n) PROVE StillStored /\ Poll!Next
  BY <1>1, <1>7, ReadinessStep DEF Poll!Next
<1>8. ASSUME NEW n \in FD, NEW a \in Awaiter, NEW e \in Event, AddEventAwaiter(a, n, e)
      PROVE  StillStored /\ Poll!Next
  BY <1>1, <1>3, <1>8, AddStep DEF Poll!Next
<1>9. ASSUME NEW n \in FD, NEW a \in Awaiter, RemoveEventAwaiter(a, n)
      PROVE  StillStored /\ Poll!Next
  BY <1>1, <1>9, RemoveStep DEF Poll!Next
<1>10. CASE FlushDirtyWatchers
  BY <1>1, <1>2, <1>10, FlushStep DEF Poll!Next
<1>11. CASE EpollWait
  BY <1>1, <1>2, <1>11, EpollStep DEF Poll!Next
<1>12. CASE EndWait
  BY <1>1, <1>2, <1>12, EndStep DEF Poll!Next
<1> QED
  BY <1>1, <1>2, <1>4, <1>5, <1>6, <1>7, <1>8, <1>9, <1>10, <1>11, <1>12 DEF Step

LEMMA WatcherNextInv ==
  WatcherInv /\ [WatcherNext]_watcherVars => WatcherInv' /\ [Poll!Next]_(Poll!vars)
<1> SUFFICES ASSUME WatcherInv, [WatcherNext]_watcherVars
             PROVE  WatcherInv' /\ [Poll!Next]_(Poll!vars)
  OBVIOUS
<1>1. StillStored /\ Reported' /\ [Poll!Next]_(Poll!vars)
  <2>1. CASE WatcherNext
    BY <2>1, StepSeen
  <2>2. CASE UNCHANGED watcherVars
    <3>1. /\ watchers' = watchers /\ inUse' = inUse /\ fd' = fd /\ pointers' = pointers
          /\ pendingEventFlags' = pendingEventFlags /\ eventFlags' = eventFlags
          /\ interest' = interest /\ dataPtr' = dataPtr /\ aborted' = aborted
          /\ phase' = phase /\ revents' = revents /\ poll' = poll
      BY <2>2 DEF watcherVars, tableVars, queueVars, kernelVars, waitVars
    <3>2. PICK D, q : Stored(D, q)
      BY DEF WatcherInv
    <3>3. Stored(D, q)'
      BY <3>1, <3>2 DEF Stored, Current
    <3>4. Reported'
      BY <3>1 DEF WatcherInv, Reported
    <3> QED
      BY <3>1, <3>3, <3>4 DEF StillStored, Poll!vars, Poll!waitVars, Poll!watcherVars
  <2> QED
    BY <2>1, <2>2
<1>2. PollOK'
  BY <1>1, PollKept DEF WatcherInv
<1>3. (\E D, q : Stored(D, q))'
  BY <1>1 DEF StillStored
<1> QED
  BY <1>1, <1>2, <1>3 DEF WatcherInv

LEMMA WatcherInitInv == WatcherInit => WatcherInv /\ Poll!Init
<1> SUFFICES ASSUME WatcherInit PROVE WatcherInv /\ Poll!Init
  OBVIOUS
<1> DEFINE own == [x \in QueueNode |-> IF x \in {Dirty, Released} THEN x ELSE Loose]
           H == Heads({}, {})
           r == [x \in H |-> <<>>]
           q == [x \in AwaiterHeads({}) |-> r[x]]
<1>1. /\ watchers = <<>> /\ inUse = {} /\ fd = [b \in Block |-> Null]
      /\ eventFlags = [b \in Block |-> {}] /\ pendingEventFlags = [b \in Block |-> {}]
      /\ pointers = [next |-> own, prev |-> own]
      /\ interest = [n \in FD |-> {}] /\ dataPtr = [n \in FD |-> Null]
      /\ phase = "idle" /\ revents = Poll!NothingReported /\ aborted = FALSE
      /\ poll = PollView(watchers, eventFlags, pendingEventFlags, pointers)
  BY DEF WatcherInit
<1>2. H = {Dirty, Released} /\ AwaiterHeads({}) = {Released}
  BY DEF Heads, AwaiterHeads
<1>3. /\ Dirty \in QueueNode /\ Released \in QueueNode
      /\ pointers.next = own /\ pointers.prev = own /\ pointers \in Pointers(QueueNode)
      /\ own[Dirty] = Dirty /\ own[Released] = Released
  <2>1. Dirty \in QueueNode /\ Released \in QueueNode
    BY NodesApart
  <2>2. own \in [QueueNode -> QueueNode \cup {Loose}]
    OBVIOUS
  <2> HIDE DEF own
  <2>3. pointers.next = own /\ pointers.prev = own /\ pointers \in Pointers(QueueNode)
    BY <2>2, <1>1 DEF Pointers
  <2> QED
    BY <2>1, <2>3 DEF own
<1>4. /\ IsInjective(<<>>) /\ ToSet(<<>>) = {} /\ <<>> \in Seq(QueueNode \ H)
      /\ Len(<<>>) = 0
  <2>1. ToSet(<<>>) = {}
    BY EmptyQueue
  <2>2. IsInjective(<<>>)
    BY DEF IsInjective
  <2> QED
    BY <2>1, <2>2
<1>5. Family(QueueNode, H, r)
  BY <1>2, <1>3, <1>4 DEF Family
<1>6. \A h \in H : Linked(pointers, h, r[h])
  BY <1>2, <1>3, EmptyLinked
<1>7. Meant(pointers, {}, {}, r)
  <2>1. Woven(pointers, QueueNode, H, r)
    BY <1>3, <1>5, <1>6 DEF Woven
  <2>2. ToSet(r[Dirty]) = {} /\ {ItemOf(b) : b \in {}} = {}
    BY <1>2, <1>4
  <2>3. \A x \in AwaiterHeads({}) : ToSet(r[x]) \subseteq Awaiter
    BY <1>2, <1>4
  <2> HIDE DEF r
  <2> QED
    BY <2>1, <2>2, <2>3 DEF Meant
<1>8. Shape(pointers, {}, {}, q)
  BY <1>7 DEF Shape
<1> HIDE DEF q, r, H, own
<1>9. VectorOK(watchers)
  <2>1. DOMAIN watchers = 0..(0 - 1)
    BY <1>1
  <2> QED
    BY <2>1 DEF VectorOK
<1>10. \A n : WatcherAt(watchers, n) = {}
  BY <1>1 DEF WatcherAt
<1>11. Seated(watchers, inUse, fd)
  BY <1>1, <1>9 DEF Seated
<1>12. KernelPoints(watchers, interest, dataPtr)
  BY <1>1 DEF KernelPoints
<1>13. poll = View(watchers, eventFlags, pendingEventFlags, {}, q)
  BY <1>1, <1>8, <1>11, ViewSeen
<1>14. Stored({}, q)
  <2>1. Current \in States
    BY <1>1, <1>3 DEF Current, States
  <2>2. Holds(Current, inUse, {}, q)
    BY <2>1, <1>1, <1>8 DEF Holds, Current
  <2>3. eventFlags \in FlagMap
    BY <1>1 DEF FlagMap
  <2> QED
    BY <2>2, <2>3, <1>11, <1>12, <1>13 DEF Stored
<1>15. q[Released] = <<>>
  BY <1>2 DEF q, r, H
<1>16. Poll!Init
  <2>1. Poll!NoQueues = [e \in Event |-> <<>>]
    BY DEF Poll!NoQueues, Poll!Event, Event
  <2>2. /\ poll.watchers = {} /\ poll.eventFlags = [n \in FD |-> {}]
        /\ poll.pending = [n \in FD |-> {}] /\ poll.dirty = {} /\ poll.released = <<>>
    BY <1>10, <1>13, <1>15 DEF View
  <2>3. poll.queues = [n \in FD |-> [e \in Event |-> <<>>]]
    BY <1>10, <1>13 DEF View
  <2> QED
    BY <2>1, <2>2, <2>3, <1>1 DEF Poll!Init
<1>17. PollOK
  BY <1>16, PollStarts
<1>18. Reported
  BY <1>1 DEF Reported
<1> QED
  BY <1>14, <1>16, <1>17, <1>18 DEF WatcherInv

LEMMA WatcherInvLive == WatcherInv => WatchersAreLive
<1> SUFFICES ASSUME WatcherInv PROVE WatchersAreLive
  OBVIOUS
<1>1. PICK D, q : Stored(D, q)
  BY DEF WatcherInv
<1>2. /\ Seated(watchers, inUse, fd) /\ Holds(Current, inUse, D, q)
      /\ eventFlags \in FlagMap /\ pendingEventFlags \in FlagMap
      /\ KernelPoints(watchers, interest, dataPtr)
      /\ Tells(pointers, inUse, D, q)
  BY <1>1, ShapeTells DEF Stored, Holds, States, Current, FlagMap
<1>3. PICK s \in Nat : (s = 0 \/ \E k \in 0..30 : s = Power[k]) /\ DOMAIN watchers = 0..(s - 1)
  BY <1>2 DEF Seated, VectorOK
<1>4. Size = s
  BY <1>3, VectorSize DEF Size
<1>5. WatcherTypeOK
  <2>1. Size = 0 \/ \E k \in 0..30 : Size = Power[k]
    BY <1>3, <1>4
  <2>2. DOMAIN watchers = IF Size = 0 THEN {} ELSE 0..(Size - 1)
    BY <1>3, <1>4
  <2>3. \A i \in DOMAIN watchers : watchers[i] \in Block \cup {Null}
    BY <1>2 DEF Seated
  <2>4. pointers \in [next : [QueueNode -> QueueNode \cup {Loose}],
                      prev : [QueueNode -> QueueNode \cup {Loose}]]
    BY <1>2 DEF Tells, Pointers
  <2> QED
    BY <2>1, <2>2, <2>3, <2>4, <1>2 DEF WatcherTypeOK, Seated, FlagMap
<1>6. /\ \A b \in inUse : fd[b] \in DOMAIN watchers /\ watchers[fd[b]] = b
      /\ \A i \in DOMAIN watchers : watchers[i] # Null => watchers[i] \in inUse
  BY <1>2 DEF Seated
<1>7. DirtyBlocks \subseteq inUse
  BY <1>2 DEF Tells, DirtyBlocks
<1>8. \A n \in FD : IF interest[n] = {} THEN dataPtr[n] = Null ELSE WatcherOf(n) = {dataPtr[n]}
  BY <1>2 DEF KernelPoints, WatcherOf
<1> QED
  BY <1>5, <1>6, <1>7, <1>8 DEF WatchersAreLive

LEMMA WatcherSpecInv == WatcherSpec => []WatcherInv
<1>1. WatcherInit => WatcherInv
  BY WatcherInitInv
<1>2. WatcherInv /\ [WatcherNext]_watcherVars => WatcherInv'
  BY WatcherNextInv
<1> QED
  BY <1>1, <1>2, PTL DEF WatcherSpec

(* No address of a watcher outlives it, for any descriptors, awaiters and  *)
(* blocks: neither the vector watchers_ of Source/IOPoll.cxx nor the dirty *)
(* queue nor the data.ptr of a registration leads to a block that is free  *)
(* or belongs to another descriptor.                                       *)
THEOREM WatchersStayLive == WatcherSpec => []WatchersAreLive
<1> QED
  BY WatcherSpecInv, WatcherInvLive, PTL

(* The poller of blocks and pointers of Source/IOPoll.cxx implements the   *)
(* poller of sequences and sets of module IOPoll: its initial states and   *)
(* each of its steps are those of IOPoll.                                  *)
THEOREM PointersImplementIOPoll == WatcherSpec => ImplementsIOPoll
<1>1. WatcherInit => Poll!Init
  BY WatcherInitInv
<1>2. WatcherInv /\ [WatcherNext]_watcherVars => [Poll!Next]_(Poll!vars)
  BY WatcherNextInv
<1> QED
  BY <1>1, <1>2, WatcherSpecInv, PTL DEF WatcherSpec, ImplementsIOPoll, Poll!Spec

=============================================================================
