----------------------------- MODULE MemoryPool -----------------------------
(***************************************************************************)
(* Source/MemoryPool.cxx: blocks of one size, cut from chunks that are     *)
(* never given back before the end.  A free block holds the address of the *)
(* next free one in its first word (prev); a block in use holds what its   *)
(* user wrote there.  IOPoll takes its watchers from a pool of blocks of   *)
(* sizeof(IOWatcher), in chunks of 1024.                                   *)
(*                                                                         *)
(* An address is a chunk and an offset in it.  The failure of malloc and   *)
(* realloc ends the process and is left out.                               *)
(***************************************************************************)
EXTENDS Integers, FiniteSets, SequencesExt

CONSTANTS
  Chunk,          \* what malloc can return: bounds the growth of the pool
  NullBlock,      \* nullptr
  User,           \* the first word of a block in use
  PageSize,       \* sysconf(_SC_PAGE_SIZE), a power of two
  BlockSizes,     \* the parameters of the constructor
  ChunkLengths

ASSUME PoolAssumption ==
  /\ PageSize \in Nat \ {0}
  /\ BlockSizes \subseteq Nat \ {0} /\ ChunkLengths \subseteq Nat \ {0}
  /\ NullBlock # User /\ NullBlock \notin Chunk \X Int

VARIABLES
  blockSize,          \* blockSize_
  chunkLength,        \* the second parameter of the constructor
  chunkSize,          \* chunkSize_
  lastBlock,          \* lastBlock_
  prev,               \* the first word of every block cut so far
  chunkVector,        \* chunkVector_, of chunkCount_ chunks
  chunkVectorLength   \* chunkVectorLength_

VARIABLES
  allocated,          \* history: the blocks in use
  free,               \* history: the other blocks, the one freed last at the end
  peak                \* history: how many blocks were in use at most

sizes == <<blockSize, chunkLength, chunkSize>>
chunkVars == <<chunkVector, chunkVectorLength>>
blockVars == <<lastBlock, prev, allocated, free, peak>>
poolVars == <<sizes, chunkVars, blockVars>>

-----------------------------------------------------------------------------
(* --size; size |= page - 1; ++size: the lower bits of size - 1 are set.   *)
NextPageAlignedSize(size) ==
  (size - 1) - ((size - 1) % PageSize) + (PageSize - 1) + 1

(* Is a block at this offset before its chunk?  Wrong: only if it is by a *)
(* whole block.                                                            *)
OutsideLate(offset) == offset + blockSize <= 0
Outside(offset) == offset < 0

(* The k-th block the loop of increaseBlocks comes to, from the end of the *)
(* chunk, and how many there are: the first one in any case.               *)
Offset(k) == chunkSize - k * blockSize

BlockCount ==
  CHOOSE n \in 1..chunkSize :
    Outside(Offset(n + 1)) /\ \A k \in 2..n : ~Outside(Offset(k))

BlocksOf(c) == {<<c, Offset(k)>> : k \in 1..BlockCount}

Blocks == UNION {BlocksOf(c) : c \in ToSet(chunkVector)}

(* Wrong: a vector that is full stays as it is.                            *)
ExpandChunkVectorNever == chunkVectorLength
ExpandChunkVector == IF chunkVectorLength = 0 THEN 1 ELSE 2 * chunkVectorLength

-----------------------------------------------------------------------------
NoBlocks == [b \in {} |-> NullBlock]

PoolInit ==
  /\ blockSize \in BlockSizes
  /\ chunkLength \in ChunkLengths
  /\ chunkSize = NextPageAlignedSize(chunkLength * blockSize)
  /\ lastBlock = NullBlock /\ prev = NoBlocks
  /\ chunkVector = <<>> /\ chunkVectorLength = 0
  /\ allocated = {} /\ free = <<>> /\ peak = 0

(* The new chunk goes to the end of the vector.                            *)
IncreaseChunks(c) ==
  /\ c \notin ToSet(chunkVector)
  /\ chunkVector' = Append(chunkVector, c)
  /\ chunkVectorLength' = IF Len(chunkVector) = chunkVectorLength
                            THEN ExpandChunkVector ELSE chunkVectorLength

(* What increaseBlocks writes into the k-th block of the new chunk c.      *)
PrevOf(c, k) == IF Outside(Offset(k + 1)) THEN NullBlock ELSE <<c, Offset(k + 1)>>

(* block is taken from the list of free blocks; words is what they hold.   *)
TakeBlock(block, words) ==
  /\ lastBlock' = words[block]
  /\ prev' = [words EXCEPT ![block] = User]
  /\ allocated' = allocated \cup {block}
  /\ peak' = IF Cardinality(allocated') > peak THEN Cardinality(allocated') ELSE peak

(* allocateBlock when there is a free block, and when there is none.       *)
ReuseBlock ==
  /\ lastBlock # NullBlock
  /\ TakeBlock(lastBlock, prev)
  /\ free' = Front(free)
  /\ UNCHANGED <<sizes, chunkVars>>

IncreaseBlocks(c) ==
  /\ lastBlock = NullBlock
  /\ IncreaseChunks(c)
  /\ TakeBlock(<<c, Offset(1)>>,
               [b \in DOMAIN prev \cup BlocksOf(c) |->
                  IF b \in DOMAIN prev THEN prev[b]
                  ELSE PrevOf(c, CHOOSE k \in 1..BlockCount : b[2] = Offset(k))])
  /\ free' = [i \in 1..(BlockCount - 1) |-> <<c, Offset(BlockCount + 1 - i)>>]
  /\ UNCHANGED sizes

AllocateBlock == ReuseBlock \/ \E c \in Chunk : IncreaseBlocks(c)

(* Wrong: the list starts anew with every block.                           *)
LinkFreedAlone(b) == prev' = [prev EXCEPT ![b] = NullBlock]
LinkFreed(b) == prev' = [prev EXCEPT ![b] = lastBlock]

FreeBlock(b) ==
  /\ b \in allocated /\ allocated' = allocated \ {b}
  /\ LinkFreed(b)
  /\ lastBlock' = b
  /\ free' = Append(free, b)
  /\ UNCHANGED <<sizes, chunkVars, peak>>

(* The destructor gives the chunks back.  (The next pool of the process    *)
(* begins as this one did.)                                                *)
Destroy ==
  /\ chunkVector # <<>>
  /\ lastBlock' = NullBlock /\ prev' = NoBlocks
  /\ chunkVector' = <<>> /\ chunkVectorLength' = 0
  /\ allocated' = {} /\ free' = <<>> /\ peak' = 0
  /\ UNCHANGED sizes

PoolNext == AllocateBlock \/ (\E b \in allocated : FreeBlock(b)) \/ Destroy

PoolSpec == PoolInit /\ [][PoolNext]_poolVars

-----------------------------------------------------------------------------
(* Properties.                                                             *)

(* Every link of a free block and lastBlock_ stay within the chunks of the *)
(* pool (proved in MemoryProofs, for every value of the constants).        *)
PoolTypeOK ==
  /\ blockSize \in BlockSizes /\ chunkLength \in ChunkLengths /\ chunkSize \in Nat
  /\ lastBlock \in Blocks \cup {NullBlock}
  /\ prev \in [Blocks -> Blocks \cup {NullBlock, User}]
  /\ chunkVector \in Seq(Chunk) /\ chunkVectorLength \in Nat
  /\ allocated \subseteq Blocks /\ free \in Seq(Blocks) /\ peak \in Nat

(* Every block is within its chunk and none overlaps another, whatever is  *)
(* left over when the chunk is a number of pages but not of blocks; and a  *)
(* chunk has room for as many blocks as the constructor was asked for.     *)
BlocksFitTheChunk ==
  /\ \A a \in Blocks :
       /\ a[2] >= 0 /\ a[2] + blockSize <= chunkSize
       /\ \A b \in Blocks :
            a[1] = b[1] /\ a # b => a[2] + blockSize <= b[2] \/ b[2] + blockSize <= a[2]
  /\ BlockCount >= chunkLength

(* The list in the free blocks holds exactly the blocks that are not in    *)
(* use, each once, and ends: what users wrote into blocks they gave back   *)
(* is never followed, and no block is lost.                                *)
FreeListIsFree ==
  /\ lastBlock = IF free = <<>> THEN NullBlock ELSE Last(free)
  /\ \A i \in DOMAIN free : prev[free[i]] = IF i = 1 THEN NullBlock ELSE free[i - 1]
  /\ IsInjective(free)
  /\ ToSet(free) = Blocks \ allocated

(* A pool that lives long grows with the most blocks that were ever in use *)
(* together and not with the number of calls; chunkVector_ has a place for *)
(* each of its chunks.                                                     *)
GrowsWithThePeak ==
  /\ Len(chunkVector) <= chunkVectorLength
  /\ (Len(chunkVector) - 1) * BlockCount < peak \/ peak = 0
  /\ peak <= Len(chunkVector) * BlockCount

=============================================================================
