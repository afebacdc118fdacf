SPECIFICATION PoolSpec
CONSTANTS
  Chunk = {c1, c2, c3}
  NullBlock = NullBlock
  User = User
  PageSize = 8
  BlockSizes = {3, 4, 8}
  ChunkLengths = {1, 2}
SYMMETRY Symmetry
INVARIANTS
  BlocksFitTheChunk
  FreeListIsFree
  GrowsWithThePeak
