SPECIFICATION JSpec
CONSTANTS
  t1 = t1
  t2 = t2
  l1 = l1
  l2 = l2
  r1 = r1
  r2 = r2
  p1 = p1
  p2 = p2
  NULL = NULL
  Global = Global
  Threads <- MCThreads
  Tables <- MCTables
  Raw <- MCRaw
  Entries <- MCEntries
  Packed <- MCPacked
  Bits <- MCBits
  Hash <- MCHash
  TagShift <- MCTagShift
  UseTags = TRUE
  kMinTableSize = 1
  Sizes = {1, 2}
  MaxPackedBits = 2
  kDefaultMinSizeForParallelMerge = 2
INVARIANT
  CompressedTuplesFit
