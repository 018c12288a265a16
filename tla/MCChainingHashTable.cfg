SPECIFICATION FairSpec
CONSTANTS
  t1 = t1
  t2 = t2
  e1 = e1
  e2 = e2
  e3 = e3
  NULL = NULL
  Threads <- MCThreads
  Entries <- MCEntries
  Hash <- MCHash
  TagShift <- MCTagShift
  UseTags = TRUE
  kMinTableSize = 1
  Sizes = {1, 2}
INVARIANTS
  TypeOK
  ChainComplete
  ChainEnds
  NoFalseNegative
  CountSettles
PROPERTIES
  ImplementsEntrySet
  BatchesFinish
