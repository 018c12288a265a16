SPECIFICATION FairSpec
CONSTANTS
  w1 = w1
  w2 = w2
  w3 = w3
  a = a
  b = b
  c = c
  d = d
  e = e
  NULL = NULL
  Global = Global
  Workers <- MCWorkers
  Tuples <- MCTuples
  Key <- MCKey
  Inputs <- MCInputs
  Plans <- MCPlans
  kDefaultMinTuplesForParallelSort = 4
INVARIANTS
  TopKKept
  PackagesPartitionOutput
  NoFreedTuple
  SortExact
PROPERTY
  SortFinishes
