SPECIFICATION Spec
CONSTANTS
  w1 = w1
  w2 = w2
  r1 = r1
  r2 = r2
  r3 = r3
  r4 = r4
  r5 = r5
  x1 = x1
  x2 = x2
  x3 = x3
  NULL = NULL
  Global = Global
  Rows <- MCRows
  Key <- MCKey
  Partition <- MCPartition
  Slot <- MCSlot
  Workers <- MCWorkers
  Partitions <- MCPartitions
  InitialCapacity = 2
  flush_threshold = 2
  MaxBatch = 2
  Vectorized = {FALSE}
  Limited = {TRUE}
INVARIANT
  LimitSeesEveryGroup
