SPECIFICATION Spec
CONSTANTS
  w1 = w1
  w2 = w2
  b1 = b1
  b2 = b2
  b3 = b3
  p1 = p1
  p2 = p2
  p3 = p3
  p4 = p4
  NULL = NULL
  Unwritten = Unwritten
  Workers <- MCWorkers
  BuildRows <- MCBuildRows
  ProbeRows <- MCProbeRows
  Hash <- MCHash
  Matching <- MCMatching
  batch_size = 2
  JoinTypes = {"LEFT_SEMI"}
INVARIANT
  LeftSemiOnce
