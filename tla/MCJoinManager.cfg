SPECIFICATION FairSpec
CONSTANTS
  term_p = term_p
  term_q = term_q
  term_r = term_r
  kMinNumSlots = 4
  kLoadFactor = 1
  kSlotsPerGroup = 2
  MaxBuffered = 2
  NumJoins = 3
  NumBuckets = 2
  MaxVectors = 2
  Tids <- MCTids
  HashOf <- MCHashOf
  TagOf <- MCTagOf
  Clauses <- MCClauses
  BuildSides <- MCBuildSides
  Vectors <- MCVectors
INVARIANTS
  ConciseChainsExact
  FilterExact
  MatchesExact
  SemiAntiExact
PROPERTIES
  JoinFinishes
