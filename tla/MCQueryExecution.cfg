SPECIFICATION FairSpec
CONSTANTS
  Threads = {1, 2, 3}
  main = 1
  kDefaultVectorSize = 2
  Sessions <- MCSessions
  Prepared <- PreparePlan
  Tables <- MCTables
INVARIANTS
  DependenciesFirst
  ThreadStateLifecycle
  QueryExact
  CompiledRunsMachineCode
PROPERTIES
  QueryFinishes
