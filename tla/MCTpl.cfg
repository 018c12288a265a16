CONSTANTS
  Programs <- MCPrograms
  IllFormed <- MCIllFormed
  Modes = {"Interpret", "Compiled"}
SPECIFICATION Spec
INVARIANTS
  ParsedAsWritten
  WellTypedMemory
  ResultIsMeaning
  BlocksWellFormed
PROPERTIES
  RunEnds
