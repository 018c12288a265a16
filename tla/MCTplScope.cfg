CONSTANTS
  Programs <- ScopeProgram
  IllFormed = {}
  Modes = {"Interpret"}
SPECIFICATION Spec
INVARIANT
  ResultIsMeaning
