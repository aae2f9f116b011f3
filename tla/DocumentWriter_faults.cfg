\* Every fault, at every step.
SPECIFICATION Spec
CONSTANTS
  Paths = {p}
  NoPath = NoPath
  MaxVersion = 2
  Length <- MCLength
  LongFile = 3
  Faults <- AllFaults

CHECK_DEADLOCK FALSE

INVARIANTS
  TypeOK
  OriginalKept
  CancelRestores
  
