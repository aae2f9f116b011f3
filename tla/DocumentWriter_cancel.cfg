\* A cancel at every step, and errors before the swap.
SPECIFICATION FairSpec
CONSTANTS
  Paths = {p, q}
  NoPath = NoPath
  MaxVersion = 2
  Length <- MCLength
  LongFile = 3
  Faults <- MCSoftFaults

INVARIANTS
  SourcesReadable

PROPERTIES
  SaveIsAtomic
  
