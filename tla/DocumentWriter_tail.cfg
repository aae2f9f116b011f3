\* A cancelled save and the saves after it.
SPECIFICATION Spec
CONSTANTS
  Paths = {p}
  NoPath = NoPath
  MaxVersion = 2
  Length <- MCLength
  LongFile = 3
  Faults <- MCNoFaults

INVARIANTS
  NoStaleTail
