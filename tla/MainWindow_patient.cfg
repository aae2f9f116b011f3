\* A user who waits for what the tree is doing.
SPECIFICATION FairSpec
CONSTANTS
  Paths = {p, q}
  NoPath = NoPath
  MaxContent = 3
  Documents = {d, e}
  NoDocument = NoDocument
  Patient = TRUE

INVARIANTS
  TypeOK
  NoSlotAbandoned
  WorkersKeepTheirDocument
  NoChangeWhileSaving
  
  ModelConsistent

PROPERTIES
  WindowComesBack
