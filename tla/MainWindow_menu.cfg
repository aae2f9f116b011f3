\* A user who goes to the menu bar, which is enabled, while the tree is busy.
SPECIFICATION Spec
CONSTANTS
  Paths = {p}
  NoPath = NoPath
  MaxContent = 3
  Documents = {d, e}
  NoDocument = NoDocument
  Patient = FALSE

INVARIANTS
  NoChangeWhileSaving
