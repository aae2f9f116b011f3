\* Three titles, two of them the same but for the case.
SPECIFICATION Spec
CONSTANTS
  Titles <- MCTitles
  MaxCopy = 2
  MaxNodes = 3
  MaxSegments = 2

CHECK_DEADLOCK FALSE

INVARIANTS
  TypeOK
  ChildrenConsistent
  ViewMirrorsTree
  NoDanglingNode
  NoEmptyFolder
  ConflictsForeseen
  InsertionKeepsTheRest

PROPERTIES
  ChangesAnnounced
