\* One descriptor that is in conflict with what is there.
SPECIFICATION Spec
CONSTANTS
  Titles <- MCTitles
  MaxCopy = 2
  MaxNodes = 3
  MaxSegments = 2

CHECK_DEADLOCK FALSE

INVARIANTS
  AnswersCarriedOut
