\* Two threads, two tasks: a thread may get one task, or both, or none.
SPECIFICATION FairSpec
CONSTANTS
  Tasks = {a, long}
  long = long
  NoTask = NoTask
  IdealThreadCount = 2
  Size <- MCSize

CHECK_DEADLOCK FALSE

INVARIANTS
  TypeOK
  CloseMeansDone
  ReportsFindTheirBars
  NoMessageLost

PROPERTIES
  WindowEnds
