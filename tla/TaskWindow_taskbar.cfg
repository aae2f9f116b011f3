\* One thread and two tasks.
SPECIFICATION Spec
CONSTANTS
  Tasks = {a, long}
  long = long
  NoTask = NoTask
  IdealThreadCount = 1
  Size <- MCSize

CHECK_DEADLOCK FALSE

INVARIANTS
  TaskbarGetsToTheEnd
