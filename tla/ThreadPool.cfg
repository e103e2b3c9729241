SPECIFICATION FairSpec
CONSTANTS
  Threads = {1, 2}
  Tasks = {3, 4, 5}
  NULL = 0
INVARIANT TasksInOrder
PROPERTIES
  TasksRun
  DestroyReturns
CHECK_DEADLOCK FALSE
