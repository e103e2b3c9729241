SPECIFICATION Spec
CONSTANTS
  t1 = t1
  t2 = t2
  m1 = m1
  m2 = m2
  m3 = m3
  NULL = NULL
  Threads <- TwoThreads
  Memory <- Entries
  Keys = {0, 2, 4}
  SEG_SIZE = 2
  capacity = 2
  SIZE_MAX = 255
  MaxCalls = 4
SYMMETRY MapSymmetry
INVARIANTS
  ListsSound
  PutIsFound
  SequentialMap
CHECK_DEADLOCK FALSE
