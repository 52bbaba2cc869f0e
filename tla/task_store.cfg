SPECIFICATION Spec
CONSTANTS
  t1 = t1
  t2 = t2
  Tasks = {t1, t2, t3}
  Threads = {r1}
  Sweeper = sweeper
  NoTask = NoTask
  NoWrite = NoWrite
  MaxRequests = 2
  MaxRestarts = 1
SYMMETRY Symmetry
INVARIANTS Acyclic CompletedIsArchived
CHECK_DEADLOCK FALSE
