SPECIFICATION MCSpec
CONSTANTS
  t1 = t1
  t2 = t2
  Tasks = {t1, t2}
  Threads = {r1, r2}
  Sweeper = sweeper
  NoTask = NoTask
  NoWrite = NoWrite
  MaxRequests = 2
  MaxRestarts = 1
PROPERTIES GhostsAreSwept EveryTaskRuns
CHECK_DEADLOCK FALSE
