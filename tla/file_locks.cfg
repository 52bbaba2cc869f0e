SPECIFICATION LiveSpec
CONSTANTS
  ta = ta
  tb = tb
  td = td
  c1 = c1
  c2 = c2
  c3 = c3
  old = old
  file = file
  Files <- MCFiles
  Tasks <- MCTasks
  Given <- MCGiven
  Past <- MCPast
  Needs <- MCNeeds
  Waits <- MCWaits
  Readers = {ui}
  NoTask = NoTask
  NoFile = NoFile
  Overlap = FALSE
  MaxFaults = 1
  MaxReads = 1
INVARIANTS WorkIsCarried DependentsWait
PROPERTIES WorkIsDone
CHECK_DEADLOCK FALSE
