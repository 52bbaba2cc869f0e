SPECIFICATION Spec
CONSTANTS
  Fingerprints = {f1}
  Hard = {f1}
  RunTypes = {"periodic", "manual"}
  Budget = 1
  StallThreshold = 2
  MaxBreaks = 1
  MaxFails = 0
  MaxRounds = 3
  MaxRequests = 1
  MaxRestarts = 1
INVARIANTS OpenIsLinked
CHECK_DEADLOCK FALSE
