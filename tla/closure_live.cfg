SPECIFICATION LiveSpec
CONSTANTS
  Fingerprints = {f1}
  Hard = {f1}
  RunTypes = {"periodic"}
  Budget = 9
  StallThreshold = 2
  MaxBreaks = 1
  MaxFails = 1
  MaxRounds = 9
  MaxRequests = 0
  MaxRestarts = 1
PROPERTIES GateOpensUnlessStale
CHECK_DEADLOCK FALSE
