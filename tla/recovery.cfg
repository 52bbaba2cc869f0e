SPECIFICATION Spec
CONSTANTS
  bug = bug
  audit = audit
  art = art
  NoTask = NoTask
  Tasks <- MCTasks
  Type <- MCType
  Waits <- MCWaits
  Attempts <- MCAttempts
  Chain <- MCChain
  Anchor = bug
  Finishers = {h1, h2}
  Prompt = TRUE
  MaxAttempts = 1
  FeederAttempts = 1
  MAX_RESEARCH_FEEDER_CYCLES = 1
  MAX_RECOVERY_TASKS = 1
  DeepChain = 2
  MaxNew = 2
  MaxFails = 2
  MaxTroubles = 1
  MaxCleanups = 1
SYMMETRY Threads
CHECK_DEADLOCK FALSE
 
INVARIANT FeederReleases
INVARIANT FeedersBounded
 
