SPECIFICATION Spec
CONSTANTS
  Agents = {a1}
  Tasks = {t1}
  NoAgent = NoAgent
  NoTask = NoTask
  MaxAttempts = 1
  MaxActive = 1
  Reconcilers = {"monitor", "api"}
  Features = {"bus"}
  MaxRestarts = 1
INVARIANTS
  TypeOK
  
  ClosedRowTokenDead
PROPERTIES
  TeardownSpec
