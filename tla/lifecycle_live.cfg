SPECIFICATION LiveSpec
CONSTANTS
  Agents = {a1}
  Tasks = {t1}
  NoAgent = NoAgent
  NoTask = NoTask
  MaxAttempts = 1
  MaxActive = 1
  Reconcilers = {"monitor"}
  Features = {"deps", "api"}
  MaxRestarts = 0
PROPERTIES
  ExitedIsClosed
  TaskIsReleased
  ClaimIsReleased
