SPECIFICATION LiveSpec
CONSTANTS
  Agents = {a1}
  Tasks = {t1}
  NoAgent = NoAgent
  NoTask = NoTask
  Threshold = 1
  MaxBlocked = 1
  MaxRequests = 2
  MaxQuota = 1
  MaxRestarts = 1
INVARIANTS UnackedIsSuspended MonitorPicksNoHeld
PROPERTIES SpikeSuspends QuotaStopEnds
CHECK_DEADLOCK FALSE
