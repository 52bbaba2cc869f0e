SPECIFICATION Spec
CONSTANTS
  Agents = {a1, a2, a3}
  Tasks = {t1, t2}
  NoAgent = NoAgent
  NoTask = NoTask
  MaxAttempts = 2
  MaxActive = 1
  Reconcilers = {"monitor"}
  Features = {"faults"}
  MaxRestarts = 0
SYMMETRY Symmetry
INVARIANTS
  RunningWithinCap
  RunningIsSupervised
  
  ClaimIsHeld
  
