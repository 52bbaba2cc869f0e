SPECIFICATION Spec
CONSTANTS
  MaxCheap = 2
  Assignments <- SomeAssignments
  Batches <- SomeBatches
  MaxLoops = 4
  ScoutLoops = 1
  MalformedLimit = 2
  TruncatedLimit = 3
  ParseBudget = 4
  ReflectionMax = 1
  MaxRepairs = 1
  PhaseLoops = 4
  ScoutFloor = 2
  SynthAttempts = 2
INVARIANTS RefusalSticks SelfTestGates  SuccessIsValidated 
PROPERTIES Terminates
