\* Two replicas' calls over one table, rows there or not, slow and lost requests.
SPECIFICATION Spec
CONSTANTS
  c1 = c1
  c2 = c2
  c3 = c3
  Calls = {c1, c2}
  FailureThreshold = 2
  SuccessThreshold = 2
  Timeout = 1
  HalfOpenMax = 2
  Capacity = 7
  Cost = 3
  RefillRate = 2
  MaxClock = 2
  MaxCasAttempts = 2
  Absent = Absent
  MaxCalls = 4
INVARIANTS
  TypeOK
  ProbeBudget
  RateBound
  WaitIsEnough
PROPERTIES
  MirrorsInProcess
  OpenIsHeld
SYMMETRY Symmetry
CHECK_DEADLOCK FALSE
