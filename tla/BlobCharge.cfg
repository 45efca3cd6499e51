SPECIFICATION Spec
CONSTANTS
  b1 = b1  b2 = b2
  r1 = r1  r2 = r2
  Blobs = {b1}
  Requests = {r1, r2}
  Length <- Sizes
  Claims <- Named
  Costs <- BothSet
  MaxRows = 2
  MaxFaults = 0
  Faults = {}
INVARIANTS FailedIsNotCharged
CHECK_DEADLOCK FALSE
