CONSTANTS
  Workers = {w1}
  People = {p1}
  MaxGoals = 2
  MaxStarts = 2
  MaxCrashes = 0
SPECIFICATION Spec
PROPERTIES
  PromiseKept
CHECK_DEADLOCK FALSE
