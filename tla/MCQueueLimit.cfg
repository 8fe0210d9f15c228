CONSTANTS
  Workers = {w1}
  People = {p1}
  MaxGoals = 1
  MaxStarts = 2
  MaxCrashes = 0
SPECIFICATION Spec
PROPERTIES
  LimitIsNotAPark
CHECK_DEADLOCK FALSE
