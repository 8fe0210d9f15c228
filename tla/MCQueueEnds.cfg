CONSTANTS
  Workers = {w1}
  People = {p1}
  MaxGoals = 2
  MaxStarts = 2
  MaxCrashes = 1
SPECIFICATION Spec
PROPERTIES
  WorkEnds
CHECK_DEADLOCK FALSE
