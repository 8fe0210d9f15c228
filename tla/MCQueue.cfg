CONSTANTS
  Workers = {w1, w2}
  People = {p1}
  MaxGoals = 2
  MaxStarts = 3
  MaxCrashes = 1
SYMMETRY SameWorkers
SPECIFICATION Spec
INVARIANTS
  NothingLost
  OneAtATime
  CutOffIsReported
PROPERTIES
  NeverRemade
  RemovedIsNeverRun
  ApprovalReachesTheRun
CHECK_DEADLOCK FALSE
