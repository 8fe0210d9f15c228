CONSTANTS
  Parts = {"fanout", "loop"}
  Names <- MCNames
  N = 2
  Concurrency = 2
  Ceilings = {0, 2, 5}
  Spent = 1
  StepCosts = {2}
  Floor = 1
  WorkSteps = 2
  Endings <- MCEndings
  Strategy = "fewest_issues"
  MaxAttempts = 2
  Files = {"go.mod", "Go.mod", "main", "ci"}
  OnDisk = {"go.mod", "main", "ci"}
  Fold <- MCFold
  Guarded = {"go.mod"}
  Forbidden = {"ci"}
  Graphs <- MCGraphs
  GiveUps = {0, 2}
  FailOn = 2
  Severities = {1, 3}
  MaxCuts = 1
SPECIFICATION SpecOne
INVARIANTS
  MoneyHolds
  CandidatesKept
  DoneIsJudged
  RepairIsAimed
PROPERTIES
  PoolAndLoopEnd
CHECK_DEADLOCK FALSE
