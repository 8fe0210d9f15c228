SPECIFICATION SpecOne
CONSTANTS
  Parts = {"worktree", "dircopy", "fork", "publish"}
  Ids = {x, y}
  Callers = {c1, c2}
  MaxMoves = 2
  MaxCancels = 1
  MaxCrashes = 1
  Files = {"work", "stray"}
  Recorded = {"work"}
  Plan = "plan"
  Candidates = {"c1", "c2"}
  Winner = "c1"
  Kinds <- MCKinds
  MaxHands = 2
  MaxDeaths = 2
  maxLinkHops = 3
  MaxEdits = 1
  MaxCalls = 3
  Names = {"plan", "code", "fix"}
  ForkSource = "r"
  Forks = {"f", "g"}
  ForkOf <- MCForkOf
  TreeFiles = {"a", "b"}
  Worked = {"a"}
  GiveUp = 1
  MaxVisits <- MCMaxVisits
  MaxTroubles = 2
  None = None
SYMMETRY Symmetry
INVARIANTS
  ReturnedStands
  CopiesStand
  ForkIsItsVisits
  OnlyRecordedIsCommitted
PROPERTIES
  TreesLetGo
  NothingIsLost
CHECK_DEADLOCK FALSE
