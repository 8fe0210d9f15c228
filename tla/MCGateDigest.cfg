CONSTANTS
  Names <- GateNames
  Nodes <- GateNames
  Unpriced = {"approve"}
  Supervisors = {}
  Heeding <- GateNames
  Fields <- GateFields
  Values <- Plans
  NewBoard <- NoPlan
  Worlds <- PlanFiles
  NewWorld = "missing"
  Edits <- FileEdits
  NodeResults <- GateResults
  Configs <- MCConfigs
  PauseOnCancel = TRUE
  PauseAfter = 0
  Entry = "none"
  InterruptedFloor = 0
  Docs = {"A", "B"}
  MaxRequests = 1
  MaxOpens = 3
SPECIFICATION GateSpec
PROPERTIES
  HandedOnAsRecorded
CHECK_DEADLOCK FALSE
