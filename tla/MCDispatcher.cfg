CONSTANTS
  Names <- MCNames
  Nodes <- MCNodes
  Unpriced <- MCUnpriced
  Supervisors <- MCSupervisors
  Heeding <- MCNodes
  Fields <- MCFields
  Values <- MCValues
  NewBoard <- MCNewBoard
  Worlds <- MCWorlds
  NewWorld <- New
  Kinds = {"rough", "stuck", "fanout"}
  Edits <- MCEdits
  NodeResults <- MCNodeResults
  Configs <- MCConfigs
  PauseOnCancel = TRUE
  PauseAfter = 3
  Entry = "code"
  InterruptedFloor = 1
  MaxOpens = 3
SPECIFICATION MCSpec
INVARIANTS
  JournalValid
  PatchBeforeJournal
  ViewIsCommitted
  NoOrphanBesideANode
  PlaceIsKept
  SpendIsKept
PROPERTIES
  PauseHolds
  CeilingHonoured
  RefinesRunSpec
  DispatchEnds
CHECK_DEADLOCK FALSE
