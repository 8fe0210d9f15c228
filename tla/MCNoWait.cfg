SPECIFICATION SpecOne
CONSTANTS
  Parts = {"judges"}
  Calls = {c1}
  Pids = {p1, p2}
  MaxStarts = 2
  MaxCrashes = 1
  minOverlap = 4
  pemTailKeep = 1
  Limits = {3, 20}
  Callers = {a, b}
  Tools = {t}
  Kinds = {"stdio", "http"}
  MaxCalls = 4
  MaxFrames = 3
  PageSize = 2
  MaxPages = 2
  MaxIssues = 5
  MaxCloses = 1
  MaxLines = 3
  CaptureLines = 2
  Scopes = {"cand-01", "cand-02"}
  Prompts = {"fix", "code"}
  MaxAsks = 2
  MaxEnds = 1
  None = None
  Requested = {"sonnet", "opusplan", "new"}
  Models = {"sonnet", "opus", "new"}
  Prices <- ListPrices
  Charges <- RealPrices
  Aliases <- PlanAlias
  RunsAs <- TurnsOut
  Ceiling = 4
  MaxInvokes = 4
  Runners = {"go-test", "jest", "node-test", "pytest", "custom"}
  Packages = {"a", "b"}
  MaxTests = 2
  Capture = 3
  Linters = {"golangci-lint", "ruff", "eslint"}
  Sources = {"old", "new"}
  Committed = {"old"}
  MaxRewrites = 2
  MaxLints = 2
  Rules <- RuleSets
  Starts <- Trees
  MaxEdits = 3
INVARIANTS
  NoWaitNoVerdict
CHECK_DEADLOCK FALSE
