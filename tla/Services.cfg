SPECIFICATION Spec
CHECK_DEADLOCK FALSE
CONSTANTS
  Components = {"governance", "audit", "store", "costs", "watch", "recon", "campaign",
                "routing", "limits", "config", "registry", "lifecycle", "workspace"}
  \* Two callers behind one breaker.
  Callers = {1, 2}  MaxAttempts = 2  FailureThreshold = 2  RecoveryTimeout = 1
  MaxClock = 3  MaxOps = 6
  \* Two connections to one log and a writer that is neither; two connections that open
  \* the store at once, and a restart.
  LogConns = {"a", "b"}  Payloads = {1, 2}  MaxCommits = 4  MaxImport = 1
  StoreConns = {"a", "b"}  MaxEvents = 2  MaxRestarts = 1
  \* Two processes charge one session; the file may be of the old schema.
  LedgerConns = {"a", "b"}  LedgerSessions = {"s"}  Profiles = {"p", "q"}
  HardCap = 3  SoftCap = 1  Estimate = 1  MaxTokens = 2  MaxEntries = 2
  \* orcd watch and orc loop on one repository; two tasks over three polls, one of which
  \* fails to append.
  Procs = {"watch", "loop"}  Watches = {"watch"}  WTasks = {1, 2}
  MaxTaskAttempts = 2  MaxPruneFailures = 1  MaxProcCrashes = 1
  RTasks = {1, 2}  MaxPolls = 3  MaxInvocations = 2  MaxAppendFailures = 1
  \* Two cards and two passes; two resolutions of one role.
  MaxConfidence = 1  Passes = {"p", "q"}  Cards <- TwoCards  CleanRepos = {}
  Slug <- SameSlug  Digest <- OwnDigest  FactSet <- FourFacts  MaxBoardMoves = 1
  Resolvers = {"a", "b"}
  \* Up to two keys set: to zero, to one, or beyond the default.
  Settings = {0, 1, 3}  DefaultGuard = 2  DefaultRepeat = 2  DefaultWindow = 3
  DefaultTurns = 4  CallShapes = {"a", "b"}
  \* Four files, two of them on one layer, and two editors; a tool on three layers.
  Sources <- FourFiles  Keys = {"schema", "poll", "ingress"}  Values = {"0", "1"}
  Editors = {"e", "f"}  MaxConfigEdits = 2
  ToolLayers = {1, 3, 5}  Definitions <- ElevenTools
  \* Requests that repeat, a lease that runs out and a restart.
  RequestKeys = {1, 2, 3}  LeaseTTL = 2  AfterCalls = 2  AfterSeconds = 2
  MaxTransitions = 3  MaxTime = 2  MaxStarts = 2
  \* Files, links and paths that must not be materialised, one outside the sparse set.
  Paths = {1, 2, 3}  Kinds = {"blob", "link", "escapingLink", "dotgit"}  Sparse = {1, 2}
  MaxHeads = 2  MaxWorkspaceEdits = 2  MaxFaults = 1
INVARIANTS ChainsKept LimitsKept DecisionsSound SessionsContained
PROPERTIES RecordsAppendOnce
