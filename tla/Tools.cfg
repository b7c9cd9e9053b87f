SPECIFICATION ToolsSpec
CONSTANTS
  \* Three clients, two of one session, race for a ready item that another one blocks:
  \* three calls and a fault or an edit, or two calls and both.
  Clients = {1, 2, 3}
  SessionOf <- ClientSessions
  Items = {"x", "y"}
  Edges <- Blocking
  Targets = {"InProgress", "Done"}
  InitStatus <- ReadyAndBlocking
  TTL = 1  MaxCalls = 3  MaxFaults = 1  MaxPeople = 1  MaxNow = 1
  \* Spellings of pr create, other commands, and settings that change in between.
  Commands <- GhCommands
  Pins = {"unset", "required", "recommended", "other"}
  MaxConfigEdits = 2
  \* Two clients of the file tools and a file that can be renamed.
  GwClients = {1, 2}
  Files = {"f", "g"}
  Wirings <- SomeWirings
  MaxGwCalls = 3  MaxGwFaults = 1
  NewFiles = {"g"}
  MaxBoardSteps = 4  MaxBoardCalls = 2
  \* Graphs over four items with a depth cap of two, two commits of one prefix, reference texts
  \* around limits of 2 and 3, one thought more than a run records.
  BoardItems = {0, 1, 2, 3}
  BoardEdges <- WalkedEdges
  MAX_BLOCKED_DEPTH = 2  MAX_RESULT_ITEMS = 2
  Oids = {0, 2}
  Checks = {"build", "docs"}
  KNOWN_DISABLED_JOBS = {"docs"}
  Buckets = {"pass", "cancel", "skipping"}
  Prefix <- Shortened
  MaxMoves = 2
  Refs = {"a", "b"}
  MAX_PASS_CHARS = 3  MAX_REFERENCE_CHARS = 2  NoticeChars = 1  MaxSpans = 3
  MAX_THOUGHTS_PER_SEQUENCE = 2  MAX_THOUGHTS_PER_RUN = 3  MaxNumber = 3  MaxRecords = 4
  \* Two callers that share the cached ids of a board somebody edits; two users of one
  \* cache, and a person on the platform.
  Callers = {"a", "b"}
  Repos = {"r", "s"}
  WholeRepos = {"s"}
  Statuses = {"Ready", "Done"}
  Listings <- OneListing
  MaxBoardEdits = 1  MaxClientFaults = 1
  Users = {"a", "b"}
  Contents = {"x"}
  KnownStatuses = {"x", "Ready"}
  MaxItems = 2  MaxWrites = 2  MaxCachePeople = 1
  \* Three files that are edited, moved and copied between and during the passes.
  IndexFiles = {1, 2, 3}
  IndexContents = {1, 2}
  Definitions <- Defined
  Mentions <- Mentioned
  Unsupported = {3}
  MaxFileEdits = 4
  \* A request and a stream of up to three events, cut in every place.
  MaxStream = 3  MaxRequests = 1
  \* Five kinds of run over five findings, and a developer who edits.
  Universe <- ToolFindings
  Runs <- SimplifyRuns
  Paths <- TwoPaths
  StagedFiles <- StagedA
  PathArgs <- PathA
  MaxTreeEdits = 1
CHECK_DEADLOCK FALSE
INVARIANTS BoardWritesSound AnswersHonest ReadsComplete ClientsHonest DelegationGated
