SPECIFICATION Spec
CONSTANTS
  NoTask = NoTask
  Tasks = {t1, t2}
  MaxRuns = 3  DayLength = 1000
  MaxConcurrentWorkers = 1  StallTimeout = 4  WorkerTimeout = 1  RunBudget = 2
  SoftCap = 9  RetryBaseDelay = 1  RetryMaxDelay = 1
  ShutdownBudget = 1  MaxCycles = 0  MinPollInterval = 0
  MaxTaskAttempts = 1  TaskRetryBackoff = 1
  DurationMax = 100  Costs = {0}  Daemon = TRUE
  PlanDelay = 0  MaxInvocations = 2  MaxSignals = 0  MaxFaults = 1  MaxDowntime = 0
INVARIANTS AttemptBudgetKept StuckMeansExhausted WithinCapacity NoStrandedRow
PROPERTIES ImplementsLedger
