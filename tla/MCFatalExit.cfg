SPECIFICATION Spec
CONSTANTS
  NoTask = NoTask
  Tasks = {t1}
  MaxRuns = 2  DayLength = 1000
  MaxConcurrentWorkers = 1  StallTimeout = 4  WorkerTimeout = 5  RunBudget = 2
  SoftCap = 9  RetryBaseDelay = 1  RetryMaxDelay = 1
  ShutdownBudget = 2  MaxCycles = 0  MinPollInterval = 0
  MaxTaskAttempts = 0  TaskRetryBackoff = 0
  DurationMax = 100  Costs = {0}  Daemon = FALSE
  PlanDelay = 0  MaxInvocations = 1  MaxSignals = 0  MaxFaults = 1  MaxDowntime = 0
INVARIANT FatalExitSettlesRows
