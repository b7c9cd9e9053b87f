SPECIFICATION FairSpec
CONSTANTS
  NoTask = NoTask
  Tasks = {t1}
  MaxRuns = 2  DayLength = 6
  MaxConcurrentWorkers = 1  StallTimeout = 4  WorkerTimeout = 2  RunBudget = 2
  SoftCap = 1  RetryBaseDelay = 1  RetryMaxDelay = 1
  ShutdownBudget = 1  MaxCycles = 0  MinPollInterval = 1
  MaxTaskAttempts = 0  TaskRetryBackoff = 0
  DurationMax = 100  Costs = {0, 1}  Daemon = TRUE
  PlanDelay = 0  MaxInvocations = 2  MaxSignals = 1  MaxFaults = 0  MaxDowntime = 0
PROPERTIES LoopLive
