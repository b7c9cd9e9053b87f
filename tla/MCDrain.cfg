SPECIFICATION Spec
CONSTANTS
  NoTask = NoTask
  Tasks = {t1, t2}
  MaxRuns = 2  DayLength = 1000
  MaxConcurrentWorkers = 2  StallTimeout = 4  WorkerTimeout = 5  RunBudget = 3
  SoftCap = 1  RetryBaseDelay = 1  RetryMaxDelay = 2
  ShutdownBudget = 2  MaxCycles = 2  MinPollInterval = 0
  MaxTaskAttempts = 0  TaskRetryBackoff = 0
  DurationMax = 100  Costs = {0, 1}  Daemon = TRUE
  PlanDelay = 1  MaxInvocations = 1  MaxSignals = 2  MaxFaults = 1  MaxDowntime = 0
INVARIANTS TypeOK StopsBounded GraceWindowKept NaturalEndWins
  NoWorkerWithoutRow OneRunPerTask
