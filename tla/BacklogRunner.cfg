SPECIFICATION FairSpec
CONSTANTS
  N = 3
  Dags <- ThreeDags  domain <- TwoDomains  expected_files <- SharedFile
  max_concurrent = 2  review_capacity = 2  max_per_domain = 1
  attempt_budget = 6  max_reprompt_attempts = 3  max_attempts_per_step = 2  steps = 3
  MaxPauses = 1
CHECK_DEADLOCK FALSE
INVARIANTS TypeOK WorkIsEligible CapsRespected AliveMeansInFlight StopIsTruthful AttemptsBounded
PROPERTIES EventuallyStops
