SPECIFICATION Spec
CONSTANTS
  Components = {"gate", "poller", "intake", "ci"}
  Capacity = 1
  \* Two tasks and one worker.
  Tasks = {t1, t2}  GateEvents = {e1, e2}  MaxConcurrentWorkers = 1  Boundaries = 2
  Armed = {"new-eligible-work", "unblocked-promotion", "slot-released",
           "budget-window-reset", "external-event"}
  \* Pages of one event, two of them fetched in a poll.
  FeedKinds = {"opened", "untracked", "malformed"}
  PageSize = 1  MaxPages = 2  FeedLength = 3  PollFaults = 2
  \* Reports on three issues, one of which cannot be typed.
  Reports = {1, 2, 3, 4}  Issues = {1, 2, 3}  IssueOf <- Redelivered  Facts <- MixedAuthors
  Untypable = {2}  TickLimit = 2  Edits = 1  ReportFaults = 1  MaxCrashes = 1
  \* One SHA more than the lane follows.
  Shas = {1, 2}  Cap = 1  MaxAttempts = 1  CiFaults = 2  MaxRestarts = 1
INVARIANTS IngressTypeOK EventsAccounted LanesComplete
PROPERTIES PromotionsKept
