SPECIFICATION FairSpec
CONSTANTS
  Components = {"gate", "poller", "intake", "ci"}
  Capacity = 1
  \* Two tasks and one worker.
  Tasks = {t1, t2}  GateEvents = {e1}  MaxConcurrentWorkers = 1  Boundaries = 1
  Armed = {"new-eligible-work", "unblocked-promotion", "slot-released",
           "budget-window-reset", "external-event"}
  \* Pages of one event, two of them fetched in a poll.
  FeedKinds = {"comment", "malformed"}
  PageSize = 1  MaxPages = 2  FeedLength = 2  PollFaults = 1
  \* Reports on three issues, one of which cannot be typed.
  Reports = {1, 2, 3}  Issues = {1, 2, 3}  IssueOf <- Redelivered  Facts <- MixedAuthors
  Untypable = {2}  TickLimit = 2  Edits = 0  ReportFaults = 1  MaxCrashes = 1
  \* One SHA more than the lane follows.
  Shas = {1, 2}  Cap = 1  MaxAttempts = 1  CiFaults = 1  MaxRestarts = 1
PROPERTIES IngressLive
