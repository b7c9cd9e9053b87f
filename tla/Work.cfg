SPECIFICATION Spec
CONSTANTS
  \* Two attempts of two turns, one sub-session at a time, a deadline the clock can pass.
  max_attempts = 2  max_replans = 2  max_turns_per_attempt = 2
  max_consecutive_format_errors = 1  max_provider_retries = 1
  run_deadline = 1  stall_timeout = 1  tool_repeat_count = 2  tool_repeat_window = 2
  no_progress_turns = 2  ci_poll_budget = 1  child_turns = 1  child_wall_clock = 2
  internal_tools = {"think", "bash"}  soft_cap = 1  MaxNow = 2  LossyCalls = {2}
  Replies = {"malformed", "unknown-tool", "finish", "give_up", "poll", "command", "subagent",
             "undeclared", "write_file", "bash", "think"}
  \* A script and an output longer than the pipes that carry them.
  Script = 3  PipeSize = 1  OUTPUT_LIMIT = 2
  \* Two deliveries of a task, one after the other, and another lander on the branch.
  Landers = {0, 1, 2}  Trees = {1, 2}  OtherTrees = {0, 1}  MaxFaults = 1  MaxOutside = 1
  \* A mint, a waiter for it and a late caller; tokens shorter and longer than the skew.
  Threads = {"a", "b", "c"}  Skew = 1  Lifetimes = {1, 2, 4}
  MaxLifetime = 3  MaxCalls = 4  MaxEpoch = 3
  \* Two findings over two heads, and a configured loop limit up to the ceiling.
  Findings = {1, 2}  Heads = {"h1", "h2"}  Severities = {1, 2}
  Domains = {"security", "testing"}  MaxLoops = 3  HARD_LOOP_CEILING = 2  MaxReviewers = 2
  \* A session and the gateway, spawned twice, with an event queue of one.
  SupSessions = {"s", "gateway"}  Projects = {"p", "q"}  ProjectTools = {"t"}
  MaxSpawns = 2  MaxRestarts = 1  EventCapacity = 1
  \* Two processes one after the other on one socket, two connections.
  Controls = {"fs", "net"}  Conns = {1, 2}  MaxProcs = 2
CHECK_DEADLOCK FALSE
INVARIANTS WorkTypeOK SessionAccounted ProcessesOwned DeliveryTrue
PROPERTIES StepsGuarded WorkEnds
