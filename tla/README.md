# Verification of orchestraitor

TLA+ models of the orchestraitor agent orchestrator (`src/`, Rust), model-checked
with TLC and proved about with TLAPS. `PROJECT.json` is the index: components, runs,
mutants, the map from definitions to source lines, findings, hazards and theorems.

## 1. The system

orchestraitor runs coding agents against a project board. A supervisor loop polls the
board, asks a decision provider which ready task to take, starts a worker for it,
watches the worker, records how it ended in a SQLite store, and stops within its
budgets. Around the loop stand a daemon (`orcd`), a command line (`orc`), an MCP
gateway through which agents act, and libraries for delivery, events, cost and
workspaces.

### Inventory

| component | state it keeps | operations that change it | hard behaviour | what makes it correct |
|---|---|---|---|---|
| loop runner (`campaign/loop_run.rs`) | slots, stop and drain state, pacing, kick-off memory | supervise, reap, drain, pass, plan and spawn, tick, fatal exit | workers on other threads, signals inside awaits, crashes between two writes | capacity, one run per task, honest outcomes, bounded shutdown, every invocation ends |
| run-state store (`campaign/run_state.rs`) | rows, retry states | start, finish, recover, record success and failure | a failed write in the middle of a reap; recovery after a crash | a row settles once, attempts are never lost or overspent |
| kick-off gate (`campaign/kickoff.rs`) | memory of the previous pass | gate, drain of events, failed spawn | edge-triggered conditions across an await | no eligible task and no event is forgotten |
| selection, decisions, limits (`campaign/*`, `decision/*`) | decision store | pass, choose, record, spawn; resolve guards | a board that moves between snapshot and spawn; an endpoint that answers anything | the task was ready in the recorded snapshot; guards are the configured ones |
| watch daemon (`daemon/main.rs`, `watch.rs`, `cli/loop_runner.rs`) | signal baseline, instance lock, worktrees, reconcile memory | watch cycle, run_watch, recovery, prune, start, reconcile poll | signals at every point, restart, a second process on the same directory | a signal always ends it; no worktree in use is pruned; each promotion is recorded once |
| ingress (`daemon/ingress/*`) | queue, delivery table, ETags, watermarks, CI lane | poll, intake, record, push, drain, degrade | paging under change, duplicates, rate limits, restart | nothing accepted twice, losses visible |
| governance, supervision, RPC server, store (`daemon/*`) | breaker, monitors, socket file, event chain, blobs | decide, retry, spawn, cancel, serve, drain, append, put | concurrent callers, replaced sessions, crash with the socket file left | breaker opens and closes by the rule, one live process per session, reachable while serving, whole blobs |
| delivery engine (`delivery/*`) | review rounds, findings, schedule, retry rules | tick, review, converge, escalate, schedule | rounds that never converge, lost findings | terminates, escalates instead of looping, approvals are clean |
| MCP gateway and board tools (`mcp/*`) | leases, decisions, audit chain, project files | move, record, query, patch, status, expand | compare-and-move against a board others edit; an answer put together from several reads | an answered effect is audited, one session leases an item, answers describe one state |
| worker (`worker/*`) | turn state, budgets, guardrails, sub-sessions, child processes | turn, act, think, bash, deliver, retry | budgets meeting failures mid-turn; a future dropped at any await | stops, says why, counts every completed call, leaves nothing of a child's process group behind |
| delivery commands (`cli/commands/github.rs`, `core/github_app.rs`) | remote branch, pull request, token cache | push-branch, gh-env, label, mint | a lost answer after a mutation; others on the same branch; settings edited between gates | no commit dropped, reports are true, one mint at a time |
| events, cost ledger, workspace, lifecycle, configuration, board client | hash chain, entries, manifest, record, layers, id cache | append, insert, materialize, transition, resolve, refresh | several processes on one file; a failure between two steps | one chain, no receipt rolled up twice, nothing lost or applied twice |
| providers, context index, simplify (`providers`, `context`, `simplify`) | stream parser, symbol table, suggestions | complete, index, run tools | cut streams; files edited while they are read; tools that hang | whole answers, charged once; an index of what is there; truthful reports |
| adapters, tui, model, testkit, xtask | none outside themselves | rendering, data types | I/O | not modelled, section 6 |

### How the parts interact

* `orcd watch` (`watch_cycle`) calls `run_watch`, which recovers rows and runs one
  `LoopRunner` invocation after the other. `orc loop` runs a single invocation without
  the recovery. Both take the instance lock and prune worktrees first.
* The runner reads the board through a poller and the task choice through the decision
  provider: two awaits during which the clock, the signals and the workers move.
* Workers are tokio tasks of the same process. They are reached through a join handle
  and a progress channel only, so the runner learns of their end at its next reap, and
  an abort takes effect at the worker's next await.
* A worker runs a session of model turns and tool calls, a tool call may be a session of
  its own, and a finished session is delivered: commit, `push-branch`, pull request, each
  a child process under a timeout.
* Signals arrive in a `watch` channel as a count. The runner keeps one receiver, the
  pass a clone of it, the daemon compares the count with a baseline.
* The ingress poller pushes events into a bounded queue that the kick-off gate peeks at
  and that the pass drains after its await.
* Gateway clients, `orc` and `orcd` meet in SQLite files, in the configuration directory
  and on GitHub, not in memory: most interleavings outside the loop are of processes.

## 2. Modules

| module | models | composes |
|---|---|---|
| `RunState` | the durable rows and retry states as operators on values: `StartRow`, `FinishRow`, `RecoverRows`, `RecordTaskFailure`, `RecordTaskSuccess`, `DailySpend` | |
| `LoopRunner` | `LoopRunner::run` and all it calls, the worker tasks, the signals, `watch_cycle` and `run_watch` around it | extends `RunState`, instantiates `RunLedger` |
| `RunLedger` | abstract: what the store promises its readers | |
| `Kickoff` | the gate, what the runner remembers between passes, the event queue | |
| `DecisionProvider`, `CampaignPass` | what a provider may answer and which answers are accepted; snapshot, order, choice, record and spawn of a pass | `CampaignPass` extends `DecisionProvider` |
| `RoleRouting` | a role resolved from the layered keys or by the provider, and the store its decisions go to | extends `DecisionProvider` |
| `LoopLimits` | the `[loop]` block on its way to the guards of an attempt: `orc loop` and `orcd watch`, warnings, validation, turn bound, churn window | |
| `WatchProcess` | the processes on one directory (lock, worktrees, prune, starts, crashes), and the reconcile poller with its event batch | |
| `EventPoller`, `IntakeLane`, `CiLane` | the three lanes of the ingress | `IntakeLane`'s `Accept` is `AcceptItem` of `EventPoller` |
| `Governance` | the routing decision on classified content; retries behind one shared circuit breaker | |
| `Supervisor` | one monitor per spawned process, replacement, cancellation, restarts; which tools a session sees | |
| `DaemonServer` | capability probe, socket file, connections, shutdown and bounded drain, processes one after the other | |
| `EventStores` | the audit log (verified head, imports, foreign edits) and the daemon's store with its blob directory | |
| `CostLedger` | migration, entries, receipts, the question before a spawn, roll-ups, by several processes; who inserts need not have asked | |
| `BacklogRunner` | the delivery engine's tick, pause and resume, its scheduler, failure classification, retry gate and escalation ladder | |
| `ReviewPipeline` | reviewer selection, generations, the finding ledger, convergence | |
| `WorkerSession` | attempts, turns, tool calls, budgets, guardrails; a sub-session inside a tool call | two frames of one loop |
| `MediatedBash` | a bash call: the caller, the blocking tasks, the drain threads, the interpreter and what it forks, inside its process group or out of it | |
| `BranchLanding` | `push-branch`: several landers on one branch, lost answers | |
| `Delivery` | commit, landing, pull request; a later run delivers again | extends `BranchLanding` |
| `InstallationTokens` | the token cache under mutex and condition variable | |
| `GhDelegation` | the gates of `gh-env`, the child, the labels | |
| `BoardTools` | `board.move` and `decision.record` by several clients: leases, compensation, audit chain | |
| `GatewayTools` | the file tools, the audited reads, what `decision.record` accepts; the worker's think tool | |
| `BoardReads` | the walk over blockers, the merge verdict, the expansion of references | |
| `BoardClient` | the Projects client with its id file, and the write-through cache | |
| `LayeredConfig` | sources, edits, conflicts, merge; the declared tools of the same layers | |
| `Lifecycle` | a session's record: requests, leases, recovery, cancellation, checkpoints | |
| `Workspace` | materialization, reconciliation, provisioning of a worktree and delivery from it | |
| `ContextIndex` | the incremental index | |
| `ProviderProxy` | a completion through the proxy: checks, stream, charge, answer | |
| `SimplifyPass` | `orc simplify run`: tools under deadlines, fixes, verification, report | |
| `LoopRunnerProofs`, `BacklogRunnerProofs` | the inductive invariants and the theorems | extend their components |
| `IngressProofs`, `WorkProofs`, `ServicesProofs` | the same for all components of the runs `ingress`, `worker` and `services` | extend `Ingress`, `Work` and `Services` |
| `ToolsProofs`, `ReadsProofs` | the same for the run `tools`: what is written through the tools, and what is read | extend `Tools` |
| `Ingress` | the runs `ingress`, `ingress_live` and `intake_restart`: what the daemon hears of and decides upon, four parts of which one moves in a behaviour | composes `Kickoff`, `EventPoller`, `IntakeLane`, `CiLane` |
| `Tools` | the run `tools`: what agents reach the outside through, twelve parts of which one moves in a behaviour | extends `BoardTools`, `GatewayTools`, `GhDelegation`; composes `BoardReads`, `BoardClient`, `ContextIndex`, `ProviderProxy`, `SimplifyPass` |
| `Work` | the run `worker`: the seven components a run's work goes through, one of which moves in a behaviour | composes `WorkerSession`, `MediatedBash`, `Delivery`, `InstallationTokens`, `ReviewPipeline`, `Supervisor`, `DaemonServer` |
| `Services` | the run `services`: what is kept and decided between runs, thirteen parts of which one moves in a behaviour | composes `Governance`, `EventStores`, `CostLedger`, `WatchProcess`, `CampaignPass`, `RoleRouting`, `LoopLimits`, `LayeredConfig`, `Lifecycle`, `Workspace` |

In every module a step ends where the code awaits, unlocks, commits or forks, and all that
happens in between is one action; `map` in `PROJECT.json` names the lines of each
definition. What others do (people at the board, GitHub, providers, other processes) are
actions with a bound of their own. Variables named as history in a module's header are
read by no guard.

### LoopRunner

`pc` names the point of the loop body. A step ends where the code awaits and where a
crash between two durable writes can be seen; all that happens in between is one
action.

| code | model |
|---|---|
| `record_reaps`, `reap_finished` | `ReapOutcome` (slot removed, arbitration, retry state written), `ReapFinish` (row written), `ReapEnd` |
| `supervise` | two reaps around `Observe` (beats, stall, worker timeout) |
| `run`: budgets and drains | `StopOnRunBudget`, `StopOnSpendCap`, `StopOnCycles`, `DrainStep`, `Drained` |
| `pass` | `SkipPass`, `BeginPass`, `PollBlocks`, `PollFails`, `PollShutdown`, `PollBudgetExpired`, `PollSnapshot` |
| `plan_and_spawn`, `excluded_tasks` | `PlanBlocks`, `PlanNoOp`, `PlanSelect`, `StartWorker`, `SpawnFails`, `SpawnFailedFinish` |
| `wait_tick`, `apply_signal` | `Tick`, `WaitSignal`, `ApplySignal` |
| errors of the store | `StoreFault`, then `FatalKill`, `SweepSlot`, `SweepEnd` |
| `watch_cycle`, `run_watch` | `StartInvocation`, `NextInvocation`, `AwaitBudgetWindow`, `BudgetWindowResets`, `Exit` |
| kill -9, service manager | `Crash`, `NewProcess` |

Abstractions. Time is counted in ticks (`tick_interval`, at most a quarter of the stall
window, hence `StallTimeout >= 4`). A poll returns any set of tasks, so `PlanSelect`
may pick any task that is not excluded. Spend is a small number per run. Failure
classes are reduced to what changes control: a failed, killed or drained run.
`sealedAt`, and the state "lost" of a worker, are history the program does not keep;
no guard reads them. Log lines, summaries and reports are left out.

### Kickoff

The gate is left open in `LoopRunner` (an idle loop may proceed or not) and is the
subject of its own module, because its question is different: the conditions are edges
between two passes. `RememberPass` is what every pass leaves behind; `peeked` is what
it carries across the planner's await. The durable attempts and backoffs are one set
`held` that the environment empties.

### EventPoller

An event is its position in a feed that only grows; a page is cut from the feed as it is
when it is asked for, newest first, so pages of one poll overlap when events arrive in
between. `poll_one` is split at its awaits and at its durable writes: `BeginPoll` and
`NextPage` read, `BaselineItem`, `BaselineRecorded`, `RaiseBoundary`, `MarkBaselined` are
the first-enable baseline, `JudgeItem` and `AcceptItem` are `process_items` for one item,
`Advance` and `StoreConditional` end the poll. `PollFails` and `Restart` may happen between
any two. `WindowPasses` lets delivery keys age out. An ETag is the length of the feed it
was made from. Kinds of events are reduced to four: mirrored, tracked, untracked, and not
parsed. `judged`, `cut`, `born`, `times`, `lapsed` and `rawTop` are history.

### IntakeLane

Each GraphQL call of `attach_issue` is an action, because the board moves between them:
`Lookup`, `Add` or `ReadFields`, `WriteField` and its `ReadBack`, `WriteType`,
`ApplyLabel`. `CallFails` fails the call at `pc`, with or without its effect on the board,
and stands for every error return. The mechanical values are one value per field, and
what others choose is another; the label is there or not. The resolution of names to node
ids is part of the call that needs it. `raced` is history: the fields that others changed
since the lane read them.

### CiLane

A SHA is a number, the newer the larger, with one workflow run and one check run; a re-run
starts both anew under the next attempt, which is what makes a new delivery key. An ETag
is the content it was made from, so "not modified" is exact; a response may come without
one. `PollRuns`, `RunsNotModified` and `RunsFail` are `poll_runs`; the `Check...` actions
`poll_check_runs` for one SHA; `MarkerUnread`, `Prune` and `PruneFails` the rest of
`poll_repo`. Conclusions, pull-request numbers and the queue behind `emitted` are left
out; a run that is not triggered by a pull request is filtered by the code and is not
there.

### BacklogRunner

`tick` takes `&mut self`, so nothing interleaves with it; it is cut into steps only because
its outcomes are inputs. `TickBegin` takes the due tasks, `cursor` walks the tasks in ID
order (`Skip`, or `Consume` with one of the outcomes), and the tick ends in `TickStopped`
or in `Dispatch`. `Pause` and `Resume` need `cursor = 0`. `handle_failure` is `Fail`:
`Classify`, then `Gate`, then one disjunct per decision. `ParallelScheduler::select` is a
greedy loop in ID order; `IsSelection` states the one set it returns, since whether a
task is taken depends on the smaller tasks taken before it. A retry schedule is its
attempt count (the delay is a function of it), a ladder step its position, and of the
journal the last outcome recorded for each task is kept. `run` is a sequence of ticks.

### WorkerSession, MediatedBash, Delivery

A session is a stack of two frames, since a declared subagent runs the same loop inside a
tool call with budgets of its own; clock, progress channel and cost sink are shared. What
the model answers and how a tool fares are inputs. In `MediatedBash` the caller's future
may be dropped at any await (`Cancel`), which no blocking task notices: only the armed
guard and the child's `Drop` kill the process group, and the properties say that this is
enough for all that stays in the group. `Delivery` runs each of its three steps under a timeout whose expiry is one more
way for the step to fail, with or without its effect. In `BranchLanding` a tree is a
number and a commit its position; the temporary branch, the verification of tree and
signature, and the conditional update of the real branch are steps of their own.

### BoardTools, GatewayTools, BoardReads, BoardClient

`board.move` takes a lease, checks, mutates, reads back, compensates and appends its audit
record in separate steps; people and other clients, of the same session too, move between them. Statuses
stand for their class, the content of a file is the set of edits it carries, and SHA-256
is injective. `board.query` in `BoardReads` walks the blockers depth first (any lookup may
fail), or searches, with its filter; it is checked on graphs over four items. The verdict
is put together from pages between which the head may move, with each part able to be missing;
the expansion meets references below, at and above both limits.

### EventStores, CostLedger, WatchProcess, LayeredConfig

Each is a file, or a directory, that several processes open. A transaction is one action, a
read that is used later is a variable of the connection. The hash of a record is the
sequence of payloads up to it. A foreign writer edits the log (`Tamper`), a crash leaves a
temporary blob or a stale lock, an editor writes a source while another process loads the
layers one by one.

### ContextIndex, ProviderProxy, SimplifyPass

The index pass works on a copy that replaces the index at its end, while files are edited,
moved and copied. The stream of a completion is a sequence of events that the network cuts
in any place. A simplify pass sees the findings of the tree as it is when a tool runs.

### RunLedger

Three actions: `Claim` a free task, `Settle` a running row, `Recover` all open rows at
once. The daemon implements it; `orc loop`, which recovers nothing, does not, which is why the
refinement is stated for `Daemon = TRUE`.

## 3. Runs

Components that do not share state are checked in one run: a variable `focus` picks, in
the initial state, the component that moves in the behaviour, and the others stay as they
begin, so the states of a run are the sum of its components' and not their product.
Components that do meet are composed in their modules (`Delivery` with `BranchLanding`,
the frames of `WorkerSession`, `LoopRunner` with store and daemon, the two users and the
platform of `BoardClient`). `Components` restricts the foci for a run about one of them.

| run | shows | bounds |
|---|---|---|
| `drain` | `StopsBounded`: a spend cap aborts nobody, the grace window and the invocation are bounded. `GraceWindowKept`: one signal leaves the whole window. `NaturalEndWins`: how a run really ended is what its row says, but for the fatal sweep (section 5). `NoWorkerWithoutRow`, `OneRunPerTask`, in every order of stop, kill, natural end, signal and fatal exit | two tasks, two slots, two signals (the third adds nothing: the deadline is already now), run budget 3, all four stop reasons, one failed write |
| `ledger` | attempts are never overspent and `stuck` is never early; the cap on workers; every running row has an owner; rows implement the ledger | two tasks that compete for one slot, three runs, two invocations, a budget of one attempt (a task runs once in an invocation, so the second meets a spent budget), one failed write, crashes |
| `live` | `LoopLive`: invocations end, rows settle, a signalled daemon stays down | one task with workers that may hang, a spend cap with its wait for the next day, one signal |
| `ingress` | `EventsAccounted`: no event is jumped over, accepted twice, taken from before the baseline or drained unseen. `LanesComplete`: a finished report is complete, no SHA in flight is dropped. `PromotionsKept` | gate: two tasks, one slot, two boundaries, two events and a queue of one; poller: a feed of three with pages of one and two pages a poll, two failures or crashes; intake: four events on three issues (one a redelivery, one the loop's own, one that can never be typed), a tick of two, an edit, a failed call, a crash; CI: two SHAs and a cap of one, two failures, one restart |
| `ingress_live` | `IngressLive`: no eligible task forgotten, no event left pending, hidden or unjudged, every report attached, every completion emitted | the same, a little smaller (its cfg) |
| `backlog` | only eligible work within the caps is in flight; a live run is never stalled; stops are truthful; refused tasks stay parked; the ladder bounds the attempts; every run ends | three tasks over three backlogs (one cyclic) with a shared domain and a shared file, two slots, a ladder of three, two failures per step, three reprompt attempts, a budget of six: the ladder's bound for one task (five) is below the budget, that of two is not; one pause |
| `worker` | `SessionAccounted`: every provider call the cost sink took has an entry of its own, every completed one is in the usage, delivery ends a run. `ProcessesOwned`: nothing in the process group of a bash call outlives it, of a supervised session's processes at most one is not being stopped, a serving daemon is reachable. `DeliveryTrue`: what is reported landed, opened or approved is so; one mint. `StepsGuarded`: no turn past the deadline, every turn beats, a landing extends the head. `WorkEnds`, for a bash call unless a descendant outside its group holds the pipes | two attempts of two turns and a sub-session of one, with a cost sink that loses the second entry (`LossyCalls`); a script of three chunks through a pipe of one; two deliveries of a task, another lander (`--re-land` too), a push from outside, one fault; three threads that want a token; two findings over two heads up to the loop ceiling; two spawns; two server processes with two connections |
| `tools` | `BoardWritesSound`: one session's live leases on an item, refusals change nothing, an answered outcome is in the audit chain as it was answered. `AnswersHonest`: exactly one audit event for an answer that comes with one, none for another (a failed `board.query` among these, section 5), in one chain; patches on what was read; stored decisions replayable. `ReadsComplete`: the blockers found, verdict, references, index, thoughts. `ClientsHonest`: moves read back, a listing warns of each item it saw cut, divergence reported once; completions whole but for a last event cut in its prefix, and charged once; simplify reports true. `DelegationGated` | three clients of two sessions (those of one are alike, so the first that is free takes a call, `FirstFreeCalls`), at most two calls at a time, a lease that expires, three calls with a fault or an edit by people, or two calls with both; a file that is patched and renamed, with and without the gateway's handles; the graphs over four items, with cycles through the root and through one item, and a depth cap of two; two commits that share the prefix the verdict file is named by; reference texts around limits of 2 and 3; one thought more than a run records; eight spellings of a `gh` command with two edits of the settings; three files and four edits; a stream of three events cut anywhere; five findings in five kinds of run |
| `services` | `ChainsKept`: audit log and daemon events are hash chains, blobs whole, no promotion missing. `LimitsKept`: guardrails as configured, the breaker, live worktrees kept. `RecordsAppendOnce`: appends to verified chains, save after an overtaken import (section 5), no event recorded twice. `DecisionsSound`: selections and routings sound, layers resolved, no receipt rolled up for two profiles, a decision that warns or blocks stands. `SessionsContained`: callable tools from trusted layers, no request applied twice, snapshots complete and changes of what they hold reported | two callers behind a breaker of threshold two; two audit connections and a foreign writer; two connections that open the store at once, a restart; two processes and two profiles on a hard cap of three, entries of up to two tokens, of which nobody need have asked; `orcd watch` next to `orc loop`, a crash, a failed prune; three polls of which one fails to append; two cards whose repositories have one slug; two resolutions of a role; guards set to zero, one and beyond the default; four files on three layers, two editors; a tool defined on three layers; three request keys, two starts; three paths of four kinds, two edits by a worker, pushes by others |
| `intake_restart`, `fatal_exit`, `overrides` | disagreements between code and documentation, section 5 | the smallest instance that shows them |

Constants named `Max...`, `PlanDelay`, `Boundaries`, `FeedLength`, `Reports`, `Edits`,
`OtherTrees` and `...Faults` are bounds of the model, not of the code. `Crash` is left out of the last
invocation of a bound, so that a restart always follows. The deadlock check is off in `backlog`, `worker`,
`tools` and `services`: a run that ended, a call that was answered and a process that
exited do nothing further. Every property of a passing run has a mutant of the code in
`PROJECT.json` that breaks it.

### Fairness

* `WF(Program)`: the runtime polls the supervisor task again and again, and the service
  manager starts the daemon again after a crash.
* `WF(AbortLands(r))`: a tokio task whose abort was requested is cancelled at its next
  await. Nothing is assumed of a worker that was not aborted: it may hang for ever.
* `Kickoff`: `SF(Gate)`, because the gate is taken whenever capacity allows and capacity
  comes and goes with reaps; `WF(Plan)`; `WF(Reap)`, which `InvocationEnds` of the loop
  justifies. Boundaries are bounded: an invocation that is cut short for ever may select
  the same favourite each time.
* `EventPoller`, `IntakeLane`, `CiLane`: weak fairness of the loop's own step (`Poll`,
  `Tick`, `PollRepo`), because `ingress_poll_loop`, `intake_attach_loop` and
  `ci_lane_poll_loop` recur for the daemon's lifetime. Failures are finite by their bound;
  nothing is assumed of the platform or of people.
* `BacklogRunner`: the runtime calls `tick` again and again and resumes a paused run
  (weak), and an open attempt reports in the end (strong, as a tick without its outcome is
  possible in between). Pauses are bounded: an attempt that is paused for ever never ends.
* `WorkerSession`: weak fairness of its step. Provider calls and tools have timeouts, which
  are among their outcomes, so a step always comes to an end.
* `MediatedBash`: the runtime runs the caller and the blocking tasks (`Program`), the drain
  threads read, the interpreter reads its script and leaves at its end. Nothing is assumed
  of what it forks, which is why the kill of the group matters; nor of a descendant that
  left the group, for which `WorkEnds` makes an exception.
* `Delivery`: the children run under a timeout (`Deliver`, `Landing`, `Work`);
  `InstallationTokens`: each thread is scheduled, and a mint returns or panics (the HTTP
  client has a timeout); `ReviewPipeline`: the reviewer callback returns; `Supervisor`: each
  monitor task is polled; `DaemonServer`: bind, shutdown and the grace timer, not the
  clients.
* `EventuallyAttached` needs one premise the code does not enforce, and
  `IntakeAssumption` states it: fewer events that always fail than a tick takes
  (`INTAKE_TICK_LIMIT`). A failed event keeps its acceptance time and returns to the head of
  the store, so a full tick of them would hold up all others.

## 4. Proofs

`LoopRunnerProofs` proves, for every number of tasks, runs, slots, signals, faults and
every configuration the assumptions allow:

* `TypeCorrect`, `WorkersAccountedFor`, `RowsAccountedFor`, `NeverRunTwice`,
  `AttemptsBounded`, `StuckIsExhausted`, `OutcomesTrue`, `GraceWindow`, `EveryStopBounded`,
  `CapacityKept`;
* `SignalStopsDaemon`: the safety part of `LoopLive`;
* `LedgerImplemented`: with `Daemon`, every behaviour implements `RunLedger`.

Assumptions: `LoopConfigAssumption` is `LoopConfig::validate` (positive concurrency,
timeout, run and shutdown budgets, a tick of at most a quarter of the stall window);
`NoDeadlineAssumption` says that the deadline standing for "none" is beyond any invocation;
`LoopBoundsAssumption` says the bounds are naturals; `RunStateAssumption` says the same
of the store's constants.

The argument. None of the properties is inductive alone. `IInv` is the conjunction of

* `TypeOK`;
* `CoreInv`: where each run may be at each `pc` (a slot has a row of this invocation and
  a task that was started; ids at or above `nextId` are absent; the run being reaped or
  started is in no slot; a dead or exited process has no slots);
* `OneRunPerTask`, `NoStrandedRow`, `AttemptBudgetKept`;
* `OutcomeInv`: a cancelled task has an intent, and the status under way in `reaping`
  agrees with the end of the task and, if it is `stuck`, with the attempts in the store,
  which is what makes the row honest when it is written one step later;
* `AbortInv`: as long as no write failed there is no sweep, and a run recorded or being
  recorded as aborted was cancelled; this is the part of `NaturalEndWins` that the fatal
  sweep would break;
* `GraceInv`: the deadline against `sealedAt`, and the signal count against what the
  runner has seen, which is what rules out one signal being taken for two;
* `CapacityInv`: below capacity from the capacity check to the push of the new slot;
* `ClockInv`: how far the clock may be at each `pc`, before the stop (`OverrunInv`), within
  the drain and in its last tick (`DrainInv`), from which the bound on an invocation
  follows, and that no kill is attributed to the spend cap (`SpendInv`);
* `SignalInv`: a signal older than the invocation is seen before any time passes.

Each conjunct is shown to be preserved by each action in a lemma of its own. The
refinement then needs only the claims' exclusiveness, which follows from
`OneRunPerTask`, `NoStrandedRow` and `CoreInv`.

`BacklogRunnerProofs` proves, for every backlog (cyclic ones included), every cap, budget,
ladder and limit: `RunnerTypeCorrect`, `OnlyEligibleWork`, `CapsKept`, `NeverStalled`,
`StopTruthful`, `TaskAttemptsBounded`, `BackoffKept` (a backoff belongs to the present
ladder step; no run checks this one). `BacklogAssumption` is what `TaskDag::new`
and the three `validate` functions enforce: known dependencies, none on oneself, no cap of
zero, a ladder that is not empty. The properties are inductive together, as `Inv`, with
`TickInv` (nothing is due between ticks; an attempt that paused the run is still open).
Why together: the scheduler ignores parked tasks, so that a live run has work needs
"a parked task stops the run", a part of `StopIsTruthful`; that `NoEligibleTasks` means a
cycle needs it too. The selection enters through its extreme members: the greatest
bounds a cardinality (`GreedyBound`), the least shows that an idle runner with eligible
work selects something (`FirstIsSelected`). Least members exist because `<` is
well-founded on the naturals; no induction is used. `TaskAttemptsBounded` needs one
invariant more, `LadderInv`: the attempts of a task against its ladder step and its
retries.

`ToolsProofs` proves, for every number of clients, sessions, items, calls and faults:
`BoardWrites` and, as the part of it a caller relies on most, `LeasesExclusive`; for every
vocabulary of commands and every edit of the settings, `GhGated`; and for every number of
clients, files, calls and faults and every wiring of the scope, `AnswersAreHonest`. The board's
invariant has four parts. `LeaseInv`: the live leases on an item are of one session.
`HoldInv`: a call between its claim and its bookkeeping has a lease, is the only one of its
session on that item, and what it may release is not what the board shows as the session's;
this is said of the items that no two calls of one session held at a time (`shared` has the
others). Nothing in the gateway keeps such calls apart: the lease is keyed by the session, and
the release at the end of one call takes the lease the other renewed, so the second part of
`LeaseProtects` makes the exception. `AuditInv`: a call's number is in the audit chain once,
and a move's not before its last step. `ToldInv`: what a call was told is so in the chain and
in the decision store, whatever other calls append. `CommandsRecognised` (no command line that creates a pull
request is read as another one) is about what a fold over the words computes, and TLC
evaluates it on the run's commands. The other tools rest on `GatewayInv`. `NumbersOwn`: a call
under way has a number that no other call, no answer and no event has, so an event appended
while other calls run is nobody else's. `PatchOnReading`: a patch that passed its digest check
has the base its author last read, although others may have written the file since;
`StoredReplayable` and `ChainUnbroken` speak of what is stored. `AnswerStep` and `HoldStep`
treat the two ways a call can go on, once for all thirteen actions.
`ToolsTogether` takes the three to the composition, the specification TLC checks.

`ClientsAreHonest` is about the other clients of the outside, in the composition:

* `ClientInv` for moves and listings: what a call has read belongs to the item its caller
  named, and the status it will report is the one it read back.
* `CacheInv` for the write-through cache. `CopiesHad`: what is kept, or was read and is to be
  kept, the platform has had. `Accounted`: the contradictions met are those that were drained,
  those that wait to be and those a writer still has in hand, so that none is reported twice
  or lost wherever a drain comes between two users.
* `ProxyInv` for a completion. `StreamFits` and `StreamCovers`: the events given out for a part
  of the stream are in order, each at the place it names, and no text of the part is missing.
  Both are additive over adjoining parts, which is why it does not matter where the network
  cuts. What is left when the stream ends inside the prefix of its last event is the one
  exception.
* `PassInv` for the simplify pass: the group of a tool's processes has ended before its
  result is used, a finding is in the report once, and what was fixed together is gone
  together.

`ReadsProofs` proves the fifth property of the run, `ReadsAreComplete`, for every blocking graph
on a finite board, every depth cap and limit, every order of events at a pull request, every
text, every set of files and every sequence of thoughts. The invariant is
`WalkInv /\ StatusInv /\ RefInv /\ IndexInv /\ ThoughtInv`, a part for each reader.

* `WalkInv` for the depth-first walk over the blockers, whose stack mixes items to visit with
  the ends of items already entered. `Nested`: the frames lie on the stack as the path goes, a
  frame of depth k above the end of the path's k-th item and below that of the next, so that a pop
  always takes the right item off the path. `Framed`: a frame of depth d names a blocker of the
  path's d-th item. `SeenWell`: an item seen at depth d is the end of a walk of d edges.
  `Pending`: a blocker of an item seen is seen at most one deeper, or still on the stack at most
  that deep, or beyond the cap; on an empty stack this makes the depths the shortest ones, although
  a longer branch may have reached an item first. `Clear`: while the cap was not met, what is
  done with has all its blockers and no cycle, and is all that was seen beside the path; hence
  a walk without a cycle is of an acyclic graph. The answer is a subset of what was found, as
  failed lookups leave items out. That `Pending` gives every item within the
  cap is a least counterexample over the length of a walk.
* `StatusInv` for the verdict. `SnapKnows`: what was read is of the view's head and base and
  stays true of them, as runs are only added and a CLEAN record names its pair, whatever
  file name its prefix gives it. `VerdictKnows` needs only the second view then.
* `RefInv` for the expansion. `RefKnows`: literals are settled in the order of their first
  places; a settled one keeps its substitutions, and a place of one that is not is untouched unless
  it belongs to the literal in hand. The characters added are a running total over the places
  (`Added`); `TotalsGrow` says what filling one place does to it.
* `IndexInv`. `IxKnows`: each content is under one path, its blob's, and a symbol is one that
  content defines; this holds of the index and of the copy a pass works on. `PassKnows`: the copy
  has what was read in this pass.
* `ThoughtInv`. `ChainKnows`: the chain's four numbers are what the records say.

`IngressProofs` proves every safety property of the run `ingress`: `IngressTyped`,
`EventsAreAccounted`, `LanesAreComplete`, and the action property `PromotionsAreKept`, for
every feed, page size, page cap, queue, tick limit and number of tracked SHAs that is not
zero. The invariant is `GateInv /\ PollerInv /\ IntakeInv /\ CiInv`.

* `GateInv`: what a pass carries across the planner's await was evaluated, so draining it and
  no more leaves every accepted event accounted for.
* `PollerInv`. `PagingKnows`, `ProcessKnows` and `BaselineKnows` say, for each stage of a poll,
  which events of the feed are among the items in hand, judged, or knowingly out of reach;
  the feed grows meanwhile, so that the pages shift. `SilenceKept`: what is older than the
  baseline is at the boundary or below it, or beyond the pages of any later poll.
  `AcceptedKnown`: what was accepted is below the boundary or known by a key that has not
  aged. The argument counts: `Below` ranks the members of a finite set of numbers, which
  bounds how many new events fit on the pages that were read.
* `IntakeInv`. `AttachKnows`: at each call of `attach_issue` a field it is past is set, a field
  it means to write was unset when it looked, and one it leaves alone is set. This is
  what holds when somebody edits the item between two calls, or a crash leaves it half done.
* `CiInv`: the SHAs followed are those of the last snapshot that were not quiet.

`WorkProofs` proves every safety property of the run `worker`: `WorkTyped`,
`SessionsAccounted`, `ProcessesAreOwned`, `DeliveriesAreTrue` and `StepsAreGuarded` (the
action properties), as theorems of `Work`'s specification, the one TLC checks.
`ComponentsRun` shows that a behaviour of the composition is a behaviour of every
component; each component has its invariant, and the theorems combine them.

* `SessionInv`. `LedgerHolds`: the entries and the calls the sink lost are all calls, the
  entries of a session are numbered up to the frame's `recorded`, and no entry carries the
  number the next sub-session will take, so no two requests share an entry. `UsageHolds`: the usage of both frames together is that of all
  completed calls, and the cap flag agrees with the parent's usage at all times, not only
  once no sub-session runs. `CarveHolds`: a sub-session's deadline is not after its
  parent's; this is what a turn of the sub-session needs. `FrameOK`: the budgets.
* `BashInv`: a process that runs has a blocking task that will reap it, or a handle whose
  drop kills it after a poll for its exit failed, and the guard is armed before anything can
  wait on it. It speaks of the group: of a descendant outside it nothing is claimed. `BashFlow`: each chunk of the script is in one place.
* `SupInv`: a monitor that may start its command again and that nobody told to stop is the
  one its session's entry names, also between an exit and a restart. `ServerInv`: a
  serving process owns the socket file. `TokensInv`: the slot says "minting" for exactly
  one thread, and nobody waits for nobody.
* `ReviewInv`: the ledger has each finding's worst severity, and a review that goes on has
  a generation left in both limits. `SelectionSound` is a premise: that the selection
  covers the required domains depends on what folds and filters of sequences compute; TLC
  evaluates it for all configurations and profiles of the run.
* `LandInv` is about the repository as a tree of commits (a commit's parent is older; the
  head, the temporary branch and what a lander verified are commits), `DeliveryInv` about
  what the three steps have seen of it.

`ServicesProofs` proves all five properties of the run `services`, as theorems of
`Services`' specification: `ChainsAreKept`, `LimitsAreKept`, `RecordsAreAppendedOnce` (the
action properties), `DecisionsAreSound` and `SessionsAreContained`. `ComponentSteps` takes a
step of the composition to a step, or none, of each component.

* `LogInv` for the audit log. `CacheInv`: a connection whose cached version is the file's has
  a cache of a table that verifies, unless its import was overtaken (`raced`). An append thus either verified the
  table or its cache did, and if somebody committed in between the number it would insert is
  taken. `Linked` and `LinkedGrows` say what a chain is and how a record extends it;
  `VerifiesIsLinked` takes them to what the code checks, `ImportedVerifies` to a whole import.
* `EventInv` for the daemon's events: a number that was read is at most the next one, and
  whoever still has the next one read the hash of the last event; `BlobInv`: a file that is
  not full is being written, while nobody died.
* `ReconInv` for the reconciler. `BatchInv`: what is still to append holds each event once,
  no divergence marked as seen, and exactly the promotions the blocked candidates still
  show. `RecordedInv`: a promotion is in the log for every time a task was unblocked, and
  one more if it left the candidates since the last poll that succeeded. This is why a batch
  cut short anywhere neither loses nor repeats one.
* `GovInv`: the breaker's state against its failures, and a caller that waits has an attempt
  left. `WatchInv`: only the holder of the lock has a stage, and a worker's process runs its
  invocation, so whoever prunes is alone.
* `LimitInv`: the window the worker keeps is the end of its calls (`IsWindow`), so that it
  is churning exactly when the last calls are; a guard that the settings switch off was
  warned about.
* `ToolInv`, `LifeInv` and `SpaceInv`: where a tool's fields come from, that a transition
  extends the trail, and that files, manifest and what the worker changed agree at each step
  of materialization and reconciliation; a file the worker created is in no manifest.
* `RoutingInv`: a row of the routing store is the decision of the resolution that wrote it,
  and a resolution that is done has its row.
* `LedgerInv` for the cost ledger. `DecisionsStand`: the usage only grows, so a decision that
  warned or blocked would be made again. No bound on the spend follows: whoever made a call
  inserts its cost without having asked. The roll-ups are sums over sets of entries; that they add up
  (`SumOver` of a disjoint union, of one more entry, of a partition by profile) is shown by
  taking a least counterexample by cardinality, as the library's induction theorems are out
  of reach.
* `CampaignInv`: a row is the decision its pass computed from its own snapshot, one row a
  pass; a worker has the row of its pass, which came before it. `SelectionLists` shows that the
  order by priority, blockers and key lists every candidate once, whatever the board holds.
* `ConfigInv`: what was read follows the load order, and what was made of it was made of all
  of it. The stable sort of the resolver then changes nothing (`SortedAlready`), and merging
  in the order of the layers leaves the last value set (`MergeLasts`), which is one of the
  highest layer that sets the key. For the same reason what is effective is what `explain`
  reports, of the keys that the document's type has and the hand-written merges handle
  (`Handled`; `LeftOut` and `Unknown` are the others).

The assumptions `WorkerAssumption`, `BashAssumption`, `SupAssumption`,
`DeliveryAssumption`, `TokensAssumption`, `ReviewAssumption` and `BoardToolsAssumption`
say that budgets and bounds are naturals, a pipe holds something and sets are finite.
`Work` and `Ingress` assume those of their components (`WorkAssumption`,
`IngressAssumption`: the limits of the code are not zero, and a tick of the intake lane takes
more than the reports that always fail). `ToolsAssumption` adds to those of the board tools and
the gateway the premise `CommandsRecognised`, that a cache has finitely many users, that no board word is the model's
name for what is not there, and that findings are of three classes of which only clippy's
fixes are safe; and for the readers that a board is a finite set of numbers with the root
among them, limits are naturals, the depth cap (64 in the code) is below the two markers the model
uses for `usize::MAX` and for an item not seen, and a commit has finitely many checks.
`ServicesAssumption` says that bounds and settings are naturals, that the
built-in guards are on and the breaker's threshold is not zero, that
there are eight layers, that boards, files and profiles are finite,
that the digest in a task's id tells the repositories of a board apart (a 32-bit FNV-1a,
`campaign/session.rs:180-194`, so this is likely and not certain), and that the model's names for nobody,
for a writer outside and for what an edit leaves are names of nothing else.

What the proofs taught. Statements that TLC had confirmed on its instances were false
of other configurations, and were corrected in the model: an invocation may overrun its
budget by a tick even when planning takes no time (`InvocationBounded`); a worker
configured with 0 attempts makes one (`Allowed` in `WorkerSession`; nothing in
`worker/run.rs` refuses the value); leases exclude only across sessions (`shared` in
`BoardTools`); and the poll that takes the baseline can jump over events published
while it walks its pages, when they push older ones beyond the page cap
(`poller.rs`; TLC shows it with a feed of five, `cut` in `MarkBaselined` names them).

Only model-checked: liveness under fairness (`LoopLive` but for its safety part,
`IngressLive`, `WorkEnds`, `EventuallyStops`), which is outside the prover's reach; and two
premises about what folds over sequences compute (`CommandsRecognised`, `SelectionSound`),
which TLC evaluates on the runs' values. Every safety property of a passing run is a theorem.

## 5. Findings

Each is a run that TLC violates; the quotes are in `PROJECT.json`.

1. `fatal_exit`: the fatal-exit sweep walks the slots. A run whose write failed after it
   left the slots, or before it entered them, keeps a `running` row. In the daemon
   `run_watch` recovers it before the next invocation (`NoStrandedRow`, `RowsSettle`);
   `orc loop` has no recovery.
2. `intake_restart`: taking deletes. A crash between the take and the end of the tick loses
   the batch, and the delivery key keeps the poller from storing it again; the doc comment
   promises that a restart re-attaches.
3. `overrides`: `WatchConfigBlock::merge` leaves `[watch.ingress]` and `[watch.intake]` out,
   so a higher layer never replaces the built-in default, which the comment on the defaults
   says it does.

Met on the way, and not the subject of a run. The loop and the ingress:

* `apply_signal` looks at `stop`, which keeps the budget reason of a drain that a first
  signal preempted, so a second signal preempts it again and the grace window stays
  (`loop_run.rs:580`; `docs/cli/orc-loop.md:91` promises an immediate end);
* after a failed write of the store the fatal sweep records every run it finds in a slot as
  `aborted-shutdown`, also one that had just ended by itself (`loop_run.rs:1061-1079`;
  `docs/cli/orc-loop.md:72` says that a natural completion always wins). `NaturalEndWins`
  excepts it by `faults > 0`;
* the run budget is checked after the board poll, not after the decision provider and the
  starter, so a worker can start on a spent budget (`loop_run.rs:1331` says never);
* supervisor kills count as attempts and can make a task `stuck` (`loop_run.rs:1932` says
  they cannot);
* an item that does not parse counts neither for the boundary test nor for the new
  boundary (`poller.rs:540` says it does); it only costs pages;
* a field set by somebody between the read of `attach_issue` and its write is overwritten
  (`client.rs:498`); `PromotionsKept` shows that this window is the only way;
* a SHA is dropped as soon as it is quiet for one round, not when the cap evicts it
  (`ci_lane.rs:280`);
* after a restart the tracked set is empty; a first round whose runs poll fails prunes
  every check-run row, baselines included, although `ci_lane.rs:384` asks for a valid
  snapshot. The next answer of each SHA is then registered silently;
* `NoEligibleTasks` is documented for "every remaining task blocked" as well
  (`runner.rs:166`); as each block stops the run, only a dependency cycle reaches it
  (`StopIsTruthful`).

Workers and delivery:

* a `tool_repeat_count` larger than `tool_repeat_window` switches the churn guard off and is
  neither refused nor warned about (`campaign/guardrails.rs:114-196`,
  `worker/guardrails.rs:204-222`);
* a descendant of a bash call that leaves the process group (`set -m`, `setsid`) survives the
  kill and, while it holds the output pipes, keeps the blocking task in a join without a time
  limit (`arb-client/bash_child.rs:439-444`; the comment at `:308-310` says that the signal
  reaches every descendant). `escaped` in `MediatedBash` is that case;
* the cost of a provider call is recorded on a best effort: without a sink, or when the
  ledger refuses the row, the call has no entry (`worker/model.rs:398-414`, `:457-459`), and the
  usage of a call that failed halfway is not counted (`:169-182`). `SessionAccounted` is about
  the entries the sink took and the calls that completed;
* a sub-session that fails for another reason than a budget has used its attempts up by
  then, and reaches its parent as an exhausted budget (`worker/run.rs:152`;
  `result.rs:325-328` names a class for it);
* a delivery that is run again fails at its commit, since git says "nothing to commit" on
  the other stream than the one looked at (`worker/delivery.rs:456-458`), and would meet
  `push-branch`'s duplicate-subject guard next (`cli/commands/github.rs:1318`); the comment
  at `delivery.rs:284-287` expects it to succeed;
* an empty difference is a success of `push-branch` (`github.rs:1101-1108`), so the
  delivery's own name for it is never given (`delivery.rs:97`, `:193`);
* the temporary ref outlives a lander that is killed or whose delete fails
  (`github.rs:1211` says it is deleted on every path).

Gateway, stores, configuration and lifecycle:

* `apply_patch` checks the digest and writes without a lock: of two patches on one base one
  is lost (`mcp/fs.rs:82-98`). `AnswersHonest` states what remains true;
* a `board.query` that fails is answered before its event is built (`mcp/gateway.rs:730-732`),
  so the audit log has nothing of it. `mcp/board_query.rs:20` ("every invocation is appended"),
  `:261-263`, `CHANGELOG.md:364`, `docs/spec/10-orchestrator.md:532` and
  `docs/cli/orc-board.md:69-70` say that every invocation is recorded. `AnswersHonest` states
  what the code does: an answer without an event is one of those that claim none;
* of two calls of one session on one item, the release at the end of one takes the lease that
  the other renewed (`mcp/board_move.rs:712-719` reasons about calls of several sessions).
  `shared` in `BoardTools` names the items this happened to;
* an import that another connection's write overtakes before it reads `data_version` caches its
  own head as current, and its next append skips the verification (`events/sqlite.rs:429-436`;
  `:119` says the cache is used when it can be proven current). `raced` in `EventStores` is that
  connection, and `AppendsToVerified` excepts it: after a foreign edit it may append to rows that
  do not verify. Among the program's own connections the chain stays whole all the same
  (`ChainKept`), as the number it would insert is taken;
* nothing in production asks `pre_spawn_check` before it inserts a cost
  (`cost-ledger/budget.rs:172`, `storage.rs:550-588`), so no cap bounds the spend by itself;
* a reconciliation walks the manifest, so a file that a worker created is not reported
  (`workspace/controller.rs:233`), and one that is gone makes it fail;
* `schema_version` is read as an unknown key of a layer (`core/config/parse.rs:83-164`);
* a stream that ends inside the prefix of its last event loses that event, and the completion
  is a success (`provider-neuralwatt/stream.rs:61-65`, `:89-93`);
* a pull request that is created through a wrapper (`bash -c`) or `gh api` is not recognised as
  a creation by `gh-env` (`cli/commands/github.rs`); `Creates` in `GhDelegation` is `gh pr
  create` and `gh pr new` in all spellings of their flags;
* a blocker whose lookup fails is left out of the graph without a word
  (`mcp/board_query.rs:676`; the comment at `:434` says a failed lookup must never pass for
  "not found");
* the half-open breaker lets every caller that asks probe, where its comment allows one
  (`governance/retry.rs:136-141`);
* a lease that runs out is to make a session orphaned in states from which the state machine
  allows no such transition (`lifecycle/recovery.rs:118-132`, `state_machine.rs:195-234`);
* `ToolConfig::merge` leaves `enabled` out (`core/config/resolver.rs:290-301`);
* `orc routing resolve` builds no System One provider, so with `routing.provider =
  "systemone"` it is an unknown one (`cli/commands/routing.rs:35-45`,
  `role_routing.rs:421-425`);
* `bind_socket` removes whatever file is there: a second daemon takes a live one's place
  (`daemon/server.rs:146`), which is why `ServerReachable` is about processes one after the
  other;
* two files of one content leave one path in the index, and content that moved keeps its old
  path in its symbols (`context/parser.rs:82`).

## 6. Not modelled, and what is left

Not modelled: the adapters (a stateless gate before an append), the terminal UI (view
state of one thread), the model types, the test kit and build tasks. Within modelled
components: wire formats, HTTP, SQL texts, GraphQL documents, rendering, argument parsing,
prompts, redaction, tracing, the metadata catalog, OAuth files, `init`'s templates, `stats`
and `chat`; of the cost ledger, the rows of subscriptions, utilization, budgets and caps, and
the roll-ups by agent. The crates `lifecycle` and `workspace` and the cost ledger's
pre-spawn check are modelled as libraries; no other crate of the repository calls them yet. In
the ingress, the waits between polls (advised intervals, rate limits, the
degraded marker's window); in the delivery engine, `topological_order` and the journal's
text.
