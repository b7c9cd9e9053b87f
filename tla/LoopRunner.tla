------------------------------ MODULE LoopRunner ------------------------------
(***************************************************************************)
(* The campaign loop of `orc loop` and of the watch daemon: one supervisor *)
(* task that polls the board, starts worker runs, supervises them, and     *)
(* drains them when it stops.                                              *)
(*                                                                         *)
(* The loop body of `LoopRunner::run` is a cycle of `pc`:                  *)
(*                                                                         *)
(*   reap1 -> observe -> reap2 -> decide -> [poll -> plan -> start] -> wait *)
(*                                  |                                      *)
(*                                  +-> reapDrain -> drained -> ended      *)
(*                                                                         *)
(* A step ends where the code awaits, or where a crash between two durable *)
(* writes is visible.  Workers run on other threads, so they beat, finish  *)
(* and observe an abort between any two steps; so do the operator's        *)
(* signals.  Around it stands the process: `watch_cycle` of the daemon,    *)
(* which starts invocation after invocation, crashes, and comes back.      *)
(*                                                                         *)
(* Time is counted in ticks of the loop (`tick_interval`).  `elapsed` is   *)
(* the runner's clock, `origin` the wall clock at its start.  It advances  *)
(* where the code may wait: the tick, the poll, the decision provider, the *)
(* starter.                                                                *)
(*                                                                         *)
(* The board is open: a poll returns any set of ready tasks, so the pass   *)
(* may select any task that is not excluded, or none.  Whether the         *)
(* kick-off gate lets an idle loop proceed is left open here as well and   *)
(* is the subject of module Kickoff.                                       *)
(***************************************************************************)
EXTENDS RunState

CONSTANTS
  MaxConcurrentWorkers, StallTimeout, WorkerTimeout, RunBudget,  \* WorkerBudgets
  SoftCap, RetryBaseDelay, RetryMaxDelay,
  ShutdownBudget, MaxCycles, MinPollInterval,                    \* LoopConfig
  MaxTaskAttempts, TaskRetryBackoff,                             \* GuardrailsSettings
  DurationMax,     \* Duration::MAX, the deadline of an unbounded drain
  Costs,           \* what a run may report as spend
  Daemon,          \* TRUE: orcd watch; FALSE: orc loop, which neither recovers nor restarts
  PlanDelay,       \* bound: ticks the decision provider and the starter may take together
  MaxInvocations,  \* bound: invocations
  MaxSignals,      \* bound: signals sent to one process
  MaxFaults,       \* bound: failed writes of the run-state store
  MaxDowntime      \* bound: ticks between two processes

(***************************************************************************)
(* `LoopConfig::validate`, and `tick_interval`: a tick is at most a        *)
(* quarter of the stall window.  0 stands for None in MaxCycles and        *)
(* MinPollInterval, and disables the guard in the two guardrails.          *)
(***************************************************************************)
ASSUME LoopConfigAssumption ==
  /\ MaxConcurrentWorkers \in Nat \ {0}
  /\ StallTimeout \in Nat /\ StallTimeout >= 4
  /\ WorkerTimeout \in Nat \ {0}
  /\ RunBudget \in Nat \ {0} /\ SoftCap \in Nat
  /\ RetryBaseDelay \in Nat /\ RetryMaxDelay \in Nat
  /\ ShutdownBudget \in Nat \ {0}
  /\ MaxCycles \in Nat /\ MinPollInterval \in Nat
  /\ MaxTaskAttempts \in Nat /\ TaskRetryBackoff \in Nat
  /\ DurationMax \in Nat
  /\ Costs \subseteq Nat /\ 0 \in Costs
  /\ Daemon \in BOOLEAN

ASSUME LoopBoundsAssumption ==
  /\ PlanDelay \in Nat /\ MaxInvocations \in Nat /\ MaxSignals \in Nat
  /\ MaxFaults \in Nat /\ MaxDowntime \in Nat

(* Duration::MAX stands for no deadline: no invocation lives that long. *)
ASSUME NoDeadlineAssumption == DurationMax > RunBudget + PlanDelay + WorkerTimeout + 2

VARIABLES
  rows, nextId, retry,          \* loop.db
  pc, inv, origin, elapsed,     \* the process, its invocation and its clock
  slots, slot,                  \* the supervised slots; slot[r] is the bookkeeping of run r
  stop, drainReason, drainDeadline, sealedAt,  \* sealedAt: when `stop` was declared
  cycles, backoffIndex, nextPass, nextPoll,    \* pacing of the passes
  planAt,                       \* the clock reading the current pass plans with
  reaping, scan,                \* the run between its two durable writes; reap_finished's index
  proc, beat,                   \* the worker tasks and their unobserved progress beats
  signals, seen, baseline,      \* signals sent, seen by the runner, seen by watch_cycle
  faults

store   == <<rows, nextId, retry>>
clock   == <<origin, elapsed>>
super   == <<slots, slot>>
drain   == <<stop, drainReason, drainDeadline, sealedAt>>
pacing  == <<cycles, backoffIndex, nextPass, nextPoll>>
reap    == <<reaping, scan>>
workers == <<proc, beat>>
sigs    == <<signals, seen, baseline>>

vars == <<rows, nextId, retry, pc, inv, origin, elapsed, slots, slot,
          stop, drainReason, drainDeadline, sealedAt, cycles, backoffIndex,
          nextPass, nextPoll, planAt, reaping, scan, proc, beat,
          signals, seen, baseline, faults>>

-----------------------------------------------------------------------------

StopReason == {"RunBudgetExhausted", "SpendSoftCap", "CycleBudget", "Shutdown"}

(* `StopIntent`: "Drain(reason)" is written as the reason itself. *)
StopIntent == {"Stall", "WorkerTimeout", "Drained"} \cup StopReason

Slot == [lastBeat: Nat, started: Nat, intent: StopIntent \cup {"none"}]

NoSlot == [lastBeat |-> 0, started |-> 0, intent |-> "none"]

(* What the task behind a JoinHandle is doing; "lost" went down with the process. *)
ProcState == {"none", "working", "done", "failed", "cancelled", "lost"}

NotReaping == [id |-> 0, status |-> "absent"]

ReapPcs == {"reap1", "reap2", "reapDrain"}

(* Program counters of a running invocation. *)
RunningPcs == ReapPcs \cup {"observe", "decide", "drained", "poll", "plan",
                            "start", "spawnFailed", "wait"}

Pcs == RunningPcs \cup {"fatal", "sweep", "ended", "awaitDay", "idle", "dead", "exited"}

Now == origin + elapsed

LargerOf(a, b) == IF a >= b THEN a ELSE b

SmallerOf(a, b) == IF a <= b THEN a ELSE b

TypeOK ==
  /\ rows \in [RunIds -> Row]
  /\ nextId \in 1 .. MaxRuns + 1
  /\ retry \in [Tasks -> RetryState]
  /\ pc \in Pcs
  /\ inv \in Nat /\ origin \in Nat /\ elapsed \in Nat
  /\ slots \subseteq RunIds
  /\ slot \in [RunIds -> Slot]
  /\ stop \in StopReason \cup {"none"}
  /\ drainReason \in StopReason \cup {"none"}
  /\ drainDeadline \in Nat /\ sealedAt \in Nat
  /\ cycles \in Nat /\ backoffIndex \in Nat /\ nextPass \in Nat /\ nextPoll \in Nat
  /\ planAt \in Nat
  /\ reaping \in [id: 0 .. MaxRuns, status: RowStatus]
  /\ scan \in 0 .. MaxRuns
  /\ proc \in [RunIds -> ProcState]
  /\ beat \in [RunIds -> BOOLEAN]
  /\ signals \in Nat /\ seen \in Nat /\ baseline \in Nat
  /\ faults \in Nat

-----------------------------------------------------------------------------
(***************************************************************************)
(* Reaping: `record_reaps` walks the slots in order.  A finished run       *)
(* leaves the slots, its task outcome is written, then its row.            *)
(***************************************************************************)

(* Mutant: a run is taken for finished as soon as its abort is issued. *)
MutantFinished(r) == proc[r] \in {"done", "failed", "cancelled"} \/ slot[r].intent # "none"

Finished(r) == proc[r] \in {"done", "failed", "cancelled"}

(* The next finished slot at or after the index of the walk. *)
Reapable(r) ==
  /\ r \in slots /\ r > scan /\ Finished(r)
  /\ \A q \in slots : q > scan /\ q < r => ~Finished(q)

(* Mutant: a recorded intent wins over the run's own end. *)
MutantArbitrate(r) ==
  CASE slot[r].intent = "Stall"         -> "stalled"
    [] slot[r].intent = "WorkerTimeout" -> "timed-out"
    [] slot[r].intent \in StopIntent   -> "aborted-shutdown"
    [] OTHER -> IF proc[r] = "done" THEN "completed" ELSE "failed"

(***************************************************************************)
(* The arbitration: the run's own end wins over any recorded intent, a     *)
(* cancellation resolves to the intent.                                    *)
(***************************************************************************)
Arbitrate(r) ==
  CASE proc[r] = "done"   -> "completed"
    [] proc[r] = "failed" -> "failed"
    [] OTHER -> CASE slot[r].intent = "Stall"         -> "stalled"
                  [] slot[r].intent = "WorkerTimeout" -> "timed-out"
                  [] slot[r].intent = "none"          -> "failed"
                  [] OTHER                            -> "aborted-shutdown"

(* Outcomes that count against the task's attempt budget. *)
TaskFailures == {"failed", "stalled", "timed-out"}

BackoffUntil(now) == IF TaskRetryBackoff = 0 THEN 0 ELSE now + TaskRetryBackoff

(* The durable retry state after a run of task t ended with status s. *)
RecordOutcome(t, s, now) ==
  CASE s = "completed"      -> RecordTaskSuccess(retry, t)
    [] s \in TaskFailures   -> RecordTaskFailure(retry, t, BackoffUntil(now))
    [] OTHER                -> retry

(* Mutant: any end on the last attempt is a stuck row, a failure or not. *)
MutantRowOutcome(t, s) ==
  IF MaxTaskAttempts > 0 /\ retry[t].attempts + 1 >= MaxTaskAttempts
  THEN "stuck" ELSE s

(* The row status: stuck when this failure exhausted the attempt budget. *)
RowOutcome(t, s) ==
  IF s \in TaskFailures /\ MaxTaskAttempts > 0 /\ retry[t].attempts + 1 >= MaxTaskAttempts
  THEN "stuck" ELSE s

(* `slots.remove`: the slot goes with its bookkeeping and its beat channel. *)
DropSlot(r) ==
  /\ slots' = slots \ {r}
  /\ slot' = [slot EXCEPT ![r] = NoSlot]
  /\ beat' = [beat EXCEPT ![r] = FALSE]

ReapOutcome(r) ==
  /\ pc \in ReapPcs /\ reaping.id = 0 /\ Reapable(r)
  /\ DropSlot(r)
  /\ retry' = RecordOutcome(rows[r].task, Arbitrate(r), Now)
  /\ reaping' = [id |-> r, status |-> RowOutcome(rows[r].task, Arbitrate(r))]
  /\ scan' = r
  /\ UNCHANGED <<rows, nextId, pc, inv, clock, drain, pacing, planAt, proc,
                 sigs, faults>>

ReapFinish ==
  /\ pc \in ReapPcs /\ reaping.id # 0
  /\ \E cost \in IF proc[reaping.id] = "cancelled" THEN {0} ELSE Costs :
       rows' = FinishRow(rows, reaping.id, reaping.status, cost)
  /\ reaping' = NotReaping
  /\ UNCHANGED <<nextId, retry, pc, inv, clock, super, drain, pacing, planAt,
                 scan, workers, sigs, faults>>

(* Mutant: the reap after the aborts leads back into the drain. *)
MutantReapEnd ==
  /\ pc \in ReapPcs /\ reaping.id = 0
  /\ \A r \in slots : ~Reapable(r)
  /\ pc' = IF pc = "reap1" THEN "observe" ELSE "decide"
  /\ scan' = 0
  /\ UNCHANGED <<store, inv, clock, super, drain, pacing, planAt, reaping,
                 workers, sigs, faults>>

ReapEnd ==
  /\ pc \in ReapPcs /\ reaping.id = 0
  /\ \A r \in slots : ~Reapable(r)
  /\ pc' = CASE pc = "reap1" -> "observe"
             [] pc = "reap2" -> "decide"
             [] OTHER        -> "drained"
  /\ scan' = 0
  /\ UNCHANGED <<store, inv, clock, super, drain, pacing, planAt, reaping,
                 workers, sigs, faults>>

-----------------------------------------------------------------------------
(***************************************************************************)
(* Supervision: observe the beats, then kill by stall and by timeout.  A   *)
(* finished worker has dropped its beat channel, so its last beat is not   *)
(* observed and it may still be given an intent; the next reap arbitrates. *)
(***************************************************************************)

Beaten(r) == r \in slots /\ beat[r] /\ proc[r] = "working"

LastBeat(r) == IF Beaten(r) THEN elapsed ELSE slot[r].lastBeat

Stalled(r) == elapsed - LastBeat(r) >= StallTimeout

(* Mutant: the worker timeout counts from the last beat, not from the start. *)
MutantTimedOut(r) == elapsed - LastBeat(r) >= WorkerTimeout

TimedOut(r) == elapsed - slot[r].started >= WorkerTimeout

Observe ==
  /\ pc = "observe"
  /\ slot' = [r \in RunIds |->
                IF r \notin slots THEN slot[r]
                ELSE [lastBeat |-> LastBeat(r), started |-> slot[r].started,
                      intent |-> IF slot[r].intent # "none" THEN slot[r].intent
                                 ELSE IF Stalled(r) THEN "Stall"
                                 ELSE IF TimedOut(r) THEN "WorkerTimeout" ELSE "none"]]
  /\ beat' = [r \in RunIds |-> beat[r] /\ ~Beaten(r)]
  /\ pc' = "reap2"
  /\ UNCHANGED <<store, inv, clock, slots, drain, pacing, planAt, reap, proc,
                 sigs, faults>>

(* `kill_where` over the slots that carry no intent yet. *)
KillAll(intent) ==
  [r \in RunIds |-> IF r \in slots /\ slot[r].intent = "none"
                    THEN [slot[r] EXCEPT !.intent = intent] ELSE slot[r]]

-----------------------------------------------------------------------------
(***************************************************************************)
(* The drain, once a stop reason is declared.                              *)
(***************************************************************************)

DrainStep ==
  /\ pc = "decide" /\ stop # "none"
  /\ \/ /\ slots = {} \/ elapsed >= drainDeadline
        /\ slot' = KillAll(drainReason)
        /\ pc' = "reapDrain"
     \/ /\ slots # {} /\ elapsed < drainDeadline
        /\ slot' = slot
        /\ pc' = "wait"
  /\ UNCHANGED <<store, inv, clock, slots, drain, pacing, planAt, reap, workers,
                 sigs, faults>>

(* Mutant: the window after the aborts lies in the past. *)
MutantWindow ==
  /\ pc = "drained"
  /\ \/ slots = {} /\ pc' = "ended" /\ drainDeadline' = drainDeadline
     \/ slots # {} /\ pc' = "wait" /\ drainDeadline' = elapsed - ShutdownBudget
  /\ UNCHANGED <<store, inv, clock, super, stop, drainReason, sealedAt, pacing,
                 planAt, reap, workers, sigs, faults>>

(* After the aborts: leave when nothing is in flight, else one more window. *)
Drained ==
  /\ pc = "drained"
  /\ \/ slots = {} /\ pc' = "ended" /\ drainDeadline' = drainDeadline
     \/ slots # {} /\ pc' = "wait" /\ drainDeadline' = elapsed + ShutdownBudget
  /\ UNCHANGED <<store, inv, clock, super, stop, drainReason, sealedAt, pacing,
                 planAt, reap, workers, sigs, faults>>

(* Declares a stop from inside an iteration. *)
Declare(reason, deadline) ==
  /\ stop' = reason /\ drainReason' = reason
  /\ drainDeadline' = deadline /\ sealedAt' = elapsed

StopOnRunBudget ==
  /\ pc = "decide" /\ stop = "none"
  /\ elapsed >= RunBudget
  /\ Declare("RunBudgetExhausted", elapsed + ShutdownBudget)
  /\ pc' = "wait"
  /\ UNCHANGED <<store, inv, clock, super, pacing, planAt, reap, workers, sigs, faults>>

SpendCapReached == DailySpend(rows, Now) >= SoftCap

(* Mutant: the spend cap drains under the shutdown budget. *)
MutantStopOnSpendCap ==
  /\ pc = "decide" /\ stop = "none"
  /\ elapsed < RunBudget /\ SpendCapReached
  /\ Declare("SpendSoftCap", elapsed + ShutdownBudget)
  /\ pc' = "wait"
  /\ UNCHANGED <<store, inv, clock, super, pacing, planAt, reap, workers, sigs, faults>>

StopOnSpendCap ==
  /\ pc = "decide" /\ stop = "none"
  /\ elapsed < RunBudget /\ SpendCapReached
  /\ Declare("SpendSoftCap", DurationMax)
  /\ pc' = "wait"
  /\ UNCHANGED <<store, inv, clock, super, pacing, planAt, reap, workers, sigs, faults>>

CyclesSpent == MaxCycles > 0 /\ cycles >= MaxCycles

StopOnCycles ==
  /\ pc = "decide" /\ stop = "none"
  /\ elapsed < RunBudget /\ ~SpendCapReached /\ CyclesSpent
  /\ Declare("CycleBudget", elapsed + ShutdownBudget)
  /\ pc' = "wait"
  /\ UNCHANGED <<store, inv, clock, super, pacing, planAt, reap, workers, sigs, faults>>

-----------------------------------------------------------------------------
(***************************************************************************)
(* The pass: gate, poll, plan, start.                                      *)
(***************************************************************************)

(* Mutant: one worker more than the cap. *)
MutantPassAllowed ==
  /\ Cardinality(slots) <= MaxConcurrentWorkers
  /\ elapsed >= nextPass
  /\ elapsed >= nextPoll

(* Slot capacity, the backoff of idle passes and the poll cadence. *)
PassAllowed ==
  /\ Cardinality(slots) < MaxConcurrentWorkers
  /\ elapsed >= nextPass
  /\ elapsed >= nextPoll

MayPass ==
  /\ pc = "decide" /\ stop = "none"
  /\ elapsed < RunBudget /\ ~SpendCapReached /\ ~CyclesSpent

SkipPass ==
  /\ MayPass /\ ~PassAllowed
  /\ pc' = "wait"
  /\ UNCHANGED <<store, inv, clock, super, drain, pacing, planAt, reap, workers,
                 sigs, faults>>

BeginPass ==
  /\ MayPass /\ PassAllowed
  /\ cycles' = IF MaxCycles = 0 THEN 0 ELSE cycles + 1
  /\ nextPoll' = LargerOf(nextPoll, elapsed) + MinPollInterval
  /\ pc' = "poll"
  /\ UNCHANGED <<store, inv, clock, super, drain, backoffIndex, nextPass, planAt,
                 reap, workers, sigs, faults>>

(* `backoff_delay`: doubles with every idle pass up to the cap. *)
BackoffDelay(index) ==
  LET delay == RetryBaseDelay * 2 ^ SmallerOf(index, 31)
  IN  IF delay \in 0 .. RetryMaxDelay THEN delay ELSE RetryMaxDelay

(***************************************************************************)
(* `pace_no_spawn`.  The index is kept only up to the first one that       *)
(* reaches the cap: past it every delay is the same.                       *)
(***************************************************************************)
PaceNoSpawn(at) ==
  /\ nextPass' = at + BackoffDelay(backoffIndex)
  /\ backoffIndex' = IF BackoffDelay(backoffIndex) >= RetryMaxDelay
                     THEN backoffIndex ELSE backoffIndex + 1
  /\ UNCHANGED <<cycles, nextPoll>>

(* The board is still answering; a signal or the spent budget ends the wait. *)
PollBlocks ==
  /\ pc = "poll" /\ elapsed < RunBudget /\ signals = seen
  /\ elapsed' = elapsed + 1
  /\ UNCHANGED <<store, pc, inv, origin, super, drain, pacing, planAt, reap,
                 workers, sigs, faults>>

PollFails ==
  /\ pc = "poll"
  /\ PaceNoSpawn(elapsed)
  /\ pc' = "wait"
  /\ UNCHANGED <<store, inv, clock, super, drain, planAt, reap, workers, sigs, faults>>

(* Mutant: the receiver the run loop waits on is not advanced. *)
MutantPollShutdown ==
  /\ pc = "poll" /\ signals > seen
  /\ Declare("Shutdown", elapsed + ShutdownBudget)
  /\ pc' = "wait"
  /\ UNCHANGED <<store, inv, clock, super, pacing, planAt, reap, workers, sigs, faults>>

(***************************************************************************)
(* A signal wins the race against the poll, or is found after the snapshot *)
(* arrived.  The pass watches a clone of the receiver; the run loop        *)
(* advances the receiver it waits on too, so the send is seen once.        *)
(***************************************************************************)
PollShutdown ==
  /\ pc = "poll" /\ signals > seen
  /\ Declare("Shutdown", elapsed + ShutdownBudget)
  /\ seen' = signals
  /\ pc' = "wait"
  /\ UNCHANGED <<store, inv, clock, super, pacing, planAt, reap, workers,
                 signals, baseline, faults>>

(* The budget runs out during the poll, or is found spent after it. *)
PollBudgetExpired ==
  /\ pc = "poll" /\ elapsed >= RunBudget
  /\ Declare("RunBudgetExhausted", elapsed + ShutdownBudget)
  /\ pc' = "wait"
  /\ UNCHANGED <<store, inv, clock, super, pacing, planAt, reap, workers, sigs, faults>>

PollSnapshot ==
  /\ pc = "poll" /\ elapsed < RunBudget /\ signals = seen
  /\ planAt' = elapsed
  /\ pc' = "plan"
  /\ UNCHANGED <<store, inv, clock, super, drain, pacing, reap, workers, sigs, faults>>

(* Mutant: only rows still running exclude their task. *)
MutantRanThisInvocation == {rows[r].task : r \in {q \in RunIds : rows[q].status = "running"
                                                                   /\ rows[q].inv = inv}}

(***************************************************************************)
(* `excluded_tasks`: in flight or already run by this invocation, out of   *)
(* attempts, or inside its backoff window.                                 *)
(***************************************************************************)
RanThisInvocation == {rows[r].task : r \in {q \in RunIds : rows[q].status # "absent"
                                                             /\ rows[q].inv = inv}}

(* Mutant: one attempt too many. *)
MutantOverBudget(t) == MaxTaskAttempts > 0 /\ retry[t].attempts > MaxTaskAttempts

OverBudget(t) == MaxTaskAttempts > 0 /\ retry[t].attempts >= MaxTaskAttempts

BackingOff(t, now) == TaskRetryBackoff > 0 /\ now < retry[t].until

Excluded(now) ==
  {rows[r].task : r \in slots} \cup RanThisInvocation
    \cup {t \in Tasks : OverBudget(t) \/ BackingOff(t, now)}

(* The decision provider, then the starter, are awaited outside every race. *)
PlanBlocks ==
  /\ pc \in {"plan", "start"} /\ elapsed < planAt + PlanDelay
  /\ elapsed' = elapsed + 1
  /\ UNCHANGED <<store, pc, inv, origin, super, drain, pacing, planAt, reap,
                 workers, sigs, faults>>

(* No kick-off while idle, or nothing eligible on the board. *)
PlanNoOp ==
  /\ pc = "plan"
  /\ PaceNoSpawn(planAt)
  /\ planAt' = 0
  /\ pc' = "wait"
  /\ UNCHANGED <<store, inv, clock, super, drain, reap, workers, sigs, faults>>

(* A task is selected: the row is inserted before the worker is started. *)
PlanSelect(t) ==
  /\ pc = "plan" /\ nextId <= MaxRuns
  /\ t \notin Excluded(origin + planAt)
  /\ rows' = StartRow(rows, nextId, t, inv, origin + planAt)
  /\ nextId' = nextId + 1
  /\ pc' = "start"
  /\ UNCHANGED <<retry, inv, clock, super, drain, pacing, planAt, reap, workers,
                 sigs, faults>>

(* The row inserted by the pass in progress. *)
Starting == nextId - 1

(* The slot carries the clock reading of the plan, not of the spawn. *)
StartWorker ==
  /\ pc = "start"
  /\ slots' = slots \cup {Starting}
  /\ slot' = [slot EXCEPT ![Starting] =
                [lastBeat |-> planAt, started |-> planAt, intent |-> "none"]]
  /\ proc' = [proc EXCEPT ![Starting] = "working"]
  /\ backoffIndex' = 0 /\ nextPass' = planAt /\ planAt' = 0
  /\ pc' = "wait"
  /\ UNCHANGED <<store, inv, clock, drain, cycles, nextPoll, reap, beat,
                 sigs, faults>>

(* `CampaignError::Spawn`: a task outcome, written in two steps like a reap. *)
SpawnFails ==
  /\ pc = "start"
  /\ retry' = RecordOutcome(rows[Starting].task, "failed", origin + planAt)
  /\ reaping' = [id |-> Starting, status |-> RowOutcome(rows[Starting].task, "failed")]
  /\ pc' = "spawnFailed"
  /\ UNCHANGED <<rows, nextId, inv, clock, super, drain, pacing, planAt, scan,
                 workers, sigs, faults>>

SpawnFailedFinish ==
  /\ pc = "spawnFailed"
  /\ rows' = FinishRow(rows, reaping.id, reaping.status, 0)
  /\ reaping' = NotReaping
  /\ PaceNoSpawn(elapsed)
  /\ planAt' = 0
  /\ pc' = "wait"
  /\ UNCHANGED <<nextId, retry, inv, clock, super, drain, scan, workers,
                 sigs, faults>>

-----------------------------------------------------------------------------
(***************************************************************************)
(* Waiting one tick, racing the signals: a pending one wakes the wait at   *)
(* once.  The tick passes only when every abort issued before it has       *)
(* landed: a cancelled task stops at its next await, well within a tick.   *)
(***************************************************************************)
Tick ==
  /\ pc = "wait" /\ signals = seen
  /\ \A r \in slots : slot[r].intent # "none" => proc[r] # "working"
  /\ elapsed' = elapsed + 1
  /\ pc' = "reap1"
  /\ UNCHANGED <<store, inv, origin, super, drain, pacing, planAt, reap, workers,
                 sigs, faults>>

(* Mutant: a signal does not shorten the drain it preempts. *)
MutantApplySignal ==
  /\ drainReason' = "Shutdown"
  /\ stop' = IF stop = "none" THEN "Shutdown" ELSE stop
  /\ sealedAt' = IF stop = "none" THEN elapsed ELSE sealedAt
  /\ drainDeadline' =
       CASE stop = "Shutdown" -> elapsed
         [] stop = "none"     -> elapsed + ShutdownBudget
         [] OTHER             -> drainDeadline

(***************************************************************************)
(* `apply_signal`: the first signal opens the grace window or shortens the *)
(* drain in progress; one after a declared Shutdown ends the window.  The  *)
(* declared stop keeps a budget cause, the drain reason does not.          *)
(***************************************************************************)
ApplySignal ==
  /\ drainReason' = "Shutdown"
  /\ stop' = IF stop = "none" THEN "Shutdown" ELSE stop
  /\ sealedAt' = IF stop = "none" THEN elapsed ELSE sealedAt
  /\ drainDeadline' =
       CASE stop = "Shutdown" -> elapsed
         [] stop = "none"     -> elapsed + ShutdownBudget
         [] OTHER             -> SmallerOf(drainDeadline, elapsed + ShutdownBudget)

WaitSignal ==
  /\ pc = "wait" /\ signals > seen
  /\ ApplySignal
  /\ seen' = signals
  /\ pc' = "reap1"
  /\ UNCHANGED <<store, inv, clock, super, pacing, planAt, reap, workers,
                 signals, baseline, faults>>

-----------------------------------------------------------------------------
(***************************************************************************)
(* A failed read or write of the store is fatal.  In reap_finished the     *)
(* slot is gone by then, so the sweep below does not see its run.          *)
(***************************************************************************)
StoreFault ==
  /\ faults < MaxFaults /\ faults' = faults + 1
  /\ \/ /\ \/ pc = "observe" /\ \E r \in slots : Beaten(r)
           \/ pc = "decide" /\ stop = "none" /\ elapsed < RunBudget
           \/ pc \in {"plan", "start", "spawnFailed"}
        /\ UNCHANGED <<super, beat>>
     \/ /\ pc \in ReapPcs /\ reaping.id = 0
        /\ \E r \in slots : Reapable(r) /\ DropSlot(r)
     \/ /\ pc \in ReapPcs /\ reaping.id # 0
        /\ UNCHANGED <<super, beat>>
  /\ reaping' = NotReaping /\ scan' = 0
  /\ pc' = "fatal"
  /\ planAt' = 0
  /\ UNCHANGED <<store, inv, clock, drain, pacing, proc, sigs>>

FatalKill ==
  /\ pc = "fatal"
  /\ slot' = KillAll("Drained")
  /\ pc' = "sweep"
  /\ UNCHANGED <<store, inv, clock, slots, drain, pacing, planAt, reap, workers,
                 sigs, faults>>

(* Each stranded handle is awaited and its row finished, best effort. *)
SweepSlot(r) ==
  /\ pc = "sweep" /\ r \in slots /\ Finished(r)
  /\ \A q \in slots : r <= q
  /\ DropSlot(r)
  /\ \/ rows' = FinishRow(rows, r, "aborted-shutdown", 0) /\ faults' = faults
     \/ faults < MaxFaults /\ faults' = faults + 1 /\ rows' = rows
  /\ UNCHANGED <<nextId, retry, pc, inv, clock, drain, pacing, planAt, reap,
                 proc, sigs>>

SweepEnd ==
  /\ pc = "sweep" /\ slots = {}
  /\ pc' = "dead"
  /\ UNCHANGED <<store, inv, clock, super, drain, pacing, planAt, reap, workers,
                 sigs, faults>>

-----------------------------------------------------------------------------
(***************************************************************************)
(* The process around the runner.                                          *)
(***************************************************************************)

(* The runner's state as its constructor and the head of `run` set it. *)
FreshMemory ==
  /\ slots' = {} /\ slot' = [r \in RunIds |-> NoSlot]
  /\ stop' = "none" /\ drainReason' = "none"
  /\ drainDeadline' = DurationMax /\ sealedAt' = 0
  /\ cycles' = 0 /\ backoffIndex' = 0 /\ nextPass' = 0 /\ nextPoll' = 0
  /\ planAt' = 0 /\ reaping' = NotReaping /\ scan' = 0

(* Mutant: the daemon starts without recovering the rows of a crashed run. *)
MutantStartInvocation ==
  /\ pc = "idle" /\ inv < MaxInvocations
  /\ inv' = inv + 1
  /\ FreshMemory
  /\ origin' = Now /\ elapsed' = 0
  /\ seen' = 0 /\ baseline' = signals
  /\ pc' = "reap1"
  /\ UNCHANGED <<store, workers, signals, faults>>

(* `run_watch` and `LoopRunner::new`: recover, then run with fresh state. *)
StartInvocation ==
  /\ pc = "idle" /\ inv < MaxInvocations
  /\ inv' = inv + 1
  /\ rows' = IF Daemon THEN RecoverRows(rows) ELSE rows
  /\ FreshMemory
  /\ origin' = Now /\ elapsed' = 0
  /\ seen' = 0 /\ baseline' = signals
  /\ pc' = "reap1"
  /\ UNCHANGED <<nextId, retry, workers, signals, faults>>

(* Mutant: a signal during the budget drain does not keep the daemon down. *)
MutantNextInvocation ==
  /\ pc = "ended" /\ Daemon
  /\ \/ stop = "RunBudgetExhausted"
     \/ stop = "SpendSoftCap" /\ ~SpendCapReached
  /\ pc' = "idle"
  /\ UNCHANGED <<store, inv, clock, super, drain, pacing, planAt, reap, workers,
                 sigs, faults>>

(* The run budget ended this invocation, not the daemon. *)
NextInvocation ==
  /\ pc = "ended" /\ Daemon /\ signals = baseline
  /\ \/ stop = "RunBudgetExhausted"
     \/ stop = "SpendSoftCap" /\ ~SpendCapReached
  /\ pc' = "idle"
  /\ UNCHANGED <<store, inv, clock, super, drain, pacing, planAt, reap, workers,
                 sigs, faults>>

(* Still at the spend cap: wait for the next budget window. *)
AwaitBudgetWindow ==
  /\ pc = "ended" /\ Daemon /\ signals = baseline
  /\ stop = "SpendSoftCap" /\ SpendCapReached
  /\ pc' = "awaitDay"
  /\ UNCHANGED <<store, inv, clock, super, drain, pacing, planAt, reap, workers,
                 sigs, faults>>

(* A signal older than the invocation is still unread here and wins at once. *)
BudgetWindowResets ==
  /\ pc = "awaitDay" /\ baseline = 0
  /\ origin' = (Day(Now) + 1) * DayLength /\ elapsed' = 0
  /\ pc' = "idle"
  /\ UNCHANGED <<store, inv, super, drain, pacing, planAt, reap, workers, sigs, faults>>

Exit ==
  /\ \/ pc = "awaitDay" /\ signals > 0
     \/ /\ pc = "ended"
        /\ \/ ~Daemon
           \/ signals # baseline
           \/ stop \notin {"RunBudgetExhausted", "SpendSoftCap"}
  /\ pc' = "exited"
  /\ UNCHANGED <<store, inv, clock, super, drain, pacing, planAt, reap, workers,
                 sigs, faults>>

(***************************************************************************)
(* kill -9: the workers are tasks of the same process.  A crash while idle *)
(* changes nothing (the recovery is one transaction) and is left out, as   *)
(* is one in the last invocation of the bound.                             *)
(***************************************************************************)
Crash ==
  /\ pc \notin {"dead", "exited", "idle"} /\ inv < MaxInvocations
  /\ FreshMemory
  /\ proc' = [r \in RunIds |-> IF proc[r] = "working" THEN "lost" ELSE proc[r]]
  /\ beat' = [r \in RunIds |-> FALSE]
  /\ pc' = "dead"
  /\ UNCHANGED <<store, inv, clock, sigs, faults>>

(* The service manager, or the operator, starts the next process. *)
NewProcess ==
  /\ pc \in {"dead", "exited"} /\ inv < MaxInvocations
  /\ \E down \in 0 .. MaxDowntime : origin' = Now + down
  /\ elapsed' = 0
  /\ FreshMemory
  /\ signals' = 0 /\ seen' = 0 /\ baseline' = 0
  /\ pc' = "idle"
  /\ UNCHANGED <<store, inv, workers, faults>>

(* The process is gone, or the bound on invocations is reached. *)
Halted ==
  /\ inv = MaxInvocations /\ pc \in {"dead", "exited", "idle"}
  /\ UNCHANGED vars

-----------------------------------------------------------------------------
(***************************************************************************)
(* The environment: workers and the operator.                              *)
(***************************************************************************)

WorkerBeats(r) ==
  /\ r \in slots /\ proc[r] = "working" /\ ~beat[r]
  /\ beat' = [beat EXCEPT ![r] = TRUE]
  /\ UNCHANGED <<store, pc, inv, clock, super, drain, pacing, planAt, reap, proc,
                 sigs, faults>>

(* A run ends by itself: completed, or failed (a typed failure or a panic). *)
WorkerEnds(r) ==
  /\ r \in slots /\ proc[r] = "working"
  /\ \E end \in {"done", "failed"} : proc' = [proc EXCEPT ![r] = end]
  /\ UNCHANGED <<store, pc, inv, clock, super, drain, pacing, planAt, reap, beat,
                 sigs, faults>>

(* The abort that was issued with the intent takes effect. *)
AbortLands(r) ==
  /\ r \in slots /\ proc[r] = "working" /\ slot[r].intent # "none"
  /\ proc' = [proc EXCEPT ![r] = "cancelled"]
  /\ UNCHANGED <<store, pc, inv, clock, super, drain, pacing, planAt, reap, beat,
                 sigs, faults>>

Signal ==
  /\ pc \notin {"dead", "exited"} /\ signals < MaxSignals
  /\ signals' = signals + 1
  /\ UNCHANGED <<store, pc, inv, clock, super, drain, pacing, planAt, reap, workers,
                 seen, baseline, faults>>

-----------------------------------------------------------------------------

Init ==
  /\ rows = [r \in RunIds |-> AbsentRow] /\ nextId = 1
  /\ retry = [t \in Tasks |-> NoRetryState]
  /\ pc = "idle" /\ inv = 0 /\ origin = 0 /\ elapsed = 0
  /\ slots = {} /\ slot = [r \in RunIds |-> NoSlot]
  /\ stop = "none" /\ drainReason = "none" /\ drainDeadline = DurationMax /\ sealedAt = 0
  /\ cycles = 0 /\ backoffIndex = 0 /\ nextPass = 0 /\ nextPoll = 0 /\ planAt = 0
  /\ reaping = NotReaping /\ scan = 0
  /\ proc = [r \in RunIds |-> "none"] /\ beat = [r \in RunIds |-> FALSE]
  /\ signals = 0 /\ seen = 0 /\ baseline = 0 /\ faults = 0

Supervise == (\E r \in RunIds : ReapOutcome(r)) \/ ReapFinish \/ ReapEnd \/ Observe

StopOrDrain == DrainStep \/ Drained \/ StopOnRunBudget \/ StopOnSpendCap \/ StopOnCycles

Pass ==
  \/ SkipPass \/ BeginPass \/ PollBlocks \/ PollFails \/ PollShutdown
  \/ PollBudgetExpired \/ PollSnapshot \/ PlanBlocks \/ PlanNoOp
  \/ \E t \in Tasks : PlanSelect(t)
  \/ StartWorker \/ SpawnFails \/ SpawnFailedFinish

Wait == Tick \/ WaitSignal

FatalExit == FatalKill \/ (\E r \in RunIds : SweepSlot(r)) \/ SweepEnd

Process ==
  \/ StartInvocation \/ NextInvocation \/ AwaitBudgetWindow \/ BudgetWindowResets
  \/ Exit \/ NewProcess

(* What the process does by itself, as opposed to what happens to it. *)
Program == Supervise \/ StopOrDrain \/ Pass \/ Wait \/ FatalExit \/ Process

Environment ==
  \/ \E r \in RunIds : WorkerBeats(r) \/ WorkerEnds(r) \/ AbortLands(r)
  \/ Signal \/ StoreFault \/ Crash

Next == Program \/ Environment \/ Halted

Spec == Init /\ [][Next]_vars

(***************************************************************************)
(* The runtime keeps polling the supervisor task and the service manager   *)
(* restarts the process (WF on Program); a task whose abort was requested  *)
(* is cancelled at its next await (WF on AbortLands).  Nothing is assumed  *)
(* of workers that were not aborted: they may hang for ever.               *)
(***************************************************************************)
Fairness ==
  /\ WF_vars(Program)
  /\ \A r \in RunIds : WF_vars(AbortLands(r))

FairSpec == Spec /\ Fairness

-----------------------------------------------------------------------------
(***************************************************************************)
(* Properties.                                                             *)
(***************************************************************************)

(* Runs whose task outcome is not written yet. *)
Unsettled == slots \cup (IF pc = "start" THEN {Starting} ELSE {})

Accounted == Unsettled \cup (IF reaping.id # 0 THEN {reaping.id} ELSE {})

(***************************************************************************)
(* A live worker is always supervised, and always has its own running row  *)
(* of the current invocation: plan_and_spawn inserts the row before the    *)
(* spawn, and no reap, sweep or recovery settles a row under a worker.     *)
(***************************************************************************)
NoWorkerWithoutRow ==
  \A r \in RunIds : proc[r] = "working" =>
    r \in slots /\ rows[r].status = "running" /\ rows[r].inv = inv

(***************************************************************************)
(* While the daemon's loop runs, every running row is one it still knows:  *)
(* a slot, the run being started, or the run between its two writes.       *)
(* Rows of a crashed or failed invocation were recovered before the first  *)
(* tick (run_watch).                                                       *)
(***************************************************************************)
NoStrandedRow ==
  Daemon /\ pc \in RunningPcs =>
    \A r \in RunIds : rows[r].status = "running" => r \in Accounted

(***************************************************************************)
(* An invocation never runs a task twice, whatever became of the first run *)
(* (excluded_tasks: the never-silent-retry exclusion).                     *)
(***************************************************************************)
OneRunPerTask ==
  \A p, q \in RunIds :
    /\ p # q /\ rows[p].inv = rows[q].inv
    /\ rows[p].status # "absent" /\ rows[q].status # "absent"
    => rows[p].task # rows[q].task

(* The concurrency cap of `pass` bounds the supervised workers. *)
WithinCapacity == Cardinality(slots) <= MaxConcurrentWorkers

(***************************************************************************)
(* The cross-invocation attempt budget: a task never collects more         *)
(* failures than max_task_attempts, and a run in flight still has an       *)
(* attempt left, through crashes between the two writes and restarts.      *)
(***************************************************************************)
AttemptBudgetKept ==
  MaxTaskAttempts > 0 =>
    /\ \A t \in Tasks : retry[t].attempts <= MaxTaskAttempts
    /\ \A r \in Unsettled : retry[rows[r].task].attempts < MaxTaskAttempts

(***************************************************************************)
(* A row says `stuck` only for a task that is out of attempts: the         *)
(* needs-human signal of record_task_outcome is never raised early.        *)
(***************************************************************************)
StuckMeansExhausted ==
  \A r \in RunIds : rows[r].status = "stuck" =>
    MaxTaskAttempts > 0 /\ retry[rows[r].task].attempts >= MaxTaskAttempts

(***************************************************************************)
(* A run that ended by itself is never recorded as stalled or timed out,   *)
(* even when the kill was decided before its end was seen, nor as aborted  *)
(* while no write of the store failed; and a killed run is never recorded  *)
(* as completed (the arbitration of reap_finished).  The fatal sweep does  *)
(* not arbitrate: after a failed write a run that had just ended by itself *)
(* is recorded as aborted too.                                             *)
(***************************************************************************)
NaturalEndWins ==
  \A r \in RunIds :
    /\ rows[r].status \in {"stalled", "timed-out"} => proc[r] = "cancelled"
    /\ rows[r].status = "aborted-shutdown" => proc[r] = "cancelled" \/ faults > 0
    /\ rows[r].status = "completed" => proc[r] = "done"

(***************************************************************************)
(* The spend soft cap lets runs finish: no kill is ever attributed to it   *)
(* (drain_detail: "an abort during its drain only ever carries a shutdown  *)
(* that preempted the cap").                                               *)
(***************************************************************************)
SpendCapNeverAborts == \A r \in slots : slot[r].intent # "SpendSoftCap"

(***************************************************************************)
(* One signal gives in-flight runs the whole grace window, whether the     *)
(* tick or the poll saw it: it is never taken for a second signal.         *)
(***************************************************************************)
GraceWindowKept ==
  stop = "Shutdown" /\ signals = 1 => drainDeadline >= sealedAt + ShutdownBudget

(***************************************************************************)
(* Once a signal was seen the drain ends within the shutdown budget, also  *)
(* when it preempts the unbounded drain of the spend cap.                  *)
(***************************************************************************)
GraceWindowBounded ==
  pc \in RunningPcs /\ drainReason = "Shutdown" => drainDeadline <= elapsed + ShutdownBudget

(* How far the last pass may take an invocation past its run budget: by the *)
(* planning delay, or by the tick after a poll that failed at the deadline. *)
Overrun == RunBudget + LargerOf(PlanDelay, 1)

(* How long the drain lasts: its own budget, or until the last worker times *)
(* out, whichever comes first; the drain of the spend cap has no budget.    *)
DrainWindow ==
  IF stop = "SpendSoftCap" THEN WorkerTimeout ELSE SmallerOf(ShutdownBudget, WorkerTimeout)

(***************************************************************************)
(* An invocation outlives its run budget by the overrun of the last pass,  *)
(* one drain and the tick in which the aborts land, although workers may   *)
(* hang and the spend-cap drain has no deadline of its own.                *)
(***************************************************************************)
InvocationBounded == pc \in RunningPcs => elapsed <= Overrun + DrainWindow + 1

(***************************************************************************)
(* Every stop has its bound and its cause, in whatever order the spend     *)
(* cap, the run budget and signals take the drain over from each other.    *)
(***************************************************************************)
StopsBounded == SpendCapNeverAborts /\ GraceWindowBounded /\ InvocationBounded

(***************************************************************************)
(* The rows implement the ledger: exclusive claims, settled once.          *)
(***************************************************************************)
Ledger == INSTANCE RunLedger WITH
            claim   <- [r \in RunIds |-> rows[r].task],
            status  <- [r \in RunIds |-> rows[r].status],
            Settled <- TerminalStatus

ImplementsLedger == Ledger!LedgerSpec

(***************************************************************************)
(* The daemon never starts another invocation after one that saw a signal, *)
(* although the summary of that one may name the budget it preempted       *)
(* (watch_cycle compares the signal count with its baseline).              *)
(***************************************************************************)
SignalEndsDaemon == [][seen > 0 /\ pc \in {"ended", "awaitDay"} => pc' # "idle"]_vars

(* Every invocation comes to its end, also when every worker hangs. *)
InvocationEnds == pc = "reap1" ~> pc \in {"ended", "dead"}

(* No row of the daemon stays running for ever, crashes included. *)
RowsSettle == \A r \in RunIds : rows[r].status = "running" ~> rows[r].status # "running"

(***************************************************************************)
(* With hanging workers, a crash, a signal and a spend-cap wait:           *)
(* invocations end, rows settle, and a signalled daemon starts no more.    *)
(***************************************************************************)
LoopLive == SignalEndsDaemon /\ InvocationEnds /\ RowsSettle

-----------------------------------------------------------------------------
(***************************************************************************)
(* Statements of the documentation that the code does not keep.            *)
(***************************************************************************)

(***************************************************************************)
(* `run`: before a fatal error is returned, "in-flight slots are aborted   *)
(* and reaped so no row stays running".  Checked without crashes.          *)
(***************************************************************************)
FatalExitSettlesRows == pc = "dead" => \A r \in RunIds : rows[r].status # "running"
=============================================================================
