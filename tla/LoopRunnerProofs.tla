--------------------------- MODULE LoopRunnerProofs ---------------------------
(***************************************************************************)
(* Machine-checked proofs about LoopRunner, for every number of tasks,     *)
(* runs, workers, signals, faults and restarts, and every configuration    *)
(* `validate` accepts.  The argument: IInv (last section) is inductive.    *)
(* Its core says who owns a running row - a slot, the run being started,   *)
(* the run between its two writes - and every other part leans on it.      *)
(***************************************************************************)
EXTENDS LoopRunner, TLAPS, FiniteSetTheorems, WellFoundedInduction

(***************************************************************************)
(* What the operators return.                                              *)
(***************************************************************************)

LEMMA DayType == ASSUME NEW n \in Nat PROVE Day(n) \in Nat
  BY RunStateAssumption, SMT DEF Day

LEMMA BackoffDelayType == ASSUME NEW n \in Nat PROVE BackoffDelay(n) \in Nat
  BY LoopConfigAssumption DEF BackoffDelay

LEMMA StartRowType ==
  ASSUME NEW R \in [RunIds -> Row], NEW r \in RunIds, NEW t \in Tasks,
         NEW i \in Nat, NEW now \in Nat
  PROVE  StartRow(R, r, t, i, now) \in [RunIds -> Row]
  BY DayType DEF StartRow, Row, RowStatus

LEMMA FinishRowType ==
  ASSUME NEW R \in [RunIds -> Row], NEW r \in RunIds, NEW s \in RowStatus, NEW c \in Nat
  PROVE  FinishRow(R, r, s, c) \in [RunIds -> Row]
  BY DEF FinishRow, Row

LEMMA RecoverRowsType ==
  ASSUME NEW R \in [RunIds -> Row]
  PROVE  RecoverRows(R) \in [RunIds -> Row]
  BY DEF RecoverRows, Row, RowStatus, TerminalStatus

LEMMA ArbitrateType ==
  ASSUME NEW r PROVE Arbitrate(r) \in TerminalStatus \ {"stuck", "orphaned"}
<1>1. CASE proc[r] \in {"done", "failed"}
  BY <1>1 DEF Arbitrate, TerminalStatus
<1>2. CASE proc[r] \notin {"done", "failed"}
  <2>1. CASE slot[r].intent \in {"Stall", "WorkerTimeout", "none"}
    BY <1>2, <2>1 DEF Arbitrate, TerminalStatus
  <2>2. CASE slot[r].intent \notin {"Stall", "WorkerTimeout", "none"}
    BY <1>2, <2>2 DEF Arbitrate, TerminalStatus
  <2> QED
    BY <2>1, <2>2
<1> QED
  BY <1>1, <1>2

LEMMA RowOutcomeType ==
  ASSUME NEW t, NEW s \in TerminalStatus \ {"orphaned"}
  PROVE  RowOutcome(t, s) \in TerminalStatus \ {"orphaned"}
  BY DEF RowOutcome, TerminalStatus

LEMMA RecordOutcomeType ==
  ASSUME retry \in [Tasks -> RetryState], NEW t, NEW s, NEW now \in Nat
  PROVE  RecordOutcome(t, s, now) \in [Tasks -> RetryState]
<1>1. BackoffUntil(now) \in Nat
  BY LoopConfigAssumption DEF BackoffUntil
<1>2. RecordTaskFailure(retry, t, BackoffUntil(now)) \in [Tasks -> RetryState]
  <2>1. CASE t \in Tasks
    <3>1. [attempts |-> retry[t].attempts + 1, until |-> BackoffUntil(now)] \in RetryState
      BY <1>1, <2>1 DEF RetryState
    <3> QED
      BY <3>1 DEF RecordTaskFailure
  <2>2. CASE t \notin Tasks
    BY <2>2 DEF RecordTaskFailure
  <2> QED
    BY <2>1, <2>2
<1>3. RecordTaskSuccess(retry, t) \in [Tasks -> RetryState]
  BY DEF RecordTaskSuccess, RetryState
<1> QED
  BY <1>2, <1>3 DEF RecordOutcome

LEMMA KillAllType ==
  ASSUME slot \in [RunIds -> Slot], NEW i \in StopIntent \cup {"none"}
  PROVE  KillAll(i) \in [RunIds -> Slot]
  BY DEF KillAll, Slot

LEMMA StartRowEffect ==
  ASSUME NEW R \in [RunIds -> Row], NEW r \in RunIds, NEW t, NEW i, NEW now, NEW q \in RunIds
  PROVE  /\ q # r => StartRow(R, r, t, i, now)[q] = R[q]
         /\ StartRow(R, r, t, i, now)[r].task = t
         /\ StartRow(R, r, t, i, now)[r].inv = i
         /\ StartRow(R, r, t, i, now)[r].status = "running"
  BY DEF StartRow

LEMMA FinishRowEffect ==
  ASSUME NEW R \in [RunIds -> Row], NEW r \in RunIds, NEW s, NEW c, NEW q \in RunIds
  PROVE  /\ FinishRow(R, r, s, c)[q].task = R[q].task
         /\ FinishRow(R, r, s, c)[q].inv = R[q].inv
         /\ FinishRow(R, r, s, c)[q].status = IF q = r THEN s ELSE R[q].status
  BY DEF FinishRow, Row

LEMMA RecoverRowsEffect ==
  ASSUME NEW R \in [RunIds -> Row], NEW q \in RunIds
  PROVE  /\ RecoverRows(R)[q].task = R[q].task
         /\ RecoverRows(R)[q].inv = R[q].inv
         /\ RecoverRows(R)[q].status = IF R[q].status = "running" THEN "orphaned" ELSE R[q].status
  BY DEF RecoverRows, Row

-----------------------------------------------------------------------------
(***************************************************************************)
(* The core of the inductive invariant.                                    *)
(***************************************************************************)

(* Row ids are handed out in order; an id below the next one has its row. *)
RowIds == \A r \in RunIds : rows[r].status # "absent" <=> r < nextId

(* No row belongs to a later invocation, and an inserted row names a task. *)
RowsBelong ==
  \A r \in RunIds : /\ rows[r].inv <= inv
                    /\ rows[r].status # "absent" => rows[r].task \in Tasks

(* A supervised run has a running row of this invocation. *)
SlotRows == \A r \in slots : rows[r].status = "running" /\ rows[r].inv = inv

(* A live worker is in a slot. *)
Supervised == \A r \in RunIds : proc[r] = "working" => r \in slots

(* Outside an invocation nothing is in flight. *)
AtRest == pc \in {"ended", "awaitDay", "idle", "dead", "exited"} => slots = {}

(* The run between its two writes has left its slot, not its row. *)
ReapingRow ==
  reaping.id # 0 =>
    /\ pc \in ReapPcs \cup {"spawnFailed"}
    /\ reaping.id \notin slots
    /\ rows[reaping.id].status = "running" /\ rows[reaping.id].inv = inv
    /\ reaping.status \in TerminalStatus \ {"orphaned"}

(* The run being started has its row, not yet its slot. *)
StartingRow ==
  pc = "start" =>
    /\ nextId > 1 /\ Starting \notin slots
    /\ rows[Starting].status = "running" /\ rows[Starting].inv = inv

(* A failed spawn is settled by the write that follows. *)
SpawnFailedRow == pc = "spawnFailed" => reaping.id # 0

CoreInv == RowIds /\ RowsBelong /\ SlotRows /\ Supervised /\ AtRest /\ ReapingRow
            /\ StartingRow /\ SpawnFailedRow

(* Types are preserved; the two pc facts keep Starting and reaping.id in range. *)
LEMMA TypeStep == TypeOK /\ StartingRow /\ SpawnFailedRow /\ [Next]_vars => TypeOK'
<1> SUFFICES ASSUME TypeOK, StartingRow, SpawnFailedRow, [Next]_vars PROVE TypeOK'
  OBVIOUS
<1>1. ASSUME NEW r \in RunIds, ReapOutcome(r) PROVE TypeOK'
  BY <1>1, RecordOutcomeType, ArbitrateType, RowOutcomeType DEF TypeOK, Slot, StopIntent,
     StopReason, RunIds, RowStatus, ReapOutcome, DropSlot, NoSlot, Now, clock, drain, pacing,
     sigs
<1>2. CASE ReapFinish
  <2>1. PICK cost \in Nat : rows' = FinishRow(rows, reaping.id, reaping.status, cost)
    BY <1>2, LoopConfigAssumption DEF ReapFinish
  <2>2. reaping.id \in RunIds /\ reaping.status \in RowStatus
    BY <1>2 DEF ReapFinish, TypeOK, RunIds
  <2>3. rows' \in [RunIds -> Row]
    BY <2>1, <2>2, FinishRowType DEF TypeOK
  <2>4. reaping' \in [id: 0 .. MaxRuns, status: RowStatus]
    BY <1>2, RunStateAssumption DEF ReapFinish, NotReaping, RowStatus
  <2> QED
    BY <1>2, <2>3, <2>4 DEF TypeOK, ReapFinish, clock, super, drain, pacing, workers, sigs
<1>3. CASE ReapEnd
  BY <1>3 DEF TypeOK, Pcs, RunningPcs, ReapPcs, ReapEnd, store, clock, super, drain, pacing,
     workers, sigs
<1>4. CASE Observe
  BY <1>4 DEF TypeOK, Slot, StopIntent, StopReason, RunIds, Pcs, RunningPcs, ReapPcs, Observe,
     Beaten, LastBeat, Stalled, TimedOut, store, clock, drain, pacing, reap, sigs
<1>5. CASE DrainStep
  BY <1>5, KillAllType DEF TypeOK, Pcs, RunningPcs, ReapPcs, StopIntent, StopReason,
     DrainStep, store, clock, drain, pacing, reap, workers, sigs
<1>6. CASE Drained
  BY <1>6, LoopConfigAssumption DEF TypeOK, Pcs, RunningPcs, ReapPcs, Drained, store, clock,
     super, pacing, reap, workers, sigs
<1>7. CASE StopOnRunBudget
  BY <1>7, LoopConfigAssumption DEF TypeOK, Pcs, RunningPcs, ReapPcs, StopReason,
     StopOnRunBudget, Declare, store, clock, super, pacing, reap, workers, sigs
<1>8. CASE StopOnSpendCap
  BY <1>8, LoopConfigAssumption DEF TypeOK, Pcs, RunningPcs, ReapPcs, StopReason,
     StopOnSpendCap, Declare, store, clock, super, pacing, reap, workers, sigs
<1>9. CASE StopOnCycles
  BY <1>9, LoopConfigAssumption DEF TypeOK, Pcs, RunningPcs, ReapPcs, StopReason,
     StopOnCycles, Declare, store, clock, super, pacing, reap, workers, sigs
<1>10. CASE SkipPass
  BY <1>10 DEF TypeOK, Pcs, RunningPcs, ReapPcs, SkipPass, MayPass, store, clock, super,
     drain, pacing, reap, workers, sigs
<1>11. CASE BeginPass
  BY <1>11, LoopConfigAssumption DEF TypeOK, Pcs, RunningPcs, ReapPcs, BeginPass, MayPass,
     LargerOf, store, clock, super, drain, reap, workers, sigs
<1>12. CASE PollBlocks
  BY <1>12 DEF TypeOK, PollBlocks, store, super, drain, pacing, reap, workers, sigs
<1>13. CASE PollFails
  BY <1>13, BackoffDelayType DEF TypeOK, Pcs, RunningPcs, ReapPcs, PollFails, PaceNoSpawn,
     store, clock, super, drain, reap, workers, sigs
<1>14. CASE PollShutdown
  BY <1>14, LoopConfigAssumption DEF TypeOK, Pcs, RunningPcs, ReapPcs, StopReason,
     PollShutdown, Declare, store, clock, super, pacing, reap, workers
<1>15. CASE PollBudgetExpired
  BY <1>15, LoopConfigAssumption DEF TypeOK, Pcs, RunningPcs, ReapPcs, StopReason,
     PollBudgetExpired, Declare, store, clock, super, pacing, reap, workers, sigs
<1>16. CASE PollSnapshot
  BY <1>16 DEF TypeOK, Pcs, RunningPcs, ReapPcs, PollSnapshot, store, clock, super, drain,
     pacing, reap, workers, sigs
<1>17. CASE PlanBlocks
  BY <1>17 DEF TypeOK, PlanBlocks, store, super, drain, pacing, reap, workers, sigs
<1>18. CASE PlanNoOp
  BY <1>18, BackoffDelayType DEF TypeOK, Pcs, RunningPcs, ReapPcs, PlanNoOp, PaceNoSpawn,
     store, clock, super, drain, reap, workers, sigs
<1>19. ASSUME NEW t \in Tasks, PlanSelect(t) PROVE TypeOK'
  <2>1. nextId \in RunIds /\ nextId + 1 \in 1 .. MaxRuns + 1 /\ origin + planAt \in Nat
    BY <1>19, RunStateAssumption DEF TypeOK, PlanSelect, RunIds
  <2>2. rows' \in [RunIds -> Row]
    BY <1>19, <2>1, StartRowType DEF PlanSelect, TypeOK
  <2> QED
    BY <1>19, <2>1, <2>2 DEF TypeOK, PlanSelect, Pcs, RunningPcs, clock, super, drain, pacing,
       reap, workers, sigs
<1>20. CASE StartWorker
  BY <1>20, RunStateAssumption DEF TypeOK, Slot, StopIntent, StopReason, RunIds, Pcs,
     RunningPcs, ReapPcs, ProcState, StartingRow, StartWorker, Starting, store, clock, drain,
     reap, sigs
<1>21. CASE SpawnFails
  BY <1>21, RecordOutcomeType, RowOutcomeType, RunStateAssumption DEF TypeOK, Pcs, RunningPcs,
     ReapPcs, RowStatus, TerminalStatus, RunIds, StartingRow, SpawnFails, Starting, clock,
     super, drain, pacing, workers, sigs
<1>22. CASE SpawnFailedFinish
  <2>1. reaping.id \in RunIds /\ reaping.status \in RowStatus
    BY <1>22 DEF SpawnFailedFinish, SpawnFailedRow, TypeOK, RunIds
  <2>2. rows' \in [RunIds -> Row]
    BY <1>22, <2>1, FinishRowType DEF TypeOK, SpawnFailedFinish
  <2>3. reaping' \in [id: 0 .. MaxRuns, status: RowStatus]
    BY <1>22, RunStateAssumption DEF SpawnFailedFinish, NotReaping, RowStatus
  <2>4. nextPass' \in Nat /\ backoffIndex' \in Nat /\ cycles' \in Nat /\ nextPoll' \in Nat
    BY <1>22, BackoffDelayType DEF SpawnFailedFinish, PaceNoSpawn, TypeOK
  <2> QED
    BY <1>22, <2>2, <2>3, <2>4 DEF TypeOK, SpawnFailedFinish, Pcs, RunningPcs, clock, super,
       drain, workers, sigs
<1>23. CASE Tick
  BY <1>23 DEF TypeOK, Pcs, RunningPcs, ReapPcs, Tick, store, super, drain, pacing, reap,
     workers, sigs
<1>24. CASE WaitSignal
  BY <1>24, LoopConfigAssumption DEF TypeOK, Pcs, RunningPcs, ReapPcs, StopReason, WaitSignal,
     ApplySignal, SmallerOf, store, clock, super, pacing, reap, workers
<1>25. CASE FatalKill
  BY <1>25, KillAllType DEF TypeOK, Pcs, RunningPcs, ReapPcs, StopIntent, StopReason,
     FatalKill, store, clock, drain, pacing, reap, workers, sigs
<1>26. ASSUME NEW r \in RunIds, SweepSlot(r) PROVE TypeOK'
  <2>1. rows' \in [RunIds -> Row]
    <3>1. FinishRow(rows, r, "aborted-shutdown", 0) \in [RunIds -> Row]
      BY FinishRowType DEF TypeOK, RowStatus, TerminalStatus
    <3> QED
      BY <1>26, <3>1 DEF TypeOK, SweepSlot
  <2>2. slots' \subseteq RunIds /\ slot' \in [RunIds -> Slot] /\ beat' \in [RunIds -> BOOLEAN]
    BY <1>26 DEF TypeOK, SweepSlot, DropSlot, NoSlot, Slot
  <2> QED
    BY <1>26, <2>1, <2>2 DEF TypeOK, SweepSlot, clock, drain, pacing, reap, sigs
<1>27. CASE SweepEnd
  BY <1>27 DEF TypeOK, Pcs, RunningPcs, ReapPcs, SweepEnd, store, clock, super, drain, pacing,
     reap, workers, sigs
<1>28. CASE StartInvocation
  BY <1>28, RecoverRowsType, LoopConfigAssumption, RunStateAssumption DEF TypeOK, Slot,
     StopIntent, StopReason, RunIds, Pcs, RunningPcs, ReapPcs, RowStatus, StartInvocation,
     FreshMemory, Now, NoSlot, NotReaping, workers
<1>29. CASE NextInvocation
  BY <1>29 DEF TypeOK, Pcs, RunningPcs, ReapPcs, NextInvocation, store, clock, super, drain,
     pacing, reap, workers, sigs
<1>30. CASE AwaitBudgetWindow
  BY <1>30 DEF TypeOK, Pcs, RunningPcs, ReapPcs, AwaitBudgetWindow, store, clock, super,
     drain, pacing, reap, workers, sigs
<1>31. CASE BudgetWindowResets
  BY <1>31, DayType, RunStateAssumption DEF TypeOK, Pcs, RunningPcs, ReapPcs, Now,
     BudgetWindowResets, store, super, drain, pacing, reap, workers, sigs
<1>32. CASE Exit
  BY <1>32 DEF TypeOK, Pcs, RunningPcs, ReapPcs, Exit, store, clock, super, drain, pacing,
     reap, workers, sigs
<1>33. CASE NewProcess
  BY <1>33, LoopConfigAssumption, RunStateAssumption DEF TypeOK, Slot, StopIntent, StopReason,
     RunIds, Pcs, RunningPcs, ReapPcs, RowStatus, NewProcess, FreshMemory, Now, NoSlot,
     NotReaping, store, workers
<1>34. ASSUME NEW r \in RunIds, WorkerBeats(r) PROVE TypeOK'
  BY <1>34 DEF TypeOK, WorkerBeats, store, clock, super, drain, pacing, reap, sigs
<1>35. ASSUME NEW r \in RunIds, WorkerEnds(r) PROVE TypeOK'
  BY <1>35 DEF TypeOK, ProcState, WorkerEnds, store, clock, super, drain, pacing, reap, sigs
<1>36. ASSUME NEW r \in RunIds, AbortLands(r) PROVE TypeOK'
  BY <1>36 DEF TypeOK, ProcState, AbortLands, store, clock, super, drain, pacing, reap, sigs
<1>37. CASE Signal
  BY <1>37 DEF TypeOK, Signal, store, clock, super, drain, pacing, reap, workers
<1>38. CASE StoreFault
  <2>1. slots' \subseteq RunIds /\ slot' \in [RunIds -> Slot] /\ beat' \in [RunIds -> BOOLEAN]
    <3>1. ASSUME NEW r \in RunIds, DropSlot(r)
          PROVE  slots' \subseteq RunIds /\ slot' \in [RunIds -> Slot] /\ beat' \in [RunIds -> BOOLEAN]
      BY <3>1 DEF TypeOK, DropSlot, NoSlot, Slot
    <3>2. CASE UNCHANGED <<super, beat>>
      BY <3>2 DEF TypeOK, super
    <3> QED
      BY <1>38, <3>1, <3>2 DEF StoreFault, TypeOK
  <2>2. reaping' \in [id: 0 .. MaxRuns, status: RowStatus] /\ scan' \in 0 .. MaxRuns
    BY <1>38, RunStateAssumption DEF StoreFault, NotReaping, RowStatus
  <2> QED
    BY <1>38, <2>1, <2>2 DEF TypeOK, StoreFault, Pcs, store, clock, drain, pacing, sigs
<1>39. CASE Crash
  BY <1>39, LoopConfigAssumption, RunStateAssumption DEF TypeOK, Slot, StopIntent, StopReason,
     RunIds, Pcs, RunningPcs, ReapPcs, RowStatus, ProcState, Crash, FreshMemory, NoSlot,
     NotReaping, store, clock, sigs
<1>40. CASE Halted
  BY <1>40 DEF TypeOK, Halted, vars
<1>41. CASE UNCHANGED vars
  BY <1>41 DEF TypeOK, vars
<1> QED
  BY <1>1, <1>2, <1>3, <1>4, <1>5, <1>6, <1>7, <1>8, <1>9, <1>10, <1>11, <1>12, <1>13, <1>14,
     <1>15, <1>16, <1>17, <1>18, <1>19, <1>20, <1>21, <1>22, <1>23, <1>24, <1>25, <1>26,
     <1>27, <1>28, <1>29, <1>30, <1>31, <1>32, <1>33, <1>34, <1>35, <1>36, <1>37, <1>38,
     <1>39, <1>40, <1>41 DEF Next, Program, Environment, Supervise, StopOrDrain, Pass, Wait,
     FatalExit, Process


(* The core is preserved, action by action. *)
LEMMA CoreStep == TypeOK /\ CoreInv /\ [Next]_vars => CoreInv'
<1> SUFFICES ASSUME TypeOK, CoreInv, [Next]_vars PROVE CoreInv'
  OBVIOUS
<1>1. ASSUME NEW r \in RunIds, ReapOutcome(r) PROVE CoreInv'
  BY <1>1, RowOutcomeType, ArbitrateType DEF CoreInv, RowIds, RowsBelong, SlotRows,
     Supervised, AtRest, ReapingRow, StartingRow, SpawnFailedRow, Starting, ReapPcs, TypeOK,
     ReapOutcome, DropSlot, Reapable, Finished, RunIds, clock, drain, pacing, sigs
<1>2. CASE ReapFinish
  <2>1. reaping.id \in RunIds /\ reaping.id \notin slots
        /\ reaping.status \in TerminalStatus \ {"orphaned"}
    BY <1>2 DEF ReapFinish, CoreInv, ReapingRow, TypeOK, RunIds
  <2>2. \A q \in RunIds : /\ rows'[q].task = rows[q].task /\ rows'[q].inv = rows[q].inv
                          /\ rows'[q].status = IF q = reaping.id THEN reaping.status
                                               ELSE rows[q].status
    BY <1>2, <2>1, FinishRowEffect DEF ReapFinish, TypeOK
  <2>3. RowIds' /\ RowsBelong'
    BY <1>2, <2>1, <2>2 DEF ReapFinish, CoreInv, RowIds, RowsBelong, ReapingRow, TerminalStatus
  <2> QED
    BY <1>2, <2>1, <2>2, <2>3 DEF ReapFinish, CoreInv, SlotRows, Supervised, AtRest, ReapingRow,
       StartingRow, SpawnFailedRow, NotReaping, ReapPcs, TypeOK, super, workers
<1>3. CASE ReapEnd
  BY <1>3 DEF CoreInv, RowIds, RowsBelong, SlotRows, Supervised, AtRest, ReapingRow,
     StartingRow, SpawnFailedRow, Starting, ReapPcs, TypeOK, ReapEnd, store, clock, super,
     drain, pacing, workers, sigs
<1>4. CASE Observe
  BY <1>4 DEF CoreInv, RowIds, RowsBelong, SlotRows, Supervised, AtRest, ReapingRow,
     StartingRow, SpawnFailedRow, Starting, ReapPcs, TypeOK, Observe, store, clock, drain,
     pacing, reap, sigs
<1>5. CASE DrainStep
  BY <1>5 DEF CoreInv, RowIds, RowsBelong, SlotRows, Supervised, AtRest, ReapingRow,
     StartingRow, SpawnFailedRow, Starting, ReapPcs, TypeOK, DrainStep, store, clock, drain,
     pacing, reap, workers, sigs
<1>6. CASE Drained
  BY <1>6 DEF CoreInv, RowIds, RowsBelong, SlotRows, Supervised, AtRest, ReapingRow,
     StartingRow, SpawnFailedRow, Starting, ReapPcs, TypeOK, Drained, store, clock, super,
     pacing, reap, workers, sigs
<1>7. CASE StopOnRunBudget
  BY <1>7 DEF CoreInv, RowIds, RowsBelong, SlotRows, Supervised, AtRest, ReapingRow,
     StartingRow, SpawnFailedRow, Starting, ReapPcs, TypeOK, StopOnRunBudget, store, clock,
     super, pacing, reap, workers, sigs
<1>8. CASE StopOnSpendCap
  BY <1>8 DEF CoreInv, RowIds, RowsBelong, SlotRows, Supervised, AtRest, ReapingRow,
     StartingRow, SpawnFailedRow, Starting, ReapPcs, TypeOK, StopOnSpendCap, store, clock,
     super, pacing, reap, workers, sigs
<1>9. CASE StopOnCycles
  BY <1>9 DEF CoreInv, RowIds, RowsBelong, SlotRows, Supervised, AtRest, ReapingRow,
     StartingRow, SpawnFailedRow, Starting, ReapPcs, TypeOK, StopOnCycles, store, clock,
     super, pacing, reap, workers, sigs
<1>10. CASE SkipPass
  BY <1>10 DEF CoreInv, RowIds, RowsBelong, SlotRows, Supervised, AtRest, ReapingRow,
     StartingRow, SpawnFailedRow, Starting, ReapPcs, TypeOK, SkipPass, MayPass, store, clock,
     super, drain, pacing, reap, workers, sigs
<1>11. CASE BeginPass
  BY <1>11 DEF CoreInv, RowIds, RowsBelong, SlotRows, Supervised, AtRest, ReapingRow,
     StartingRow, SpawnFailedRow, Starting, ReapPcs, TypeOK, BeginPass, MayPass, store, clock,
     super, drain, reap, workers, sigs
<1>12. CASE PollBlocks
  BY <1>12 DEF CoreInv, RowIds, RowsBelong, SlotRows, Supervised, AtRest, ReapingRow,
     StartingRow, SpawnFailedRow, Starting, ReapPcs, TypeOK, PollBlocks, store, super, drain,
     pacing, reap, workers, sigs
<1>13. CASE PollFails
  BY <1>13 DEF CoreInv, RowIds, RowsBelong, SlotRows, Supervised, AtRest, ReapingRow,
     StartingRow, SpawnFailedRow, Starting, ReapPcs, TypeOK, PollFails, store, clock, super,
     drain, reap, workers, sigs
<1>14. CASE PollShutdown
  BY <1>14 DEF CoreInv, RowIds, RowsBelong, SlotRows, Supervised, AtRest, ReapingRow,
     StartingRow, SpawnFailedRow, Starting, ReapPcs, TypeOK, PollShutdown, store, clock,
     super, pacing, reap, workers
<1>15. CASE PollBudgetExpired
  BY <1>15 DEF CoreInv, RowIds, RowsBelong, SlotRows, Supervised, AtRest, ReapingRow,
     StartingRow, SpawnFailedRow, Starting, ReapPcs, TypeOK, PollBudgetExpired, store, clock,
     super, pacing, reap, workers, sigs
<1>16. CASE PollSnapshot
  BY <1>16 DEF CoreInv, RowIds, RowsBelong, SlotRows, Supervised, AtRest, ReapingRow,
     StartingRow, SpawnFailedRow, Starting, ReapPcs, TypeOK, PollSnapshot, store, clock,
     super, drain, pacing, reap, workers, sigs
<1>17. CASE PlanBlocks
  BY <1>17 DEF CoreInv, RowIds, RowsBelong, SlotRows, Supervised, AtRest, ReapingRow,
     StartingRow, SpawnFailedRow, Starting, ReapPcs, TypeOK, PlanBlocks, store, super, drain,
     pacing, reap, workers, sigs
<1>18. CASE PlanNoOp
  BY <1>18 DEF CoreInv, RowIds, RowsBelong, SlotRows, Supervised, AtRest, ReapingRow,
     StartingRow, SpawnFailedRow, Starting, ReapPcs, TypeOK, PlanNoOp, store, clock, super,
     drain, reap, workers, sigs
<1>19. ASSUME NEW t \in Tasks, PlanSelect(t) PROVE CoreInv'
  <2>1. nextId \in RunIds /\ rows[nextId].status = "absent" /\ nextId \notin slots
    BY <1>19, RunStateAssumption DEF PlanSelect, TypeOK, RunIds, CoreInv, RowIds, SlotRows
  <2>2. /\ \A q \in RunIds : q # nextId => rows'[q] = rows[q]
        /\ rows'[nextId].task = t /\ rows'[nextId].inv = inv
        /\ rows'[nextId].status = "running"
    BY <1>19, <2>1, StartRowEffect DEF PlanSelect, TypeOK
  <2>3. reaping.id = 0
    BY <1>19 DEF PlanSelect, CoreInv, ReapingRow, ReapPcs
  <2>4. RowIds' /\ RowsBelong'
    <3>1. nextId' = nextId + 1 /\ inv' = inv /\ nextId \in Nat /\ inv \in Nat
      BY <1>19 DEF PlanSelect, TypeOK
    <3>2. RowIds'
      BY <2>1, <2>2, <3>1 DEF CoreInv, RowIds, RunIds
    <3>3. RowsBelong'
      BY <2>1, <2>2, <3>1 DEF CoreInv, RowsBelong
    <3> QED
      BY <3>2, <3>3
  <2>5. SlotRows' /\ Supervised' /\ AtRest'
    BY <1>19, <2>1, <2>2 DEF PlanSelect, CoreInv, SlotRows, Supervised, AtRest, TypeOK, super,
       workers
  <2>6. ReapingRow' /\ StartingRow' /\ SpawnFailedRow'
    BY <1>19, <2>1, <2>2, <2>3 DEF PlanSelect, ReapingRow, StartingRow, SpawnFailedRow,
       Starting,
       TypeOK, RunIds, super, reap
  <2> QED
    BY <2>4, <2>5, <2>6 DEF CoreInv
<1>20. CASE StartWorker
  BY <1>20 DEF CoreInv, RowIds, RowsBelong, SlotRows, Supervised, AtRest, ReapingRow,
     StartingRow, SpawnFailedRow, Starting, ReapPcs, TypeOK, StartWorker, RunIds, store,
     clock, drain, reap, sigs
<1>21. CASE SpawnFails
  <2>1. Starting \in RunIds /\ Starting # 0
    BY <1>21, RunStateAssumption DEF SpawnFails, CoreInv, StartingRow, Starting, TypeOK, RunIds
  <2>2. /\ reaping'.id = Starting
        /\ reaping'.status \in TerminalStatus \ {"orphaned"}
    <3>1. "failed" \in TerminalStatus \ {"orphaned"}
      BY DEF TerminalStatus
    <3> QED
      BY <1>21, <3>1, RowOutcomeType DEF SpawnFails
  <2>3. ReapingRow' /\ SpawnFailedRow' /\ StartingRow'
    BY <1>21, <2>1, <2>2 DEF SpawnFails, CoreInv, ReapingRow, SpawnFailedRow, StartingRow,
       Starting,
       super
  <2> QED
    BY <1>21, <2>3 DEF SpawnFails, CoreInv, RowIds, RowsBelong, SlotRows, Supervised,
       AtRest, super,
       workers
<1>22. CASE SpawnFailedFinish
  <2>1. reaping.id \in RunIds /\ reaping.id \notin slots
        /\ reaping.status \in TerminalStatus \ {"orphaned"}
    BY <1>22 DEF SpawnFailedFinish, CoreInv, SpawnFailedRow, ReapingRow, TypeOK, RunIds
  <2>2. \A q \in RunIds : /\ rows'[q].task = rows[q].task /\ rows'[q].inv = rows[q].inv
                          /\ rows'[q].status = IF q = reaping.id THEN reaping.status
                                               ELSE rows[q].status
    BY <1>22, <2>1, FinishRowEffect DEF SpawnFailedFinish, TypeOK
  <2>3. RowIds' /\ RowsBelong'
    BY <1>22, <2>1, <2>2 DEF SpawnFailedFinish, CoreInv, RowIds, RowsBelong, ReapingRow,
       SpawnFailedRow, TerminalStatus
  <2> QED
    BY <1>22, <2>1, <2>2, <2>3 DEF SpawnFailedFinish, CoreInv, SlotRows, Supervised, AtRest,
       ReapingRow, StartingRow, SpawnFailedRow, NotReaping, TypeOK, super, workers
<1>23. CASE Tick
  BY <1>23 DEF CoreInv, RowIds, RowsBelong, SlotRows, Supervised, AtRest, ReapingRow,
     StartingRow, SpawnFailedRow, Starting, ReapPcs, TypeOK, Tick, store, super, drain,
     pacing, reap, workers, sigs
<1>24. CASE WaitSignal
  BY <1>24 DEF CoreInv, RowIds, RowsBelong, SlotRows, Supervised, AtRest, ReapingRow,
     StartingRow, SpawnFailedRow, Starting, ReapPcs, TypeOK, WaitSignal, store, clock, super,
     pacing, reap, workers
<1>25. CASE FatalKill
  BY <1>25 DEF CoreInv, RowIds, RowsBelong, SlotRows, Supervised, AtRest, ReapingRow,
     StartingRow, SpawnFailedRow, Starting, ReapPcs, TypeOK, FatalKill, store, clock, drain,
     pacing, reap, workers, sigs
<1>26. ASSUME NEW r \in RunIds, SweepSlot(r) PROVE CoreInv'
  BY <1>26, FinishRowEffect DEF CoreInv, RowIds, RowsBelong, SlotRows, Supervised, AtRest,
     ReapingRow, StartingRow, SpawnFailedRow, Starting, ReapPcs, TypeOK, SweepSlot, DropSlot,
     Finished, clock, drain, pacing, reap, sigs
<1>27. CASE SweepEnd
  BY <1>27 DEF CoreInv, RowIds, RowsBelong, SlotRows, Supervised, AtRest, ReapingRow,
     StartingRow, SpawnFailedRow, Starting, ReapPcs, TypeOK, SweepEnd, store, clock, super,
     drain, pacing, reap, workers, sigs
<1>28. CASE StartInvocation
  <2>1. \A q \in RunIds : /\ rows'[q].task = rows[q].task /\ rows'[q].inv = rows[q].inv
                          /\ rows'[q].status = "absent" <=> rows[q].status = "absent"
    BY <1>28, RecoverRowsEffect DEF StartInvocation, TypeOK
  <2>2. RowIds' /\ RowsBelong'
    BY <1>28, <2>1 DEF StartInvocation, CoreInv, RowIds, RowsBelong, TypeOK, Row
  <2> QED
    BY <1>28, <2>2 DEF StartInvocation, FreshMemory, NotReaping, CoreInv, SlotRows, Supervised,
       AtRest, ReapingRow, StartingRow, SpawnFailedRow, workers
<1>29. CASE NextInvocation
  BY <1>29 DEF CoreInv, RowIds, RowsBelong, SlotRows, Supervised, AtRest, ReapingRow,
     StartingRow, SpawnFailedRow, Starting, ReapPcs, TypeOK, NextInvocation, store, clock,
     super, drain, pacing, reap, workers, sigs
<1>30. CASE AwaitBudgetWindow
  BY <1>30 DEF CoreInv, RowIds, RowsBelong, SlotRows, Supervised, AtRest, ReapingRow,
     StartingRow, SpawnFailedRow, Starting, ReapPcs, TypeOK, AwaitBudgetWindow, store, clock,
     super, drain, pacing, reap, workers, sigs
<1>31. CASE BudgetWindowResets
  BY <1>31 DEF CoreInv, RowIds, RowsBelong, SlotRows, Supervised, AtRest, ReapingRow,
     StartingRow, SpawnFailedRow, Starting, ReapPcs, TypeOK, BudgetWindowResets, store, super,
     drain, pacing, reap, workers, sigs
<1>32. CASE Exit
  BY <1>32 DEF CoreInv, RowIds, RowsBelong, SlotRows, Supervised, AtRest, ReapingRow,
     StartingRow, SpawnFailedRow, Starting, ReapPcs, TypeOK, Exit, store, clock, super, drain,
     pacing, reap, workers, sigs
<1>33. CASE NewProcess
  BY <1>33 DEF CoreInv, RowIds, RowsBelong, SlotRows, Supervised, AtRest, ReapingRow,
     StartingRow, SpawnFailedRow, Starting, ReapPcs, TypeOK, NewProcess, FreshMemory,
     NotReaping, store, workers
<1>34. ASSUME NEW r \in RunIds, WorkerBeats(r) PROVE CoreInv'
  BY <1>34 DEF CoreInv, RowIds, RowsBelong, SlotRows, Supervised, AtRest, ReapingRow,
     StartingRow, SpawnFailedRow, Starting, ReapPcs, TypeOK, WorkerBeats, store, clock, super,
     drain, pacing, reap, sigs
<1>35. ASSUME NEW r \in RunIds, WorkerEnds(r) PROVE CoreInv'
  BY <1>35 DEF CoreInv, RowIds, RowsBelong, SlotRows, Supervised, AtRest, ReapingRow,
     StartingRow, SpawnFailedRow, Starting, ReapPcs, TypeOK, WorkerEnds, store, clock, super,
     drain, pacing, reap, sigs
<1>36. ASSUME NEW r \in RunIds, AbortLands(r) PROVE CoreInv'
  BY <1>36 DEF CoreInv, RowIds, RowsBelong, SlotRows, Supervised, AtRest, ReapingRow,
     StartingRow, SpawnFailedRow, Starting, ReapPcs, TypeOK, AbortLands, store, clock, super,
     drain, pacing, reap, sigs
<1>37. CASE Signal
  BY <1>37 DEF CoreInv, RowIds, RowsBelong, SlotRows, Supervised, AtRest, ReapingRow,
     StartingRow, SpawnFailedRow, Starting, ReapPcs, TypeOK, Signal, store, clock, super,
     drain, pacing, reap, workers
<1>38. CASE StoreFault
  BY <1>38 DEF CoreInv, RowIds, RowsBelong, SlotRows, Supervised, AtRest, ReapingRow,
     StartingRow, SpawnFailedRow, Starting, ReapPcs, TypeOK, StoreFault, DropSlot, Reapable,
     Finished, NotReaping, store, clock, super, drain, pacing, sigs
<1>39. CASE Crash
  BY <1>39 DEF CoreInv, RowIds, RowsBelong, SlotRows, Supervised, AtRest, ReapingRow,
     StartingRow, SpawnFailedRow, Starting, ReapPcs, TypeOK, Crash, FreshMemory, NotReaping,
     store, clock, sigs
<1>40. CASE Halted
  BY <1>40 DEF CoreInv, RowIds, RowsBelong, SlotRows, Supervised, AtRest, ReapingRow,
     StartingRow, SpawnFailedRow, Starting, ReapPcs, TypeOK, Halted, vars
<1>41. CASE UNCHANGED vars
  BY <1>41 DEF CoreInv, RowIds, RowsBelong, SlotRows, Supervised, AtRest, ReapingRow,
     StartingRow, SpawnFailedRow, Starting, ReapPcs, TypeOK, vars
<1> QED
  BY <1>1, <1>2, <1>3, <1>4, <1>5, <1>6, <1>7, <1>8, <1>9, <1>10, <1>11, <1>12, <1>13, <1>14,
     <1>15, <1>16, <1>17, <1>18, <1>19, <1>20, <1>21, <1>22, <1>23, <1>24, <1>25, <1>26,
     <1>27, <1>28, <1>29, <1>30, <1>31, <1>32, <1>33, <1>34, <1>35, <1>36, <1>37, <1>38,
     <1>39, <1>40, <1>41 DEF Next, Program, Environment, Supervise, StopOrDrain, Pass, Wait,
     FatalExit, Process

-----------------------------------------------------------------------------
(***************************************************************************)
(* The frame.  Twelve actions write what the invariants below speak of;    *)
(* every other step is quiet.                                              *)
(***************************************************************************)

Quiet ==
  /\ UNCHANGED <<rows, nextId, retry, inv, slots, reaping, proc>>
  /\ pc' = "start" <=> pc = "start"
  /\ pc' \in RunningPcs => pc \in RunningPcs

LEMMA QuietSteps ==
  ASSUME TypeOK, [Next]_vars
  PROVE  \/ \E r \in RunIds : ReapOutcome(r) \/ SweepSlot(r) \/ WorkerEnds(r) \/ AbortLands(r)
         \/ ReapFinish \/ SpawnFails \/ SpawnFailedFinish \/ StartWorker
         \/ \E t \in Tasks : PlanSelect(t)
         \/ StartInvocation \/ NewProcess \/ StoreFault \/ Crash
         \/ Quiet
<1>1. CASE ReapEnd \/ Observe \/ DrainStep \/ Drained
  BY <1>1 DEF Quiet, ReapEnd, Observe, DrainStep, Drained, ReapPcs, RunningPcs, store, super,
     reap,
     workers
<1>2. CASE StopOnRunBudget \/ StopOnSpendCap \/ StopOnCycles \/ SkipPass \/ BeginPass
  BY <1>2 DEF Quiet, StopOnRunBudget, StopOnSpendCap, StopOnCycles, SkipPass, BeginPass,
     MayPass,
     RunningPcs, store, super, reap, workers
<1>3. CASE PollBlocks \/ PollFails \/ PollShutdown \/ PollBudgetExpired \/ PollSnapshot
  BY <1>3 DEF Quiet, PollBlocks, PollFails, PollShutdown, PollBudgetExpired, PollSnapshot,
     RunningPcs, store, super, reap, workers
<1>4. CASE PlanBlocks \/ PlanNoOp \/ Tick \/ WaitSignal
  BY <1>4 DEF Quiet, PlanBlocks, PlanNoOp, Tick, WaitSignal, RunningPcs, store, super, reap,
     workers
<1>5. CASE FatalKill \/ SweepEnd \/ NextInvocation \/ AwaitBudgetWindow \/ BudgetWindowResets \/ Exit
  BY <1>5 DEF Quiet, FatalKill, SweepEnd, NextInvocation, AwaitBudgetWindow, BudgetWindowResets,
     Exit, RunningPcs, ReapPcs, store, super, reap, workers
<1>6. CASE (\E r \in RunIds : WorkerBeats(r)) \/ Signal
  BY <1>6 DEF Quiet, WorkerBeats, Signal, store, super, reap, workers
<1>7. CASE Halted \/ UNCHANGED vars
  BY <1>7 DEF Quiet, Halted, vars
<1> QED
  BY <1>1, <1>2, <1>3, <1>4, <1>5, <1>6, <1>7 DEF Next, Program, Environment, Supervise,
     StopOrDrain, Pass, Wait, FatalExit, Process

(* What the four writes of `rows` leave alone, in one place. *)
LEMMA RowsWritten ==
  ASSUME TypeOK, CoreInv, [Next]_vars
  PROVE  \/ \E t \in Tasks : PlanSelect(t)
         \/ \A q \in RunIds : /\ rows'[q].task = rows[q].task /\ rows'[q].inv = rows[q].inv
                              /\ rows'[q].status = "absent" <=> rows[q].status = "absent"
<1>1. CASE ReapFinish \/ SpawnFailedFinish
  <2>1. reaping.id \in RunIds /\ reaping.status \in TerminalStatus
        /\ rows[reaping.id].status = "running"
    BY <1>1 DEF ReapFinish, SpawnFailedFinish, CoreInv, SpawnFailedRow, ReapingRow, TypeOK,
       RunIds
  <2>2. PICK c : rows' = FinishRow(rows, reaping.id, reaping.status, c)
    BY <1>1 DEF ReapFinish, SpawnFailedFinish
  <2> QED
    BY <2>1, <2>2, FinishRowEffect DEF TypeOK, TerminalStatus
<1>2. ASSUME NEW r \in RunIds, SweepSlot(r)
      PROVE  \A q \in RunIds : /\ rows'[q].task = rows[q].task /\ rows'[q].inv = rows[q].inv
                               /\ rows'[q].status = "absent" <=> rows[q].status = "absent"
  BY <1>2, FinishRowEffect DEF SweepSlot, TypeOK, CoreInv, SlotRows
<1>3. CASE StartInvocation
  BY <1>3, RecoverRowsEffect DEF StartInvocation, TypeOK
<1>4. CASE UNCHANGED rows
  BY <1>4
<1> QED
  BY <1>1, <1>2, <1>3, <1>4, QuietSteps DEF Quiet, ReapOutcome, WorkerEnds, AbortLands,
     SpawnFails,
     StartWorker, NewProcess, StoreFault, Crash, store

(***************************************************************************)
(* The two safety properties of the rows.                                  *)
(***************************************************************************)

LEMMA OneRunStep == TypeOK /\ CoreInv /\ OneRunPerTask /\ [Next]_vars => OneRunPerTask'
<1> SUFFICES ASSUME TypeOK, CoreInv, OneRunPerTask, [Next]_vars PROVE OneRunPerTask'
  OBVIOUS
<1>1. ASSUME NEW t \in Tasks, PlanSelect(t) PROVE OneRunPerTask'
  <2>1. nextId \in RunIds
    BY <1>1 DEF PlanSelect, TypeOK, RunIds
  <2>2. /\ \A q \in RunIds : q # nextId => rows'[q] = rows[q]
        /\ rows'[nextId].task = t /\ rows'[nextId].inv = inv
    BY <1>1, <2>1, StartRowEffect DEF PlanSelect, TypeOK
  <2>3. \A q \in RunIds : rows[q].status # "absent" /\ rows[q].inv = inv => rows[q].task # t
    BY <1>1 DEF PlanSelect, Excluded, RanThisInvocation
  <2> QED
    BY <2>1, <2>2, <2>3 DEF OneRunPerTask
<1>2. CASE \A q \in RunIds : /\ rows'[q].task = rows[q].task /\ rows'[q].inv = rows[q].inv
                             /\ rows'[q].status = "absent" <=> rows[q].status = "absent"
  BY <1>2 DEF OneRunPerTask
<1> QED
  BY <1>1, <1>2, RowsWritten

LEMMA StrandedStep == TypeOK /\ CoreInv /\ NoStrandedRow /\ [Next]_vars => NoStrandedRow'
<1> SUFFICES ASSUME TypeOK, CoreInv, NoStrandedRow, [Next]_vars,
                    Daemon, pc' \in RunningPcs,
                    NEW q \in RunIds, rows'[q].status = "running"
             PROVE  q \in Accounted'
  BY DEF NoStrandedRow
<1> USE DEF Accounted, Unsettled
<1>1. ASSUME NEW r \in RunIds, ReapOutcome(r) PROVE q \in Accounted'
  BY <1>1 DEF ReapOutcome, DropSlot, NoStrandedRow, RunningPcs, ReapPcs, RunIds
<1>2. CASE ReapFinish
  <2>1. reaping.id \in RunIds /\ reaping.status # "running"
    BY <1>2 DEF ReapFinish, CoreInv, ReapingRow, TypeOK, RunIds, TerminalStatus
  <2>2. q # reaping.id /\ rows[q].status = "running"
    BY <1>2, <2>1, FinishRowEffect DEF ReapFinish, TypeOK
  <2> QED
    BY <1>2, <2>2 DEF ReapFinish, NoStrandedRow, ReapPcs, RunningPcs, NotReaping, super
<1>3. CASE SpawnFails
  <2>1. Starting \in RunIds
    BY <1>3, RunStateAssumption DEF SpawnFails, CoreInv, StartingRow, Starting, TypeOK, RunIds
  <2>2. reaping.id = 0
    BY <1>3 DEF SpawnFails, CoreInv, ReapingRow, ReapPcs
  <2> QED
    BY <1>3, <2>1, <2>2 DEF SpawnFails, NoStrandedRow, RunningPcs, RunIds, super
<1>4. CASE SpawnFailedFinish
  <2>1. reaping.id \in RunIds /\ reaping.status # "running"
    BY <1>4 DEF SpawnFailedFinish, CoreInv, SpawnFailedRow, ReapingRow, TypeOK, RunIds,
       TerminalStatus
  <2>2. q # reaping.id /\ rows[q].status = "running"
    BY <1>4, <2>1, FinishRowEffect DEF SpawnFailedFinish, TypeOK
  <2> QED
    BY <1>4, <2>2 DEF SpawnFailedFinish, NoStrandedRow, RunningPcs, NotReaping, super
<1>5. CASE StartWorker
  <2>1. reaping.id = 0
    BY <1>5 DEF StartWorker, CoreInv, ReapingRow, ReapPcs
  <2> QED
    BY <1>5, <2>1 DEF StartWorker, NoStrandedRow, RunningPcs, store, reap
<1>6. ASSUME NEW t \in Tasks, PlanSelect(t) PROVE q \in Accounted'
  <2>1. nextId \in RunIds /\ reaping.id = 0
    BY <1>6 DEF PlanSelect, TypeOK, RunIds, CoreInv, ReapingRow, ReapPcs
  <2>2. q # nextId => rows[q].status = "running"
    BY <1>6, <2>1, StartRowEffect DEF PlanSelect, TypeOK
  <2>3. Starting' = nextId
    BY <1>6, <2>1 DEF PlanSelect, Starting, RunIds, TypeOK
  <2> QED
    BY <1>6, <2>1, <2>2, <2>3 DEF PlanSelect, NoStrandedRow, RunningPcs, super, reap
<1>7. CASE StartInvocation
  BY <1>7, RecoverRowsEffect DEF StartInvocation, TypeOK
<1>8. ASSUME NEW r \in RunIds, WorkerEnds(r) \/ AbortLands(r) PROVE q \in Accounted'
  BY <1>8 DEF WorkerEnds, AbortLands, NoStrandedRow, Starting, store, super, reap
<1>9. CASE Quiet
  BY <1>9 DEF Quiet, NoStrandedRow, Starting
<1>10. CASE (\E r \in RunIds : SweepSlot(r)) \/ StoreFault \/ Crash \/ NewProcess
  BY <1>10 DEF SweepSlot, StoreFault, Crash, NewProcess, RunningPcs, ReapPcs
<1> QED
  BY <1>1, <1>2, <1>3, <1>4, <1>5, <1>6, <1>7, <1>8, <1>9, <1>10, QuietSteps

(***************************************************************************)
(* The attempt budget.  The run being settled is the only unsettled one of *)
(* its task (OneRunPerTask), so its failure cannot push another run past   *)
(* the budget.                                                             *)
(***************************************************************************)

LEMMA RecordOutcomeEffect ==
  ASSUME retry \in [Tasks -> RetryState], NEW t \in Tasks, NEW s, NEW now, NEW u \in Tasks
  PROVE  /\ u # t => RecordOutcome(t, s, now)[u] = retry[u]
         /\ RecordOutcome(t, s, now)[t].attempts =
              IF s \in TaskFailures THEN retry[t].attempts + 1 ELSE retry[t].attempts
<1>1. CASE s = "completed"
  BY <1>1 DEF RecordOutcome, RecordTaskSuccess, RetryState, TaskFailures
<1>2. CASE s \in TaskFailures
  BY <1>2 DEF RecordOutcome, RecordTaskFailure, RetryState, TaskFailures
<1>3. CASE s # "completed" /\ s \notin TaskFailures
  BY <1>3 DEF RecordOutcome
<1> QED
  BY <1>1, <1>2, <1>3

LEMMA UnsettledRows ==
  ASSUME TypeOK, CoreInv, NEW r \in Unsettled
  PROVE  /\ r \in RunIds /\ rows[r].status = "running" /\ rows[r].inv = inv
         /\ rows[r].task \in Tasks
<1>1. r \in RunIds /\ rows[r].status = "running" /\ rows[r].inv = inv
  <2>1. CASE r \in slots
    BY <2>1 DEF TypeOK, CoreInv, SlotRows
  <2>2. CASE pc = "start" /\ r = Starting
    BY <2>2, RunStateAssumption DEF CoreInv, StartingRow, Starting, TypeOK, RunIds
  <2> QED
    BY <2>1, <2>2 DEF Unsettled
<1> QED
  BY <1>1 DEF CoreInv, RowsBelong

LEMMA AttemptStep ==
  TypeOK /\ CoreInv /\ OneRunPerTask /\ AttemptBudgetKept /\ [Next]_vars => AttemptBudgetKept'
<1> SUFFICES ASSUME TypeOK, CoreInv, OneRunPerTask, AttemptBudgetKept, [Next]_vars,
                    MaxTaskAttempts > 0
             PROVE  /\ \A t \in Tasks : retry'[t].attempts <= MaxTaskAttempts
                    /\ \A r \in Unsettled' : retry'[rows'[r].task].attempts < MaxTaskAttempts
  BY DEF AttemptBudgetKept
<1>0. MaxTaskAttempts \in Nat /\ \A t \in Tasks : retry[t].attempts \in Nat
  BY LoopConfigAssumption DEF TypeOK, RetryState
<1>a. ASSUME NEW p \in Unsettled, NEW s, NEW now,
             retry' = RecordOutcome(rows[p].task, s, now),
             rows' = rows, Unsettled' = Unsettled \ {p}
      PROVE  /\ \A t \in Tasks : retry'[t].attempts <= MaxTaskAttempts
             /\ \A r \in Unsettled' : retry'[rows'[r].task].attempts < MaxTaskAttempts
  <2>1. rows[p].task \in Tasks /\ retry[rows[p].task].attempts < MaxTaskAttempts
    BY UnsettledRows DEF AttemptBudgetKept
  <2>2. \A t \in Tasks : retry'[t].attempts <= MaxTaskAttempts
    BY <1>0, <1>a, <2>1, RecordOutcomeEffect DEF TypeOK, AttemptBudgetKept
  <2>3. ASSUME NEW r \in Unsettled, r # p
        PROVE  retry'[rows[r].task].attempts < MaxTaskAttempts
    <3>1. rows[r].task # rows[p].task /\ rows[r].task \in Tasks
      BY <2>3, UnsettledRows DEF OneRunPerTask
    <3> QED
      BY <1>a, <2>1, <3>1, RecordOutcomeEffect DEF TypeOK, AttemptBudgetKept
  <2> QED
    BY <1>a, <2>2, <2>3
<1>1. ASSUME NEW r \in RunIds, ReapOutcome(r)
      PROVE  /\ \A t \in Tasks : retry'[t].attempts <= MaxTaskAttempts
             /\ \A q \in Unsettled' : retry'[rows'[q].task].attempts < MaxTaskAttempts
  <2>1. r \in Unsettled /\ Unsettled' = Unsettled \ {r}
    BY <1>1 DEF ReapOutcome, Reapable, DropSlot, Unsettled, ReapPcs
  <2> QED
    BY <1>1, <1>a, <2>1 DEF ReapOutcome
<1>2. CASE SpawnFails
  <2>1. Starting \in Unsettled /\ Unsettled' = Unsettled \ {Starting}
    BY <1>2 DEF SpawnFails, CoreInv, StartingRow, Unsettled, super
  <2> QED
    BY <1>2, <1>a, <2>1 DEF SpawnFails
<1>3. ASSUME NEW t \in Tasks, PlanSelect(t)
      PROVE  /\ \A u \in Tasks : retry'[u].attempts <= MaxTaskAttempts
             /\ \A r \in Unsettled' : retry'[rows'[r].task].attempts < MaxTaskAttempts
  <2>1. nextId \in RunIds /\ Starting' = nextId /\ Unsettled' = slots \cup {nextId}
    BY <1>3 DEF PlanSelect, Starting, TypeOK, RunIds, Unsettled, super
  <2>2. /\ \A q \in RunIds : q # nextId => rows'[q] = rows[q]
        /\ rows'[nextId].task = t
    BY <1>3, <2>1, StartRowEffect DEF PlanSelect, TypeOK
  <2>3. retry[t].attempts < MaxTaskAttempts
    BY <1>0, <1>3 DEF PlanSelect, Excluded, OverBudget
  <2> QED
    BY <1>3, <2>1, <2>2, <2>3 DEF PlanSelect, AttemptBudgetKept, Unsettled, TypeOK
<1>4. ASSUME UNCHANGED retry, Unsettled' \subseteq Unsettled,
             \A q \in RunIds : rows'[q].task = rows[q].task
      PROVE  /\ \A t \in Tasks : retry'[t].attempts <= MaxTaskAttempts
             /\ \A r \in Unsettled' : retry'[rows'[r].task].attempts < MaxTaskAttempts
  BY <1>4, UnsettledRows DEF AttemptBudgetKept
<1>5. ASSUME ~\E t \in Tasks : PlanSelect(t)
      PROVE  \A q \in RunIds : rows'[q].task = rows[q].task
  BY <1>5, RowsWritten
<1>6. CASE ReapFinish \/ SpawnFailedFinish \/ StartWorker \/ Quiet
  <2>1. ~\E t \in Tasks : PlanSelect(t)
    BY <1>6 DEF ReapFinish, SpawnFailedFinish, StartWorker, Quiet, PlanSelect, ReapPcs
  <2>2. UNCHANGED retry /\ Unsettled' \subseteq Unsettled
    BY <1>6 DEF ReapFinish, SpawnFailedFinish, StartWorker, Quiet, Unsettled, Starting,
       ReapPcs, store, super
  <2> QED
    BY <1>4, <1>5, <2>1, <2>2
<1>7. CASE StartInvocation \/ NewProcess \/ Crash \/ StoreFault
  <2>1. pc' \notin {"start"} /\ ~\E t \in Tasks : PlanSelect(t)
    BY <1>7 DEF StartInvocation, NewProcess, Crash, StoreFault, PlanSelect
  <2>2. UNCHANGED retry /\ slots' \subseteq slots
    BY <1>7 DEF StartInvocation, NewProcess, Crash, StoreFault, FreshMemory, DropSlot,
       store, super
  <2> QED
    BY <1>4, <1>5, <2>1, <2>2 DEF Unsettled
<1>8. ASSUME NEW r \in RunIds, SweepSlot(r) \/ WorkerEnds(r) \/ AbortLands(r)
      PROVE  /\ \A t \in Tasks : retry'[t].attempts <= MaxTaskAttempts
             /\ \A q \in Unsettled' : retry'[rows'[q].task].attempts < MaxTaskAttempts
  <2>1. \A q \in RunIds : rows'[q].task = rows[q].task
    BY <1>8, FinishRowEffect DEF SweepSlot, WorkerEnds, AbortLands, TypeOK, store
  <2>2. UNCHANGED retry /\ Unsettled' \subseteq Unsettled
    BY <1>8 DEF SweepSlot, WorkerEnds, AbortLands, DropSlot, Unsettled, Starting, store, super
  <2> QED
    BY <1>4, <2>1, <2>2
<1> QED
  BY <1>1, <1>2, <1>3, <1>6, <1>7, <1>8, QuietSteps

(***************************************************************************)
(* Outcomes.  What a row will say is decided when the run leaves its slot, *)
(* one write before the row says it.                                       *)
(***************************************************************************)

OutcomeHolds(r, s) ==
  /\ s = "stuck" => MaxTaskAttempts > 0 /\ retry[rows[r].task].attempts >= MaxTaskAttempts
  /\ s \in {"stalled", "timed-out"} => proc[r] = "cancelled"
  /\ s = "completed" => proc[r] = "done"

OutcomeInv ==
  /\ \A r \in RunIds : OutcomeHolds(r, rows[r].status)
  /\ reaping.id # 0 => OutcomeHolds(reaping.id, reaping.status)

LEMMA OutcomeStep == TypeOK /\ CoreInv /\ OutcomeInv /\ [Next]_vars => OutcomeInv'
<1> SUFFICES ASSUME TypeOK, CoreInv, OutcomeInv, [Next]_vars PROVE OutcomeInv'
  OBVIOUS
<1>0. \A q \in RunIds : rows[q].status # "absent" => rows[q].task \in Tasks
  BY DEF CoreInv, RowsBelong
<1>a. ASSUME NEW r \in RunIds, NEW s \in {"completed", "failed", "stalled", "timed-out",
                                          "aborted-shutdown"}, NEW now,
             rows[r].status = "running",
             retry' = RecordOutcome(rows[r].task, s, now),
             reaping' = [id |-> r, status |-> RowOutcome(rows[r].task, s)],
             s \in {"stalled", "timed-out"} => proc[r] = "cancelled",
             s = "completed" => proc[r] = "done",
             UNCHANGED <<rows, proc>>
      PROVE  OutcomeInv'
  <2>1. \A t \in Tasks : retry[t].attempts \in Nat /\ retry'[t].attempts \in Nat
                          /\ retry'[t].attempts >= retry[t].attempts
    <3>1. \A t \in Tasks : retry[t].attempts \in Nat
      BY DEF TypeOK, RetryState
    <3> QED
      BY <1>0, <1>a, <3>1, RecordOutcomeEffect DEF TypeOK
  <2>2. MaxTaskAttempts \in Nat
    BY LoopConfigAssumption
  <2>3. \A q \in RunIds : OutcomeHolds(q, rows[q].status)'
    BY <1>0, <1>a, <2>1, <2>2 DEF OutcomeInv, OutcomeHolds
  <2>4. RowOutcome(rows[r].task, s) = "stuck"
          => MaxTaskAttempts > 0 /\ retry'[rows[r].task].attempts >= MaxTaskAttempts
    BY <1>0, <1>a, <2>1, <2>2, RecordOutcomeEffect DEF RowOutcome, TypeOK
  <2>5. RowOutcome(rows[r].task, s) \in {s, "stuck"}
    BY DEF RowOutcome
  <2> QED
    BY <1>a, <2>3, <2>4, <2>5 DEF OutcomeInv, OutcomeHolds
<1>1. ASSUME NEW r \in RunIds, ReapOutcome(r) PROVE OutcomeInv'
  <2>1. rows[r].status = "running"
    BY <1>1 DEF ReapOutcome, Reapable, CoreInv, SlotRows
  <2>2. Arbitrate(r) \in {"completed", "failed", "stalled", "timed-out", "aborted-shutdown"}
    BY ArbitrateType DEF TerminalStatus
  <2>3. /\ Arbitrate(r) \in {"stalled", "timed-out"} => proc[r] = "cancelled"
        /\ Arbitrate(r) = "completed" => proc[r] = "done"
    <3>1. CASE proc[r] \in {"done", "failed"}
      BY <3>1 DEF Arbitrate
    <3>2. CASE proc[r] = "cancelled"
      <4>1. CASE slot[r].intent \in {"Stall", "WorkerTimeout", "none"}
        BY <3>2, <4>1 DEF Arbitrate
      <4>2. CASE slot[r].intent \notin {"Stall", "WorkerTimeout", "none"}
        BY <3>2, <4>2 DEF Arbitrate
      <4> QED
        BY <4>1, <4>2
    <3> QED
      BY <1>1, <3>1, <3>2 DEF ReapOutcome, Reapable, Finished
  <2> QED
    BY <1>1, <1>a, <2>1, <2>2, <2>3 DEF ReapOutcome
<1>2. CASE SpawnFails
  <2>1. Starting \in RunIds /\ rows[Starting].status = "running"
    BY <1>2, RunStateAssumption DEF SpawnFails, CoreInv, StartingRow, Starting, TypeOK, RunIds
  <2> QED
    BY <1>2, <1>a, <2>1 DEF SpawnFails, workers
<1>3. CASE ReapFinish \/ SpawnFailedFinish
  <2>1. reaping.id \in RunIds /\ reaping.id # 0 /\ reaping'.id = 0
    BY <1>3 DEF ReapFinish, SpawnFailedFinish, CoreInv, SpawnFailedRow, TypeOK, RunIds,
       NotReaping
  <2>2. PICK c : rows' = FinishRow(rows, reaping.id, reaping.status, c)
    BY <1>3 DEF ReapFinish, SpawnFailedFinish
  <2>3. UNCHANGED <<retry, proc>>
    BY <1>3 DEF ReapFinish, SpawnFailedFinish, workers
  <2> QED
    BY <2>1, <2>2, <2>3, FinishRowEffect DEF OutcomeInv, OutcomeHolds, TypeOK
<1>4. ASSUME NEW r \in RunIds, SweepSlot(r) PROVE OutcomeInv'
  <2>1. UNCHANGED <<retry, proc, reaping>>
    BY <1>4 DEF SweepSlot, reap
  <2>2. \A q \in RunIds : /\ rows'[q].task = rows[q].task
                           /\ rows'[q].status \in {rows[q].status, "aborted-shutdown"}
    BY <1>4, FinishRowEffect DEF SweepSlot, TypeOK
  <2>3. reaping.id = 0
    BY <1>4 DEF SweepSlot, CoreInv, ReapingRow, ReapPcs
  <2> QED
    BY <2>1, <2>2, <2>3 DEF OutcomeInv, OutcomeHolds
<1>5. CASE StartInvocation
  <2>1. UNCHANGED <<retry, proc>> /\ reaping'.id = 0
    BY <1>5 DEF StartInvocation, FreshMemory, NotReaping, workers
  <2>2. \A q \in RunIds : /\ rows'[q].task = rows[q].task
                           /\ rows'[q].status \in {rows[q].status, "orphaned"}
    BY <1>5, RecoverRowsEffect DEF StartInvocation, TypeOK
  <2> QED
    BY <2>1, <2>2 DEF OutcomeInv, OutcomeHolds
<1>6. ASSUME NEW t \in Tasks, PlanSelect(t) PROVE OutcomeInv'
  <2>1. nextId \in RunIds /\ reaping.id = 0
    BY <1>6 DEF PlanSelect, TypeOK, RunIds, CoreInv, ReapingRow, ReapPcs
  <2> QED
    BY <1>6, <2>1, StartRowEffect DEF PlanSelect, OutcomeInv, OutcomeHolds, TypeOK, workers,
       reap
<1>7. CASE StartWorker
  <2>1. rows[Starting].status = "running" /\ reaping.id = 0
    BY <1>7 DEF StartWorker, CoreInv, StartingRow, ReapingRow, ReapPcs
  <2> QED
    BY <1>7, <2>1 DEF StartWorker, OutcomeInv, OutcomeHolds, TypeOK, store, reap
<1>8. ASSUME NEW r \in RunIds, WorkerEnds(r) \/ AbortLands(r) PROVE OutcomeInv'
  <2>1. rows[r].status = "running" /\ reaping.id # r
    BY <1>8 DEF WorkerEnds, AbortLands, CoreInv, SlotRows, ReapingRow, RunIds
  <2>2. UNCHANGED <<rows, retry, reaping>> /\ \A q \in RunIds : q # r => proc'[q] = proc[q]
    BY <1>8 DEF WorkerEnds, AbortLands, TypeOK, store, reap
  <2>3. \A q \in RunIds : OutcomeHolds(q, rows[q].status)'
    BY <2>1, <2>2 DEF OutcomeInv, OutcomeHolds
  <2>4. reaping.id # 0 => OutcomeHolds(reaping.id, reaping.status)'
    BY <2>1, <2>2 DEF OutcomeInv, OutcomeHolds, TypeOK, RunIds
  <2> QED
    BY <2>2, <2>3, <2>4 DEF OutcomeInv
<1>9. CASE Crash
  BY <1>9 DEF Crash, FreshMemory, NotReaping, OutcomeInv, OutcomeHolds, TypeOK, store
<1>10. CASE StoreFault \/ NewProcess
  BY <1>10 DEF StoreFault, NewProcess, FreshMemory, NotReaping, OutcomeInv, OutcomeHolds, store,
     workers
<1>11. CASE Quiet
  BY <1>11 DEF Quiet, OutcomeInv, OutcomeHolds
<1> QED
  BY <1>1, <1>2, <1>3, <1>4, <1>5, <1>6, <1>7, <1>8, <1>9, <1>10, <1>11, QuietSteps

(***************************************************************************)
(* Only the fatal sweep records a run as aborted without asking how it     *)
(* ended, and there is none before a write of the store failed.            *)
(***************************************************************************)

LEMMA FaultlessSteps ==
  ASSUME TypeOK, [Next]_vars, faults' = 0
  PROVE  /\ faults = 0
         /\ pc' \in {"fatal", "sweep"} => pc \in {"fatal", "sweep"}
<1>0. faults \in Nat
  BY DEF TypeOK
<1>1. CASE Supervise
  BY <1>1, <1>0 DEF Supervise, ReapOutcome, ReapFinish, ReapEnd, Observe, ReapPcs
<1>2. CASE StopOrDrain
  BY <1>2, <1>0 DEF StopOrDrain, DrainStep, Drained, StopOnRunBudget, StopOnSpendCap, StopOnCycles
<1>3. CASE Pass
  BY <1>3, <1>0 DEF Pass, SkipPass, BeginPass, PollBlocks, PollFails, PollShutdown, PollBudgetExpired,
     PollSnapshot, PlanBlocks, PlanNoOp, PlanSelect, StartWorker, SpawnFails, SpawnFailedFinish
<1>4. CASE Wait \/ FatalExit
  BY <1>4, <1>0 DEF Wait, Tick, WaitSignal, FatalExit, FatalKill, SweepSlot, SweepEnd
<1>5. CASE Process
  BY <1>5, <1>0 DEF Process, StartInvocation, NextInvocation, AwaitBudgetWindow, BudgetWindowResets,
     Exit, NewProcess
<1>6. CASE Environment
  BY <1>6, <1>0 DEF Environment, WorkerBeats, WorkerEnds, AbortLands, Signal, StoreFault, Crash
<1>7. CASE Halted \/ UNCHANGED vars
  BY <1>7, <1>0 DEF Halted, vars
<1> QED
  BY <1>1, <1>2, <1>3, <1>4, <1>5, <1>6, <1>7 DEF Next, Program

Faultless ==
  /\ pc \notin {"fatal", "sweep"}
  /\ \A r \in RunIds : rows[r].status = "aborted-shutdown" => proc[r] = "cancelled"
  /\ reaping.id # 0 /\ reaping.status = "aborted-shutdown" => proc[reaping.id] = "cancelled"

AbortInv == faults = 0 => Faultless

LEMMA AbortStep == TypeOK /\ CoreInv /\ AbortInv /\ [Next]_vars => AbortInv'
<1> SUFFICES ASSUME TypeOK, CoreInv, AbortInv, [Next]_vars, faults' = 0 PROVE Faultless'
  BY DEF AbortInv
<1>0. Faultless /\ pc' \notin {"fatal", "sweep"}
  BY FaultlessSteps DEF AbortInv, Faultless
<1>1. ASSUME NEW r \in RunIds, ReapOutcome(r) PROVE Faultless'
  <2>1. Arbitrate(r) = "aborted-shutdown" => proc[r] = "cancelled"
    BY <1>1 DEF ReapOutcome, Reapable, Finished, Arbitrate
  <2>2. RowOutcome(rows[r].task, Arbitrate(r)) = "aborted-shutdown" => proc[r] = "cancelled"
    BY <2>1 DEF RowOutcome
  <2>3. reaping' = [id |-> r, status |-> RowOutcome(rows[r].task, Arbitrate(r))] /\ UNCHANGED <<rows, proc>>
    BY <1>1 DEF ReapOutcome, workers
  <2> QED
    BY <1>0, <2>2, <2>3 DEF Faultless
<1>2. CASE SpawnFails
  <2>1. RowOutcome(rows[Starting].task, "failed") # "aborted-shutdown"
    BY DEF RowOutcome
  <2>2. reaping' = [id |-> Starting, status |-> RowOutcome(rows[Starting].task, "failed")] /\ UNCHANGED <<rows, proc>>
    BY <1>2 DEF SpawnFails, workers
  <2> QED
    BY <1>0, <2>1, <2>2 DEF Faultless
<1>3. CASE ReapFinish \/ SpawnFailedFinish
  <2>1. reaping.id \in RunIds /\ reaping.id # 0 /\ reaping'.id = 0
    BY <1>3 DEF ReapFinish, SpawnFailedFinish, CoreInv, SpawnFailedRow, TypeOK, RunIds, NotReaping
  <2>2. PICK c : rows' = FinishRow(rows, reaping.id, reaping.status, c)
    BY <1>3 DEF ReapFinish, SpawnFailedFinish
  <2>3. UNCHANGED proc
    BY <1>3 DEF ReapFinish, SpawnFailedFinish, workers
  <2> QED
    BY <1>0, <2>1, <2>2, <2>3, FinishRowEffect DEF Faultless, TypeOK
<1>4. ASSUME NEW r \in RunIds, SweepSlot(r) PROVE Faultless'
  BY <1>0, <1>4 DEF SweepSlot, Faultless
<1>5. CASE StartInvocation
  <2>1. UNCHANGED proc /\ reaping'.id = 0
    BY <1>5 DEF StartInvocation, FreshMemory, NotReaping, workers
  <2>2. \A q \in RunIds : rows'[q].status \in {rows[q].status, "orphaned"}
    BY <1>5, RecoverRowsEffect DEF StartInvocation, TypeOK
  <2> QED
    BY <1>0, <2>1, <2>2 DEF Faultless
<1>6. ASSUME NEW t \in Tasks, PlanSelect(t) PROVE Faultless'
  <2>1. nextId \in RunIds /\ reaping.id = 0
    BY <1>6 DEF PlanSelect, TypeOK, RunIds, CoreInv, ReapingRow, ReapPcs
  <2> QED
    BY <1>0, <1>6, <2>1, StartRowEffect DEF PlanSelect, Faultless, TypeOK, workers, reap
<1>7. CASE StartWorker
  <2>1. rows[Starting].status = "running" /\ reaping.id = 0
    BY <1>7 DEF StartWorker, CoreInv, StartingRow, ReapingRow, ReapPcs
  <2> QED
    BY <1>0, <1>7, <2>1 DEF StartWorker, Faultless, TypeOK, store, reap
<1>8. ASSUME NEW r \in RunIds, WorkerEnds(r) \/ AbortLands(r) PROVE Faultless'
  <2>1. rows[r].status = "running" /\ reaping.id # r
    BY <1>8 DEF WorkerEnds, AbortLands, CoreInv, SlotRows, ReapingRow, RunIds
  <2>2. UNCHANGED <<rows, reaping>> /\ \A q \in RunIds : q # r => proc'[q] = proc[q]
    BY <1>8 DEF WorkerEnds, AbortLands, TypeOK, store, reap
  <2> QED
    BY <1>0, <2>1, <2>2 DEF Faultless, TypeOK, RunIds
<1>9. CASE Crash
  <2>1. \A q \in RunIds : proc[q] = "cancelled" => proc'[q] = "cancelled"
    BY <1>9 DEF Crash
  <2> QED
    BY <1>0, <1>9, <2>1 DEF Crash, FreshMemory, NotReaping, Faultless, store
<1>10. CASE StoreFault \/ NewProcess
  BY <1>0, <1>10 DEF StoreFault, NewProcess, FreshMemory, NotReaping, Faultless, store, workers
<1>11. CASE Quiet
  BY <1>0, <1>11 DEF Quiet, Faultless
<1> QED
  BY <1>1, <1>2, <1>3, <1>4, <1>5, <1>6, <1>7, <1>8, <1>9, <1>10, <1>11, QuietSteps

(***************************************************************************)
(* The shutdown window.                                                    *)
(***************************************************************************)

GraceInv ==
  /\ seen <= signals
  /\ stop = "Shutdown" => seen >= 1 /\ sealedAt <= elapsed /\ pc \notin {"idle", "awaitDay"}
  /\ GraceWindowKept
  /\ GraceWindowBounded

LEMMA GraceStep == TypeOK /\ GraceInv /\ [Next]_vars => GraceInv'
<1> SUFFICES ASSUME TypeOK, GraceInv, [Next]_vars PROVE GraceInv'
  OBVIOUS
<1> USE LoopConfigAssumption DEF GraceInv, GraceWindowKept, GraceWindowBounded
<1>1. CASE StopOnRunBudget \/ StopOnSpendCap \/ StopOnCycles \/ PollBudgetExpired
  BY <1>1 DEF StopOnRunBudget, StopOnSpendCap, StopOnCycles, PollBudgetExpired, Declare, TypeOK,
     clock, sigs
<1>2. CASE PollShutdown
  BY <1>2 DEF PollShutdown, Declare, TypeOK, clock
<1>3. CASE WaitSignal
  BY <1>3 DEF WaitSignal, ApplySignal, SmallerOf, TypeOK, StopReason, clock
<1>4. CASE Drained
  BY <1>4 DEF Drained, TypeOK, RunningPcs, clock, sigs
<1>5. CASE Tick \/ PollBlocks \/ PlanBlocks
  BY <1>5 DEF Tick, PollBlocks, PlanBlocks, TypeOK, RunningPcs, drain, sigs
<1>6. CASE StartInvocation \/ NewProcess \/ Crash
  BY <1>6 DEF StartInvocation, NewProcess, Crash, FreshMemory, TypeOK, sigs
<1>7. CASE Signal
  BY <1>7 DEF Signal, TypeOK, drain, clock
<1>8. CASE NextInvocation \/ AwaitBudgetWindow \/ BudgetWindowResets \/ Exit
  BY <1>8 DEF NextInvocation, AwaitBudgetWindow, BudgetWindowResets, Exit, TypeOK, RunningPcs,
     ReapPcs, drain, clock, sigs
<1>9. ASSUME UNCHANGED <<drain, clock, sigs>>, pc' \notin {"idle", "awaitDay"} \/ pc' = pc,
             pc' \in RunningPcs => pc \in RunningPcs
      PROVE  GraceInv'
  BY <1>9 DEF TypeOK, drain, clock, sigs
<1>10. CASE (\E r \in RunIds : ReapOutcome(r)) \/ ReapFinish \/ ReapEnd \/ Observe \/ DrainStep
  BY <1>9, <1>10 DEF ReapOutcome, ReapFinish, ReapEnd, Observe, DrainStep, RunningPcs, ReapPcs
<1>11. CASE SkipPass \/ BeginPass \/ PollFails \/ PollSnapshot \/ PlanNoOp
  BY <1>9, <1>11 DEF SkipPass, BeginPass, MayPass, PollFails, PollSnapshot, PlanNoOp, RunningPcs
<1>12. CASE (\E t \in Tasks : PlanSelect(t)) \/ StartWorker \/ SpawnFails \/ SpawnFailedFinish
  BY <1>9, <1>12 DEF PlanSelect, StartWorker, SpawnFails, SpawnFailedFinish, RunningPcs
<1>13. CASE FatalKill \/ (\E r \in RunIds : SweepSlot(r)) \/ SweepEnd \/ StoreFault
  BY <1>9, <1>13 DEF FatalKill, SweepSlot, SweepEnd, StoreFault, RunningPcs, ReapPcs
<1>14. CASE \E r \in RunIds : WorkerBeats(r) \/ WorkerEnds(r) \/ AbortLands(r)
  BY <1>9, <1>14 DEF WorkerBeats, WorkerEnds, AbortLands
<1>15. CASE Halted \/ UNCHANGED vars
  BY <1>9, <1>15 DEF Halted, vars, drain, clock, sigs
<1> QED
  BY <1>1, <1>2, <1>3, <1>4, <1>5, <1>6, <1>7, <1>8, <1>10, <1>11, <1>12, <1>13, <1>14, <1>15
     DEF Next, Program, Environment, Supervise, StopOrDrain, Pass, Wait, FatalExit, Process

(***************************************************************************)
(* The concurrency cap: the pass that adds a slot found a free one, and no *)
(* other step adds a slot in between.                                      *)
(***************************************************************************)

CapacityInv ==
  /\ WithinCapacity
  /\ pc \in {"poll", "plan", "start"} => Cardinality(slots) < MaxConcurrentWorkers

LEMMA SlotsFinite ==
  ASSUME TypeOK, NEW r
  PROVE  /\ IsFiniteSet(slots) /\ Cardinality(slots) \in Nat
         /\ Cardinality(slots \cup {r}) <= Cardinality(slots) + 1
         /\ Cardinality(slots \ {r}) <= Cardinality(slots)
<1>1. IsFiniteSet(RunIds)
  BY RunStateAssumption, FS_Interval DEF RunIds
<1>2. IsFiniteSet(slots)
  BY <1>1, FS_Subset DEF TypeOK
<1>3. Cardinality(slots) \in Nat
  BY <1>2, FS_CardinalityType
<1>4. Cardinality(slots \cup {r}) <= Cardinality(slots) + 1
  BY <1>2, <1>3, FS_AddElement
<1>5. Cardinality(slots \ {r}) <= Cardinality(slots)
  BY <1>2, <1>3, FS_RemoveElement
<1> QED
  BY <1>2, <1>3, <1>4, <1>5

LEMMA CapacityStep == TypeOK /\ TypeOK' /\ CapacityInv /\ [Next]_vars => CapacityInv'
<1> SUFFICES ASSUME TypeOK, TypeOK', CapacityInv, [Next]_vars PROVE CapacityInv'
  OBVIOUS
<1>0. Cardinality(slots) \in Nat /\ Cardinality(slots') \in Nat /\ MaxConcurrentWorkers \in Nat
  <2>1. IsFiniteSet(slots')
    <3>1. IsFiniteSet(RunIds)
      BY RunStateAssumption, FS_Interval DEF RunIds
    <3> QED
      BY <3>1, FS_Subset DEF TypeOK
  <2> QED
    BY <2>1, SlotsFinite, FS_CardinalityType, LoopConfigAssumption
<1> USE DEF CapacityInv, WithinCapacity
<1>1. CASE StartWorker
  <2>1. Cardinality(slots \cup {Starting}) <= Cardinality(slots) + 1
    BY SlotsFinite
  <2> QED
    BY <1>0, <1>1, <2>1 DEF StartWorker
<1>2. CASE BeginPass
  BY <1>0, <1>2 DEF BeginPass, PassAllowed, super
<1>3. ASSUME NEW r, slots' = slots \ {r}, pc' \in {"poll", "plan", "start"} => pc' = pc
      PROVE  CapacityInv'
  <2>1. Cardinality(slots \ {r}) <= Cardinality(slots)
    BY SlotsFinite
  <2> QED
    BY <1>0, <1>3, <2>1
<1>4. ASSUME NEW r \in RunIds, ReapOutcome(r) \/ SweepSlot(r) PROVE CapacityInv'
  BY <1>3, <1>4 DEF ReapOutcome, SweepSlot, DropSlot
<1>5. CASE StoreFault
  <2>1. slots' = slots \/ \E r \in RunIds : slots' = slots \ {r}
    BY <1>5 DEF StoreFault, DropSlot, super, TypeOK
  <2> QED
    BY <1>0, <1>3, <1>5, <2>1 DEF StoreFault
<1>6. CASE StartInvocation \/ NewProcess \/ Crash
  BY <1>0, <1>6, FS_EmptySet DEF StartInvocation, NewProcess, Crash, FreshMemory
<1>7. ASSUME UNCHANGED slots, pc' \in {"poll", "plan", "start"} => pc \in {"poll", "plan", "start"}
      PROVE  CapacityInv'
  BY <1>7
<1>8. CASE ReapFinish \/ ReapEnd \/ Observe \/ DrainStep \/ Drained
  BY <1>7, <1>8 DEF ReapFinish, ReapEnd, Observe, DrainStep, Drained, super
<1>9. CASE StopOnRunBudget \/ StopOnSpendCap \/ StopOnCycles \/ SkipPass
  BY <1>7, <1>9 DEF StopOnRunBudget, StopOnSpendCap, StopOnCycles, SkipPass, super
<1>10. CASE PollBlocks \/ PollFails \/ PollShutdown \/ PollBudgetExpired \/ PollSnapshot
  BY <1>7, <1>10 DEF PollBlocks, PollFails, PollShutdown, PollBudgetExpired, PollSnapshot, super
<1>11. CASE PlanBlocks \/ PlanNoOp \/ (\E t \in Tasks : PlanSelect(t)) \/ SpawnFails
              \/ SpawnFailedFinish
  BY <1>7, <1>11 DEF PlanBlocks, PlanNoOp, PlanSelect, SpawnFails, SpawnFailedFinish, super
<1>12. CASE Tick \/ WaitSignal \/ FatalKill \/ SweepEnd
  BY <1>7, <1>12 DEF Tick, WaitSignal, FatalKill, SweepEnd, super
<1>13. CASE NextInvocation \/ AwaitBudgetWindow \/ BudgetWindowResets \/ Exit
  BY <1>7, <1>13 DEF NextInvocation, AwaitBudgetWindow, BudgetWindowResets, Exit, super
<1>14. CASE Signal \/ \E r \in RunIds : WorkerBeats(r) \/ WorkerEnds(r) \/ AbortLands(r)
  BY <1>7, <1>14 DEF Signal, WorkerBeats, WorkerEnds, AbortLands, super
<1>15. CASE Halted \/ UNCHANGED vars
  BY <1>7, <1>15 DEF Halted, vars
<1> QED
  BY <1>1, <1>2, <1>4, <1>5, <1>6, <1>8, <1>9, <1>10, <1>11, <1>12, <1>13, <1>14, <1>15
     DEF Next, Program, Environment, Supervise, StopOrDrain, Pass, Wait, FatalExit, Process

-----------------------------------------------------------------------------
(***************************************************************************)
(* The clock.  What bounds an invocation is not the drain's deadline alone *)
(* (a spend cap has none, and the window after the aborts is set anew) but *)
(* the start times: every slot was started within the run budget, the next *)
(* observation after its timeout gives it an intent, and no tick passes a  *)
(* slot whose abort has not landed.                                        *)
(***************************************************************************)

LEMMA LeastNat ==
  ASSUME NEW T, T \subseteq Nat, T # {}
  PROVE  \E x \in T : \A y \in T : x <= y
<1>1. PICK x \in T : \A y \in T : ~(<<y, x>> \in OpToRel(<, Nat))
  BY WFMin, NatLessThanWellFounded
<1>2. \A y \in T : ~(y < x)
  BY <1>1 DEF OpToRel
<1> QED
  BY <1>2

(* Every slot carries its intent: the abort is issued, or a tick away. *)
Doomed == \A r \in slots : slot[r].intent # "none"

(* The passes run within the budget, and so does every start. *)
PassInv ==
  /\ pc \notin ReapPcs => scan = 0
  /\ pc \in {"poll", "plan", "start", "spawnFailed"} => stop = "none"
  /\ pc \in {"reapDrain", "drained"} => stop # "none"
  /\ pc = "poll" => elapsed <= RunBudget
  /\ pc \in {"plan", "start", "spawnFailed"} =>
       planAt < RunBudget /\ elapsed <= planAt + PlanDelay
  /\ \A r \in slots : slot[r].started < RunBudget /\ proc[r] \notin {"none", "lost"}

(* After the observation no slot without an intent is past its timeout. *)
ObservedInv ==
  pc \in {"reap2", "decide"} =>
    \A r \in slots : slot[r].intent = "none" => elapsed < slot[r].started + WorkerTimeout

(* Before a stop is declared the clock is within the overrun. *)
OverrunInv ==
  pc \in RunningPcs /\ stop = "none" =>
    elapsed <= Overrun /\ (pc = "wait" => elapsed < Overrun)

(* The last tick: whatever is left has finished and is ahead of the walk. *)
LastTick ==
  /\ elapsed = Overrun + DrainWindow + 1
  /\ \/ slots = {} /\ pc # "wait"
     \/ pc = "reap1" /\ \A r \in slots : Finished(r) /\ r > scan

DrainInv ==
  pc \in RunningPcs /\ stop # "none" =>
    /\ stop # "SpendSoftCap" /\ ~Doomed => drainDeadline <= Overrun + ShutdownBudget
    /\ pc \in {"reapDrain", "drained"} => Doomed
    /\ pc = "wait" /\ ~Doomed => elapsed < Overrun + DrainWindow
    /\ elapsed <= Overrun + DrainWindow \/ LastTick

(* The drain of the spend cap aborts nobody: its deadline never comes. *)
SpendInv ==
  /\ stop # "none" => drainReason # "none"
  /\ drainReason = "SpendSoftCap" =>
       /\ stop = "SpendSoftCap" /\ drainDeadline = DurationMax
       /\ pc \in {"reapDrain", "drained"} => slots = {}
  /\ SpendCapNeverAborts

ClockInv == PassInv /\ ObservedInv /\ OverrunInv /\ DrainInv /\ SpendInv

LEMMA Windows ==
  /\ Overrun \in Nat /\ Overrun >= RunBudget + 1 /\ Overrun >= RunBudget + PlanDelay
  /\ DrainWindow \in Nat /\ DrainWindow >= 1 /\ DrainWindow <= WorkerTimeout
  /\ stop # "SpendSoftCap" => DrainWindow <= ShutdownBudget
  /\ DrainWindow \in {WorkerTimeout, ShutdownBudget}
  BY LoopConfigAssumption, LoopBoundsAssumption
     DEF Overrun, DrainWindow, LargerOf, SmallerOf

(* A frame for the steps that touch neither clock, slots nor stop. *)
LEMMA ClockFrame ==
  ASSUME TypeOK, ClockInv, UNCHANGED <<clock, super, drain>>,
         (pc' = pc /\ UNCHANGED <<planAt, scan>>) \/ (pc' \notin RunningPcs /\ scan' = 0),
         \A r \in RunIds : proc'[r] \in {proc[r], "done", "failed", "cancelled"}
  PROVE  ClockInv'
<1> USE DEF clock, super, drain, Doomed
<1>1. UNCHANGED <<Overrun, DrainWindow, Doomed>>
  BY DEF Overrun, DrainWindow
<1>2. PassInv' /\ ObservedInv' /\ OverrunInv'
  BY <1>1 DEF ClockInv, PassInv, ObservedInv, OverrunInv, RunningPcs, ReapPcs, TypeOK
<1>3. DrainInv'
  BY <1>1 DEF ClockInv, DrainInv, LastTick, RunningPcs, ReapPcs, TypeOK, Finished
<1>4. SpendInv'
  BY DEF ClockInv, SpendInv, SpendCapNeverAborts, RunningPcs, ReapPcs
<1> QED
  BY <1>2, <1>3, <1>4 DEF ClockInv

LEMMA ClockStep == TypeOK /\ CoreInv /\ ClockInv /\ [Next]_vars => ClockInv'
<1> SUFFICES ASSUME TypeOK, CoreInv, ClockInv, [Next]_vars PROVE ClockInv'
  OBVIOUS
<1> USE LoopConfigAssumption, LoopBoundsAssumption
<1>w. Overrun' = Overrun /\ (stop' = stop => DrainWindow' = DrainWindow)
  BY DEF Overrun, DrainWindow
<1>1. ASSUME NEW r \in RunIds, ReapOutcome(r) PROVE ClockInv'
  <2>1. /\ pc' = pc /\ pc \in ReapPcs /\ slots' = slots \ {r} /\ scan' = r
        /\ UNCHANGED <<clock, drain, planAt, proc>> /\ r > scan
        /\ \A q \in slots' : slot'[q] = slot[q]
        /\ \A q \in slots : q > scan /\ q < r => ~Finished(q)
    BY <1>1 DEF ReapOutcome, DropSlot, Reapable, TypeOK
  <2>2. PassInv' /\ ObservedInv' /\ OverrunInv'
    BY <2>1, <1>w, Windows DEF ClockInv, PassInv, ObservedInv, OverrunInv, RunningPcs, ReapPcs, clock, drain
  <2>3. ~Doomed' => ~Doomed
    BY <2>1 DEF Doomed
  <2>4. LastTick => LastTick'
    BY <2>1, <1>w, Windows DEF LastTick, Finished, TypeOK, RunIds, clock, drain
  <2>5. DrainInv'
    BY <2>1, <2>3, <2>4, <1>w, Windows DEF ClockInv, DrainInv, clock, drain, Doomed
  <2>6. SpendInv'
    BY <2>1 DEF ClockInv, SpendInv, SpendCapNeverAborts, drain
  <2> QED
    BY <2>2, <2>5, <2>6 DEF ClockInv
<1>2. CASE ReapFinish
  <2>1. UNCHANGED <<clock, super, drain, planAt, scan, proc>> /\ pc' = pc
    BY <1>2 DEF ReapFinish, workers
  <2> QED
    BY <2>1, ClockFrame
<1>3. CASE ReapEnd
  <2>1. UNCHANGED <<clock, super, drain, planAt, proc>> /\ scan' = 0 /\ pc \in ReapPcs
        /\ pc' = (CASE pc = "reap1" -> "observe" [] pc = "reap2" -> "decide" [] OTHER -> "drained")
    BY <1>3 DEF ReapEnd, workers
  <2>2. PassInv' /\ ObservedInv' /\ OverrunInv'
    BY <2>1, <1>w, Windows DEF ClockInv, PassInv, ObservedInv, OverrunInv, RunningPcs, ReapPcs, clock, super,
       drain
  <2>3. ASSUME pc = "reap1", \A r \in slots : Finished(r) /\ r > scan PROVE slots = {}
    <3> SUFFICES ASSUME slots # {} PROVE FALSE
      OBVIOUS
    <3>0. slots \subseteq Nat
      BY DEF TypeOK, RunIds
    <3>1. PICK r \in slots : \A q \in slots : r <= q
      BY <3>0, LeastNat
    <3>2. Reapable(r)
      BY <3>1, <2>3 DEF Reapable, TypeOK, RunIds
    <3> QED
      BY <3>2, <1>3 DEF ReapEnd
  <2>4. LastTick => LastTick'
    BY <2>1, <2>3, <1>w, Windows DEF LastTick, clock, super, drain, ReapPcs
  <2>5. Doomed' = Doomed
    BY <2>1 DEF Doomed, super
  <2>6. DrainInv'
    BY <2>1, <2>4, <2>5, <1>w, Windows DEF ClockInv, DrainInv, clock, drain, RunningPcs, ReapPcs
  <2>7. SpendInv'
    BY <2>1 DEF ClockInv, SpendInv, SpendCapNeverAborts, drain, super, ReapPcs
  <2> QED
    BY <2>2, <2>6, <2>7 DEF ClockInv
<1>4. CASE Observe
  <2>0. UNCHANGED <<clock, slots, drain, planAt, scan, proc>> /\ pc = "observe" /\ pc' = "reap2"
    BY <1>4 DEF Observe, reap
  <2>a. ASSUME NEW r \in slots
        PROVE  /\ slot'[r].started = slot[r].started
               /\ slot[r].intent # "none" => slot'[r].intent = slot[r].intent
               /\ slot'[r].intent \in {slot[r].intent, "Stall", "WorkerTimeout", "none"}
               /\ slot'[r].intent = "none" => ~TimedOut(r)
    <3> r \in RunIds
      BY DEF TypeOK
    <3>1. slot'[r] = [lastBeat |-> LastBeat(r), started |-> slot[r].started,
                      intent |-> IF slot[r].intent # "none" THEN slot[r].intent
                                 ELSE IF Stalled(r) THEN "Stall"
                                 ELSE IF TimedOut(r) THEN "WorkerTimeout" ELSE "none"]
      BY <1>4 DEF Observe
    <3> QED
      BY <3>1
  <2>1. /\ UNCHANGED <<clock, slots, drain, planAt, scan, proc>> /\ pc = "observe" /\ pc' = "reap2"
        /\ \A r \in slots :
             /\ slot'[r].started = slot[r].started
             /\ slot[r].intent # "none" => slot'[r].intent = slot[r].intent
             /\ slot'[r].intent \in {slot[r].intent, "Stall", "WorkerTimeout", "none"}
             /\ slot'[r].intent = "none" => ~TimedOut(r)
    BY <2>0, <2>a
  <2>2. PassInv'
    BY <2>1 DEF ClockInv, PassInv, ReapPcs, clock, drain
  <2>3. ObservedInv'
    BY <2>1 DEF ObservedInv, TimedOut, TypeOK, Slot, clock
  <2>4. OverrunInv'
    BY <2>1, <1>w, Windows DEF ClockInv, OverrunInv, clock, drain, RunningPcs, ReapPcs
  <2>5. ~Doomed' => ~Doomed
    BY <2>1 DEF Doomed
  <2>6. LastTick => LastTick'
    BY <2>1, <1>w, Windows DEF LastTick, clock, drain
  <2>7. DrainInv'
    BY <2>1, <2>5, <2>6, <1>w, Windows DEF ClockInv, DrainInv, clock, drain, RunningPcs, ReapPcs
  <2>8. SpendInv'
    BY <2>1 DEF ClockInv, SpendInv, SpendCapNeverAborts, drain
  <2> QED
    BY <2>2, <2>3, <2>4, <2>7, <2>8 DEF ClockInv
<1>5. CASE DrainStep
  <2>1. /\ UNCHANGED <<clock, slots, drain, planAt, scan, proc>> /\ pc = "decide" /\ stop # "none"
    BY <1>5 DEF DrainStep, reap, workers
  <2>2. elapsed <= Overrun + DrainWindow \/ (LastTick /\ slots = {})
    BY <2>1 DEF ClockInv, DrainInv, LastTick, RunningPcs
  <2>3. CASE pc' = "reapDrain" /\ slot' = KillAll(drainReason)
             /\ (slots = {} \/ elapsed >= drainDeadline)
    <3>1. drainReason = "SpendSoftCap" => slots = {}
      <4>1. ASSUME drainReason = "SpendSoftCap" PROVE elapsed < drainDeadline
        BY <2>1, <2>2, <4>1, <1>w, Windows, NoDeadlineAssumption
           DEF ClockInv, SpendInv, LastTick, TypeOK, Overrun, LargerOf
      <4> QED
        BY <4>1, <2>3 DEF TypeOK
    <3>2. \A r \in slots : /\ slot'[r].started = slot[r].started
                           /\ slot'[r].intent \in {slot[r].intent, drainReason}
      BY <2>3 DEF KillAll, TypeOK, Slot
    <3>3. drainReason # "none" => Doomed'
      BY <2>1, <2>3 DEF KillAll, TypeOK, Slot, Doomed
    <3>4. Doomed'
      BY <3>3, <2>1 DEF ClockInv, SpendInv
    <3>5. PassInv' /\ ObservedInv' /\ OverrunInv'
      BY <2>1, <2>3, <3>2, <1>w, Windows DEF ClockInv, PassInv, ObservedInv, OverrunInv, RunningPcs, ReapPcs,
         clock, drain
    <3>6. DrainInv'
      BY <2>1, <2>2, <2>3, <3>4, <1>w, Windows DEF DrainInv, LastTick, clock, drain
    <3>7. SpendInv'
      BY <2>1, <2>3, <3>1, <3>2 DEF ClockInv, SpendInv, SpendCapNeverAborts, drain
    <3> QED
      BY <3>5, <3>6, <3>7 DEF ClockInv
  <2>4. CASE pc' = "wait" /\ slot' = slot /\ slots # {} /\ elapsed < drainDeadline
    <3>1. PassInv' /\ ObservedInv' /\ OverrunInv'
      BY <2>1, <2>4, <1>w, Windows DEF ClockInv, PassInv, ObservedInv, OverrunInv, RunningPcs, ReapPcs,
         clock, drain
    <3>2. ASSUME ~Doomed PROVE elapsed < Overrun + DrainWindow
      <4>1. PICK r \in slots : slot[r].intent = "none"
        BY <3>2 DEF Doomed
      <4>2. slot[r].started \in Nat /\ elapsed < RunBudget + WorkerTimeout
        BY <2>1, <4>1 DEF ClockInv, PassInv, ObservedInv, TypeOK, Slot
      <4>3. CASE stop = "SpendSoftCap"
        BY <4>2, <4>3, <1>w, Windows DEF DrainWindow, TypeOK
      <4>4. CASE stop # "SpendSoftCap"
        BY <2>1, <2>4, <3>2, <4>2, <4>4, <1>w, Windows DEF ClockInv, DrainInv, RunningPcs, TypeOK
      <4> QED
        BY <4>3, <4>4
    <3>3. Doomed' = Doomed
      BY <2>1, <2>4 DEF Doomed
    <3>4. DrainInv'
      BY <2>1, <2>2, <2>4, <3>2, <3>3, <1>w, Windows DEF ClockInv, DrainInv, LastTick, RunningPcs, clock, drain
    <3>5. SpendInv'
      BY <2>1, <2>4 DEF ClockInv, SpendInv, SpendCapNeverAborts, drain
    <3> QED
      BY <3>1, <3>4, <3>5 DEF ClockInv
  <2> QED
    BY <2>3, <2>4, <1>5 DEF DrainStep
<1>6. CASE Drained
  <2>1. /\ UNCHANGED <<clock, super, stop, drainReason, planAt, scan, proc>> /\ pc = "drained"
        /\ \/ slots = {} /\ pc' = "ended" /\ drainDeadline' = drainDeadline
           \/ slots # {} /\ pc' = "wait" /\ drainDeadline' = elapsed + ShutdownBudget
    BY <1>6 DEF Drained, reap, workers
  <2>2. PassInv' /\ ObservedInv'
    BY <2>1 DEF ClockInv, PassInv, ObservedInv, ReapPcs, clock, super
  <2>3. stop # "none" => Doomed' /\ Doomed
    BY <2>1 DEF ClockInv, DrainInv, Doomed, RunningPcs, super
  <2>4. OverrunInv'
    BY <2>1 DEF ClockInv, PassInv, OverrunInv
  <2>5. DrainInv'
    BY <2>1, <2>3, <1>w, Windows DEF ClockInv, DrainInv, LastTick, RunningPcs, ReapPcs, clock, super
  <2>6. SpendInv'
    BY <2>1 DEF ClockInv, SpendInv, SpendCapNeverAborts, super
  <2> QED
    BY <2>2, <2>4, <2>5, <2>6 DEF ClockInv
<1>7. CASE StopOnRunBudget \/ StopOnSpendCap \/ StopOnCycles \/ PollBudgetExpired \/ PollShutdown
  <2>1. /\ UNCHANGED <<clock, super, planAt, scan, proc>> /\ pc \in {"decide", "poll"} /\ pc' = "wait"
        /\ stop = "none" /\ stop' # "none" /\ drainReason' = stop'
        /\ \/ stop' = "SpendSoftCap" /\ drainDeadline' = DurationMax
           \/ stop' # "SpendSoftCap" /\ drainDeadline' = elapsed + ShutdownBudget
    BY <1>7 DEF StopOnRunBudget, StopOnSpendCap, StopOnCycles, PollBudgetExpired, PollShutdown,
       Declare, reap, workers, ClockInv, PassInv
  <2>2. PassInv' /\ ObservedInv' /\ OverrunInv'
    BY <2>1 DEF ClockInv, PassInv, ObservedInv, OverrunInv, ReapPcs, clock, super
  <2>3. elapsed <= Overrun
    BY <2>1, <1>w, Windows DEF ClockInv, OverrunInv, RunningPcs
  <2>4. DrainWindow' \in Nat /\ DrainWindow' >= 1
    BY DEF DrainWindow, SmallerOf
  <2>5. DrainInv'
    <3>0. elapsed' = elapsed /\ elapsed \in Nat /\ Overrun' = Overrun /\ Overrun \in Nat
      BY <2>1, <1>w, Windows DEF clock, TypeOK
    <3>1. elapsed < Overrun + DrainWindow' /\ elapsed <= Overrun + DrainWindow'
      <4> DEFINE W == DrainWindow'
      <4>1. W \in Nat /\ W >= 1
        BY <2>4
      <4> HIDE DEF W
      <4>2. elapsed < Overrun + W /\ elapsed <= Overrun + W
        BY <4>1, <3>0, <2>3
      <4> QED
        BY <4>2 DEF W
    <3>2. stop' # "SpendSoftCap" => drainDeadline' <= Overrun' + ShutdownBudget
      BY <2>1, <2>3, <3>0
    <3> QED
      BY <2>1, <3>0, <3>1, <3>2 DEF DrainInv
  <2>6. SpendInv'
    BY <2>1 DEF ClockInv, SpendInv, SpendCapNeverAborts, super
  <2> QED
    BY <2>2, <2>5, <2>6 DEF ClockInv
<1>8. CASE SkipPass \/ BeginPass \/ PollFails \/ PollSnapshot \/ PlanNoOp \/ SpawnFails
            \/ SpawnFailedFinish \/ (\E t \in Tasks : PlanSelect(t))
  <2>1. /\ UNCHANGED <<clock, super, drain, scan, proc>> /\ stop = "none"
        /\ \/ pc = "decide" /\ pc' \in {"wait", "poll"} /\ elapsed < RunBudget
           \/ pc = "poll" /\ pc' = "wait"
           \/ pc = "poll" /\ pc' = "plan" /\ elapsed < RunBudget /\ planAt' = elapsed
           \/ pc \in {"plan", "spawnFailed"} /\ pc' = "wait"
           \/ pc \in {"plan", "start"} /\ pc' \in {"start", "spawnFailed"} /\ planAt' = planAt
    BY <1>8 DEF SkipPass, BeginPass, PollFails, PollSnapshot, PlanNoOp, SpawnFails, SpawnFailedFinish,
       PlanSelect, MayPass, reap, workers, ClockInv, PassInv
  <2>2. PassInv'
    BY <2>1 DEF ClockInv, PassInv, ReapPcs, clock, super, drain, TypeOK
  <2>3. ObservedInv' /\ DrainInv'
    BY <2>1 DEF ObservedInv, DrainInv, drain
  <2>4. OverrunInv'
    BY <2>1, <1>w, Windows DEF ClockInv, PassInv, OverrunInv, RunningPcs, clock, drain, TypeOK
  <2>5. SpendInv'
    BY <2>1 DEF ClockInv, SpendInv, SpendCapNeverAborts, super, drain
  <2> QED
    BY <2>2, <2>3, <2>4, <2>5 DEF ClockInv
<1>9. CASE StartWorker
  <2>0. Starting \in RunIds
    BY <1>9, RunStateAssumption DEF StartWorker, CoreInv, StartingRow, Starting, TypeOK, RunIds
  <2>1. /\ UNCHANGED <<clock, drain, scan>> /\ pc = "start" /\ pc' = "wait"
        /\ proc' = [proc EXCEPT ![Starting] = "working"]
        /\ slots' = slots \cup {Starting}
        /\ slot' = [slot EXCEPT ![Starting] =
                      [lastBeat |-> planAt, started |-> planAt, intent |-> "none"]]
    BY <1>9 DEF StartWorker, reap
  <2>2. stop = "none" /\ planAt < RunBudget /\ elapsed <= planAt + PlanDelay
    BY <2>1 DEF ClockInv, PassInv
  <2>3. \A r \in slots' : /\ slot'[r].started < RunBudget /\ slot'[r].intent # "SpendSoftCap"
                           /\ proc'[r] \notin {"none", "lost"}
    BY <2>0, <2>1, <2>2 DEF ClockInv, PassInv, SpendInv, SpendCapNeverAborts, TypeOK, Slot
  <2>4. PassInv' /\ SpendInv'
    BY <2>1, <2>2, <2>3 DEF ClockInv, PassInv, SpendInv, SpendCapNeverAborts, ReapPcs, clock, drain
  <2>5. ObservedInv' /\ DrainInv'
    BY <2>1, <2>2 DEF ObservedInv, DrainInv, drain
  <2>6. OverrunInv'
    BY <2>1, <2>2, <1>w, Windows DEF OverrunInv, clock, drain, TypeOK
  <2> QED
    BY <2>4, <2>5, <2>6 DEF ClockInv
<1>10. CASE PollBlocks \/ PlanBlocks
  <2>1. /\ UNCHANGED <<super, drain, planAt, scan, proc, pc>>
        /\ elapsed' = elapsed + 1 /\ stop = "none"
        /\ \/ pc = "poll" /\ elapsed < RunBudget
           \/ pc \in {"plan", "start"} /\ elapsed < planAt + PlanDelay
    BY <1>10 DEF PollBlocks, PlanBlocks, reap, workers, ClockInv, PassInv
  <2>2. PassInv'
    BY <2>1 DEF ClockInv, PassInv, ReapPcs, super, drain, TypeOK
  <2>3. ObservedInv' /\ DrainInv'
    BY <2>1 DEF ObservedInv, DrainInv, drain
  <2>4. OverrunInv'
    BY <2>1, <1>w, Windows DEF ClockInv, PassInv, OverrunInv, drain, TypeOK
  <2>5. SpendInv'
    BY <2>1 DEF ClockInv, SpendInv, SpendCapNeverAborts, super, drain
  <2> QED
    BY <2>2, <2>3, <2>4, <2>5 DEF ClockInv
<1>11. CASE Tick
  <2>1. /\ UNCHANGED <<super, drain, planAt, scan, proc>> /\ pc = "wait" /\ pc' = "reap1"
        /\ elapsed' = elapsed + 1 /\ scan = 0
        /\ \A r \in slots : slot[r].intent # "none" => proc[r] # "working"
    BY <1>11 DEF Tick, reap, workers, ClockInv, PassInv, ReapPcs
  <2>2. PassInv' /\ ObservedInv'
    BY <2>1 DEF ClockInv, PassInv, ObservedInv, ReapPcs, super, drain
  <2>3. OverrunInv'
    BY <2>1, <1>w, Windows DEF ClockInv, OverrunInv, RunningPcs, drain, TypeOK
  <2>4. Doomed' = Doomed
    BY <2>1 DEF Doomed, super
  <2>5. ASSUME stop # "none", Doomed, elapsed = Overrun + DrainWindow PROVE LastTick'
    <3>1. \A r \in slots : Finished(r) /\ r > 0
      BY <2>1, <2>5 DEF Doomed, Finished, ClockInv, PassInv, TypeOK, ProcState, RunIds
    <3>2. \A r \in slots' : proc'[r] \in {"done", "failed", "cancelled"} /\ r > scan'
      BY <2>1, <3>1 DEF Finished, super
    <3>3. elapsed' = Overrun' + DrainWindow' + 1
      BY <2>1, <2>5, <1>w DEF drain
    <3> QED
      BY <2>1, <3>2, <3>3 DEF LastTick, Finished
  <2>6. DrainInv'
    BY <2>1, <2>4, <2>5, <1>w, Windows DEF ClockInv, DrainInv, LastTick, RunningPcs, drain, TypeOK
  <2>7. SpendInv'
    BY <2>1 DEF ClockInv, SpendInv, SpendCapNeverAborts, super, drain
  <2> QED
    BY <2>2, <2>3, <2>6, <2>7 DEF ClockInv
<1>12. CASE WaitSignal
  <2>1. /\ UNCHANGED <<clock, super, planAt, scan, proc>> /\ pc = "wait" /\ pc' = "reap1" /\ scan = 0
        /\ drainReason' = "Shutdown"
        /\ stop' = (IF stop = "none" THEN "Shutdown" ELSE stop)
        /\ \/ stop = "Shutdown" /\ drainDeadline' = elapsed
           \/ stop = "none" /\ drainDeadline' = elapsed + ShutdownBudget
           \/ /\ stop \notin {"none", "Shutdown"}
              /\ drainDeadline' = SmallerOf(drainDeadline, elapsed + ShutdownBudget)
    BY <1>12 DEF WaitSignal, ApplySignal, reap, workers, ClockInv, PassInv, ReapPcs
  <2>2. PassInv' /\ ObservedInv' /\ OverrunInv'
    BY <2>1 DEF ClockInv, PassInv, ObservedInv, OverrunInv, ReapPcs, clock, super
  <2>3. Doomed' = Doomed
    BY <2>1 DEF Doomed, super
  <2>4. ASSUME stop = "none" PROVE DrainInv'
    <3>1. elapsed < Overrun
      BY <2>1, <2>4 DEF ClockInv, OverrunInv, RunningPcs
    <3>2. DrainWindow' \in Nat
      BY DEF DrainWindow, SmallerOf
    <3>3. elapsed' <= Overrun' + DrainWindow' /\ drainDeadline' <= Overrun' + ShutdownBudget
      <4> DEFINE W == DrainWindow'
      <4> HIDE DEF W
      <4>1. W \in Nat
        BY <3>2 DEF W
      <4>2. elapsed <= Overrun + W /\ drainDeadline' <= Overrun + ShutdownBudget
        BY <4>1, <3>1, <2>1, <2>4, Windows DEF TypeOK
      <4> QED
        BY <4>2, <1>w, <2>1 DEF W, clock
    <3> QED
      BY <2>1, <3>3 DEF DrainInv
  <2>5. ASSUME stop # "none" PROVE DrainInv'
    <3>1. stop' = stop /\ elapsed <= Overrun + DrainWindow
          /\ (~Doomed => elapsed < Overrun + DrainWindow)
      BY <2>1, <2>5 DEF ClockInv, DrainInv, LastTick, RunningPcs
    <3>2. stop # "SpendSoftCap" /\ ~Doomed => drainDeadline <= Overrun + ShutdownBudget
      BY <2>1, <2>5 DEF ClockInv, DrainInv, RunningPcs
    <3>3. stop # "SpendSoftCap" /\ ~Doomed => drainDeadline' <= Overrun + ShutdownBudget
      BY <2>1, <2>5, <3>1, <3>2, Windows DEF SmallerOf, TypeOK
    <3> QED
      BY <2>1, <2>3, <3>1, <3>3, <1>w DEF DrainInv, clock
  <2>6. SpendInv'
    BY <2>1 DEF ClockInv, SpendInv, SpendCapNeverAborts, super
  <2> QED
    BY <2>2, <2>4, <2>5, <2>6 DEF ClockInv
<1>13. CASE StartInvocation \/ NewProcess \/ Crash
  <2>1. slots' = {} /\ stop' = "none" /\ drainReason' = "none" /\ scan' = 0
        /\ ((pc' = "reap1" /\ elapsed' = 0) \/ pc' \in {"idle", "dead"})
    BY <1>13 DEF StartInvocation, NewProcess, Crash, FreshMemory
  <2>2. PassInv' /\ ObservedInv' /\ DrainInv' /\ SpendInv'
    BY <2>1 DEF PassInv, ObservedInv, DrainInv, SpendInv, SpendCapNeverAborts, ReapPcs
  <2>3. OverrunInv'
    BY <2>1, <1>w, Windows DEF OverrunInv, RunningPcs, ReapPcs
  <2> QED
    BY <2>2, <2>3 DEF ClockInv
<1>14. CASE StoreFault \/ FatalKill \/ (\E r \in RunIds : SweepSlot(r)) \/ SweepEnd
  <2>1. /\ slots' \subseteq slots /\ scan' = 0 /\ pc' \in {"fatal", "sweep", "dead"}
        /\ UNCHANGED <<drain, proc>>
        /\ \A r \in slots' : /\ slot'[r].started = slot[r].started
                             /\ slot'[r].intent \in {slot[r].intent, "Drained"}
    <3>1. CASE StoreFault
      BY <3>1 DEF StoreFault, DropSlot, super, TypeOK
    <3>2. CASE FatalKill
      BY <3>2 DEF FatalKill, KillAll, workers, reap, TypeOK, Slot, ClockInv, PassInv, ReapPcs
    <3>3. CASE \E r \in RunIds : SweepSlot(r)
      BY <3>3 DEF SweepSlot, DropSlot, reap, TypeOK, ClockInv, PassInv, ReapPcs
    <3>4. CASE SweepEnd
      BY <3>4 DEF SweepEnd, super, reap, workers, ClockInv, PassInv, ReapPcs
    <3> QED
      BY <1>14, <3>1, <3>2, <3>3, <3>4
  <2>2. PassInv' /\ SpendInv'
    BY <2>1 DEF ClockInv, PassInv, SpendInv, SpendCapNeverAborts, ReapPcs, drain
  <2>3. ObservedInv' /\ OverrunInv' /\ DrainInv'
    BY <2>1 DEF ObservedInv, OverrunInv, DrainInv, RunningPcs, ReapPcs
  <2> QED
    BY <2>2, <2>3 DEF ClockInv
<1>15. CASE NextInvocation \/ AwaitBudgetWindow \/ BudgetWindowResets \/ Exit
  <2>1. /\ UNCHANGED <<super, drain, scan>> /\ pc' \in {"idle", "awaitDay", "exited"}
        /\ slots = {} /\ scan = 0
    BY <1>15 DEF NextInvocation, AwaitBudgetWindow, BudgetWindowResets, Exit, reap, CoreInv, AtRest,
       ClockInv, PassInv, ReapPcs
  <2>2. PassInv' /\ SpendInv'
    BY <2>1 DEF ClockInv, PassInv, SpendInv, SpendCapNeverAborts, ReapPcs, super, drain
  <2>3. ObservedInv' /\ OverrunInv' /\ DrainInv'
    BY <2>1 DEF ObservedInv, OverrunInv, DrainInv, RunningPcs, ReapPcs
  <2> QED
    BY <2>2, <2>3 DEF ClockInv
<1>16. CASE (\E r \in RunIds : WorkerBeats(r) \/ WorkerEnds(r) \/ AbortLands(r)) \/ Signal
  <2>1. UNCHANGED <<clock, super, drain, planAt, scan, pc>>
    BY <1>16 DEF WorkerBeats, WorkerEnds, AbortLands, Signal, reap
  <2>2. \A r \in RunIds : proc'[r] \in {proc[r], "done", "failed", "cancelled"}
    BY <1>16 DEF WorkerBeats, WorkerEnds, AbortLands, Signal, workers, TypeOK
  <2> QED
    BY <2>1, <2>2, ClockFrame
<1>17. CASE Halted \/ UNCHANGED vars
  <2>1. UNCHANGED <<clock, super, drain, planAt, scan, proc, pc>>
    BY <1>17 DEF Halted, vars, clock, super, drain
  <2> QED
    BY <2>1, ClockFrame
<1> QED
  BY <1>1, <1>2, <1>3, <1>4, <1>5, <1>6, <1>7, <1>8, <1>9, <1>10, <1>11, <1>12, <1>13, <1>14, <1>15,
     <1>16, <1>17
     DEF Next, Program, Environment, Supervise, StopOrDrain, Pass, Wait, FatalExit, Process

-----------------------------------------------------------------------------
(***************************************************************************)
(* Signals older than the invocation.  The receiver of a new invocation    *)
(* has not seen them, so until it does no time passes: every wait and      *)
(* every poll ends at once.  A budget the clock or the rows would have to  *)
(* reach is therefore not reached first.                                   *)
(***************************************************************************)

(* A signal of an earlier invocation reached the process. *)
OldSignal == baseline > 0 /\ pc \in RunningPcs \cup {"ended", "awaitDay"}

(* No time has passed and no run was started. *)
AtOrigin == elapsed = 0 /\ slots = {} /\ reaping.id = 0

SignalInv ==
  /\ seen <= signals /\ baseline <= signals
  /\ pc = "awaitDay" /\ baseline = 0 => seen = 0
  /\ OldSignal /\ seen = 0 =>
       /\ AtOrigin /\ stop # "RunBudgetExhausted"
       /\ pc \notin {"plan", "start", "spawnFailed"}
  /\ OldSignal /\ seen > 0 => stop \in {"Shutdown", "CycleBudget", "SpendSoftCap"}
  /\ OldSignal /\ stop = "SpendSoftCap" =>
       /\ AtOrigin /\ SpendCapReached
       /\ pc = "wait" => seen = 0

LEMMA SignalStep ==
  ASSUME TypeOK, ClockInv, SignalInv, [Next]_vars
  PROVE  SignalInv'
<1> USE LoopConfigAssumption DEF SignalInv
<1>t. /\ signals \in Nat /\ seen \in Nat /\ baseline \in Nat /\ elapsed \in Nat
      /\ slots \subseteq RunIds /\ reaping.id \in Nat
  BY DEF TypeOK
(* Steps that leave the clock, the rows, the stop and the signals alone. *)
<1>1. ASSUME UNCHANGED <<rows, clock, drain, slots, reaping, sigs>>,
             pc' \in RunningPcs \cup {"ended", "awaitDay"} =>
               /\ pc \in RunningPcs \cup {"ended", "awaitDay"}
               /\ pc' = "awaitDay" => pc = "awaitDay" \/ signals = baseline
               /\ pc' = "wait" => pc = "wait" \/ slots # {} \/ stop = "none"
               /\ pc' \in {"plan", "start", "spawnFailed"} =>
                    pc \in {"plan", "start", "spawnFailed"} \/ signals = seen
      PROVE  SignalInv'
  <2>1. SpendCapReached' = SpendCapReached
    BY <1>1 DEF SpendCapReached, Now, clock
  <2>2. /\ UNCHANGED <<seen, baseline, signals, elapsed, stop, slots, reaping>>
        /\ OldSignal' => OldSignal
    BY <1>1 DEF OldSignal, clock, drain, sigs
  <2>3. AtOrigin' = AtOrigin
    BY <2>2 DEF AtOrigin
  <2>4. seen' <= signals' /\ baseline' <= signals' /\ (pc' = "awaitDay" /\ baseline' = 0 => seen' = 0)
    BY <1>1, <1>t, <2>2 DEF RunningPcs
  <2>5. OldSignal' /\ seen' = 0 =>
          AtOrigin' /\ stop' # "RunBudgetExhausted" /\ pc' \notin {"plan", "start", "spawnFailed"}
    BY <1>1, <1>t, <2>2, <2>3 DEF OldSignal
  <2>6. OldSignal' /\ stop' = "SpendSoftCap" =>
          AtOrigin' /\ SpendCapReached' /\ (pc' = "wait" => seen' = 0)
    BY <1>1, <1>t, <2>1, <2>2, <2>3 DEF OldSignal, AtOrigin
  <2> QED
    BY <2>2, <2>4, <2>5, <2>6
(* Steps of an invocation that took no old signal, or takes none any more. *)
<1>2. ASSUME UNCHANGED sigs, ~OldSignal', pc' # "awaitDay" PROVE SignalInv'
  BY <1>2, <1>t DEF sigs
(* Steps of an invocation with a run, or one that has seen its signal and drains. *)
<1>3. ASSUME UNCHANGED <<drain, sigs>>, pc \in RunningPcs, pc' \in RunningPcs,
             OldSignal => seen # 0 /\ (stop # "SpendSoftCap")
      PROVE  SignalInv'
  BY <1>3, <1>t DEF sigs, drain, OldSignal, RunningPcs, ReapPcs
<1>4. CASE \E r \in RunIds : ReapOutcome(r)
  BY <1>3, <1>4, <1>t DEF ReapOutcome, Reapable, OldSignal, AtOrigin, RunningPcs
<1>5. CASE ReapFinish \/ SpawnFailedFinish
  BY <1>3, <1>5, <1>t DEF ReapFinish, SpawnFailedFinish, OldSignal, AtOrigin, RunningPcs, ReapPcs,
     ClockInv, PassInv, drain
<1>6. CASE ReapEnd \/ Observe \/ DrainStep
  BY <1>1, <1>6 DEF ReapEnd, Observe, DrainStep, RunningPcs, ReapPcs, store, super, reap
<1>7. CASE Drained
  <2>1. CASE slots = {}
    BY <1>1, <1>7, <2>1 DEF Drained, RunningPcs, ReapPcs, store, super, reap, drain
  <2>2. CASE slots # {}
    BY <1>7, <1>t, <2>2 DEF Drained, OldSignal, AtOrigin, RunningPcs, ReapPcs, super, sigs
  <2> QED
    BY <2>1, <2>2
<1>8. CASE StopOnRunBudget \/ PollBudgetExpired
  <2>1. ~OldSignal
    BY <1>8, <1>t DEF StopOnRunBudget, PollBudgetExpired, OldSignal, AtOrigin, ClockInv, PassInv
  <2>2. pc \in RunningPcs /\ pc' = "wait" /\ UNCHANGED sigs
    BY <1>8 DEF StopOnRunBudget, PollBudgetExpired, RunningPcs, ReapPcs
  <2> QED
    BY <1>2, <2>1, <2>2 DEF OldSignal, sigs
<1>9. CASE StopOnSpendCap \/ StopOnCycles
  <2>1. /\ pc = "decide" /\ pc' = "wait" /\ stop = "none" /\ stop' \in {"SpendSoftCap", "CycleBudget"}
        /\ stop' = "SpendSoftCap" => SpendCapReached
        /\ UNCHANGED <<rows, origin, elapsed, slots, reaping, sigs>>
    BY <1>9 DEF StopOnSpendCap, StopOnCycles, Declare, store, clock, super, reap
  <2>2. SpendCapReached' = SpendCapReached
    BY <2>1 DEF SpendCapReached, Now
  <2>3. AtOrigin' = AtOrigin
    BY <2>1 DEF AtOrigin
  <2>4. OldSignal' => OldSignal /\ seen = 0 /\ AtOrigin
    BY <1>t, <2>1 DEF OldSignal, RunningPcs, ReapPcs, sigs
  <2> QED
    BY <1>t, <2>1, <2>2, <2>3, <2>4 DEF sigs
<1>10. CASE SkipPass \/ BeginPass \/ PollFails \/ PollSnapshot \/ PlanNoOp
  BY <1>1, <1>10 DEF SkipPass, BeginPass, PollFails, PollSnapshot, PlanNoOp, MayPass, RunningPcs,
     ReapPcs, store, super, reap, ClockInv, PassInv
<1>11. CASE PollBlocks
  <2>1. OldSignal => seen # 0 /\ stop = "none"
    BY <1>11, <1>t DEF PollBlocks, OldSignal, ClockInv, PassInv
  <2> QED
    BY <1>3, <1>11, <2>1 DEF PollBlocks, RunningPcs
<1>12. CASE PlanBlocks \/ StartWorker \/ SpawnFails \/ \E t \in Tasks : PlanSelect(t)
  <2>1. pc \in {"plan", "start"} /\ UNCHANGED <<drain, sigs>> /\ pc' \in RunningPcs
    BY <1>12 DEF PlanBlocks, StartWorker, SpawnFails, PlanSelect, RunningPcs
  <2>2. OldSignal => seen # 0 /\ stop # "SpendSoftCap"
    BY <2>1, <1>t DEF OldSignal, ClockInv, PassInv
  <2> QED
    BY <1>3, <2>1, <2>2 DEF RunningPcs
<1>13. CASE Tick
  <2>1. OldSignal => seen # 0 /\ stop # "SpendSoftCap"
    BY <1>13, <1>t DEF Tick, OldSignal
  <2> QED
    BY <1>3, <1>13, <2>1 DEF Tick, RunningPcs, ReapPcs
<1>14. CASE PollShutdown \/ WaitSignal
  <2>1. /\ signals > seen /\ seen' = signals /\ UNCHANGED <<signals, baseline>>
        /\ UNCHANGED <<rows, origin, elapsed, slots, reaping>>
        /\ pc \in {"poll", "wait"} /\ pc' \in {"wait", "reap1"}
        /\ stop' = (IF stop = "none" THEN "Shutdown" ELSE stop)
        /\ pc' = "wait" => stop = "none"
    BY <1>14 DEF PollShutdown, WaitSignal, ApplySignal, Declare, store, clock, super, reap, ClockInv,
       PassInv
  <2>2. SpendCapReached' = SpendCapReached
    BY <2>1 DEF SpendCapReached, Now
  <2>3. AtOrigin' = AtOrigin
    BY <2>1 DEF AtOrigin
  <2>4. OldSignal' => OldSignal /\ stop # "RunBudgetExhausted"
    BY <1>t, <2>1 DEF OldSignal, RunningPcs, ReapPcs
  <2>5. stop' \in {"Shutdown", "CycleBudget", "SpendSoftCap", "RunBudgetExhausted"}
    BY <2>1 DEF TypeOK, StopReason
  <2> QED
    BY <1>t, <2>1, <2>2, <2>3, <2>4, <2>5
<1>15. CASE StartInvocation
  BY <1>15, <1>t DEF StartInvocation, FreshMemory, AtOrigin, NotReaping
<1>16. CASE NewProcess
  BY <1>16 DEF NewProcess, OldSignal, RunningPcs, ReapPcs
<1>17. CASE StoreFault \/ FatalKill \/ (\E r \in RunIds : SweepSlot(r)) \/ SweepEnd \/ Crash
            \/ NextInvocation \/ BudgetWindowResets \/ Exit
  <2>1. UNCHANGED sigs /\ pc' \in {"fatal", "sweep", "dead", "idle", "exited"}
    BY <1>17 DEF StoreFault, FatalKill, SweepSlot, SweepEnd, Crash, NextInvocation,
       BudgetWindowResets, Exit
  <2> QED
    BY <1>2, <2>1 DEF OldSignal, RunningPcs, ReapPcs
<1>18. CASE AwaitBudgetWindow
  BY <1>1, <1>18 DEF AwaitBudgetWindow, RunningPcs, ReapPcs, store, super, reap
<1>19. CASE (\E r \in RunIds : WorkerBeats(r) \/ WorkerEnds(r) \/ AbortLands(r)) \/ Halted
            \/ UNCHANGED vars
  <2>1. UNCHANGED <<rows, clock, drain, slots, reaping, sigs, pc>>
    BY <1>19 DEF WorkerBeats, WorkerEnds, AbortLands, Halted, vars, store, clock, super, drain, reap,
       sigs
  <2> QED
    BY <1>1, <2>1
<1>20. CASE Signal
  <2>1. /\ UNCHANGED <<rows, origin, elapsed, stop, slots, reaping, seen, baseline, pc>>
        /\ signals' = signals + 1
    BY <1>20 DEF Signal, store, clock, super, drain, reap
  <2>2. SpendCapReached' = SpendCapReached /\ AtOrigin' = AtOrigin /\ OldSignal' = OldSignal
    BY <2>1 DEF SpendCapReached, Now, AtOrigin, OldSignal
  <2> QED
    BY <1>t, <2>1, <2>2
<1> QED
  BY <1>4, <1>5, <1>6, <1>7, <1>8, <1>9, <1>10, <1>11, <1>12, <1>13, <1>14, <1>15, <1>16, <1>17,
     <1>18, <1>19, <1>20
     DEF Next, Program, Environment, Supervise, StopOrDrain, Pass, Wait, FatalExit, Process

(* From the end of an invocation the daemon becomes idle by two steps only. *)
LEMMA NextFromEnd ==
  ASSUME [Next]_vars, pc \in {"ended", "awaitDay"}, pc' = "idle"
  PROVE  NextInvocation \/ BudgetWindowResets
<1>1. ~Supervise
  BY DEF Supervise, ReapOutcome, ReapFinish, ReapEnd, Observe, ReapPcs
<1>2. ~StopOrDrain
  BY DEF StopOrDrain, DrainStep, Drained, StopOnRunBudget, StopOnSpendCap, StopOnCycles
<1>3. ~Pass
  BY DEF Pass, SkipPass, BeginPass, MayPass, PollBlocks, PollFails, PollShutdown, PollBudgetExpired,
     PollSnapshot, PlanBlocks, PlanNoOp, PlanSelect, StartWorker, SpawnFails, SpawnFailedFinish
<1>4. ~Wait /\ ~FatalExit
  BY DEF Wait, Tick, WaitSignal, FatalExit, FatalKill, SweepSlot, SweepEnd
<1>5. ~Environment
  BY DEF Environment, WorkerBeats, WorkerEnds, AbortLands, Signal, StoreFault, Crash
<1>6. ~Halted /\ ~UNCHANGED vars
  BY DEF Halted, vars
<1>7. ~StartInvocation /\ ~AwaitBudgetWindow /\ ~Exit /\ ~NewProcess
  BY DEF StartInvocation, AwaitBudgetWindow, Exit, NewProcess
<1> QED
  BY <1>1, <1>2, <1>3, <1>4, <1>5, <1>6, <1>7 DEF Next, Program, Process

-----------------------------------------------------------------------------
(***************************************************************************)
(* The inductive invariant and the theorems.                               *)
(***************************************************************************)

IInv ==
  /\ TypeOK /\ CoreInv
  /\ OneRunPerTask /\ NoStrandedRow /\ AttemptBudgetKept
  /\ OutcomeInv /\ AbortInv /\ GraceInv /\ CapacityInv /\ ClockInv /\ SignalInv

LEMMA InitIInv == Init => IInv
<1> SUFFICES ASSUME Init PROVE IInv
  OBVIOUS
<1> USE RunStateAssumption, LoopConfigAssumption
<1>1. TypeOK
  BY DEF Init, TypeOK, AbsentRow, Row, RowStatus, NoRetryState, RetryState, NoSlot, Slot,
     NotReaping,
     Pcs, ProcState, RunIds
<1>2. CoreInv
  BY DEF Init, CoreInv, RowIds, RowsBelong, SlotRows, Supervised, AtRest, ReapingRow,
     StartingRow,
     SpawnFailedRow, AbsentRow, NotReaping, RunIds
<1>3. OneRunPerTask /\ NoStrandedRow
  BY DEF Init, OneRunPerTask, NoStrandedRow, AbsentRow
<1>4. AttemptBudgetKept
  BY DEF Init, AttemptBudgetKept, NoRetryState, Unsettled
<1>5. OutcomeInv
  BY DEF Init, OutcomeInv, OutcomeHolds, AbsentRow, NotReaping
<1>6. GraceInv
  BY DEF Init, GraceInv, GraceWindowKept, GraceWindowBounded
<1>7. CapacityInv
  BY FS_EmptySet DEF Init, CapacityInv, WithinCapacity
<1>8. ClockInv
  BY DEF Init, ClockInv, PassInv, ObservedInv, OverrunInv, DrainInv, SpendInv, SpendCapNeverAborts,
     RunningPcs, ReapPcs
<1>9. SignalInv
  BY DEF Init, SignalInv, OldSignal
<1>10. AbortInv
  BY DEF Init, AbortInv, Faultless, AbsentRow, NotReaping
<1> QED
  BY <1>1, <1>2, <1>3, <1>4, <1>5, <1>6, <1>7, <1>8, <1>9, <1>10 DEF IInv

LEMMA NextIInv == IInv /\ [Next]_vars => IInv'
<1> SUFFICES ASSUME IInv, [Next]_vars PROVE IInv'
  OBVIOUS
<1>1. TypeOK'
  BY TypeStep DEF IInv, CoreInv
<1>2. CoreInv'
  BY CoreStep DEF IInv
<1>3. OneRunPerTask'
  BY OneRunStep DEF IInv
<1>4. NoStrandedRow'
  BY StrandedStep DEF IInv
<1>5. AttemptBudgetKept'
  BY AttemptStep DEF IInv
<1>6. OutcomeInv'
  BY OutcomeStep DEF IInv
<1>7. GraceInv'
  BY GraceStep DEF IInv
<1>8. CapacityInv'
  BY <1>1, CapacityStep DEF IInv
<1>9. ClockInv'
  BY ClockStep DEF IInv
<1>10. SignalInv'
  BY SignalStep DEF IInv
<1>11. AbortInv'
  BY AbortStep DEF IInv
<1> QED
  BY <1>1, <1>2, <1>3, <1>4, <1>5, <1>6, <1>7, <1>8, <1>9, <1>10, <1>11 DEF IInv

(* The invariant holds throughout: the fact every theorem below rests on. *)
LEMMA Inductive == Spec => []IInv
  BY InitIInv, NextIInv, PTL DEF Spec

(* Every reachable state of the loop and its store is well typed. *)
THEOREM TypeCorrect == Spec => []TypeOK
<1>1. IInv => TypeOK
  BY DEF IInv
<1> QED
  BY <1>1, Inductive, PTL

(***************************************************************************)
(* A live worker is supervised and has its own running row of the current  *)
(* invocation (plan_and_spawn inserts the row first, reap_finished and the *)
(* fatal sweep settle it last).                                            *)
(***************************************************************************)
THEOREM WorkersAccountedFor == Spec => []NoWorkerWithoutRow
<1>1. IInv => NoWorkerWithoutRow
  BY DEF IInv, CoreInv, Supervised, SlotRows, NoWorkerWithoutRow
<1> QED
  BY <1>1, Inductive, PTL

(***************************************************************************)
(* While the daemon's loop runs, every running row belongs to a run it     *)
(* still knows: recover_running_rows settled the rest before the first     *)
(* tick, and no store fault or crash adds one under a running loop.        *)
(***************************************************************************)
THEOREM RowsAccountedFor == Spec => []NoStrandedRow
<1>1. IInv => NoStrandedRow
  BY DEF IInv
<1> QED
  BY <1>1, Inductive, PTL

(***************************************************************************)
(* No invocation ever runs a task twice (excluded_tasks).                  *)
(***************************************************************************)
THEOREM NeverRunTwice == Spec => []OneRunPerTask
<1>1. IInv => OneRunPerTask
  BY DEF IInv
<1> QED
  BY <1>1, Inductive, PTL

(***************************************************************************)
(* The durable attempts of a task never pass max_task_attempts, however    *)
(* crashes split the two writes of reap_finished.                          *)
(***************************************************************************)
THEOREM AttemptsBounded == Spec => []AttemptBudgetKept
<1>1. IInv => AttemptBudgetKept
  BY DEF IInv
<1> QED
  BY <1>1, Inductive, PTL

(***************************************************************************)
(* A row says stuck only for a task that is out of attempts                *)
(* (record_task_outcome raises the needs-human signal never early).        *)
(***************************************************************************)
THEOREM StuckIsExhausted == Spec => []StuckMeansExhausted
<1>1. IInv => StuckMeansExhausted
  BY DEF IInv, OutcomeInv, OutcomeHolds, StuckMeansExhausted
<1> QED
  BY <1>1, Inductive, PTL

(***************************************************************************)
(* The arbitration of reap_finished lets the run's own end win over any    *)
(* recorded intent; only the sweep after a failed write does not ask.      *)
(***************************************************************************)
THEOREM OutcomesTrue == Spec => []NaturalEndWins
<1>1. IInv => NaturalEndWins
  <2> SUFFICES ASSUME IInv, NEW r \in RunIds, rows[r].status = "aborted-shutdown"
               PROVE  proc[r] = "cancelled" \/ faults > 0
    BY DEF IInv, OutcomeInv, OutcomeHolds, NaturalEndWins
  <2> QED
    BY DEF IInv, TypeOK, AbortInv, Faultless
<1> QED
  BY <1>1, Inductive, PTL

(***************************************************************************)
(* One signal leaves in-flight runs the whole grace window, whether the    *)
(* tick or the poll saw it (apply_signal, shutdown_from_pass).             *)
(***************************************************************************)
THEOREM GraceWindow == Spec => []GraceWindowKept
<1>1. IInv => GraceWindowKept
  BY DEF IInv, GraceInv
<1> QED
  BY <1>1, Inductive, PTL

(***************************************************************************)
(* Every stop is bounded: no kill is ever attributed to the spend cap, the *)
(* window a signal opens never exceeds the shutdown budget, and an         *)
(* invocation outlives its run budget by the overrun of the last pass, one *)
(* drain and one tick (drain_step, apply_signal and kill_where), although  *)
(* a worker may hang for ever.                                             *)
(***************************************************************************)
THEOREM EveryStopBounded == Spec => []StopsBounded
<1>1. IInv => StopsBounded
  <2> SUFFICES ASSUME IInv PROVE InvocationBounded
    BY DEF IInv, GraceInv, ClockInv, SpendInv, StopsBounded
  <2>1. CASE pc \in RunningPcs /\ stop = "none"
    BY <2>1, Windows DEF IInv, TypeOK, ClockInv, OverrunInv, InvocationBounded
  <2>2. CASE pc \in RunningPcs /\ stop # "none"
    BY <2>2, Windows DEF IInv, TypeOK, ClockInv, DrainInv, LastTick, InvocationBounded
  <2> QED
    BY <2>1, <2>2 DEF InvocationBounded
<1> QED
  BY <1>1, Inductive, PTL

(***************************************************************************)
(* A daemon that saw a signal starts no further invocation, also when the  *)
(* signal came before the invocation began and its count equals the        *)
(* baseline watch_cycle compares with: such an invocation sees it before   *)
(* any time passes, so the stop it reports is not a budget the daemon      *)
(* goes on from.                                                           *)
(***************************************************************************)
THEOREM SignalStopsDaemon == Spec => SignalEndsDaemon
<1>1. IInv /\ [Next]_vars => [seen > 0 /\ pc \in {"ended", "awaitDay"} => pc' # "idle"]_vars
  <2> SUFFICES ASSUME IInv, [Next]_vars, seen > 0, pc \in {"ended", "awaitDay"}, pc' = "idle"
               PROVE  FALSE
    OBVIOUS
  <2>1. NextInvocation \/ BudgetWindowResets
    BY NextFromEnd
  <2>2. SignalInv /\ signals \in Nat /\ seen \in Nat /\ baseline \in Nat
    BY DEF IInv, TypeOK
  <2>3. CASE NextInvocation
    BY <2>2, <2>3 DEF NextInvocation, SignalInv, OldSignal
  <2>4. CASE BudgetWindowResets
    BY <2>2, <2>4 DEF BudgetWindowResets, SignalInv
  <2> QED
    BY <2>1, <2>3, <2>4
<1> QED
  BY <1>1, Inductive, PTL DEF Spec, SignalEndsDaemon

(***************************************************************************)
(* Never more slots than max_concurrent_workers (the gate of `pass`).      *)
(***************************************************************************)
THEOREM CapacityKept == Spec => []WithinCapacity
<1>1. IInv => WithinCapacity
  BY DEF IInv, CapacityInv
<1> QED
  BY <1>1, Inductive, PTL

-----------------------------------------------------------------------------
(***************************************************************************)
(* The rows implement the ledger.                                          *)
(***************************************************************************)

(* Every step of the loop is a ledger step, or leaves claims and statuses alone. *)
LEMMA LedgerStep ==
  ASSUME Daemon, IInv, [Next]_vars
  PROVE  [Ledger!LedgerNext]_(Ledger!ledger)
<1> USE DEF IInv
<1>1. CASE ReapFinish \/ SpawnFailedFinish
  <2>1. /\ reaping.id \in RunIds /\ reaping.status \in TerminalStatus \ {"orphaned"}
        /\ rows[reaping.id].status = "running"
    BY <1>1 DEF ReapFinish, SpawnFailedFinish, CoreInv, SpawnFailedRow, ReapingRow, TypeOK,
       RunIds
  <2>2. PICK r \in RunIds, s \in TerminalStatus \ {"orphaned"} :
          r = reaping.id /\ s = reaping.status
    BY <2>1
  <2>3. PICK c : rows' = FinishRow(rows, r, s, c)
    BY <1>1, <2>2 DEF ReapFinish, SpawnFailedFinish
  <2>4. \A q \in RunIds : /\ rows'[q].task = rows[q].task
                           /\ rows'[q].status = IF q = r THEN s ELSE rows[q].status
    BY <2>3, FinishRowEffect DEF TypeOK
  <2>5. Ledger!Settle(r, s)
    BY <2>1, <2>2, <2>4 DEF Ledger!Settle
  <2> QED
    BY <2>5 DEF Ledger!LedgerNext
<1>2. ASSUME NEW r \in RunIds, SweepSlot(r) PROVE [Ledger!LedgerNext]_(Ledger!ledger)
  <2>1. CASE rows' = rows
    BY <2>1 DEF Ledger!ledger
  <2>2. CASE rows' = FinishRow(rows, r, "aborted-shutdown", 0)
    <3>1. rows[r].status = "running"
      BY <1>2 DEF SweepSlot, CoreInv, SlotRows
    <3>2. \A q \in RunIds : /\ rows'[q].task = rows[q].task
                             /\ rows'[q].status = IF q = r THEN "aborted-shutdown"
                                                  ELSE rows[q].status
      BY <2>2, FinishRowEffect DEF TypeOK
    <3>3. "aborted-shutdown" \in TerminalStatus \ {"orphaned"}
      BY DEF TerminalStatus
    <3>4. Ledger!Settle(r, "aborted-shutdown")
      BY <3>1, <3>2, <3>3 DEF Ledger!Settle
    <3> QED
      BY <3>3, <3>4 DEF Ledger!LedgerNext
  <2> QED
    BY <1>2, <2>1, <2>2 DEF SweepSlot
<1>3. ASSUME NEW t \in Tasks, PlanSelect(t) PROVE [Ledger!LedgerNext]_(Ledger!ledger)
  <2>1. nextId \in RunIds /\ rows[nextId].status = "absent"
    BY <1>3, RunStateAssumption DEF PlanSelect, TypeOK, RunIds, CoreInv, RowIds
  <2>2. /\ \A q \in RunIds : q # nextId => rows'[q] = rows[q]
        /\ rows'[nextId].task = t /\ rows'[nextId].status = "running"
    BY <1>3, <2>1, StartRowEffect DEF PlanSelect, TypeOK
  <2>3. \A q \in RunIds : rows[q].status = "running" => rows[q].task # t
    <3>1. reaping.id = 0 /\ pc \in RunningPcs /\ pc # "start"
      BY <1>3 DEF PlanSelect, CoreInv, ReapingRow, ReapPcs, RunningPcs
    <3>2. \A q \in RunIds : rows[q].status = "running" => q \in slots
      BY <3>1 DEF NoStrandedRow, Accounted, Unsettled
    <3> QED
      BY <1>3, <3>2 DEF PlanSelect, Excluded
  <2>4. Ledger!Claim(nextId, t)
    BY <2>1, <2>2, <2>3 DEF Ledger!Claim, Ledger!Free
  <2> QED
    BY <2>1, <2>4 DEF Ledger!LedgerNext
<1>4. CASE StartInvocation
  <2>1. \A q \in RunIds : /\ rows'[q].task = rows[q].task
                           /\ rows'[q].status = IF rows[q].status = "running" THEN "orphaned"
                                                ELSE rows[q].status
    BY <1>4, RecoverRowsEffect DEF StartInvocation, TypeOK
  <2>2. Ledger!Recover
    BY <2>1 DEF Ledger!Recover
  <2> QED
    BY <2>2 DEF Ledger!LedgerNext
<1>5. CASE UNCHANGED rows
  BY <1>5 DEF Ledger!ledger
<1> QED
  BY <1>1, <1>2, <1>3, <1>4, <1>5, QuietSteps DEF Quiet, ReapOutcome, WorkerEnds, AbortLands,
     SpawnFails, StartWorker, NewProcess, StoreFault, Crash, store

(***************************************************************************)
(* The daemon's loop implements the ledger: a task is claimed only while   *)
(* no running row holds it, a row is settled exactly once, and a recovery  *)
(* settles all open rows at one instant (run_watch, then LoopRunner::run). *)
(***************************************************************************)
THEOREM LedgerImplemented == Daemon => (Spec => ImplementsLedger)
<1> SUFFICES ASSUME Daemon PROVE Spec => ImplementsLedger
  OBVIOUS
<1>1. Init => Ledger!LedgerInit
  BY DEF Init, Ledger!LedgerInit, AbsentRow
<1>2. IInv /\ [Next]_vars => [Ledger!LedgerNext]_(Ledger!ledger)
  BY LedgerStep
<1> QED
  BY <1>1, <1>2, Inductive, PTL DEF Spec, ImplementsLedger, Ledger!LedgerSpec

=============================================================================
