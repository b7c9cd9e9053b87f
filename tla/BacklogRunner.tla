---------------------------- MODULE BacklogRunner ----------------------------
(***************************************************************************)
(* The delivery engine's execution loop: a state machine over a backlog of *)
(* tasks that a runtime drives by ticks, each carrying the outcomes of     *)
(* some attempts.  A tick consumes the outcomes in task-ID order, stops at *)
(* the first run-level condition, and otherwise dispatches the retries     *)
(* that are due and the tasks whose dependencies completed, within the     *)
(* scheduler's caps and the attempt budget.                                *)
(*                                                                         *)
(* tick takes &mut self: nothing interleaves with it.  It is nevertheless  *)
(* several steps here, one per task of its loop (`cursor` says where it    *)
(* is), because the outcomes are inputs: each is chosen where it is read.  *)
(* Pause and resume are possible between two ticks only.                   *)
(*                                                                         *)
(* A task is its place in the ID order.  The journal is kept as far as the *)
(* properties read it: the outcome recorded last for every task.  A retry  *)
(* schedule is its attempt count, a ladder step its position.              *)
(***************************************************************************)
EXTENDS Integers, FiniteSets

CONSTANTS
  N,                      \* number of tasks
  Dags,                   \* the dependency maps to consider
  domain, expected_files, \* metadata of a task
  max_concurrent, review_capacity,
  max_per_domain,         \* 0 stands for None: validate refuses a cap of 0
  attempt_budget, max_reprompt_attempts, max_attempts_per_step,
  steps,                  \* length of the ladder, HumanEscalation included
  MaxPauses               \* bound: pauses, of the user or of an attempt

Tasks == 1 .. N

ASSUME BacklogAssumption ==
  /\ N \in Nat
  /\ \A d \in Dags : d \in [Tasks -> SUBSET Tasks] /\ \A t \in Tasks : t \notin d[t]
  /\ max_concurrent \in Nat \ {0} /\ review_capacity \in Nat \ {0} /\ max_per_domain \in Nat
  /\ attempt_budget \in Nat /\ max_reprompt_attempts \in Nat /\ max_attempts_per_step \in Nat
  /\ steps \in Nat \ {0} /\ MaxPauses \in Nat

VARIABLES
  dependencies,                         \* TaskDag, fixed by Init
  budget_remaining, completed, blocked, running, pending, attempts,
  retry_schedules,                      \* RetrySchedule::attempt, 0 when absent
  current_step, attempts_at_step,       \* EscalationState
  paused, stop_reason,
  cursor, due,                          \* tick: 0 is "between two ticks"
  pauses,
  recorded                              \* the last AttemptRecorded of a task

ladder == <<retry_schedules, current_step, attempts_at_step>>
control == <<paused, pauses>>

vars == <<dependencies, budget_remaining, completed, blocked, running, pending, attempts,
          retry_schedules, current_step, attempts_at_step, paused, stop_reason, cursor,
          due, pauses, recorded>>

FailureClass == {"TransientProviderOrNetwork", "RateLimit", "ToolOrProcess", "Verification",
                 "MergeConflict", "InvalidAgentOutput", "ApprovalRequired", "PolicyDenial",
                 "NonRetriableConfigOrSecurity"}

(* retry_after: the provider gave a hint; proven: a proof other than Unproven. *)
Failures == [class : FailureClass, retry_after : BOOLEAN, proven : BOOLEAN]

Reports == {"Completed", "Paused", "ApprovalRequired", "PolicyDenied"}
BlockReason == {"ApprovalRequired", "SecurityBlock", "HumanEscalation"}
FinalStop == {"BacklogEmpty", "NoEligibleTasks", "BudgetExhausted", "ApprovalRequired",
              "FailuresBlocked", "SecurityBlock"}
StopReason == FinalStop \cup {"Paused"}

(* Types; the budget is never overdrawn. *)
TypeOK ==
  /\ dependencies \in Dags
  /\ budget_remaining \in 0 .. attempt_budget
  /\ completed \subseteq Tasks /\ running \subseteq Tasks
  /\ pending \subseteq Tasks /\ due \subseteq Tasks
  /\ blocked \in [Tasks -> BlockReason \cup {"none"}]
  /\ attempts \in [Tasks -> Nat] /\ retry_schedules \in [Tasks -> Nat]
  /\ current_step \in [Tasks -> 1 .. steps] /\ attempts_at_step \in [Tasks -> Nat]
  /\ paused \in BOOLEAN /\ stop_reason \in StopReason \cup {"none"}
  /\ cursor \in 0 .. N + 1 /\ pauses \in 0 .. MaxPauses
  /\ recorded \in [Tasks -> FailureClass \cup Reports \cup {"none"}]

-----------------------------------------------------------------------------

Blocked == {t \in Tasks : blocked[t] # "none"}

(* TaskDag::eligible *)
Eligible(done) == {t \in Tasks \ done : dependencies[t] \subseteq done}

(* failures::classify *)
Classify(f, attempt) ==
  CASE f.class = "RateLimit" /\ f.retry_after -> "Hold"
    [] f.class \in {"TransientProviderOrNetwork", "ToolOrProcess"} -> "Retry"
    [] f.class = "RateLimit" /\ ~f.retry_after -> "Retry"
    [] f.class \in {"Verification", "MergeConflict"} -> "FixRootCause"
    [] f.class = "InvalidAgentOutput" ->
         IF attempt >= max_reprompt_attempts THEN "Escalate" ELSE "Reprompt"
    [] f.class = "ApprovalRequired" -> "AwaitUser"
    [] f.class \in {"PolicyDenial", "NonRetriableConfigOrSecurity"} -> "Escalate"

(* Mutant: a proof turns any failure into a retry. *)
MutantGate(f, decision) == IF f.proven THEN "Retry" ELSE decision

(* RetryGate::evaluate *)
Gate(f, decision) ==
  CASE f.class \in {"PolicyDenial", "NonRetriableConfigOrSecurity"} -> "Escalate"
    [] f.class = "ApprovalRequired" -> "AwaitUser"
    [] f.class \in {"Verification", "MergeConflict"} -> "FixRootCause"
    [] f.class = "ToolOrProcess" /\ ~f.proven -> "FixRootCause"
    [] OTHER -> decision

(***************************************************************************)
(* ParallelScheduler::select.  The loop walks the eligible tasks in ID     *)
(* order and takes a task iff what runs and what it took before leave      *)
(* room.  Its result is therefore the one set S of which this holds: a     *)
(* member's admission depends on the smaller members only.                 *)
(***************************************************************************)
Slots ==
  LET Min2(a, b) == IF a < b THEN a ELSE b
  IN  Min2(max_concurrent, review_capacity) - Cardinality(running)

(* The room a task needs beside the tasks of `taken`. *)
Admits(taken, t) ==
  /\ max_per_domain = 0 \/ Cardinality({u \in taken : domain[u] = domain[t]}) < max_per_domain
  /\ \A u \in taken : expected_files[u] \cap expected_files[t] = {}

(* Mutant: the files and domains of the running tasks are not claimed. *)
MutantIsSelection(S) ==
  S = {t \in Eligible(completed) \ running :
         LET before == {u \in S : u < t}
         IN  Cardinality(before) < Slots /\ Admits(before, t)}

IsSelection(S) ==
  S = {t \in Eligible(completed) \ running :
         LET before == {u \in S : u < t}
         IN  Cardinality(before) < Slots /\ Admits(running \cup before, t)}

-----------------------------------------------------------------------------

Init ==
  /\ dependencies \in Dags
  /\ budget_remaining = attempt_budget
  /\ completed = {} /\ running = {} /\ pending = {} /\ due = {}
  /\ blocked = [t \in Tasks |-> "none"]
  /\ attempts = [t \in Tasks |-> 0]
  /\ retry_schedules = [t \in Tasks |-> 0]
  /\ current_step = [t \in Tasks |-> 1]
  /\ attempts_at_step = [t \in Tasks |-> 0]
  /\ paused = FALSE /\ stop_reason = "none"
  /\ cursor = 0 /\ pauses = 0
  /\ recorded = [t \in Tasks |-> "none"]

Pause ==
  /\ cursor = 0 /\ ~paused /\ pauses < MaxPauses
  /\ paused' = TRUE /\ pauses' = pauses + 1
  /\ UNCHANGED <<dependencies, budget_remaining, completed, blocked, running, pending, attempts,
                 ladder, stop_reason, cursor, due, recorded>>

(* Mutant: the stop the pause caused is not cleared. *)
MutantResume ==
  /\ cursor = 0 /\ paused
  /\ paused' = FALSE
  /\ UNCHANGED <<dependencies, budget_remaining, completed, blocked, running, pending, attempts,
                 ladder, stop_reason, cursor, due, pauses, recorded>>

Resume ==
  /\ cursor = 0 /\ paused
  /\ paused' = FALSE
  /\ stop_reason' = IF stop_reason = "Paused" THEN "none" ELSE stop_reason
  /\ UNCHANGED <<dependencies, budget_remaining, completed, blocked, running, pending, attempts,
                 ladder, cursor, due, pauses, recorded>>

(* A paused runner only stops. *)
TickPaused ==
  /\ cursor = 0 /\ stop_reason = "none" /\ paused
  /\ stop_reason' = "Paused"
  /\ UNCHANGED <<dependencies, budget_remaining, completed, blocked, running, pending, attempts,
                 ladder, control, cursor, due, recorded>>

TickBegin ==
  /\ cursor = 0 /\ stop_reason = "none" /\ ~paused
  /\ due' = pending /\ pending' = {}
  /\ cursor' = 1
  /\ UNCHANGED <<dependencies, budget_remaining, completed, blocked, running, attempts, ladder,
                 control, stop_reason, recorded>>

-----------------------------------------------------------------------------
(* The outcomes, in task order. *)

(* No outcome for the task, or one for a task that is not running. *)
Skip ==
  /\ cursor \in Tasks /\ stop_reason = "none"
  /\ cursor' = cursor + 1
  /\ UNCHANGED <<dependencies, budget_remaining, completed, blocked, running, pending, attempts,
                 ladder, control, stop_reason, due, recorded>>

(* tick and consume_outcome, up to the match: the attempt is over and recorded. *)
Record(t, outcome) ==
  /\ cursor = t /\ stop_reason = "none" /\ t \in running
  /\ cursor' = cursor + 1
  /\ recorded' = [recorded EXCEPT ![t] = outcome]
  /\ UNCHANGED <<dependencies, budget_remaining, attempts, due>>

Complete(t) ==
  /\ Record(t, "Completed")
  /\ running' = running \ {t} /\ completed' = completed \cup {t}
  /\ retry_schedules' = [retry_schedules EXCEPT ![t] = 0]
  /\ UNCHANGED <<blocked, pending, current_step, attempts_at_step, control, stop_reason>>

(* Mutant: the open attempt leaves the running set. *)
MutantPauseAttempt(t) ==
  /\ pauses < MaxPauses
  /\ Record(t, "Paused")
  /\ running' = running \ {t}
  /\ paused' = TRUE /\ pauses' = pauses + 1 /\ stop_reason' = "Paused"
  /\ UNCHANGED <<completed, blocked, pending, ladder>>

(* The attempt stays open: it is put back into the running set. *)
PauseAttempt(t) ==
  /\ pauses < MaxPauses
  /\ Record(t, "Paused")
  /\ paused' = TRUE /\ pauses' = pauses + 1 /\ stop_reason' = "Paused"
  /\ UNCHANGED <<completed, blocked, running, pending, ladder>>

(* Mutant: the task is parked and the run goes on. *)
MutantBlock(t, reason, stop) ==
  /\ running' = running \ {t}
  /\ blocked' = [blocked EXCEPT ![t] = reason]
  /\ UNCHANGED <<completed, pending, control, stop_reason>>

(* The task is parked with a reason and the run stops. *)
Block(t, reason, stop) ==
  /\ running' = running \ {t}
  /\ blocked' = [blocked EXCEPT ![t] = reason]
  /\ stop_reason' = stop
  /\ UNCHANGED <<completed, pending, control>>

Refuse(t, outcome) ==
  /\ Record(t, outcome)
  /\ \/ outcome = "ApprovalRequired" /\ Block(t, "ApprovalRequired", "ApprovalRequired")
     \/ outcome = "PolicyDenied" /\ Block(t, "SecurityBlock", "SecurityBlock")
  /\ UNCHANGED ladder

(* The task is due again at the next tick. *)
Requeue(t) ==
  /\ running' = running \ {t} /\ pending' = pending \cup {t}
  /\ UNCHANGED <<completed, blocked, control, stop_reason>>

FreshBackoff(t) == retry_schedules' = [retry_schedules EXCEPT ![t] = 0]

(* escalate: EscalationState::advance, which stays where it is at the last *)
(* step, then exhausted.  `failed` counts the failures at the step left.   *)
Escalate(t, failed) ==
  LET last == current_step[t] = steps
      next == IF last THEN steps ELSE current_step[t] + 1
  IN  /\ current_step' = [current_step EXCEPT ![t] = next]
      /\ attempts_at_step' = [attempts_at_step EXCEPT ![t] = IF last THEN failed ELSE 0]
      /\ \/ /\ next = steps
            /\ Block(t, "HumanEscalation", "FailuresBlocked")
            /\ UNCHANGED retry_schedules
         \/ /\ next # steps
            /\ Requeue(t) /\ FreshBackoff(t)

(* A decision that stays at the ladder step. *)
StayAtStep(t, failed, backoff) ==
  /\ attempts_at_step' = [attempts_at_step EXCEPT ![t] = failed]
  /\ retry_schedules' = [retry_schedules EXCEPT ![t] = IF backoff THEN @ + 1 ELSE @]
  /\ UNCHANGED current_step

(* Mutant: one failure too many at every step. *)
MutantStepSpent(failed) == failed > max_attempts_per_step

StepSpent(failed) == failed >= max_attempts_per_step

(* handle_failure *)
Fail(t, f) ==
  LET failed == attempts_at_step[t] + 1
      decision == Gate(f, Classify(f, attempts[t]))
  IN  /\ Record(t, f.class)
      /\ \/ /\ decision \in {"Retry", "Hold", "FixRootCause"} /\ ~StepSpent(failed)
            /\ StayAtStep(t, failed, decision = "Retry") /\ Requeue(t)
         \/ /\ decision \in {"Retry", "Hold", "FixRootCause"} /\ StepSpent(failed)
            /\ Escalate(t, failed)
         \/ /\ decision = "Reprompt"
            /\ StayAtStep(t, failed, FALSE) /\ Requeue(t)
         \/ /\ decision = "AwaitUser"
            /\ StayAtStep(t, failed, FALSE)
            /\ Block(t, "ApprovalRequired", "ApprovalRequired")
         \/ /\ decision = "Escalate"
            /\ f.class \in {"PolicyDenial", "NonRetriableConfigOrSecurity"}
            /\ StayAtStep(t, failed, FALSE)
            /\ Block(t, "SecurityBlock", "SecurityBlock")
         \/ /\ decision = "Escalate"
            /\ f.class \notin {"PolicyDenial", "NonRetriableConfigOrSecurity"}
            /\ Escalate(t, failed)

Consume(t) ==
  \/ Complete(t)
  \/ PauseAttempt(t)
  \/ \E o \in {"ApprovalRequired", "PolicyDenied"} : Refuse(t, o)
  \/ \E f \in Failures : Fail(t, f)

-----------------------------------------------------------------------------
(* The end of a tick. *)

(* A stop fired: the due tasks wait for a resumed run. *)
TickStopped ==
  /\ cursor # 0 /\ stop_reason # "none"
  /\ pending' = pending \cup due /\ due' = {} /\ cursor' = 0
  /\ UNCHANGED <<dependencies, budget_remaining, completed, blocked, running, attempts,
                 ladder, control, stop_reason, recorded>>

Startable == due \cup (Eligible(completed) \ (Blocked \cup running \cup pending))

(* Mutant: the budget is spent and never consulted. *)
MutantAffordable(C) == C

(* The tasks of C that start, in ID order, while the budget lasts. *)
Affordable(C) == {t \in C : Cardinality({u \in C : u < t}) < budget_remaining}

(* The stop the dispatch fires, the candidates being C. *)
EndReason(C, inFlight) ==
  IF Affordable(C) # C THEN "BudgetExhausted"
  ELSE IF inFlight # {} THEN "none"
  ELSE IF completed = Tasks THEN "BacklogEmpty"
  ELSE IF Eligible(completed) \subseteq Blocked THEN "NoEligibleTasks"
  ELSE "none"

Dispatch ==
  /\ cursor = N + 1 /\ stop_reason = "none"
  /\ \E S \in SUBSET Tasks :
       LET C == Startable \cap S
           started == Affordable(C)
       IN  /\ IsSelection(S)
           /\ running' = running \cup started
           /\ budget_remaining' = budget_remaining - Cardinality(started)
           /\ attempts' = [t \in Tasks |-> IF t \in started THEN attempts[t] + 1 ELSE attempts[t]]
           /\ stop_reason' = EndReason(C, running \cup started \cup pending)
  /\ due' = {} /\ cursor' = 0
  /\ UNCHANGED <<dependencies, completed, blocked, pending, ladder, control, recorded>>

Next ==
  \/ Pause \/ Resume
  \/ TickPaused \/ TickBegin
  \/ Skip \/ \E t \in Tasks : Consume(t)
  \/ TickStopped \/ Dispatch

Spec == Init /\ [][Next]_vars

(***************************************************************************)
(* The runtime keeps calling tick, resumes a paused run, and every open    *)
(* attempt reports in the end: its outcome reaches tick again and again    *)
(* until it is consumed, hence strong fairness of Consume.                 *)
(***************************************************************************)
Fairness ==
  /\ WF_vars(Resume) /\ WF_vars(TickPaused) /\ WF_vars(TickBegin)
  /\ WF_vars(Skip) /\ WF_vars(TickStopped) /\ WF_vars(Dispatch)
  /\ \A t \in Tasks : SF_vars(Consume(t))

FairSpec == Spec /\ Fairness

-----------------------------------------------------------------------------
(* What the runner promises. *)

(* What is running, pending or due may be done: its dependencies are       *)
(* complete, it is not, and it is not parked.  No task is in two places.   *)
InFlightIsEligible ==
  /\ running \cup pending \cup due \subseteq Eligible(completed) \ Blocked
  /\ running \cap (pending \cup due) = {}
  /\ pending \cap due = {}

Refusals == {"ApprovalRequired", "PolicyDenied", "PolicyDenial", "NonRetriableConfigOrSecurity"}

(* A task whose last outcome is a refusal is parked. *)
RefusedStaysParked == \A t \in Tasks : recorded[t] \in Refusals => t \in Blocked

(* A dispatched or queued attempt is work that may be done, although a     *)
(* tick moves tasks between these sets and a pause in the middle of one    *)
(* puts some back; and what was refused, or failed in a class that is      *)
(* never retried, is no such work: no proof, retry, pause or resume brings *)
(* it back (spec sections 9.33.3 and 9.33.5).                              *)
WorkIsEligible == InFlightIsEligible /\ RefusedStaysParked

(* Spec section 9.33.3: what runs together respects the concurrency cap,   *)
(* the domain cap and the review capacity, and no two running tasks expect *)
(* to touch the same file, over any sequence of ticks, retries and pauses. *)
CapsRespected ==
  /\ Cardinality(running) <= max_concurrent /\ Cardinality(running) <= review_capacity
  /\ max_per_domain = 0 \/
       \A t \in running : Cardinality({u \in running : domain[u] = domain[t]}) <= max_per_domain
  /\ \A t, u \in running : t # u => expected_files[t] \cap expected_files[u] = {}

(* A run that has begun and may go on has something in flight or queued:   *)
(* no tick ends in a state in which the runner waits for an outcome that   *)
(* nobody owes it.  The scheduler is not told of parked tasks; this holds  *)
(* because parking a task always ends the run.                             *)
AliveMeansInFlight ==
  (cursor = 0 /\ stop_reason \in {"none", "Paused"} /\ \E t \in Tasks : attempts[t] > 0)
    => running \cup pending # {}

(* The dependency map has no cycle: no set of tasks waits for itself. *)
Acyclic == \A S \in SUBSET Tasks : S # {} => \E t \in S : dependencies[t] \cap S = {}

(* A stop says what is so: an empty backlog is complete, "no eligible      *)
(* tasks" is only ever the verdict on a cyclic backlog, an exhausted       *)
(* budget leaves work that could start, and each of the three blocking     *)
(* stops has its parked task.                                              *)
StopIsTruthful ==
  /\ stop_reason = "BacklogEmpty" => completed = Tasks
  /\ stop_reason = "NoEligibleTasks" => ~Acyclic
  /\ stop_reason = "BudgetExhausted" =>
       budget_remaining = 0 /\ Eligible(completed) \ (Blocked \cup running) # {}
  /\ Blocked # {} <=> stop_reason \in {"ApprovalRequired", "SecurityBlock", "FailuresBlocked"}

(* The bound on the attempts of a task: a ladder step but the last         *)
(* tolerates max_attempts_per_step failures (one at least), and reprompts, *)
(* which no step limits, end with attempt max_reprompt_attempts.           *)
AttemptBound ==
  LET Max2(a, b) == IF a < b THEN b ELSE a
      perStep == Max2(1, max_attempts_per_step)
  IN  Max2(perStep, max_reprompt_attempts) + Max2(0, steps - 2) * perStep

(* Whatever mix of failures, reprompts, holds and pauses a task meets, the *)
(* ladder bounds its attempts; only the sum is left to the attempt budget. *)
AttemptsBounded == \A t \in Tasks : attempts[t] <= AttemptBound

(* The backoff of a task counts retries of its present ladder step: a new  *)
(* agent starts from the base delay.                                       *)
BackoffPerStep ==
  \A t \in Tasks \ Blocked : retry_schedules[t] <= attempts_at_step[t]

(* Every run ends: failures cannot keep the loop alive, as each attempt    *)
(* costs budget, and no task is left waiting when the others are done.     *)
EventuallyStops == <>[](stop_reason \in FinalStop)

-----------------------------------------------------------------------------
(* Values for a configuration with three tasks.  The third waits for the   *)
(* first, or for the second; or the last two wait for each other.          *)
ThreeDags == {<<{}, {}, {1}>>, <<{}, {}, {2}>>, <<{}, {3}, {2}>>}

(* The third task shares its domain with the first, a file with the second. *)
TwoDomains == <<"a", "b", "a">>
SharedFile == <<{"x"}, {"y"}, {"y"}>>
=============================================================================
