------------------------- MODULE BacklogRunnerProofs -------------------------
(***************************************************************************)
(* Proofs about the backlog runner, for every backlog, cap, budget and     *)
(* ladder.  The sets a tick moves tasks between are followed by one        *)
(* inductive invariant; the scheduler's greedy selection enters through    *)
(* its first and its last member.                                          *)
(***************************************************************************)
EXTENDS BacklogRunner, FiniteSetTheorems, WellFoundedInduction, TLAPS

-----------------------------------------------------------------------------
(* Finite sets of task IDs. *)

(* What the assumption says of the number of tasks. *)
LEMMA TaskCount == N \in Nat
  BY BacklogAssumption

(* A nonempty set of IDs has a least member. *)
LEMMA LeastTask ==
  ASSUME NEW T, T \subseteq Nat, T # {}
  PROVE  \E x \in T : \A y \in T : x <= y
<1>1. PICK x \in T : \A y \in T : ~ (<<y, x>> \in OpToRel(<, Nat))
  BY WFMin, NatLessThanWellFounded
<1>2. \A y \in T : ~(y < x)
  BY <1>1 DEF OpToRel
<1> QED BY <1>2

(* A nonempty set of IDs has a greatest member: the least of its mirror image. *)
LEMMA GreatestTask ==
  ASSUME NEW T, T \subseteq Tasks, T # {}
  PROVE  \E x \in T : \A y \in T : y <= x
<1> DEFINE M == {N - t : t \in T}
<1>1. M \subseteq Nat
  BY TaskCount DEF Tasks
<1>2. M # {}
  OBVIOUS
<1>3. PICK m \in M : \A y \in M : m <= y
  BY <1>1, <1>2, LeastTask
<1>4. PICK x \in T : m = N - x
  BY <1>3
<1>5. ASSUME NEW y \in T PROVE y <= x
  <2>1. N - x <= N - y
    BY <1>3, <1>4
  <2>2. x \in Nat /\ y \in Nat
    BY TaskCount DEF Tasks
  <2> QED BY <2>1, <2>2, TaskCount
<1> QED BY <1>5

(* Sets of tasks are finite. *)
LEMMA TasksFinite ==
  ASSUME NEW T, T \subseteq Tasks
  PROVE  IsFiniteSet(T) /\ Cardinality(T) \in Nat
<1>1. IsFiniteSet(Tasks)
  BY TaskCount, FS_Interval DEF Tasks
<1>2. IsFiniteSet(T)
  BY <1>1, FS_Subset
<1> QED BY <1>2, FS_CardinalityType

(* If fewer than n members precede every member, the set has at most n. *)
LEMMA GreedyBound ==
  ASSUME NEW T, T \subseteq Tasks, T # {}, NEW n \in Int,
         \A t \in T : Cardinality({u \in T : u < t}) < n
  PROVE  Cardinality(T) <= n
<1>1. PICK m \in T : \A y \in T : y <= m
  BY GreatestTask
<1> DEFINE B == {u \in T : u < m}
<1>2. IsFiniteSet(B) /\ Cardinality(B) \in Nat
  BY TasksFinite
<1>3. T = B \cup {m} /\ m \notin B
  <2>1. \A u \in T : u \in Int
    BY TaskCount DEF Tasks
  <2>2. \A u \in T : u < m \/ u = m
    BY <1>1, <2>1
  <2> QED BY <2>1, <2>2
<1>4. Cardinality(T) = Cardinality(B) + 1
  BY <1>2, <1>3, FS_AddElement
<1>5. Cardinality(B) < n
  OBVIOUS
<1> QED BY <1>2, <1>4, <1>5

(* A smaller set of tasks has no more members. *)
LEMMA SubsetBound ==
  ASSUME NEW T, T \subseteq Tasks, NEW U, U \subseteq T
  PROVE  Cardinality(U) <= Cardinality(T)
  BY TasksFinite, FS_Subset

-----------------------------------------------------------------------------
(* The inductive invariant. *)

(* Inside a tick: nothing is due between two ticks, and an attempt that    *)
(* paused the run is still open when the tick ends.                        *)
TickInv ==
  /\ cursor = 0 => due = {}
  /\ cursor # 0 /\ stop_reason = "Paused" => running # {}

Inv ==
  /\ TypeOK /\ TickInv
  /\ InFlightIsEligible /\ CapsRespected /\ AliveMeansInFlight
  /\ StopIsTruthful /\ RefusedStaysParked /\ BackoffPerStep

BlockingStop == {"ApprovalRequired", "SecurityBlock", "FailuresBlocked"}

(* The caps hold of fewer running tasks. *)
LEMMA CapsOfFewer ==
  ASSUME TypeOK, CapsRespected, running' \subseteq running
  PROVE  CapsRespected'
<1> USE DEF TypeOK, CapsRespected
<1>1. running \subseteq Tasks /\ running' \subseteq Tasks
  OBVIOUS
<1>2. Cardinality(running') <= Cardinality(running)
      /\ Cardinality(running') \in Nat /\ Cardinality(running) \in Nat
  BY <1>1, SubsetBound, TasksFinite
<1>3. Cardinality(running') <= max_concurrent /\ Cardinality(running') <= review_capacity
  BY <1>2, BacklogAssumption
<1>4. ASSUME max_per_domain # 0, NEW t \in running'
      PROVE  Cardinality({u \in running' : domain[u] = domain[t]}) <= max_per_domain
  <2> DEFINE old == {u \in running : domain[u] = domain[t]}
             new == {u \in running' : domain[u] = domain[t]}
  <2>1. new \subseteq old /\ old \subseteq Tasks
    BY <1>1
  <2>2. Cardinality(new) <= Cardinality(old) /\ Cardinality(new) \in Nat /\ Cardinality(old) \in Nat
    BY <2>1, SubsetBound, TasksFinite
  <2>3. Cardinality(old) <= max_per_domain
    BY <1>4
  <2> QED BY <2>2, <2>3, BacklogAssumption
<1> QED BY <1>3, <1>4

(* The steps between two ticks, and those of a tick that touch no task. *)
LEMMA ControlInv ==
  ASSUME Inv, Pause \/ Resume \/ TickPaused \/ TickBegin \/ Skip \/ TickStopped
  PROVE  Inv'
<1> USE DEF Inv
<1>1. /\ UNCHANGED <<dependencies, budget_remaining, completed, blocked, running, attempts,
                     ladder, recorded>>
      /\ pending' \cup due' = pending \cup due
      /\ pending' \cap due' = {}
      /\ pending' \subseteq Tasks /\ due' \subseteq Tasks
  BY DEF Pause, Resume, TickPaused, TickBegin, Skip, TickStopped, control, TickInv,
         InFlightIsEligible, TypeOK
<1>2. TypeOK'
  <2>1. cursor' \in 0 .. N + 1
    BY TaskCount DEF Pause, Resume, TickPaused, TickBegin, Skip, TickStopped, TypeOK, Tasks
  <2>2. pauses' \in 0 .. MaxPauses
    <3>1. MaxPauses \in Nat
      BY BacklogAssumption
    <3> QED
      BY <3>1 DEF Pause, Resume, TickPaused, TickBegin, Skip, TickStopped, TypeOK, control
  <2>4. paused' \in BOOLEAN
    BY Zenon DEF Pause, Resume, TickPaused, TickBegin, Skip, TickStopped, TypeOK, control
  <2>3. stop_reason' \in StopReason \cup {"none"}
    BY DEF Pause, Resume, TickPaused, TickBegin, Skip, TickStopped, TypeOK, StopReason
  <2> QED BY <1>1, <2>1, <2>2, <2>3, <2>4 DEF TypeOK, ladder
<1>3. TickInv'
  BY <1>1, TaskCount DEF Pause, Resume, TickPaused, TickBegin, Skip, TickStopped, control, TickInv,
     TypeOK, Tasks
<1>4. InFlightIsEligible'
  BY <1>1 DEF InFlightIsEligible, Eligible, Blocked
<1>5. CapsRespected'
  BY <1>1, CapsOfFewer
<1>6. AliveMeansInFlight'
  BY <1>1, TaskCount DEF Pause, Resume, TickPaused, TickBegin, Skip, TickStopped, control, TickInv,
     AliveMeansInFlight, TypeOK, Tasks
<1>7. StopIsTruthful'
  BY <1>1 DEF Pause, Resume, TickPaused, TickBegin, Skip, TickStopped, control,
     StopIsTruthful, Acyclic, Eligible, Blocked
<1>8. RefusedStaysParked'
  BY <1>1 DEF RefusedStaysParked, Blocked
<1>9. BackoffPerStep'
  BY <1>1 DEF BackoffPerStep, Blocked, ladder
<1> QED BY <1>2, <1>3, <1>4, <1>5, <1>6, <1>7, <1>8, <1>9

-----------------------------------------------------------------------------
(* The outcomes. *)

(* What a step that leaves the ladder of the other tasks alone preserves. *)
LadderStep(t) ==
  /\ retry_schedules' \in [Tasks -> Nat]
  /\ current_step' \in [Tasks -> 1 .. steps]
  /\ attempts_at_step' \in [Tasks -> Nat]
  /\ \A u \in Tasks \ {t} : /\ retry_schedules'[u] = retry_schedules[u]
                            /\ attempts_at_step'[u] = attempts_at_step[u]

(* The types of what recording an outcome touches. *)
LEMMA RecordTypes ==
  ASSUME TypeOK, NEW t \in Tasks, NEW o \in FailureClass \cup Reports, Record(t, o)
  PROVE  /\ dependencies' \in Dags /\ budget_remaining' \in 0 .. attempt_budget
         /\ attempts' \in [Tasks -> Nat] /\ due' \subseteq Tasks
         /\ cursor' \in 0 .. N + 1 /\ cursor' # 0
         /\ recorded' \in [Tasks -> FailureClass \cup Reports \cup {"none"}]
<1>1. cursor' \in 0 .. N + 1 /\ cursor' # 0
  BY TaskCount DEF Record, Tasks
<1>2. recorded' \in [Tasks -> FailureClass \cup Reports \cup {"none"}]
  BY DEF Record, TypeOK
<1> QED BY <1>1, <1>2 DEF Record, TypeOK

(* An attempt ends and its task is parked. *)
LEMMA BlockInv ==
  ASSUME Inv, NEW t \in Tasks, NEW o \in FailureClass \cup Reports, Record(t, o), LadderStep(t),
         NEW reason \in BlockReason, NEW stop \in BlockingStop, Block(t, reason, stop)
  PROVE  Inv'
<1> USE DEF Inv
<1>1. TypeOK'
  <2>1. stop_reason' \in StopReason /\ blocked' \in [Tasks -> BlockReason \cup {"none"}]
    BY DEF TypeOK, Block, BlockingStop, StopReason, FinalStop
  <2>2. pauses' = pauses /\ paused' = paused
    BY DEF Block, control
  <2> QED BY <2>1, <2>2, RecordTypes DEF TypeOK, Block, LadderStep
<1>2. t \in running /\ t \in Eligible(completed) /\ t \notin pending \cup due
  BY DEF Record, InFlightIsEligible
<1>3. Blocked = {} /\ Blocked' = {t}
  BY DEF StopIsTruthful, Record, Block, Blocked, BlockReason, TypeOK
<1>4. TickInv'
  BY TaskCount DEF TickInv, Record, Block, BlockingStop, Tasks
<1>5. InFlightIsEligible'
  BY <1>2, <1>3 DEF InFlightIsEligible, Eligible, Record, Block
<1>6. CapsRespected'
  BY CapsOfFewer DEF Block
<1>7. AliveMeansInFlight'
  BY DEF AliveMeansInFlight, Block, BlockingStop
<1>8. StopIsTruthful'
  BY <1>3 DEF StopIsTruthful, Block, BlockingStop
<1>9. RefusedStaysParked'
  BY <1>2, <1>3 DEF RefusedStaysParked, Record, Block, TypeOK
<1>10. BackoffPerStep'
  BY <1>3 DEF BackoffPerStep, LadderStep
<1> QED BY <1>1, <1>4, <1>5, <1>6, <1>7, <1>8, <1>9, <1>10

(* An attempt ends and its task is queued again. *)
LEMMA RequeueInv ==
  ASSUME Inv, NEW t \in Tasks, NEW o \in FailureClass \cup Reports, Record(t, o), LadderStep(t),
         o \notin Refusals, retry_schedules'[t] <= attempts_at_step'[t], Requeue(t)
  PROVE  Inv'
<1> USE DEF Inv
<1>1. TypeOK'
  <2>1. pauses' = pauses /\ paused' = paused
    BY DEF Requeue, control
  <2> QED BY <2>1, RecordTypes DEF TypeOK, Requeue, LadderStep
<1>2. t \in running /\ t \in Eligible(completed) /\ t \notin pending \cup due
  BY DEF Record, InFlightIsEligible
<1>3. Blocked' = Blocked
  BY DEF Requeue, Blocked
<1>4. TickInv'
  BY TaskCount DEF TickInv, Record, Requeue, Tasks
<1>5. InFlightIsEligible'
  BY <1>2, <1>3 DEF InFlightIsEligible, Eligible, Record, Requeue
<1>6. CapsRespected'
  BY CapsOfFewer DEF Requeue
<1>7. AliveMeansInFlight'
  BY TaskCount DEF AliveMeansInFlight, Record, Tasks
<1>8. StopIsTruthful'
  BY <1>3 DEF StopIsTruthful, Record, Requeue
<1>9. RefusedStaysParked'
  BY <1>2, <1>3 DEF RefusedStaysParked, Record, Requeue, TypeOK
<1>10. BackoffPerStep'
  BY <1>3 DEF BackoffPerStep, LadderStep
<1> QED BY <1>1, <1>4, <1>5, <1>6, <1>7, <1>8, <1>9, <1>10

(* A step of the ladder, whether the task stays at it or leaves it. *)
LEMMA StayLadder ==
  ASSUME Inv, NEW t \in running, NEW b, StayAtStep(t, attempts_at_step[t] + 1, b)
  PROVE  LadderStep(t) /\ retry_schedules'[t] <= attempts_at_step'[t]
<1>1. t \in Tasks \ Blocked
  BY DEF Inv, InFlightIsEligible, Eligible
<1>2. retry_schedules[t] <= attempts_at_step[t]
  BY <1>1 DEF Inv, BackoffPerStep
<1> QED BY <1>1, <1>2 DEF Inv, TypeOK, StayAtStep, LadderStep

(* Leaving the ladder step parks the task or queues it again with a fresh backoff. *)
LEMMA EscalateLadder ==
  ASSUME Inv, NEW t \in running, Escalate(t, attempts_at_step[t] + 1)
  PROVE  /\ LadderStep(t)
         /\ \/ Block(t, "HumanEscalation", "FailuresBlocked")
            \/ Requeue(t) /\ retry_schedules'[t] <= attempts_at_step'[t]
<1>1. t \in Tasks
  BY DEF Inv, TypeOK
<1>2. steps \in Nat \ {0}
  BY BacklogAssumption
<1>3. LadderStep(t)
  BY <1>1, <1>2 DEF Inv, TypeOK, Escalate, LadderStep, FreshBackoff
<1>4. ASSUME Requeue(t), FreshBackoff(t)
      PROVE  retry_schedules'[t] <= attempts_at_step'[t]
  BY <1>1, <1>3, <1>4 DEF Inv, TypeOK, FreshBackoff, LadderStep
<1> QED BY <1>3, <1>4 DEF Escalate

(* A reported success. *)
LEMMA CompleteInv ==
  ASSUME Inv, NEW t \in Tasks, Complete(t)
  PROVE  Inv'
<1> USE DEF Inv
<1>1. TypeOK'
  <2>1. Record(t, "Completed") /\ "Completed" \in FailureClass \cup Reports
    BY DEF Complete, Reports
  <2>2. pauses' = pauses /\ paused' = paused
    BY DEF Complete, control
  <2>3. retry_schedules' \in [Tasks -> Nat]
    BY DEF Complete, TypeOK
  <2> QED BY <2>1, <2>2, <2>3, RecordTypes DEF TypeOK, Complete
<1>2. t \in running /\ t \notin pending \cup due /\ stop_reason = "none" /\ Blocked' = Blocked
  BY DEF Complete, Record, InFlightIsEligible, Blocked
<1>3. TickInv'
  BY <1>2, TaskCount DEF TickInv, Complete, Record, Tasks
<1>4. InFlightIsEligible'
  BY <1>2 DEF InFlightIsEligible, Eligible, Complete, Record
<1>5. CapsRespected'
  BY CapsOfFewer DEF Complete
<1>6. AliveMeansInFlight'
  BY TaskCount DEF AliveMeansInFlight, Complete, Record, Tasks
<1>7. StopIsTruthful'
  BY <1>2 DEF StopIsTruthful, Complete, Record
<1>8. RefusedStaysParked'
  BY <1>2 DEF RefusedStaysParked, Complete, Record, TypeOK, Refusals
<1>9. BackoffPerStep'
  BY <1>2 DEF BackoffPerStep, Complete, TypeOK
<1> QED BY <1>1, <1>3, <1>4, <1>5, <1>6, <1>7, <1>8, <1>9

(* An attempt that pauses the run and stays open. *)
LEMMA PauseAttemptInv ==
  ASSUME Inv, NEW t \in Tasks, PauseAttempt(t)
  PROVE  Inv'
<1> USE DEF Inv
<1>1. TypeOK'
  <2>1. Record(t, "Paused") /\ "Paused" \in FailureClass \cup Reports
    BY DEF PauseAttempt, Reports
  <2>2. pauses' \in 0 .. MaxPauses /\ paused' = TRUE /\ stop_reason' \in StopReason
    BY BacklogAssumption DEF PauseAttempt, TypeOK, StopReason
  <2> QED BY <2>1, <2>2, RecordTypes DEF TypeOK, PauseAttempt, ladder
<1>2. t \in running /\ stop_reason = "none" /\ Blocked' = Blocked
  BY DEF PauseAttempt, Record, Blocked
<1>3. TickInv'
  BY <1>2, TaskCount DEF TickInv, PauseAttempt, Record, Tasks
<1>4. InFlightIsEligible'
  BY <1>2 DEF InFlightIsEligible, Eligible, PauseAttempt, Record
<1>5. CapsRespected'
  BY CapsOfFewer DEF PauseAttempt
<1>6. AliveMeansInFlight'
  BY TaskCount DEF AliveMeansInFlight, PauseAttempt, Record, Tasks
<1>7. StopIsTruthful'
  BY <1>2 DEF StopIsTruthful, PauseAttempt, Record
<1>8. RefusedStaysParked'
  BY <1>2 DEF RefusedStaysParked, PauseAttempt, Record, TypeOK, Refusals
<1>9. BackoffPerStep'
  BY <1>2 DEF BackoffPerStep, PauseAttempt, ladder
<1> QED BY <1>1, <1>3, <1>4, <1>5, <1>6, <1>7, <1>8, <1>9

(* A refusal. *)
LEMMA RefuseInv ==
  ASSUME Inv, NEW t \in Tasks, NEW o \in {"ApprovalRequired", "PolicyDenied"}, Refuse(t, o)
  PROVE  Inv'
<1>1. Record(t, o) /\ o \in FailureClass \cup Reports
  BY DEF Refuse, Reports
<1>2. LadderStep(t)
  BY DEF Refuse, ladder, LadderStep, Inv, TypeOK
<1>3. PICK reason \in BlockReason, stop \in BlockingStop : Block(t, reason, stop)
  BY DEF Refuse, BlockReason, BlockingStop
<1> QED BY <1>1, <1>2, <1>3, BlockInv

(* A failure: parked, queued again, or moved up the ladder. *)
LEMMA FailInv ==
  ASSUME Inv, NEW t \in Tasks, NEW f \in Failures, Fail(t, f)
  PROVE  Inv'
<1> DEFINE failed == attempts_at_step[t] + 1
           decision == Gate(f, Classify(f, attempts[t]))
<1>1. Record(t, f.class) /\ f.class \in FailureClass \cup Reports /\ t \in running
  BY DEF Fail, Record, Failures
<1>2. decision \in {"Retry", "Hold", "FixRootCause", "Reprompt"} => f.class \notin Refusals
  BY DEF Gate, Refusals, Failures, FailureClass
<1>3. CASE \E b : StayAtStep(t, failed, b) /\ Requeue(t) /\ f.class \notin Refusals
  BY <1>1, <1>3, StayLadder, RequeueInv
<1>4. CASE Escalate(t, failed) /\ f.class \notin Refusals
  <2>1. "HumanEscalation" \in BlockReason /\ "FailuresBlocked" \in BlockingStop
    BY DEF BlockReason, BlockingStop
  <2>2. LadderStep(t)
    BY <1>1, <1>4, EscalateLadder
  <2>3. CASE Block(t, "HumanEscalation", "FailuresBlocked")
    BY <1>1, <2>1, <2>2, <2>3, BlockInv
  <2>4. CASE Requeue(t) /\ retry_schedules'[t] <= attempts_at_step'[t]
    BY <1>1, <1>4, <2>2, <2>4, RequeueInv
  <2> QED BY <1>1, <1>4, <2>3, <2>4, EscalateLadder
<1>5. CASE /\ StayAtStep(t, failed, FALSE)
           /\ \E reason \in BlockReason, stop \in BlockingStop : Block(t, reason, stop)
  BY <1>1, <1>5, StayLadder, BlockInv
<1>6. decision = "Escalate" /\ f.class \notin {"PolicyDenial", "NonRetriableConfigOrSecurity"}
        => f.class \notin Refusals
  BY DEF Gate, Refusals, Failures, FailureClass
<1> QED
  BY <1>1, <1>2, <1>3, <1>4, <1>5, <1>6 DEF Fail, BlockReason, BlockingStop

(* Every outcome of a running task. *)
LEMMA ConsumeInv ==
  ASSUME Inv, NEW t \in Tasks, Consume(t)
  PROVE  Inv'
  BY CompleteInv, PauseAttemptInv, RefuseInv, FailInv DEF Consume

-----------------------------------------------------------------------------
(* The dispatch. *)

(* The tasks that start cost no more than the budget, and all of it when   *)
(* one of the candidates cannot start.                                     *)
LEMMA AffordableCost ==
  ASSUME NEW C, C \subseteq Tasks, budget_remaining \in Nat
  PROVE  /\ Affordable(C) \subseteq C
         /\ Cardinality(Affordable(C)) \in Nat
         /\ Cardinality(Affordable(C)) <= budget_remaining
         /\ Affordable(C) # C => Cardinality(Affordable(C)) = budget_remaining
<1> DEFINE A == Affordable(C)
<1>1. A \subseteq C /\ A \subseteq Tasks
  BY DEF Affordable
<1>2. Cardinality(A) \in Nat
  BY <1>1, TasksFinite
<1>3. Cardinality(A) <= budget_remaining
  <2>1. CASE A = {}
    BY <2>1, FS_EmptySet
  <2>2. CASE A # {}
    <3>1. ASSUME NEW t \in A
          PROVE  Cardinality({u \in A : u < t}) < budget_remaining
      <4> DEFINE P == {u \in A : u < t}
                 Q == {u \in C : u < t}
      <4>1. P \subseteq Q /\ Q \subseteq Tasks /\ P \subseteq Tasks
        BY <1>1
      <4>2. Cardinality(P) <= Cardinality(Q) /\ Cardinality(P) \in Nat /\ Cardinality(Q) \in Nat
        BY <4>1, SubsetBound, TasksFinite
      <4>3. Cardinality(Q) < budget_remaining
        BY DEF Affordable
      <4> QED BY <4>2, <4>3
    <3> HIDE DEF A
    <3> QED BY <1>1, <2>2, <3>1, GreedyBound
  <2> QED BY <2>1, <2>2
<1>4. ASSUME A # C PROVE Cardinality(A) >= budget_remaining
  <2> DEFINE R == C \ A
  <2>1. R \subseteq Nat /\ R # {}
    <3> HIDE DEF A
    <3>1. R # {}
      BY <1>1, <1>4
    <3>2. \A t \in Tasks : t \in Nat
      BY TaskCount DEF Tasks
    <3>3. R \subseteq Nat
      BY <3>2
    <3> QED BY <3>1, <3>3
  <2>2. PICK c \in R : \A y \in R : c <= y
    BY <2>1, LeastTask
  <2> DEFINE Q == {u \in C : u < c}
  <2>3. Q \subseteq A
    <3> SUFFICES ASSUME NEW u \in C, u < c PROVE u \in A
      OBVIOUS
    <3>1. u \in Nat /\ c \in Nat
      BY <2>1, TaskCount DEF Tasks
    <3> HIDE DEF A
    <3> QED BY <2>2, <3>1
  <2>4. Cardinality(Q) <= Cardinality(A) /\ Cardinality(Q) \in Nat
    <3> HIDE DEF A
    <3> QED BY <1>1, <2>3, SubsetBound, TasksFinite
  <2>5. ~(Cardinality(Q) < budget_remaining)
    BY <2>2 DEF Affordable
  <2> QED BY <1>2, <2>4, <2>5
<1> QED BY <1>1, <1>2, <1>3, <1>4

(* Any part of the selection may run beside what runs already. *)
LEMMA SelectionFits ==
  ASSUME TypeOK, CapsRespected, NEW S, S \subseteq Tasks, IsSelection(S),
         NEW A, A \subseteq S, running' = running \cup A
  PROVE  CapsRespected'
<1>1. S \subseteq Tasks \ running /\ running \subseteq Tasks /\ A \subseteq Tasks
  BY DEF IsSelection, Eligible, TypeOK
<1>2. \A t \in S : Cardinality({u \in S : u < t}) < Slots
  BY DEF IsSelection
<1>3. \A t \in S : Admits(running \cup {u \in S : u < t}, t)
  BY DEF IsSelection
<1>4. Cardinality(running) \in Nat /\ Cardinality(A) \in Nat /\ Cardinality(S) \in Nat
      /\ IsFiniteSet(running) /\ IsFiniteSet(A) /\ Cardinality(A) <= Cardinality(S)
  BY <1>1, TasksFinite, SubsetBound
<1>5. /\ max_concurrent \in Nat /\ review_capacity \in Nat /\ max_per_domain \in Nat
      /\ Slots \in Int
      /\ Slots <= max_concurrent - Cardinality(running)
      /\ Slots <= review_capacity - Cardinality(running)
  BY <1>4, BacklogAssumption DEF Slots
<1>6. Cardinality(running') = Cardinality(running) + Cardinality(A)
  <2>1. running \cap A = {}
    BY <1>1
  <2> QED BY <1>4, <2>1, FS_Union, FS_EmptySet
<1>7. Cardinality(running') <= max_concurrent /\ Cardinality(running') <= review_capacity
  <2>1. CASE S = {}
    BY <1>4, <1>6, <2>1, FS_EmptySet DEF CapsRespected
  <2>2. CASE S # {}
    <3>1. Cardinality(S) <= Slots
      BY <1>1, <1>2, <1>5, <2>2, GreedyBound
    <3> QED BY <1>4, <1>5, <1>6, <3>1
  <2> QED BY <2>1, <2>2
<1>8. ASSUME max_per_domain # 0, NEW t \in running'
      PROVE  Cardinality({u \in running' : domain[u] = domain[t]}) <= max_per_domain
  <2> DEFINE new == {u \in running' : domain[u] = domain[t]}
             fresh == {u \in A : domain[u] = domain[t]}
  <2>1. CASE fresh = {}
    <3>1. t \in running /\ new = {u \in running : domain[u] = domain[t]}
      BY <2>1
    <3> QED BY <1>8, <3>1 DEF CapsRespected
  <2>2. CASE fresh # {}
    <3>1. PICK m \in fresh : \A y \in fresh : y <= m
      BY <1>1, <2>2, GreatestTask
    <3> DEFINE before == {u \in running \cup {v \in S : v < m} : domain[u] = domain[m]}
    <3>2. before \subseteq Tasks /\ new \subseteq before \cup {m} /\ before \cup {m} \subseteq Tasks
      <4>1. \A u \in A : u \in Int
        BY <1>1, TaskCount DEF Tasks
      <4>2. \A u \in fresh : u < m \/ u = m
        BY <3>1, <4>1
      <4> QED BY <1>1, <3>1, <4>2
    <3>3. Cardinality(before) < max_per_domain
      BY <1>3, <1>8, <3>1 DEF Admits
    <3>4. Cardinality(before) \in Nat /\ IsFiniteSet(before)
      BY <3>2, TasksFinite
    <3>5. Cardinality(before \cup {m}) <= Cardinality(before) + 1
          /\ Cardinality(before \cup {m}) \in Nat
      <4> HIDE DEF before
      <4> QED BY <3>2, <3>4, FS_AddElement, TasksFinite
    <3>6. Cardinality(new) <= Cardinality(before \cup {m}) /\ Cardinality(new) \in Nat
      <4>1. new \subseteq Tasks
        BY <3>2
      <4> HIDE DEF before, new
      <4> QED BY <3>2, <4>1, SubsetBound, TasksFinite
    <3> QED BY <1>5, <3>3, <3>4, <3>5, <3>6
  <2> QED BY <2>1, <2>2
<1>9. ASSUME NEW t \in running', NEW u \in running', t # u
      PROVE  expected_files[t] \cap expected_files[u] = {}
  <2>1. CASE t \in running /\ u \in running
    BY <1>9, <2>1 DEF CapsRespected
  <2>2. CASE t \in A /\ u \in running
    BY <1>3, <2>2 DEF Admits
  <2>3. CASE u \in A /\ t \in running
    BY <1>3, <2>3 DEF Admits
  <2>4. CASE t \in A /\ u \in A
    <3>1. t < u \/ u < t
      BY <1>1, <1>9, <2>4, TaskCount DEF Tasks
    <3> QED BY <1>3, <2>4, <3>1 DEF Admits
  <2> QED BY <2>1, <2>2, <2>3, <2>4
<1> QED BY <1>7, <1>8, <1>9 DEF CapsRespected

(* When nothing runs, the first eligible task is selected. *)
LEMMA FirstIsSelected ==
  ASSUME running = {}, Eligible(completed) # {}, NEW S, IsSelection(S)
  PROVE  S # {}
<1>1. Eligible(completed) \subseteq Nat
  BY TaskCount DEF Eligible, Tasks
<1>2. PICK m \in Eligible(completed) : \A y \in Eligible(completed) : m <= y
  BY <1>1, LeastTask
<1>3. {u \in S : u < m} = {}
  <2>1. \A u \in S : u \in Eligible(completed)
    BY DEF IsSelection
  <2> QED BY <1>1, <1>2, <2>1
<1>4. 0 < Slots
  BY BacklogAssumption, FS_EmptySet DEF Slots
<1>5. Admits({}, m)
  <2>1. {u \in {} : domain[u] = domain[m]} = {}
    OBVIOUS
  <2>2. max_per_domain = 0 \/ 0 < max_per_domain
    BY BacklogAssumption
  <2> QED BY <2>1, <2>2, FS_EmptySet DEF Admits
<1>6. m \in S
  BY <1>2, <1>3, <1>4, <1>5, FS_EmptySet DEF IsSelection
<1> QED BY <1>6

(* The dispatch keeps the invariant. *)
LEMMA DispatchInv ==
  ASSUME Inv, Dispatch
  PROVE  Inv'
<1> USE DEF Inv
<1>1. PICK S \in SUBSET Tasks :
        /\ IsSelection(S)
        /\ running' = running \cup Affordable(Startable \cap S)
        /\ budget_remaining' = budget_remaining - Cardinality(Affordable(Startable \cap S))
        /\ attempts' = [t \in Tasks |-> IF t \in Affordable(Startable \cap S)
                                        THEN attempts[t] + 1 ELSE attempts[t]]
        /\ stop_reason' = EndReason(Startable \cap S,
                                    running \cup Affordable(Startable \cap S) \cup pending)
  BY Zenon DEF Dispatch
<1> DEFINE C == Startable \cap S
           started == Affordable(C)
<1>2. /\ cursor = N + 1 /\ stop_reason = "none" /\ due' = {} /\ cursor' = 0
      /\ UNCHANGED <<dependencies, completed, blocked, pending, retry_schedules, current_step,
                     attempts_at_step, paused, pauses, recorded>>
  BY DEF Dispatch, ladder, control
<1>3. Blocked = {} /\ Blocked' = {}
  BY <1>2 DEF StopIsTruthful, Blocked
<1>4. /\ started \subseteq C /\ Cardinality(started) \in Nat
      /\ Cardinality(started) <= budget_remaining
      /\ started # C => Cardinality(started) = budget_remaining
  <2>1. budget_remaining \in Nat
    BY BacklogAssumption DEF TypeOK
  <2>2. C \subseteq Tasks
    OBVIOUS
  <2> HIDE DEF C
  <2> QED BY <2>1, <2>2, AffordableCost
<1>5. C \subseteq Eligible(completed) \ running /\ C \cap pending = {} /\ C \subseteq Tasks
  BY DEF Startable, IsSelection, InFlightIsEligible, Eligible
<1> HIDE DEF started
<1>6. TypeOK'
  <2>1. budget_remaining' \in 0 .. attempt_budget
    BY <1>1, <1>4, BacklogAssumption DEF TypeOK, started
  <2>2. attempts' \in [Tasks -> Nat]
    BY <1>1 DEF TypeOK
  <2>3. stop_reason' \in StopReason \cup {"none"}
    BY <1>1 DEF EndReason, StopReason, FinalStop
  <2>4. running' \subseteq Tasks
    BY <1>1, <1>4, <1>5 DEF TypeOK, started
  <2>5. cursor' \in 0 .. N + 1
    BY <1>2, TaskCount
  <2> QED BY <1>2, <2>1, <2>2, <2>3, <2>4, <2>5 DEF TypeOK
<1>7. TickInv'
  BY <1>2 DEF TickInv
<1>8. InFlightIsEligible'
  <2>1. running' = running \cup started /\ started \subseteq Eligible(completed) \ running
        /\ started \cap pending = {}
    BY <1>1, <1>4, <1>5 DEF started
  <2> QED BY <1>2, <1>3, <2>1 DEF InFlightIsEligible, Eligible
<1>9. CapsRespected'
  BY <1>1, <1>4, SelectionFits DEF started
<1>10. AliveMeansInFlight'
  <2> SUFFICES ASSUME stop_reason' \in {"none", "Paused"} PROVE running' \cup pending' # {}
    BY DEF AliveMeansInFlight
  <2> SUFFICES ASSUME running' \cup pending' = {} PROVE FALSE
    OBVIOUS
  <2>1. running = {} /\ pending = {} /\ started = {}
    BY <1>1, <1>2 DEF started
  <2>2. started = C /\ ~(Eligible(completed) \subseteq Blocked)
    BY <1>1, <1>2, <2>1 DEF EndReason, started
  <2>3. S # {}
    BY <1>1, <2>1, <2>2, FirstIsSelected
  <2>4. S \subseteq Startable
    BY <1>1, <1>3, <2>1 DEF IsSelection, Startable
  <2> QED BY <2>1, <2>2, <2>3, <2>4
<1>11. StopIsTruthful'
  <2>1. stop_reason' = "BacklogEmpty" => completed' = Tasks
    BY <1>1, <1>2 DEF EndReason
  <2>2. ASSUME stop_reason' = "NoEligibleTasks" PROVE ~Acyclic'
    <3>1. completed # Tasks /\ Eligible(completed) \subseteq Blocked
      BY <1>1, <2>2 DEF EndReason
    <3> DEFINE rest == Tasks \ completed
    <3>2. rest # {} /\ rest \in SUBSET Tasks
      BY <3>1 DEF TypeOK
    <3>3. dependencies \in [Tasks -> SUBSET Tasks]
      BY BacklogAssumption DEF TypeOK
    <3>4. \A t \in rest : dependencies[t] \cap rest # {}
      BY <1>3, <3>1, <3>3 DEF Eligible
    <3> QED BY <1>2, <3>2, <3>4 DEF Acyclic
  <2>3. ASSUME stop_reason' = "BudgetExhausted"
        PROVE  budget_remaining' = 0 /\ Eligible(completed)' \ (Blocked' \cup running') # {}
    <3>1. started # C
      BY <1>1, <2>3 DEF EndReason, started
    <3>2. budget_remaining' = 0
      BY <1>1, <1>4, <3>1 DEF TypeOK, started
    <3>3. PICK c \in C : c \notin started
      BY <1>4, <3>1
    <3>4. c \in Eligible(completed)' \ (Blocked' \cup running')
      BY <1>1, <1>2, <1>3, <1>5, <3>3 DEF Eligible, started
    <3> QED BY <3>2, <3>4
  <2>4. Blocked' # {} <=> stop_reason' \in BlockingStop
    BY <1>1, <1>3 DEF EndReason, BlockingStop
  <2> QED BY <2>1, <2>2, <2>3, <2>4 DEF StopIsTruthful, BlockingStop
<1>12. RefusedStaysParked'
  BY <1>2, <1>3 DEF RefusedStaysParked
<1>13. BackoffPerStep'
  BY <1>2, <1>3 DEF BackoffPerStep
<1> QED BY <1>6, <1>7, <1>8, <1>9, <1>10, <1>11, <1>12, <1>13

-----------------------------------------------------------------------------
(***************************************************************************)
(* The attempts of one task.  The failures counted so far are at most what *)
(* the earlier ladder steps tolerate plus those of the present step; the   *)
(* present step counts more than it tolerates only while every attempt was *)
(* a reprompt.                                                             *)
(***************************************************************************)

PerStep == IF 1 < max_attempts_per_step THEN max_attempts_per_step ELSE 1

FirstStep == IF PerStep < max_reprompt_attempts THEN max_reprompt_attempts ELSE PerStep

(* The most failures a task can bring to ladder step c. *)
StepBase(c) == IF c = 1 THEN 0 ELSE FirstStep + (c - 2) * PerStep

(* The attempts of the task that are over. *)
FailedAttempts(t) == IF t \in running THEN attempts[t] - 1 ELSE attempts[t]

LadderHolds(t) ==
  /\ attempts[t] <= AttemptBound
  /\ t \in running => attempts[t] > 0
  /\ t \notin Blocked \cup completed =>
       /\ current_step[t] = 1 \/ current_step[t] < steps
       /\ FailedAttempts(t) <= StepBase(current_step[t]) + attempts_at_step[t]
       /\ attempts_at_step[t] < PerStep \/ FailedAttempts(t) < max_reprompt_attempts

LadderInv == \A t \in Tasks : LadderHolds(t)

(* A ladder step adds what it tolerates, and the last agent's step is the last. *)
LEMMA StepBases ==
  ASSUME NEW c \in 1 .. steps
  PROVE  /\ PerStep \in Nat /\ PerStep >= 1 /\ FirstStep \in Nat
         /\ FirstStep >= PerStep /\ FirstStep >= max_reprompt_attempts
         /\ StepBase(c) \in Nat
         /\ StepBase(c) + PerStep <= StepBase(c + 1) /\ StepBase(c + 1) \in Nat
         /\ FirstStep <= StepBase(c + 1)
         /\ c = 1 \/ c < steps => StepBase(c) + PerStep <= AttemptBound
         /\ FirstStep <= AttemptBound /\ AttemptBound \in Nat
<1>1. /\ PerStep \in Nat /\ PerStep >= 1 /\ FirstStep \in Nat
      /\ FirstStep >= PerStep /\ FirstStep >= max_reprompt_attempts
      /\ max_reprompt_attempts \in Nat /\ steps \in Nat \ {0} /\ c \in Nat /\ c >= 1 /\ c <= steps
  BY BacklogAssumption DEF PerStep, FirstStep
<1>2. AttemptBound = FirstStep + (IF 0 < steps - 2 THEN steps - 2 ELSE 0) * PerStep
  BY BacklogAssumption DEF AttemptBound, PerStep, FirstStep
<1> HIDE DEF PerStep, FirstStep
<1>3. ASSUME NEW n \in Nat PROVE n * PerStep \in Nat /\ (n + 1) * PerStep = n * PerStep + PerStep
  BY <1>1
<1>4. ASSUME NEW m \in Nat, NEW n \in Nat, m <= n PROVE m * PerStep <= n * PerStep
  <2>1. n * PerStep = m * PerStep + (n - m) * PerStep
    BY <1>1
  <2>2. n - m \in Nat /\ (n - m) * PerStep \in Nat /\ m * PerStep \in Nat
    BY <1>3, <1>4
  <2> QED
    BY <2>1, <2>2
<1>5. CASE c = 1
  <2>1. StepBase(c) = 0 /\ StepBase(c + 1) = FirstStep
    BY <1>1, <1>3, <1>5 DEF StepBase
  <2>2. AttemptBound \in Nat /\ FirstStep <= AttemptBound
    <3> DEFINE n == IF 0 < steps - 2 THEN steps - 2 ELSE 0
    <3>1. n \in Nat
      BY <1>1
    <3> HIDE DEF n
    <3>2. n * PerStep \in Nat
      BY <1>3, <3>1
    <3>3. AttemptBound = FirstStep + n * PerStep
      BY <1>2 DEF n
    <3> QED
      BY <1>1, <3>2, <3>3
  <2> QED
    BY <1>1, <2>1, <2>2
<1>6. CASE c > 1
  <2> DEFINE n == c - 2
             l == IF 0 < steps - 2 THEN steps - 2 ELSE 0
  <2>1. n \in Nat /\ l \in Nat /\ (c < steps => n + 1 <= l) /\ c # 1 /\ c + 1 # 1 /\ (c + 1) - 2 = n + 1
    BY <1>1, <1>6
  <2>2. StepBase(c) = FirstStep + n * PerStep /\ StepBase(c + 1) = FirstStep + (n + 1) * PerStep
    BY <2>1 DEF StepBase
  <2>3. AttemptBound = FirstStep + l * PerStep
    BY <1>2
  <2> HIDE DEF n, l
  <2>4. n * PerStep \in Nat /\ (n + 1) * PerStep = n * PerStep + PerStep /\ l * PerStep \in Nat
        /\ (c < steps => (n + 1) * PerStep <= l * PerStep)
    BY <1>3, <1>4, <2>1
  <2> QED
    BY <1>1, <2>1, <2>2, <2>3, <2>4
<1> QED
  BY <1>1, <1>5, <1>6

(* A task whose counters and place are left alone. *)
LEMMA LadderFrame ==
  ASSUME NEW t \in Tasks, LadderHolds(t), attempts'[t] = attempts[t],
         t \in running' <=> t \in running,
         current_step'[t] = current_step[t], attempts_at_step'[t] = attempts_at_step[t],
         t \in Blocked => t \in Blocked', t \in completed => t \in completed'
  PROVE  LadderHolds(t)'
<1>1. AttemptBound' = AttemptBound /\ FailedAttempts(t)' = FailedAttempts(t)
      /\ StepBase(current_step[t])' = StepBase(current_step[t])
  BY DEF AttemptBound, FailedAttempts, StepBase, FirstStep, PerStep
<1> QED
  BY <1>1 DEF LadderHolds, PerStep, StepBase, FirstStep

(* The attempt of a task ends with a failure that leaves it to be run again. *)
LEMMA LadderFailure ==
  ASSUME Inv, NEW t \in running, LadderHolds(t), UNCHANGED attempts, t \notin running',
         \/ /\ current_step'[t] = current_step[t] /\ attempts_at_step'[t] = attempts_at_step[t] + 1
            /\ \/ attempts_at_step[t] + 1 < max_attempts_per_step
               \/ attempts[t] < max_reprompt_attempts
         \/ /\ current_step[t] < steps
            /\ current_step'[t] = current_step[t] + 1 /\ current_step'[t] < steps
            /\ attempts_at_step'[t] = 0
  PROVE  LadderHolds(t)'
<1>1. t \in Tasks \ (Blocked \cup completed)
  BY DEF Inv, InFlightIsEligible, Eligible
<1> DEFINE c == current_step[t]
           k == attempts_at_step[t]
           a == attempts[t]
<1>2. c \in 1 .. steps /\ c \in Nat /\ k \in Nat /\ a \in Nat /\ a > 0 /\ steps \in Nat
      /\ max_attempts_per_step \in Nat /\ max_reprompt_attempts \in Nat
  BY <1>1, BacklogAssumption DEF Inv, TypeOK, LadderHolds
<1>3. /\ a <= AttemptBound /\ (c = 1 \/ c < steps)
      /\ a - 1 <= StepBase(c) + k /\ (k < PerStep \/ a - 1 < max_reprompt_attempts)
  BY <1>1 DEF LadderHolds, FailedAttempts
<1>4. /\ PerStep \in Nat /\ PerStep >= 1 /\ FirstStep \in Nat
      /\ FirstStep >= PerStep /\ FirstStep >= max_reprompt_attempts
      /\ StepBase(c) \in Nat /\ StepBase(c) + PerStep <= StepBase(c + 1) /\ StepBase(c + 1) \in Nat
      /\ FirstStep <= StepBase(c + 1)
  <2> HIDE DEF c
  <2> QED
    BY <1>2, StepBases
<1>5. max_attempts_per_step <= PerStep
  BY <1>2 DEF PerStep
<1>6. FailedAttempts(t)' = a /\ attempts'[t] = a
  BY DEF FailedAttempts
<1>7. AttemptBound' = AttemptBound /\ PerStep' = PerStep /\ FirstStep' = FirstStep
  BY DEF AttemptBound, PerStep, FirstStep
<1>8. CASE /\ current_step'[t] = c /\ attempts_at_step'[t] = k + 1
           /\ k + 1 < max_attempts_per_step \/ a < max_reprompt_attempts
  <2>1. a <= StepBase(c) + (k + 1) /\ (k + 1 < PerStep \/ a < max_reprompt_attempts)
    <3> HIDE DEF c, k, a
    <3> QED
      BY <1>2, <1>3, <1>4, <1>5, <1>8
  <2>2. StepBase(current_step[t])' = StepBase(c)
    BY <1>7, <1>8 DEF StepBase
  <2> QED
    BY <1>3, <1>6, <1>7, <1>8, <2>1, <2>2 DEF LadderHolds
<1>9. CASE c < steps /\ current_step'[t] = c + 1 /\ current_step'[t] < steps /\ attempts_at_step'[t] = 0
  <2>1. a <= StepBase(c + 1) + 0 /\ 0 < PerStep
    <3> HIDE DEF c, k, a
    <3> QED
      BY <1>2, <1>3, <1>4
  <2>2. StepBase(current_step[t])' = StepBase(c + 1)
    BY <1>7, <1>9 DEF StepBase
  <2> QED
    BY <1>3, <1>6, <1>7, <1>9, <2>1, <2>2 DEF LadderHolds
<1> QED
  BY <1>8, <1>9

(* A failure of the task, whatever is decided about it. *)
LEMMA LadderFail ==
  ASSUME Inv, LadderInv, NEW t \in Tasks, NEW f \in Failures, Fail(t, f)
  PROVE  LadderInv'
<1> DEFINE failed == attempts_at_step[t] + 1
           decision == Gate(f, Classify(f, attempts[t]))
<1>1. t \in running /\ UNCHANGED attempts /\ t \notin Blocked \cup completed
  BY DEF Fail, Record, Inv, InFlightIsEligible, Eligible
<1>2. \/ Requeue(t) /\ StayAtStep(t, failed, decision = "Retry")
           /\ decision \in {"Retry", "Hold", "FixRootCause"} /\ ~StepSpent(failed)
      \/ Requeue(t) /\ StayAtStep(t, failed, FALSE) /\ decision = "Reprompt"
      \/ StayAtStep(t, failed, FALSE) /\ \E r \in BlockReason : \E s : Block(t, r, s)
      \/ Escalate(t, failed)
  BY DEF Fail, BlockReason
<1>3. decision = "Reprompt" => attempts[t] < max_reprompt_attempts
  BY BacklogAssumption DEF Gate, Classify, Failures, FailureClass, Inv, TypeOK
<1> HIDE DEF decision
<1>4. /\ \A u \in Tasks \ {t} : /\ u \in running' <=> u \in running
                                /\ current_step'[u] = current_step[u]
                                /\ attempts_at_step'[u] = attempts_at_step[u]
                                /\ u \in Blocked => u \in Blocked'
      /\ UNCHANGED completed
  BY <1>2 DEF Requeue, StayAtStep, Escalate, Block, Blocked, Inv, TypeOK
<1>5. ASSUME NEW u \in Tasks \ {t} PROVE LadderHolds(u)'
  BY <1>1, <1>4, LadderFrame DEF LadderInv
<1>6. LadderHolds(t)'
  <2>1. CASE \E r \in BlockReason : \E s : Block(t, r, s)
    <3>1. t \in Blocked' /\ t \notin running'
      BY <2>1 DEF Block, Blocked, BlockReason, Inv, TypeOK
    <3> QED
      BY <1>1, <3>1 DEF LadderInv, LadderHolds, AttemptBound
  <2>2. CASE Requeue(t) /\ StayAtStep(t, failed, decision = "Retry") /\ ~StepSpent(failed)
    <3>1. t \notin running' /\ current_step'[t] = current_step[t]
          /\ attempts_at_step'[t] = attempts_at_step[t] + 1
      BY <2>2 DEF Requeue, StayAtStep, Inv, TypeOK
    <3>2. attempts_at_step[t] + 1 < max_attempts_per_step
      BY <2>2, BacklogAssumption DEF StepSpent, Inv, TypeOK
    <3> QED
      BY <1>1, <3>1, <3>2, LadderFailure DEF LadderInv
  <2>3. CASE Requeue(t) /\ StayAtStep(t, failed, FALSE) /\ decision = "Reprompt"
    <3>1. t \notin running' /\ current_step'[t] = current_step[t]
          /\ attempts_at_step'[t] = attempts_at_step[t] + 1
      BY <2>3 DEF Requeue, StayAtStep, Inv, TypeOK
    <3> QED
      BY <1>1, <1>3, <2>3, <3>1, LadderFailure DEF LadderInv
  <2>4. CASE Escalate(t, failed) /\ Requeue(t)
    <3>1. current_step[t] \in 1 .. steps /\ steps \in Nat
      BY BacklogAssumption DEF Inv, TypeOK
    <3>2. ~Block(t, "HumanEscalation", "FailuresBlocked")
      BY <1>1, <2>4 DEF Requeue, Block, Blocked, Inv, TypeOK
    <3>3. /\ t \notin running' /\ current_step[t] # steps
          /\ current_step'[t] = current_step[t] + 1 /\ current_step'[t] # steps
          /\ attempts_at_step'[t] = 0
      BY <2>4, <3>1, <3>2 DEF Escalate, Requeue, Inv, TypeOK
    <3>4. current_step[t] < steps /\ current_step'[t] < steps
      BY <3>1, <3>3
    <3> QED
      BY <1>1, <3>3, <3>4, LadderFailure DEF LadderInv
  <2>5. Escalate(t, failed) => Requeue(t) \/ \E r \in BlockReason : \E s : Block(t, r, s)
    BY DEF Escalate, BlockReason
  <2> QED
    BY <1>2, <2>1, <2>2, <2>3, <2>4, <2>5
<1> QED
  BY <1>5, <1>6 DEF LadderInv

(* The dispatch counts the attempt when it starts it. *)
LEMMA LadderDispatch ==
  ASSUME Inv, LadderInv, Dispatch
  PROVE  LadderInv'
<1>1. PICK S \in SUBSET Tasks :
        /\ IsSelection(S)
        /\ running' = running \cup Affordable(Startable \cap S)
        /\ attempts' = [t \in Tasks |-> IF t \in Affordable(Startable \cap S)
                                        THEN attempts[t] + 1 ELSE attempts[t]]
  BY Zenon DEF Dispatch
<1> DEFINE started == Affordable(Startable \cap S)
<1>2. started \subseteq Eligible(completed) \ running
  BY <1>1 DEF Affordable, IsSelection
<1>3. UNCHANGED <<completed, blocked, current_step, attempts_at_step>> /\ stop_reason = "none"
  BY DEF Dispatch, ladder
<1>4. Blocked = {} /\ Blocked' = {}
  BY <1>3 DEF Inv, StopIsTruthful, Blocked
<1> HIDE DEF started
<1>5. ASSUME NEW t \in Tasks \ started PROVE LadderHolds(t)'
  <2>1. attempts'[t] = attempts[t] /\ (t \in running' <=> t \in running)
    BY <1>1 DEF started
  <2> QED
    BY <1>3, <1>4, <2>1, LadderFrame DEF LadderInv
<1>6. ASSUME NEW t \in started PROVE LadderHolds(t)'
  <2>1. t \in Tasks /\ t \notin running /\ t \notin completed /\ t \notin Blocked
    BY <1>2, <1>4, <1>6 DEF Eligible
  <2>2. attempts'[t] = attempts[t] + 1 /\ t \in running'
    BY <1>1, <1>6, <2>1 DEF started
  <2> DEFINE c == current_step[t]
             k == attempts_at_step[t]
             a == attempts[t]
  <2>3. c \in 1 .. steps /\ k \in Nat /\ a \in Nat /\ max_reprompt_attempts \in Nat
    BY <2>1, BacklogAssumption DEF Inv, TypeOK
  <2>4. /\ c = 1 \/ c < steps
        /\ a <= StepBase(c) + k /\ (k < PerStep \/ a < max_reprompt_attempts)
    BY <2>1 DEF LadderInv, LadderHolds, FailedAttempts
  <2>5. /\ PerStep \in Nat /\ FirstStep \in Nat /\ StepBase(c) \in Nat
        /\ FirstStep >= max_reprompt_attempts
        /\ StepBase(c) + PerStep <= AttemptBound /\ FirstStep <= AttemptBound /\ AttemptBound \in Nat
    <3> HIDE DEF c
    <3> QED
      BY <2>3, <2>4, StepBases
  <2>6. a + 1 <= AttemptBound
    <3> HIDE DEF c, k, a
    <3> QED
      BY <2>3, <2>4, <2>5
  <2>7. FailedAttempts(t)' = a
    BY <2>2, <2>3 DEF FailedAttempts
  <2>8. AttemptBound' = AttemptBound /\ PerStep' = PerStep /\ StepBase(current_step[t])' = StepBase(c)
    BY <1>3 DEF AttemptBound, PerStep, StepBase, FirstStep
  <2> QED
    BY <1>3, <2>2, <2>3, <2>4, <2>6, <2>7, <2>8 DEF LadderHolds
<1> QED
  BY <1>5, <1>6 DEF LadderInv

(* Every step keeps the ladder's account. *)
LEMMA LadderNext ==
  ASSUME Inv, LadderInv, [Next]_vars
  PROVE  LadderInv'
<1>1. CASE Pause \/ Resume \/ TickPaused \/ TickBegin \/ Skip \/ TickStopped \/ UNCHANGED vars
  <2>1. UNCHANGED <<attempts, running, current_step, attempts_at_step, blocked, completed>>
    BY <1>1 DEF Pause, Resume, TickPaused, TickBegin, Skip, TickStopped, vars, ladder
  <2>2. Blocked' = Blocked
    BY <2>1 DEF Blocked
  <2> QED
    BY <2>1, <2>2, LadderFrame DEF LadderInv
<1>2. ASSUME NEW t \in Tasks, PauseAttempt(t) PROVE LadderInv'
  <2>1. UNCHANGED <<attempts, running, current_step, attempts_at_step, blocked, completed>>
    BY <1>2 DEF PauseAttempt, Record, ladder
  <2>2. Blocked' = Blocked
    BY <2>1 DEF Blocked
  <2> QED
    BY <2>1, <2>2, LadderFrame DEF LadderInv
<1>3. ASSUME NEW t \in Tasks,
             Complete(t) \/ \E o \in {"ApprovalRequired", "PolicyDenied"} : Refuse(t, o)
      PROVE  LadderInv'
  <2>1. /\ UNCHANGED <<attempts, current_step, attempts_at_step>> /\ running' = running \ {t}
        /\ completed \subseteq completed' /\ Blocked \subseteq Blocked'
        /\ t \in Blocked' \cup completed'
    BY <1>3 DEF Complete, Refuse, Record, Block, Blocked, ladder, Inv, TypeOK
  <2>2. ASSUME NEW u \in Tasks \ {t} PROVE LadderHolds(u)'
    BY <2>1, LadderFrame DEF LadderInv
  <2>3. LadderHolds(t)'
    BY <2>1 DEF LadderInv, LadderHolds, AttemptBound
  <2> QED
    BY <2>2, <2>3 DEF LadderInv
<1> QED
  BY <1>1, <1>2, <1>3, LadderFail, LadderDispatch DEF Next, Consume

-----------------------------------------------------------------------------
(* The theorems. *)

(* A new runner satisfies the invariant. *)
LEMMA InitInv == ASSUME Init PROVE Inv
<1> USE DEF Init
<1>1. TypeOK
  <2>1. budget_remaining \in 0 .. attempt_budget /\ pauses \in 0 .. MaxPauses
        /\ current_step \in [Tasks -> 1 .. steps]
    BY BacklogAssumption
  <2>2. cursor \in 0 .. N + 1
    BY TaskCount
  <2> QED BY <2>1, <2>2 DEF TypeOK
<1>2. Blocked = {}
  BY DEF Blocked
<1>3. Cardinality(running) = 0
  BY FS_EmptySet
<1>4. CapsRespected
  BY <1>3, BacklogAssumption DEF CapsRespected
<1>5. InFlightIsEligible /\ TickInv /\ AliveMeansInFlight
  BY DEF InFlightIsEligible, TickInv, AliveMeansInFlight
<1>6. StopIsTruthful
  BY <1>2 DEF StopIsTruthful
<1>7. RefusedStaysParked /\ BackoffPerStep
  BY DEF RefusedStaysParked, Refusals, BackoffPerStep
<1> QED BY <1>1, <1>4, <1>5, <1>6, <1>7 DEF Inv

(* Stuttering keeps the invariant. *)
LEMMA StutterInv == ASSUME Inv, UNCHANGED vars PROVE Inv'
<1> USE DEF Inv, vars
<1>1. TypeOK'
  BY DEF TypeOK
<1>2. InFlightIsEligible' /\ StopIsTruthful'
  BY DEF InFlightIsEligible, StopIsTruthful, Eligible, Blocked, Acyclic
<1>3. CapsRespected'
  BY CapsOfFewer
<1>4. TickInv' /\ AliveMeansInFlight'
  BY DEF TickInv, AliveMeansInFlight
<1>5. RefusedStaysParked' /\ BackoffPerStep'
  BY DEF RefusedStaysParked, BackoffPerStep, Blocked
<1> QED BY <1>1, <1>2, <1>3, <1>4, <1>5

(* Every step keeps the invariant. *)
LEMMA NextInv == ASSUME Inv, [Next]_vars PROVE Inv'
  BY ControlInv, ConsumeInv, DispatchInv, StutterInv DEF Next

(* The invariant holds in every reachable state. *)
THEOREM RunnerInvariant == Spec => []Inv
<1>1. Init => Inv
  BY InitInv
<1>2. Inv /\ [Next]_vars => Inv'
  BY NextInv
<1> QED BY <1>1, <1>2, PTL DEF Spec

(* The state of the runner is well typed; in particular the attempts       *)
(* started never exceed the budget given to new.                           *)
THEOREM RunnerTypeCorrect == Spec => []TypeOK
<1>1. Inv => TypeOK
  BY DEF Inv
<1> QED BY <1>1, RunnerInvariant, PTL

(* Only eligible work is dispatched, queued or due, each task in one       *)
(* place, and a refused task is parked for good.                           *)
THEOREM OnlyEligibleWork == Spec => []WorkIsEligible
<1>1. Inv => WorkIsEligible
  BY DEF Inv, WorkIsEligible
<1> QED BY <1>1, RunnerInvariant, PTL

(* tick and select keep the caps and keep conflicting files apart, for     *)
(* every backlog and every sequence of outcomes.                           *)
THEOREM CapsKept == Spec => []CapsRespected
<1>1. Inv => CapsRespected
  BY DEF Inv
<1> QED BY <1>1, RunnerInvariant, PTL

(* A run that may go on has something in flight: tick never leaves it      *)
(* waiting for nothing.                                                    *)
THEOREM NeverStalled == Spec => []AliveMeansInFlight
<1>1. Inv => AliveMeansInFlight
  BY DEF Inv
<1> QED BY <1>1, RunnerInvariant, PTL

(* The stop reason tells the truth about the backlog. *)
THEOREM StopTruthful == Spec => []StopIsTruthful
<1>1. Inv => StopIsTruthful
  BY DEF Inv
<1> QED BY <1>1, RunnerInvariant, PTL

(* A backoff counts the retries of the present ladder step only. *)
THEOREM BackoffKept == Spec => []BackoffPerStep
<1>1. Inv => BackoffPerStep
  BY DEF Inv
<1> QED BY <1>1, RunnerInvariant, PTL

(* The ladder bounds the attempts of a task (handle_failure, escalate),    *)
(* whatever mix of failures, reprompts, holds and pauses it meets, for     *)
(* every ladder length, step limit and reprompt limit.                     *)
THEOREM TaskAttemptsBounded == Spec => []AttemptsBounded
<1>1. Init => LadderInv
  <2> SUFFICES ASSUME Init, NEW t \in Tasks PROVE LadderHolds(t)
    BY DEF LadderInv
  <2>1. 1 \in 1 .. steps
    BY BacklogAssumption
  <2>2. PerStep \in Nat /\ PerStep >= 1 /\ AttemptBound \in Nat
    BY <2>1, StepBases
  <2>3. /\ attempts[t] = 0 /\ current_step[t] = 1 /\ attempts_at_step[t] = 0 /\ t \notin running
    BY DEF Init
  <2> QED
    BY <2>2, <2>3 DEF LadderHolds, FailedAttempts, StepBase
<1>2. Inv /\ LadderInv /\ [Next]_vars => LadderInv'
  BY LadderNext
<1>3. LadderInv => AttemptsBounded
  BY DEF LadderInv, LadderHolds, AttemptsBounded
<1> QED
  BY <1>1, <1>2, <1>3, RunnerInvariant, PTL DEF Spec
=============================================================================
