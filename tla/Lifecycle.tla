------------------------------- MODULE Lifecycle ------------------------------
(***************************************************************************)
(* The session lifecycle: one durable record of transitions, asked to move *)
(* by clients that repeat a request they had no answer to, by the recovery *)
(* after a restart, by the lease check and by cancellation; and the        *)
(* checkpoint cursor that says when partial results are saved.             *)
(***************************************************************************)
EXTENDS Naturals, Sequences, FiniteSets

CONSTANTS
  RequestKeys,       \* idempotency keys
  LeaseTTL, AfterCalls, AfterSeconds,
  MaxTransitions, MaxTime, MaxStarts

States == {"queued", "running", "inputRequired", "approvalRequired", "authenticationRequired",
           "paused", "completed", "failed", "cancelled", "rejected", "orphaned"}
Waiting == {"inputRequired", "approvalRequired", "authenticationRequired", "paused"}
Terminal == {"completed", "failed", "cancelled", "rejected"}

VARIABLES
  session, trail,         \* LifecycleRecord: state, transitions [key, from, to]
  clock, starts, lease,   \* now, starts of the daemon, when the lease was taken
  alive,                  \* the worker process
  recovery,               \* the last RecoveryDecision not yet applied
  cursor,                 \* CheckpointCursor: calls since, time of the last checkpoint
  held, token             \* resources; the cancellation: "quiet", "cancelling", "released", "expired"

lifecycleVars == <<session, trail, clock, starts, lease, alive, recovery, cursor, held, token>>
Keep == [before |-> "queued", after |-> "queued", action |-> "keep"]

LifecycleInit ==
  /\ session = "queued" /\ trail = <<>> /\ clock = 0 /\ starts = 1 /\ lease = 0 /\ alive = FALSE
  /\ recovery = Keep /\ cursor = [calls |-> 0, at |-> 0] /\ held = FALSE /\ token = "quiet"

(* transition_allowed *)
(* Mutant: a finished session may be taken up again. *)
MutantTransitionAllowed(from, to) ==
  \/ from = "failed" /\ to = "running"
  \/ from = "queued" /\ to \in {"running", "paused", "cancelled", "rejected"}
  \/ from = "running" /\ to \in Waiting \union {"completed", "failed", "cancelled", "orphaned"}
  \/ from \in Waiting /\ to \in {"running", "cancelled", "rejected"}
  \/ from = "orphaned" /\ to \in {"running", "paused", "failed", "cancelled"}

TransitionAllowed(from, to) ==
  \/ from = "queued" /\ to \in {"running", "paused", "cancelled", "rejected"}
  \/ from = "running" /\ to \in Waiting \union {"completed", "failed", "cancelled", "orphaned"}
  \/ from \in Waiting /\ to \in {"running", "cancelled", "rejected"}
  \/ from = "orphaned" /\ to \in {"running", "paused", "failed", "cancelled"}

(* from_record: the keys already applied are those of the durable record. *)
(* Mutant: after a restart the machine starts with no keys. *)
MutantApplied == {trail[i].key : i \in {j \in 1..Len(trail) : trail[j].start = starts}}
Applied == {trail[i].key : i \in 1..Len(trail)}

(* transition: a key that was applied is answered from the record (or refused when the request *)
(* differs) and changes nothing.                                                               *)
Moves(k, to) ==
  /\ k \notin Applied /\ TransitionAllowed(session, to)
  /\ trail' = Append(trail, [key |-> k, from |-> session, to |-> to, start |-> starts])
  /\ session' = to
Replays(k, to) == k \in Applied /\ UNCHANGED <<session, trail>>

Attempt(k, to) == Moves(k, to) \/ Replays(k, to)

Request(k, to) ==
  /\ Len(trail) < MaxTransitions /\ to # "orphaned"
  /\ Attempt(k, to)
  /\ alive' = IF session' = "running" THEN TRUE ELSE IF session' \in Terminal THEN FALSE ELSE alive
  /\ held' = (held \/ session' = "running")
  /\ UNCHANGED <<clock, starts, lease, recovery, cursor, token>>

(* A restart ends the workers; after_restart decides for the record. *)
AfterRestart(s) == IF s = "running" THEN [before |-> s, after |-> "orphaned", action |-> "markOrphaned"]
                   ELSE [before |-> s, after |-> s, action |-> "keep"]
Restart ==
  /\ starts < MaxStarts /\ starts' = starts + 1 /\ alive' = FALSE /\ recovery' = AfterRestart(session)
  /\ token' = IF token = "cancelling" THEN "expired" ELSE token
  /\ cursor' = [calls |-> 0, at |-> clock]
  /\ UNCHANGED <<session, trail, clock, lease, held>>

(* after_lease_check: an expired lease orphans every session that is not finished. *)
IsExpired == clock >= lease + LeaseTTL
LeaseCheck ==
  /\ IsExpired /\ recovery.action = "keep" /\ session \notin Terminal
  /\ recovery' = [before |-> session, after |-> "orphaned", action |-> "leaseExpired"]
  /\ UNCHANGED <<session, trail, clock, starts, lease, alive, cursor, held, token>>

(* The daemon applies the decision as a transition of the record. *)
Applicable == TransitionAllowed(recovery.before, recovery.after)
Recover(k) ==
  /\ recovery.action # "keep" /\ recovery' = Keep
  /\ IF session = recovery.before /\ Len(trail) < MaxTransitions
     THEN IF k \notin Applied /\ TransitionAllowed(session, recovery.after)
          THEN Moves(k, recovery.after) ELSE UNCHANGED <<session, trail>>
     ELSE UNCHANGED <<session, trail>>
  /\ lease' = clock /\ UNCHANGED <<clock, starts, alive, cursor, held, token>>

(* record_tool_call, check_time_budget: a checkpoint after so many calls or so much time. *)
RecordToolCall ==
  IF AfterCalls # 0 /\ cursor.calls + 1 >= AfterCalls THEN [calls |-> 0, at |-> clock]
  ELSE IF AfterSeconds # 0 /\ clock - cursor.at >= AfterSeconds THEN [calls |-> 0, at |-> clock]
  ELSE [cursor EXCEPT !.calls = @ + 1]

ToolCall ==
  /\ alive /\ session = "running" /\ cursor' = RecordToolCall
  /\ UNCHANGED <<session, trail, clock, starts, lease, alive, recovery, held, token>>

(* cancel_with_cleanup: the token first, then the cleanup under the grace period.  The record  *)
(* is not touched: whoever cancels asks for the transition separately.                         *)
CancelWithCleanup ==
  /\ token # "cancelling" /\ token' = "cancelling"
  /\ UNCHANGED <<session, trail, clock, starts, lease, alive, recovery, cursor, held>>

(* The cleanup reports what it released, or the grace period ends first. *)
CleanupEnds ==
  /\ token = "cancelling"
  /\ \/ token' = "released" /\ alive' = FALSE /\ held' \in {FALSE, held}
     \/ token' = "expired" /\ UNCHANGED <<alive, held>>
  /\ UNCHANGED <<session, trail, clock, starts, lease, recovery, cursor>>

Tick ==
  /\ clock < MaxTime /\ clock' = clock + 1
  /\ UNCHANGED <<session, trail, starts, lease, alive, recovery, cursor, held, token>>

LifecycleNext ==
  \/ \E k \in RequestKeys : Recover(k) \/ \E to \in States : Request(k, to)
  \/ Restart \/ LeaseCheck \/ ToolCall \/ CancelWithCleanup \/ CleanupEnds \/ Tick

-----------------------------------------------------------------------------
(* The durable record is a chain from "queued" to the state, no request was applied twice even  *)
(* when it was repeated across restarts, nothing follows a terminal state, and the calls since  *)
(* the last checkpoint stay below the policy's number.                                          *)
RecordIsChain ==
  /\ session = IF trail = <<>> THEN "queued" ELSE trail[Len(trail)].to
  /\ \A i \in 1..Len(trail) :
       /\ trail[i].from = IF i = 1 THEN "queued" ELSE trail[i - 1].to
       /\ trail[i].from \notin Terminal
       /\ \A j \in 1..(i - 1) : trail[j].key # trail[i].key
  /\ AfterCalls # 0 => cursor.calls < AfterCalls

(* An expired lease is resolved by moving the session to "orphaned", from any state in which    *)
(* the lease check decides so.                                                                  *)
LeaseExpiryOrphans == recovery.action = "leaseExpired" => Applicable
=============================================================================
