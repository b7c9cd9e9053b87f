----------------------------- MODULE Governance -------------------------------
(***************************************************************************)
(* The daemon's provider governance: the routing decision on classified    *)
(* content, and RetryScheduler: bounded retries with backoff behind one    *)
(* circuit breaker, shared by concurrent callers of one provider.  The     *)
(* breaker is locked for one operation of it at a time, never across the   *)
(* provider's call.                                                        *)
(***************************************************************************)
EXTENDS Naturals, FiniteSets

CONSTANTS Callers, MaxAttempts, FailureThreshold, RecoveryTimeout,
          MaxClock, MaxOps       \* bounds: time, operations begun by all callers

GovernanceAssumption ==
  /\ MaxAttempts \in Nat /\ FailureThreshold \in Nat \ {0} /\ RecoveryTimeout \in Nat
  /\ MaxClock \in Nat /\ MaxOps \in Nat

VARIABLES
  breaker,      \* CircuitBreaker: state, opened_at, consecutive_failures
  caller,       \* execute_with_retry of each caller
  clock, ops,
  probes,       \* history: operations let through since the breaker went half-open
  early         \* history: an operation was let through before the cooldown was over

govVars == <<breaker, caller, clock, ops, probes, early>>

NoCall == [pc |-> "idle", attempt |-> 0, result |-> "none"]
Pcs == {"idle", "allows", "inflight", "backoff", "done"}
Results == {"none", "ok", "fatal", "exhausted", "open", "cancelled"}

GovInit ==
  /\ breaker = [state |-> "Closed", opened_at |-> 0, failures |-> 0]
  /\ caller = [c \in Callers |-> NoCall]
  /\ clock = 0 /\ ops = 0 /\ probes = 0 /\ early = FALSE

At(c, pc) == caller[c].pc = pc
Set(c, r) == caller' = [caller EXCEPT ![c] = r]
Finish(c, result) == Set(c, [caller[c] EXCEPT !.pc = "done", !.result = result])

(* GovernanceRouter::route for content of a class, a provider's policy and *)
(* the enforcer's verdict: what is blocked may still be released by        *)
(* Arbitraitor; only what nothing blocks leaves a preview.                 *)
Verdicts == {"Pass", "Warn", "Block", "Prompt", "Error", "Incomplete"}
Blocked(class, allowed, prohibited) == class = "Restricted" \/ class \notin allowed \/ prohibited
Enforce(v) ==
  IF v \in {"Pass", "Warn"} THEN "Allow"
  ELSE IF v \in {"Block", "Prompt"} THEN "Block" ELSE "error"
RouteDecision(class, allowed, prohibited, v) ==
  IF Blocked(class, allowed, prohibited) THEN Enforce(v) ELSE "Allow"

(* A caller whose content was routed to the provider starts its call. *)
Route(c) ==
  /\ At(c, "idle") /\ ops < MaxOps
  /\ \E class \in {"Public", "Restricted"}, prohibited \in BOOLEAN, v \in Verdicts :
       LET d == RouteDecision(class, {"Public", "Restricted"}, prohibited, v)
       IN  IF d # "Allow" THEN Finish(c, "fatal")
           ELSE IF MaxAttempts = 0 THEN Finish(c, "exhausted")
           ELSE Set(c, [NoCall EXCEPT !.pc = "allows", !.attempt = 1])
  /\ UNCHANGED <<breaker, clock, ops, probes, early>>

(* breaker_allows *)
CoolingDown == breaker.state = "Open" /\ clock - breaker.opened_at < RecoveryTimeout

(* Mutant: an open breaker lets calls through at once. *)
MutantBreakerAllows(c) ==
  /\ At(c, "allows") /\ ops < MaxOps
  /\ breaker' = IF breaker.state = "Open" THEN [breaker EXCEPT !.state = "HalfOpen"] ELSE breaker
  /\ probes' = IF breaker'.state = "HalfOpen" THEN probes + 1 ELSE 0
  /\ early' = (early \/ CoolingDown) /\ ops' = ops + 1
  /\ Set(c, [caller[c] EXCEPT !.pc = "inflight"])
  /\ UNCHANGED clock

BreakerAllows(c) ==
  /\ At(c, "allows")
  /\ IF CoolingDown
     THEN Finish(c, "open") /\ UNCHANGED <<breaker, ops, probes, early>>
     ELSE /\ ops < MaxOps /\ ops' = ops + 1
          /\ breaker' = IF breaker.state = "Open" THEN [breaker EXCEPT !.state = "HalfOpen"]
                        ELSE breaker
          /\ probes' = IF breaker'.state = "HalfOpen" THEN probes + 1 ELSE 0
          /\ early' = (early \/ CoolingDown)
          /\ Set(c, [caller[c] EXCEPT !.pc = "inflight"])
  /\ UNCHANGED clock

(* record_success and record_failure *)
RecordSuccess ==
  /\ breaker' = [breaker EXCEPT !.state = "Closed", !.failures = 0]
  /\ probes' = 0
(* Mutant: a failure in half-open counts from one again. *)
MutantRecordFailure ==
  LET n == IF breaker.state = "HalfOpen" THEN 1 ELSE breaker.failures + 1
  IN  /\ breaker' = IF n >= FailureThreshold
                    THEN [state |-> "Open", opened_at |-> clock, failures |-> n]
                    ELSE [breaker EXCEPT !.failures = n]
      /\ probes' = IF n >= FailureThreshold THEN 0 ELSE probes

RecordFailure ==
  LET n == breaker.failures + 1
  IN  /\ breaker' = IF n >= FailureThreshold
                    THEN [state |-> "Open", opened_at |-> clock, failures |-> n]
                    ELSE [breaker EXCEPT !.failures = n]
      /\ probes' = IF n >= FailureThreshold THEN 0 ELSE probes

OperationSucceeds(c) ==
  /\ At(c, "inflight") /\ RecordSuccess /\ Finish(c, "ok")
  /\ UNCHANGED <<clock, ops, early>>

(* Mutant: the budget is looked at before the last attempt is counted. *)
MutantAfterTransient(c) ==
  IF caller[c].attempt > MaxAttempts
  THEN [caller[c] EXCEPT !.pc = "done", !.result = "exhausted"]
  ELSE [caller[c] EXCEPT !.pc = "backoff"]
AfterTransient(c) ==
  IF caller[c].attempt >= MaxAttempts
  THEN [caller[c] EXCEPT !.pc = "done", !.result = "exhausted"]
  ELSE [caller[c] EXCEPT !.pc = "backoff"]

(* Only a transient transport failure is retried. *)
OperationFails(c) ==
  /\ At(c, "inflight") /\ RecordFailure
  /\ \/ Set(c, AfterTransient(c))
     \/ Finish(c, "fatal")
  /\ UNCHANGED <<clock, ops, early>>

(* The backoff sleep, raced against cancellation. *)
BackoffEnds(c) ==
  /\ At(c, "backoff")
  /\ \/ Set(c, [caller[c] EXCEPT !.pc = "allows", !.attempt = @ + 1])
     \/ Finish(c, "cancelled")
  /\ UNCHANGED <<breaker, clock, ops, probes, early>>

Return(c) ==
  /\ At(c, "done") /\ Set(c, NoCall)
  /\ UNCHANGED <<breaker, clock, ops, probes, early>>

ClockTick ==
  /\ clock < MaxClock /\ clock' = clock + 1
  /\ UNCHANGED <<breaker, caller, ops, probes, early>>

GovNext ==
  \/ \E c \in Callers : \/ Route(c) \/ BreakerAllows(c) \/ OperationSucceeds(c)
                        \/ OperationFails(c) \/ BackoffEnds(c) \/ Return(c)
  \/ ClockTick

-----------------------------------------------------------------------------
GovTypeOK ==
  /\ breaker.state \in {"Closed", "Open", "HalfOpen"}
  /\ \A c \in Callers : /\ caller[c].pc \in Pcs /\ caller[c].result \in Results
                        /\ caller[c].attempt \in 0 .. MaxAttempts
  /\ ops \in 0 .. MaxOps

(* Whatever order concurrent calls start, fail and succeed in, the breaker *)
(* is away from Closed exactly while the failures since the last success   *)
(* reach the threshold, so that one failure in half-open opens it again;   *)
(* no operation starts during a cooldown; and no caller tries more often   *)
(* than the policy says.                                                   *)
BreakerSound ==
  /\ breaker.state # "Closed" <=> breaker.failures >= FailureThreshold
  /\ ~early
  /\ \A c \in Callers : caller[c].attempt <= MaxAttempts

(* What the breaker's documentation says of half-open: one request is let  *)
(* through to test recovery.                                               *)
OneProbe == breaker.state = "HalfOpen" => probes <= 1
=============================================================================
