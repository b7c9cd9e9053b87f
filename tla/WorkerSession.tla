---------------------------- MODULE WorkerSession ----------------------------
(***************************************************************************)
(* One run of the bootstrap worker: attempts, each a loop of model turns   *)
(* and tool calls under the attempt, replan, turn, format-error, retry and *)
(* wall-clock budgets and the anti-stuck guardrails.  A declared subagent  *)
(* tool runs the same loop again inside the tool call, so a run is a stack *)
(* of two frames: frame 0 is the session, frame 1 its sub-session.  The    *)
(* frames share the supervisor's progress channel, the cost sink, the      *)
(* worktree and the clock; nothing else.                                   *)
(*                                                                         *)
(* What the model answers and how a tool call goes are inputs.  Of a path, *)
(* script or pattern the shape is kept that the churn guard compares; of   *)
(* the worktree, whether it changed since a frame last looked at it.       *)
(***************************************************************************)
EXTENDS Integers, Sequences, FiniteSets

CONSTANTS
  max_attempts, max_replans, max_turns_per_attempt, max_consecutive_format_errors,
  max_provider_retries,
  run_deadline, stall_timeout,       \* of the session, in clock ticks
  tool_repeat_count, tool_repeat_window, no_progress_turns, ci_poll_budget,
  child_turns, child_wall_clock,     \* ToolBudget of the subagent tool
  internal_tools,                    \* its allowlist
  soft_cap,                          \* spend, in completed calls
  Replies,                           \* bound: the replies to consider
  LossyCalls,                        \* bound: the requests whose entry may be lost
  MaxNow                             \* bound: clock

WorkerAssumption ==
  /\ {max_attempts, max_replans, max_turns_per_attempt, max_consecutive_format_errors,
      max_provider_retries, run_deadline, stall_timeout, tool_repeat_count,
      tool_repeat_window, no_progress_turns, ci_poll_budget, child_turns,
      child_wall_clock, soft_cap, MaxNow} \subseteq Nat
  /\ internal_tools \subseteq {"read_file", "search", "bash", "think"}

VARIABLES
  depth,        \* the frame that runs: 0 or 1
  fr,           \* the two frames
  now,
  beat,         \* value of the supervisor's watch channel
  events,       \* subsession_events, as their number
  entries,      \* request IDs in the cost ledger: <<session, call number>>
  calls,        \* history: requests sent to a provider, by either frame
  unrecorded,   \* history: of these, the ones without an entry
  completed,    \* history: of these, the ones whose stream completed
  delivers      \* history: calls of DeliverySink::deliver

vars == <<depth, fr, now, beat, events, entries, calls, unrecorded, completed, delivers>>

FailureClass ==
  {"AttemptBudgetExhausted", "ReplanBudgetExhausted", "WorkerTimeout", "Stalled",
   "TurnBudgetExhausted", "FormatErrorsExhausted", "ToolLoopChurn", "NoProgress",
   "PollBudgetExhausted", "ProviderError", "MediationRefused", "TaskNotCompleted",
   "DeliveryFailed"}

(* The classes a replan cannot help.                                       *)
(* Mutant: a failed delivery is worth another attempt. *)
MutantFatal == {"MediationRefused", "ToolLoopChurn", "NoProgress", "PollBudgetExhausted"}

Fatal == {"MediationRefused", "DeliveryFailed", "ToolLoopChurn", "NoProgress",
          "PollBudgetExhausted"}

Tools == {"read_file", "search", "write_file", "bash", "think"}

(* What parse_action can make of a response.  "poll" is a bash script that *)
(* waits for CI, "finish" succeeds, "give_up" is finish without success;   *)
(* the last three are declared tools, the third of them not declared.      *)
AllReplies == {"malformed", "unknown-tool", "finish", "give_up", "poll",
               "command", "subagent", "undeclared"} \cup Tools

RepliesAssumption == Replies \subseteq AllReplies

Pcs == {"turn", "call", "act", "done"}

Attempt(f, t) ==
  [f EXCEPT !.pc = "turn", !.turns = 0, !.format_errors = 0, !.progress_at = t,
            !.shapes = <<>>, !.streak = 0, !.changed = TRUE, !.polled = 0]

(* A frame before its first attempt: run_worker up to the loop. *)
Frame(t, limit, attempts, replans, turns, session) ==
  Attempt([pc |-> "turn", turns |-> 0, format_errors |-> 0, progress_at |-> t,
           shapes |-> <<>>, streak |-> 0, changed |-> TRUE, polled |-> 0,
           attempts |-> 1, replans |-> 0, retries |-> 0, started |-> t, turn_at |-> t,
           limit |-> limit, max_attempts |-> attempts, max_replans |-> replans,
           max_turns |-> turns, session |-> session, recorded |-> 0, usage |-> 0,
           cap_exceeded |-> FALSE, failure |-> "none", reason |-> "none"], t)

NoFrame == [Frame(0, 0, 1, 0, 1, 0) EXCEPT !.pc = "done"]

MinOf(a, b) == IF a <= b THEN a ELSE b

(* The sub-session's carved budget: one attempt, no replan, and a wall     *)
(* clock no longer than what is left of the parent's.                      *)
(* Mutant: the tool's own wall-clock bound is taken as it is. *)
MutantChildFrame(parent) ==
  Frame(now, child_wall_clock, 1, 0, IF child_turns = 0 THEN 1 ELSE child_turns, events + 1)

ChildFrame(parent) ==
  LET left == parent.limit - (now - parent.started)
  IN  Frame(now, MinOf(child_wall_clock, IF left < 0 THEN 0 ELSE left), 1, 0,
            IF child_turns = 0 THEN 1 ELSE child_turns, events + 1)

Cur == fr[depth]
Set(f) == fr' = [fr EXCEPT ![depth] = f]

(* The clock moves between two reads of it, so nothing fits a limit of 0.  *)
Overdue(f, t) == t - f.started > f.limit \/ f.limit = 0

(* The attempt loop of run_worker after an attempt that failed. *)
(* Mutant: the attempt budget is compared before the attempt is counted. *)
MutantAfterFailure(f, class, t) ==
  LET done(c) == [f EXCEPT !.pc = "done", !.failure = c, !.reason = class]
  IN  IF class \in Fatal THEN done(class)
      ELSE IF f.attempts > f.max_attempts THEN done("AttemptBudgetExhausted")
      ELSE IF f.replans >= f.max_replans THEN done("ReplanBudgetExhausted")
      ELSE Attempt([f EXCEPT !.attempts = f.attempts + 1, !.replans = f.replans + 1], t)

AfterFailure(f, class, t) ==
  LET done(c) == [f EXCEPT !.pc = "done", !.failure = c, !.reason = class]
  IN  IF class \in Fatal THEN done(class)
      ELSE IF f.attempts >= f.max_attempts THEN done("AttemptBudgetExhausted")
      ELSE IF f.replans >= f.max_replans THEN done("ReplanBudgetExhausted")
      ELSE IF Overdue(f, t)
           THEN [done("WorkerTimeout") EXCEPT !.replans = f.replans + 1]
           ELSE Attempt([f EXCEPT !.attempts = f.attempts + 1, !.replans = f.replans + 1], t)

Elapses(d) == now + d <= MaxNow /\ now' = now + d

Init ==
  /\ depth = 0
  /\ fr = [d \in 0 .. 1 |-> IF d = 0 THEN Frame(0, run_deadline, max_attempts, max_replans,
                                                max_turns_per_attempt, 0)
                            ELSE NoFrame]
  /\ now = 0 /\ beat = 0 /\ events = 0
  /\ entries = {} /\ calls = 0 /\ unrecorded = 0 /\ completed = 0 /\ delivers = 0

-----------------------------------------------------------------------------
(* The checks before a turn, in the code's order: "none" lets it begin. *)
TurnCheck(f) ==
  IF Overdue(f, now) THEN "WorkerTimeout"
  ELSE IF now - f.progress_at > stall_timeout THEN "Stalled"
  ELSE IF f.turns >= f.max_turns THEN "TurnBudgetExhausted"
  ELSE "none"

TurnRefused ==
  /\ Cur.pc = "turn" /\ TurnCheck(Cur) # "none"
  /\ Set(AfterFailure(Cur, TurnCheck(Cur), now))
  /\ UNCHANGED <<depth, now, beat, events, entries, calls, unrecorded, completed, delivers>>

(* Mutant: a beat is the frame's own turn counter, sent over the channel. *)
MutantEmitBeat == Cur.turns + 1
EmitBeat == beat + 1

BeginTurn ==
  /\ Cur.pc = "turn" /\ TurnCheck(Cur) = "none"
  /\ Set([Cur EXCEPT !.pc = "call", !.turns = Cur.turns + 1, !.retries = 0, !.turn_at = now])
  /\ beat' = EmitBeat
  /\ UNCHANGED <<depth, now, events, entries, calls, unrecorded, completed, delivers>>

(* Every request to the provider, failed or not, is put to the cost sink   *)
(* once.  There may be no sink, and an insert that fails is logged and     *)
(* forgotten: the run goes on without the entry.                           *)
RecordCallCost ==
  /\ \/ /\ entries' = entries \cup {<<Cur.session, Cur.recorded + 1>>}
        /\ unrecorded' = unrecorded
     \/ /\ calls + 1 \in LossyCalls /\ unrecorded' = unrecorded + 1
        /\ entries' = entries
  /\ calls' = calls + 1

(* accrue_usage_and_check_cap *)
Accrue(f, tokens) ==
  [f EXCEPT !.usage = f.usage + tokens, !.cap_exceeded = f.cap_exceeded \/ f.usage + tokens > soft_cap]

CallCompletes ==
  /\ Cur.pc = "call"
  /\ \E d \in 0 .. 1 : Elapses(d)
  /\ RecordCallCost
  /\ completed' = completed + 1
  /\ Set([Accrue(Cur, 1) EXCEPT !.pc = "act", !.recorded = Cur.recorded + 1, !.retries = 0])
  /\ UNCHANGED <<depth, beat, events, delivers>>

(* A failed request is sent again after a backoff; the retries of a call   *)
(* are bounded, and the deadline is not looked at between them.            *)
CallRetried ==
  /\ Cur.pc = "call" /\ Cur.retries < max_provider_retries
  /\ Elapses(1)
  /\ RecordCallCost
  /\ Set([Cur EXCEPT !.retries = Cur.retries + 1, !.recorded = Cur.recorded + 1])
  /\ UNCHANGED <<depth, beat, events, completed, delivers>>

(* Retries spent, or an answer that is no valid event stream. *)
CallFails ==
  /\ Cur.pc = "call"
  /\ RecordCallCost
  /\ Set(AfterFailure([Cur EXCEPT !.recorded = Cur.recorded + 1], "ProviderError", now))
  /\ UNCHANGED <<depth, now, beat, events, completed, delivers>>

-----------------------------------------------------------------------------
(* Malformed counts against the format-error budget; an unknown tool is a  *)
(* recorded refusal and neither counts nor resets anything.                *)
Rejected(reply) ==
  /\ reply \in {"malformed", "unknown-tool"}
  /\ Set(IF reply = "unknown-tool" THEN [Cur EXCEPT !.pc = "turn"]
         ELSE IF Cur.format_errors + 1 > max_consecutive_format_errors
              THEN AfterFailure([Cur EXCEPT !.format_errors = Cur.format_errors + 1], "FormatErrorsExhausted", now)
              ELSE [Cur EXCEPT !.format_errors = Cur.format_errors + 1, !.pc = "turn"])
  /\ UNCHANGED <<depth, now, beat, events, delivers>>

(* A sub-session finishes into PendingDeliverySink, which delivers nothing. *)
Finish(reply) ==
  \/ /\ reply = "give_up"
     /\ Set(AfterFailure(Cur, "TaskNotCompleted", now))
     /\ UNCHANGED <<depth, now, beat, events, delivers>>
  \/ /\ reply = "finish"
     /\ \E ok \in IF depth = 0 THEN BOOLEAN ELSE {TRUE} :
          Set(IF ok THEN [Cur EXCEPT !.pc = "done"] ELSE AfterFailure(Cur, "DeliveryFailed", now))
     /\ delivers' = delivers + (1 - depth)
     /\ UNCHANGED <<depth, now, beat, events>>

(* ToolExecutor::admit_internal: a sub-session has its allowlist only, and *)
(* never write_file.                                                       *)
Admitted(tool) == depth = 0 \/ tool \in internal_tools

(* Outcomes of an admitted built-in: exit is what the churn guard sees,    *)
(* touched whether the worktree changed, refused whether mediation failed. *)
Outcome(e, t, r) == [exit |-> e, touched |-> t, refused |-> r]
Refusal == Outcome("None", FALSE, FALSE)

(* resolve_confined: the path is inside the worktree and crosses no link,  *)
(* or the call is refused before it touches anything.                      *)
Confined(outcomes) == outcomes \cup {Refusal}

ReadFile == Confined({Outcome("Ok", FALSE, FALSE)})
Search == Confined({Outcome("Ok", FALSE, FALSE)})
(* A write that fails may have created directories, or part of the file. *)
WriteFile == Confined({Outcome("Ok", TRUE, FALSE), Outcome("None", TRUE, FALSE)})
Think == {Outcome("Ok", FALSE, FALSE), Refusal}
Bash == {Outcome("Ok", TRUE, FALSE), Outcome("Ok", FALSE, FALSE),
         Outcome("NonZero", TRUE, FALSE), Outcome("NonZero", FALSE, FALSE),
         Outcome("None", FALSE, TRUE)}

(* ToolExecutor::dispatch *)
Dispatch(tool) ==
  IF ~Admitted(tool) THEN {Refusal}
  ELSE CASE tool = "read_file"  -> ReadFile
         [] tool = "search"     -> Search
         [] tool = "write_file" -> WriteFile
         [] tool = "bash"       -> Bash
         [] OTHER               -> Think

(* tool_call_shape: a thought carries its number, so no two are alike. *)
Shape(tool, exit) == <<tool, IF tool = "think" THEN Cur.turns ELSE 0, exit>>

LastOf(s, n) == IF Len(s) <= n THEN s ELSE SubSeq(s, Len(s) - n + 1, Len(s))

(* ChurnWindow::observe and NoProgressGuard::observe. *)
Churns(shapes) ==
  /\ tool_repeat_count > 1 /\ tool_repeat_window > 0
  /\ Cardinality({i \in 1 .. Len(shapes) : shapes[i] = shapes[Len(shapes)]}) >= tool_repeat_count

(* PollBudget::charge: the time of every iteration that waited for CI, together. *)
PollExceeded(polled) == ci_poll_budget > 0 /\ polled > ci_poll_budget

Stuck(streak) == no_progress_turns > 0 /\ streak >= no_progress_turns

(* What a built-in tool call of outcome o does to the frame, in the order  *)
(* of the code: poll budget, mediation, churn, progress.                   *)
AfterTool(f, tool, poll, o, t) ==
  LET polled == f.polled + (t - f.turn_at)
      shapes == LastOf(Append(f.shapes, Shape(tool, o.exit)), tool_repeat_window)
      streak == IF f.changed \/ o.touched THEN 1 ELSE f.streak + 1
      g == [f EXCEPT !.pc = "turn", !.polled = IF poll THEN polled ELSE f.polled,
                     !.progress_at = t, !.format_errors = 0]
      h == [g EXCEPT !.shapes = shapes, !.streak = streak, !.changed = FALSE]
  IN  IF poll /\ PollExceeded(polled)
      THEN AfterFailure(f, "PollBudgetExhausted", t)
      ELSE IF o.refused THEN AfterFailure(g, "MediationRefused", t)
      ELSE IF Churns(shapes) THEN AfterFailure(h, "ToolLoopChurn", t)
      ELSE IF Stuck(streak) THEN AfterFailure(h, "NoProgress", t)
      ELSE h

(* A built-in tool.  Both frames look at the same worktree. *)
BuiltIn(reply) ==
  LET tool == IF reply = "poll" THEN "bash" ELSE reply
  IN  /\ tool \in Tools
      /\ \E o \in Dispatch(tool), d \in 0 .. 1 :
           /\ Elapses(d)
           /\ fr' = [k \in 0 .. 1 |->
                       IF k = depth THEN AfterTool(Cur, tool, reply = "poll", o, now + d)
                       ELSE [fr[k] EXCEPT !.changed = fr[k].changed \/ o.touched]]
      /\ beat' = EmitBeat
      /\ UNCHANGED <<depth, events, delivers>>

(* A frame after a declared tool's turn: it counts as progress, and the    *)
(* guardrails do not look at it.                                           *)
Resumed(f, t, touched) ==
  [f EXCEPT !.pc = "turn", !.progress_at = t, !.format_errors = 0, !.changed = f.changed \/ touched]

(* A declared command is a fixed script through mediated bash, cut off by  *)
(* the tool's wall clock; a sub-session's call of any declared tool, and a *)
(* call of one that is not declared, are refused.                          *)
DeclaredCommand(reply) ==
  /\ reply \in {"command", "undeclared"} \/ (reply = "subagent" /\ depth = 1)
  /\ \E d \in 0 .. 1, o \in IF reply = "command" /\ depth = 0
                            THEN {"completed", "changed", "timeout", "mediation"}
                            ELSE {"refused"} :
       /\ Elapses(d)
       /\ LET f == Resumed(Cur, now + d, o = "changed")
          IN  Set(IF o = "mediation" THEN AfterFailure(f, "MediationRefused", now + d) ELSE f)
  /\ beat' = EmitBeat
  /\ UNCHANGED <<depth, events, delivers>>

(* dispatch_subagent that spawns nothing: the role has no route, or the    *)
(* worktree root is gone.  Either is an event of its own.                  *)
SubagentRefused(reply) ==
  /\ reply = "subagent" /\ depth = 0
  /\ Set(Resumed(Cur, now, FALSE))
  /\ events' = events + 1
  /\ beat' = EmitBeat
  /\ UNCHANGED <<depth, now, delivers>>

(* run_subsession: the beat before dispatch and the one at the spawn. *)
SubagentSpawns(reply) ==
  /\ reply = "subagent" /\ depth = 0
  /\ fr' = [fr EXCEPT ![1] = ChildFrame(Cur)]
  /\ depth' = 1
  /\ beat' = EmitBeat + 1
  /\ UNCHANGED <<now, events, delivers>>

(* One parsed reply and the whole handling of it. *)
Act ==
  /\ Cur.pc = "act"
  /\ \E reply \in Replies :
       \/ Rejected(reply) \/ Finish(reply) \/ BuiltIn(reply) \/ DeclaredCommand(reply)
       \/ SubagentRefused(reply) \/ SubagentSpawns(reply)
  /\ UNCHANGED <<entries, calls, unrecorded, completed>>

(* parent_failure_class, as outcome_from_run applies it. *)
ParentFailureClass(c) ==
  CASE c = "none" -> "none"
    [] c \in {"AttemptBudgetExhausted", "ReplanBudgetExhausted", "TurnBudgetExhausted",
              "WorkerTimeout", "Stalled"} -> "SubsessionBudgetExhausted"
    [] OTHER -> "SubsessionFailed"

(* The sub-session's run ends: its usage joins the parent's, its outcome   *)
(* is an event, and the parent's turn goes on.                             *)
(* Mutant: only a sub-session that succeeded is ever awaited to its end. *)
MutantSubsessionLost ==
  /\ depth = 1 /\ fr[1].pc = "done" /\ fr[1].failure = "none"
  /\ fr' = [fr EXCEPT ![0] = Accrue(Resumed(fr[0], now, FALSE), fr[1].usage),
                     ![1] = NoFrame]
  /\ depth' = 0 /\ events' = events + 1 /\ beat' = EmitBeat
  /\ UNCHANGED <<now, entries, calls, unrecorded, completed, delivers>>

(* Mutant: the child's usage stays with the child. *)
MutantSubsessionReturns ==
  /\ depth = 1 /\ fr[1].pc = "done"
  /\ fr' = [fr EXCEPT ![0] = Resumed(fr[0], now, FALSE), ![1] = NoFrame]
  /\ depth' = 0 /\ events' = events + 1 /\ beat' = EmitBeat
  /\ UNCHANGED <<now, entries, calls, unrecorded, completed, delivers>>

SubsessionReturns ==
  /\ depth = 1 /\ fr[1].pc = "done"
  /\ fr' = [fr EXCEPT ![0] = Accrue(Resumed(fr[0], now, FALSE), fr[1].usage),
                     ![1] = NoFrame]
  /\ depth' = 0 /\ events' = events + 1 /\ beat' = EmitBeat
  /\ UNCHANGED <<now, entries, calls, unrecorded, completed, delivers>>

Next ==
  \/ TurnRefused \/ BeginTurn
  \/ CallCompletes \/ CallRetried \/ CallFails
  \/ Act \/ SubsessionReturns

Spec == Init /\ [][Next]_vars

(* The worker's task is polled, providers answer or fail, and a tool call  *)
(* returns: mediated bash and declared commands are cut off from outside.  *)
FairSpec == Spec /\ WF_vars(Next)

-----------------------------------------------------------------------------
(* An attempt always begins, so a budget of 0 attempts allows one. *)
Allowed(f) == IF f.max_attempts = 0 THEN 1 ELSE f.max_attempts

(* Well typed, and every budget of the configuration holds: attempts, replans and turns. *)
TypeOK ==
  /\ depth \in 0 .. 1 /\ now \in 0 .. MaxNow
  /\ {beat, events, calls, unrecorded, completed, delivers} \subseteq Nat
  /\ entries \subseteq (Nat \X Nat)
  /\ \A d \in 0 .. 1 :
       /\ fr[d].pc \in Pcs /\ fr[d].failure \in FailureClass \cup {"none"}
       /\ fr[d].attempts \in 1 .. Allowed(fr[d]) /\ fr[d].replans \in 0 .. fr[d].max_replans
       /\ fr[d].turns \in 0 .. fr[d].max_turns
       /\ {fr[d].usage, fr[d].polled} \subseteq Nat
       /\ Len(fr[d].shapes) <= tool_repeat_window

(* A turn, of the session or of a sub-session inside it, never begins once *)
(* the session's own deadline has passed: a sub-session cannot outlive the *)
(* time its parent has left.                                               *)
NoTurnAfterDeadline == [][BeginTurn => now - fr[0].started <= fr[0].limit]_vars

(* The supervisor's channel only moves forward, and every turn moves it:   *)
(* a sub-session's beats continue the parent's, so a session that works is *)
(* never taken for a stalled one.                                          *)
BeatsAdvance == [][beat' >= beat /\ (BeginTurn => beat' > beat)]_vars

(* Every request the cost sink took has a ledger entry of its own: no two  *)
(* share a request ID, whichever frame and spawn they come from, and only  *)
(* what the sink lost is missing.  Once no sub-session runs, the session's *)
(* usage counts every completed call, of a call that failed nothing, and   *)
(* its soft-cap flag is what that usage says.                              *)
EveryCallAccounted ==
  /\ Cardinality(entries) + unrecorded = calls
  /\ depth = 0 => /\ fr[0].usage = completed
                  /\ fr[0].cap_exceeded = (completed > soft_cap)

(* A run calls the delivery path at most once and stops there: what was    *)
(* pushed is not pushed again by a replan of the same run, and a           *)
(* sub-session never delivers.                                             *)
DeliveryEndsRun ==
  /\ delivers <= 1
  /\ delivers = 1 => depth = 0 /\ fr[0].pc = "done"

Ended == depth = 0 /\ fr[0].pc = "done"

(* Every run ends. *)
RunEnds == []<>Ended

(* The result type's promise: a sub-session that failed for a non-budget   *)
(* reason (provider error, mediation refusal, task not completed) is       *)
(* reported to its parent as SubsessionFailed.                             *)
NonBudgetFailureNamed ==
  (depth = 1 /\ fr[1].pc = "done"
     /\ fr[1].reason \in {"ProviderError", "MediationRefused", "TaskNotCompleted"})
  => ParentFailureClass(fr[1].failure) = "SubsessionFailed"
=============================================================================
