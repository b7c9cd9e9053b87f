------------------------------- MODULE RunState -------------------------------
(***************************************************************************)
(* The durable run-state store of the campaign loop (loop.db): one row per *)
(* worker run and one retry record per task.  Every operator below is one  *)
(* SQL statement of `LoopRunStore`; the value it returns is the new        *)
(* content of the table.  Heartbeat columns, repository names and detail   *)
(* texts are data no decision of the loop reads, and are left out.         *)
(*                                                                         *)
(* A start time is kept only as the UTC day it falls on, which is all that *)
(* `daily_spend` asks of it.                                               *)
(***************************************************************************)
EXTENDS Integers, FiniteSets, FiniteSetsExt

CONSTANTS Tasks,      \* worker task ids on the board
          NoTask,     \* the task of a row that was never inserted
          MaxRuns,    \* bound: rows ever inserted
          DayLength   \* length of the UTC budget window, in ticks

ASSUME RunStateAssumption ==
  /\ MaxRuns \in Nat \ {0}
  /\ DayLength \in Nat \ {0}
  /\ NoTask \notin Tasks

RunIds == 1 .. MaxRuns

Day(now) == now \div DayLength

(***************************************************************************)
(* `RunRowStatus`; "absent" is an id that was not inserted yet.  `paused`  *)
(* is left out: no code path writes it.                                    *)
(***************************************************************************)
TerminalStatus == {"completed", "failed", "stalled", "timed-out",
                   "aborted-shutdown", "stuck", "orphaned"}

RowStatus == {"absent", "running"} \cup TerminalStatus

Row == [task: Tasks \cup {NoTask}, inv: Nat, status: RowStatus,
        day: Nat, spend: Nat]

AbsentRow == [task |-> NoTask, inv |-> 0, status |-> "absent",
              day |-> 0, spend |-> 0]

RetryState == [attempts: Nat, until: Nat]

NoRetryState == [attempts |-> 0, until |-> 0]

(* INSERT of a running row under the next row id. *)
StartRow(rows, r, t, i, now) ==
  [rows EXCEPT ![r] = [task |-> t, inv |-> i, status |-> "running",
                       day |-> Day(now), spend |-> 0]]

(* UPDATE ... WHERE id = r AND status = 'running'; no row changed is an error. *)
FinishRow(rows, r, s, cost) ==
  [rows EXCEPT ![r] = [rows[r] EXCEPT !.status = s, !.spend = cost]]

(* One transaction: every running row becomes orphaned, nothing else moves. *)
RecoverRows(rows) ==
  [r \in RunIds |-> IF rows[r].status = "running"
                    THEN [rows[r] EXCEPT !.status = "orphaned", !.spend = 0]
                    ELSE rows[r]]

(* The spend recorded on rows that STARTED on the UTC day of `now`. *)
DailySpend(rows, now) ==
  LET today == {r \in RunIds : rows[r].status # "absent" /\ rows[r].day = Day(now)}
  IN  MapThenSumSet(LAMBDA r : rows[r].spend, today)

(* Upsert: one more attempt, the backoff window replaced. *)
RecordTaskFailure(retry, t, until) ==
  [retry EXCEPT ![t] = [attempts |-> retry[t].attempts + 1, until |-> until]]

(* UPDATE: the backoff window is cleared, the attempts are kept. *)
RecordTaskSuccess(retry, t) ==
  [retry EXCEPT ![t] = [retry[t] EXCEPT !.until = 0]]
=============================================================================
