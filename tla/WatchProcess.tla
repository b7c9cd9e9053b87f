---------------------------- MODULE WatchProcess -----------------------------
(***************************************************************************)
(* The daemon's watch process around the loop: the processes with their    *)
(* lock and worktrees, and the reconcile poller around the board poll.     *)
(***************************************************************************)
EXTENDS Naturals, FiniteSets, Sequences, SequencesExt

-----------------------------------------------------------------------------
(* The processes that run the loop, orcd watch and orc loop, on one        *)
(* configuration directory: the instance lock, the worktrees pruned before *)
(* an invocation, the worker starts and their failures, retries within and *)
(* across invocations, and crashes.  What happens inside an invocation is  *)
(* LoopRunner's; here it is reduced to starts, ends and failure counts.    *)

CONSTANTS Procs, Watches, WTasks, MaxTaskAttempts, MaxPruneFailures, MaxProcCrashes

VARIABLES
  lock,       \* the process that holds loop.lock
  stage,      \* process -> "off", "locked", "pruned", "running"
  tree,       \* tasks whose worktree directory exists
  worker,     \* task -> the process whose worker runs in its worktree
  failures,   \* task -> counted failed attempts
  genuine,    \* task -> counted failures that no leftover worktree caused
  settled,    \* task -> "open", "done", "stuck"
  pruneFails, crashes

watchVars == <<lock, stage, tree, worker, failures, genuine, settled, pruneFails, crashes>>

Nobody == "nobody"

WatchInit ==
  /\ lock = Nobody /\ stage = [p \in Procs |-> "off"] /\ tree = {}
  /\ worker = [t \in WTasks |-> Nobody] /\ failures = [t \in WTasks |-> 0]
  /\ genuine = [t \in WTasks |-> 0] /\ settled = [t \in WTasks |-> "open"]
  /\ pruneFails = 0 /\ crashes = 0

(* acquire_instance_lock: try_lock on loop.lock; a second process of either mode is refused. *)
(* Mutant: the lock file is only created. *)
MutantAcquire(p) ==
  /\ stage[p] = "off" /\ lock' = p /\ stage' = [stage EXCEPT ![p] = "locked"]
  /\ UNCHANGED <<tree, worker, failures, genuine, settled, pruneFails, crashes>>

Acquire(p) ==
  /\ stage[p] = "off" /\ lock = Nobody
  /\ lock' = p /\ stage' = [stage EXCEPT ![p] = "locked"]
  /\ UNCHANGED <<tree, worker, failures, genuine, settled, pruneFails, crashes>>

(* Configuration, routing, the tool registry, the board client and the stores are opened; *)
(* any failure ends the process.                                                          *)
StartupFails(p) ==
  /\ stage[p] = "locked" /\ stage' = [stage EXCEPT ![p] = "off"] /\ lock' = Nobody
  /\ UNCHANGED <<tree, worker, failures, genuine, settled, pruneFails, crashes>>

(* prune_worktrees: every directory under loop-worktrees is removed with its branch; a *)
(* removal that fails is logged and leaves the directory.                              *)
Prune(p) ==
  /\ stage[p] = "locked" /\ stage' = [stage EXCEPT ![p] = "pruned"]
  /\ \E left \in SUBSET tree :
       /\ pruneFails + Cardinality(left) <= MaxPruneFailures
       /\ tree' = left /\ pruneFails' = pruneFails + Cardinality(left)
  /\ UNCHANGED <<lock, worker, failures, genuine, settled, crashes>>

(* run_watch / LoopRunner::run begins *)
BeginInvocation(p) ==
  /\ stage[p] = "pruned" /\ stage' = [stage EXCEPT ![p] = "running"]
  /\ UNCHANGED <<lock, tree, worker, failures, genuine, settled, pruneFails, crashes>>

CountFailure(t) ==
  /\ failures' = [failures EXCEPT ![t] = @ + 1]
  /\ settled' = [settled EXCEPT ![t] = IF failures[t] + 1 >= MaxTaskAttempts THEN "stuck" ELSE @]

Startable(p, t) ==
  stage[p] = "running" /\ worker[t] = Nobody /\ settled[t] = "open"

(* start: the provider, the task fixture or the transport fail before the worktree is made. *)
StartFails(p, t) ==
  /\ Startable(p, t) /\ t \notin tree /\ CountFailure(t) /\ genuine' = [genuine EXCEPT ![t] = @ + 1]
  /\ UNCHANGED <<lock, stage, tree, worker, pruneFails, crashes>>

(* prepare_worktree: git worktree add makes the directory, *)
Start(p, t) ==
  /\ Startable(p, t) /\ t \notin tree
  /\ tree' = tree \union {t} /\ worker' = [worker EXCEPT ![t] = p]
  /\ UNCHANGED <<lock, stage, failures, genuine, settled, pruneFails, crashes>>

(* and refuses one that is there: a spawn failure, counted as a failed attempt. *)
WorktreeInTheWay(p, t) ==
  /\ Startable(p, t) /\ t \in tree /\ CountFailure(t)
  /\ UNCHANGED <<lock, stage, tree, worker, genuine, pruneFails, crashes>>

(* The worker ends or is aborted.  Its worktree stays. *)
WorkerDone(t) ==
  /\ worker[t] # Nobody /\ worker' = [worker EXCEPT ![t] = Nobody]
  /\ settled' = [settled EXCEPT ![t] = "done"]
  /\ UNCHANGED <<lock, stage, tree, failures, genuine, pruneFails, crashes>>

WorkerFails(t) ==
  /\ worker[t] # Nobody /\ worker' = [worker EXCEPT ![t] = Nobody]
  /\ CountFailure(t) /\ genuine' = [genuine EXCEPT ![t] = @ + 1]
  /\ UNCHANGED <<lock, stage, tree, pruneFails, crashes>>

(* The invocation ends with every slot drained.  A watch prunes and starts the next one, or *)
(* ends as orc loop does.                                                                   *)
Drained(p) == stage[p] = "running" /\ \A t \in WTasks : worker[t] # p

(* Mutant: the next invocation does not wait for the slots. *)
MutantNextInvocation(p) ==
  /\ p \in Watches /\ stage[p] = "running" /\ stage' = [stage EXCEPT ![p] = "locked"]
  /\ UNCHANGED <<lock, tree, worker, failures, genuine, settled, pruneFails, crashes>>

NextInvocation(p) ==
  /\ p \in Watches /\ Drained(p) /\ stage' = [stage EXCEPT ![p] = "locked"]
  /\ UNCHANGED <<lock, tree, worker, failures, genuine, settled, pruneFails, crashes>>

Exit(p) ==
  /\ Drained(p) /\ stage' = [stage EXCEPT ![p] = "off"] /\ lock' = Nobody
  /\ UNCHANGED <<tree, worker, failures, genuine, settled, pruneFails, crashes>>

(* A crash releases the lock and ends the in-process workers; directories stay, and a row *)
(* it left running is recovered without counting a failure.                               *)
Crash(p) ==
  /\ stage[p] # "off" /\ crashes < MaxProcCrashes /\ crashes' = crashes + 1
  /\ stage' = [stage EXCEPT ![p] = "off"] /\ lock' = Nobody
  /\ worker' = [t \in WTasks |-> IF worker[t] = p THEN Nobody ELSE worker[t]]
  /\ UNCHANGED <<tree, failures, genuine, settled, pruneFails>>

WatchNext ==
  \/ \E p \in Procs :
       \/ Acquire(p) \/ StartupFails(p) \/ Prune(p) \/ BeginInvocation(p)
       \/ NextInvocation(p) \/ Exit(p) \/ Crash(p)
       \/ \E t \in WTasks : Start(p, t) \/ StartFails(p, t) \/ WorktreeInTheWay(p, t)
  \/ \E t \in WTasks : WorkerDone(t) \/ WorkerFails(t)

-----------------------------------------------------------------------------
(* A worker never loses its worktree: no prune of the same or another process, after a *)
(* crash or between invocations, removes the directory a worker is running in.         *)
WorktreeKept == \A t \in WTasks : worker[t] # Nobody => t \in tree

(* What the comment on prune_worktrees promises: a retried task does not "strand as     *)
(* `stuck` without ever running", no counted failure is a leftover worktree's.          *)
RetriesRun == \A t \in WTasks : settled[t] = "stuck" => genuine[t] = failures[t]

-----------------------------------------------------------------------------
(* ReconcilePoller: each successful board poll is compared with the rows   *)
(* recovered at the invocation's start and with the blocked candidates of  *)
(* the previous poll; what differs is appended to the event log one event  *)
(* at a time, any append of which may fail and end the poll with an error. *)

CONSTANTS RTasks, MaxPolls, MaxInvocations, MaxAppendFailures

VARIABLES
  board,        \* task -> "blocked", "ready", "open" or "closed" on the board
  recovered,    \* tasks of the rows recovered when the invocation began
  seen,         \* diverged_seen
  previous,     \* previous_blocked
  snapshot,     \* task -> its status in the poll under way
  batch,        \* the events still to append
  polling,
  divergedLog,  \* task -> board-diverged events of this invocation in the log
  promotedLog,  \* task -> unblocked-task-promoted events in the log
  unblocked,    \* task -> times a successful poll saw it ready right after one saw it blocked
  lastSeen,     \* task -> status in the last successful poll
  blockedSince, \* tasks a poll saw blocked since their last promotion was recorded
  polls, invocations, appendFailures

reconVars == <<board, recovered, seen, previous, snapshot, batch, polling, divergedLog, promotedLog,
               unblocked, lastSeen, blockedSince, polls, invocations, appendFailures>>

Statuses == {"blocked", "ready", "open", "closed"}
Zero == [t \in RTasks |-> 0]

ReconInit ==
  /\ board \in [RTasks -> Statuses] /\ recovered \in SUBSET RTasks
  /\ seen = {} /\ previous = {} /\ snapshot = board /\ batch = <<>> /\ polling = FALSE
  /\ divergedLog = Zero /\ promotedLog = Zero /\ unblocked = Zero
  /\ lastSeen = [t \in RTasks |-> "open"] /\ blockedSince = {}
  /\ polls = 0 /\ invocations = 1 /\ appendFailures = 0

(* The board moves under the poller. *)
BoardMoves ==
  /\ ~polling /\ polls < MaxPolls
  /\ \E t \in RTasks : \E s \in Statuses \ {board[t]} : board' = [board EXCEPT ![t] = s]
  /\ UNCHANGED <<recovered, seen, previous, snapshot, batch, polling, divergedLog, promotedLog,
                 unblocked, lastSeen, blockedSince, polls, invocations, appendFailures>>

(* reconcile: recovered tasks that are no longer open diverged; blocked candidates of the *)
(* last poll that are ready were promoted.  A divergence already recorded is left out.    *)
Events(snap) ==
  SetToSeq({[kind |-> "diverged", task |-> t] : t \in {r \in recovered \ seen : snap[r] = "closed"}})
    \o SetToSeq({[kind |-> "promoted", task |-> t] : t \in {b \in previous : snap[b] = "ready"}})

Poll ==
  /\ ~polling /\ polls < MaxPolls
  /\ polling' = TRUE /\ polls' = polls + 1 /\ snapshot' = board /\ batch' = Events(board)
  /\ blockedSince' = blockedSince \union {t \in RTasks : board[t] = "blocked"}
  /\ UNCHANGED <<board, recovered, seen, previous, divergedLog, promotedLog, unblocked, lastSeen,
                 invocations, appendFailures>>

(* The inner poll fails before anything is compared. *)
PollFails ==
  /\ ~polling /\ polls < MaxPolls /\ polls' = polls + 1
  /\ UNCHANGED <<board, recovered, seen, previous, snapshot, batch, polling, divergedLog,
                 promotedLog, unblocked, lastSeen, blockedSince, invocations, appendFailures>>

(* record_events for one event, and the dedup state that goes with it. *)
(* Mutant: the dedup state is updated once, after the batch. *)
MutantDedup(e) == UNCHANGED <<seen, previous>>

Dedup(e) ==
  IF e.kind = "diverged" THEN seen' = seen \union {e.task} /\ UNCHANGED previous
  ELSE previous' = previous \ {e.task} /\ UNCHANGED seen

RecordEvent ==
  /\ polling /\ batch # <<>> /\ Dedup(Head(batch)) /\ batch' = Tail(batch)
  /\ LET e == Head(batch)
     IN IF e.kind = "diverged"
        THEN /\ divergedLog' = [divergedLog EXCEPT ![e.task] = @ + 1]
             /\ UNCHANGED <<promotedLog, blockedSince>>
        ELSE /\ promotedLog' = [promotedLog EXCEPT ![e.task] = @ + 1]
             /\ blockedSince' = blockedSince \ {e.task} /\ UNCHANGED divergedLog
  /\ UNCHANGED <<board, recovered, snapshot, polling, unblocked, lastSeen, polls, invocations,
                 appendFailures>>

AppendFails ==
  /\ polling /\ batch # <<>> /\ appendFailures < MaxAppendFailures
  /\ appendFailures' = appendFailures + 1 /\ polling' = FALSE /\ batch' = <<>>
  /\ UNCHANGED <<board, recovered, seen, previous, snapshot, divergedLog, promotedLog, unblocked,
                 lastSeen, blockedSince, polls, invocations>>

(* The blocked candidates are replaced on every successful poll. *)
(* Mutant: only on one that recorded something. *)
MutantNewPrevious ==
  IF \E t \in RTasks : promotedLog[t] + divergedLog[t] > 0
  THEN {t \in RTasks : snapshot[t] = "blocked"} ELSE previous

NewPrevious == {t \in RTasks : snapshot[t] = "blocked"}

PollDone ==
  /\ polling /\ batch = <<>> /\ polling' = FALSE /\ previous' = NewPrevious
  /\ lastSeen' = snapshot
  /\ unblocked' = [t \in RTasks |-> IF lastSeen[t] = "blocked" /\ snapshot[t] = "ready"
                                    THEN unblocked[t] + 1 ELSE unblocked[t]]
  /\ UNCHANGED <<board, recovered, seen, snapshot, batch, divergedLog, promotedLog, blockedSince,
                 polls, invocations, appendFailures>>

(* set_recovered and begin_invocation; the blocked candidates are kept. *)
BeginReconciling ==
  /\ ~polling /\ invocations < MaxInvocations /\ invocations' = invocations + 1
  /\ recovered' \in SUBSET RTasks /\ seen' = {} /\ divergedLog' = Zero
  /\ UNCHANGED <<board, previous, snapshot, batch, polling, promotedLog, unblocked, lastSeen,
                 blockedSince, polls, appendFailures>>

ReconNext ==
  BoardMoves \/ Poll \/ PollFails \/ RecordEvent \/ AppendFails \/ PollDone \/ BeginReconciling

-----------------------------------------------------------------------------
(* A batch cut short by a failed append is taken up again without repeating what it had  *)
(* recorded: an invocation records a task's divergence once, and a promotion only after  *)
(* the task was seen blocked again.                                                      *)
RecordedOnce ==
  [][\A t \in RTasks :
       /\ divergedLog'[t] <= 1
       /\ promotedLog'[t] > promotedLog[t] => t \in blockedSince]_reconVars

(* No promotion is missed: one is in the log for every time two successful polls in a row *)
(* saw the task blocked and then ready.                                                   *)
PromotionsRecorded == \A t \in RTasks : unblocked[t] <= promotedLog[t]
=============================================================================
