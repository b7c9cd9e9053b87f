----------------------------- MODULE MediatedBash -----------------------------
(***************************************************************************)
(* One mediated bash call: an async caller whose future may be dropped at  *)
(* any await (a declared tool's wall clock, the loop's abort), the two     *)
(* blocking tasks it starts and cannot abort, the threads that drain the   *)
(* interpreter's output, and the interpreter with the processes it forks.  *)
(* The caller's armed guard and BashChild's own drop are what keeps a      *)
(* process of the interpreter's group from outliving the call.  No kill    *)
(* reaches a descendant that left the group (setsid, job control), and one *)
(* that holds the output pipes keeps the blocking side waiting.            *)
(*                                                                         *)
(* Pipes are counted in chunks: the script has Script of them, a pipe      *)
(* holds PipeSize, and the interpreter answers every chunk it reads with   *)
(* one chunk of output.                                                    *)
(***************************************************************************)
EXTENDS Integers

CONSTANTS
  Script,        \* chunks of the script
  PipeSize,      \* chunks a pipe holds
  OUTPUT_LIMIT   \* chunks of output kept

BashAssumption == Script \in Nat /\ PipeSize \in Nat \ {0} /\ OUTPUT_LIMIT \in Nat

VARIABLES
  caller,        \* run_bash: "preflight", "spawning", "waiting", "returned", "dropped"
  worker,        \* the gate's verdict is cached: MediatedWorker in the mutex
  guard,         \* KillOnDrop: "none", "armed", "fired", "disarmed"
  task,          \* the blocking side, BashChild::spawn then BashChild::wait
  leader,        \* interpreter: "none", "running", "zombie", "reaped"
  by_signal,     \* it was killed
  forked,        \* a descendant in the interpreter's group is alive and holds the output pipes
  escaped,       \* one outside the group holds them
  limited,       \* resource limits are in place
  stdin,         \* chunks in the script's pipe
  written, stdin_open,
  output,        \* chunks in the output pipe
  drained, draining,
  killed,        \* BashChild::killed
  result

vars == <<caller, worker, guard, task, leader, by_signal, forked, escaped, limited, stdin,
          written, stdin_open, output, drained, draining, killed, result>>

process == <<leader, by_signal, forked, escaped>>
pipes == <<stdin, written, stdin_open, output, drained, draining>>

Tasks == {"none", "spawn", "limit", "spawned", "queued", "drain", "write", "poll", "join", "ended"}

Init ==
  /\ caller = "preflight" /\ worker \in BOOLEAN /\ guard = "none" /\ task = "none"
  /\ leader = "none" /\ by_signal = FALSE /\ forked = FALSE /\ escaped = FALSE
  /\ limited = FALSE
  /\ stdin = 0 /\ written = 0 /\ stdin_open = FALSE /\ output = 0 /\ drained = 0
  /\ draining = FALSE /\ killed = FALSE /\ result = "none"

(* SIGKILL to the interpreter's process group. *)
GroupKilled ==
  /\ forked' = FALSE
  /\ leader' = IF leader = "running" THEN "zombie" ELSE leader
  /\ by_signal' = (by_signal \/ leader = "running")
  /\ escaped' = escaped

(* MediatedBashMediator::worker: the capability preflight, once per run.   *)
(* controls: every required sandbox control is available on this platform. *)
Preflight(controls) ==
  /\ caller = "preflight"
  /\ IF worker \/ controls
     THEN caller' = "spawning" /\ worker' = TRUE /\ task' = "spawn" /\ result' = result
     ELSE caller' = "returned" /\ result' = "unavailable-controls" /\ UNCHANGED <<worker, task>>
  /\ UNCHANGED <<guard, process, limited, pipes, killed>>

-----------------------------------------------------------------------------
(* BashChild::spawn on the blocking pool.  The context or the process may  *)
(* not come up.                                                            *)
SpawnFails ==
  /\ task = "spawn"
  /\ task' = "ended" /\ result' = "spawn"
  /\ UNCHANGED <<caller, worker, guard, process, limited, pipes, killed>>

Spawn ==
  /\ task = "spawn"
  /\ leader' = "running" /\ stdin_open' = TRUE /\ task' = "limit"
  /\ UNCHANGED <<caller, worker, guard, by_signal, forked, escaped, limited, stdin, written,
                 output, drained, draining, killed, result>>

(* apply_limits_fenced: stop, limit, continue; a child that cannot be      *)
(* limited is killed and reaped.                                           *)
Limit ==
  /\ task = "limit"
  /\ limited' = TRUE /\ task' = "spawned"
  /\ UNCHANGED <<caller, worker, guard, process, pipes, killed, result>>

LimitFails ==
  /\ task = "limit"
  /\ leader' = "reaped" /\ by_signal' = TRUE /\ stdin_open' = FALSE
  /\ task' = "ended" /\ result' = "resource-limit"
  /\ UNCHANGED <<caller, worker, guard, forked, escaped, limited, stdin, written, output, drained,
                 draining, killed>>

(* The caller's await of the spawn is over: the guard is armed and the     *)
(* second blocking task queued, or the error is returned.                  *)
SpawnAwaited ==
  /\ caller = "spawning" /\ task \in {"spawned", "ended"}
  /\ IF task = "spawned"
     THEN caller' = "waiting" /\ guard' = "armed" /\ task' = "queued"
     ELSE caller' = "returned" /\ UNCHANGED <<guard, task>>
  /\ UNCHANGED <<worker, process, limited, pipes, killed, result>>

(* Drop for BashChild: the caller went away while the child came up, so    *)
(* the spawn's result has no owner left.                                   *)
(* Mutant: only the interpreter is killed, and by its own pid. *)
MutantDropUnclaimed ==
  /\ caller = "dropped" /\ task = "spawned"
  /\ leader' = "zombie" /\ by_signal' = TRUE /\ stdin_open' = FALSE /\ task' = "ended"
  /\ UNCHANGED <<caller, worker, guard, forked, escaped, limited, stdin, written, output, drained,
                 draining, killed, result>>

DropUnclaimed ==
  /\ caller = "dropped" /\ task = "spawned"
  /\ leader' = "reaped" /\ by_signal' = TRUE /\ forked' = FALSE /\ stdin_open' = FALSE
  /\ task' = "ended"
  /\ UNCHANGED <<caller, worker, guard, escaped, limited, stdin, written, output, drained,
                 draining, killed, result>>

-----------------------------------------------------------------------------
(* BashChild::wait on the blocking pool: drains first, then the script,    *)
(* then the poll for the exit.                                             *)
(* Mutant: the drain threads are started when the script is written. *)
MutantStartDrains ==
  /\ task = "queued" /\ task' = "write"
  /\ UNCHANGED <<caller, worker, guard, process, limited, pipes, killed, result>>

StartDrains ==
  /\ task = "queued" /\ task' = "write" /\ draining' = TRUE
  /\ UNCHANGED <<caller, worker, guard, process, limited, stdin, written, stdin_open, output,
                 drained, killed, result>>

(* write_all, then the write end is closed.  It blocks while the pipe is   *)
(* full, and fails once nobody reads; the guard may have closed the pipe.  *)
WriteChunk ==
  /\ task = "write" /\ stdin_open /\ written < Script /\ leader = "running"
  /\ stdin < PipeSize
  /\ stdin' = stdin + 1 /\ written' = written + 1
  /\ UNCHANGED <<caller, worker, guard, task, process, limited, stdin_open, output, drained,
                 draining, killed, result>>

WriteEnds ==
  /\ task = "write" /\ (~stdin_open \/ written = Script \/ leader # "running")
  /\ stdin_open' = FALSE /\ task' = "poll"
  /\ UNCHANGED <<caller, worker, guard, process, limited, stdin, written, output, drained,
                 draining, killed, result>>

(* try_wait reaps the interpreter; the rest of its group is killed before  *)
(* the drain threads are joined.                                           *)
Reap ==
  /\ task = "poll" /\ leader = "zombie"
  /\ leader' = "reaped" /\ forked' = FALSE /\ task' = "join"
  /\ UNCHANGED <<caller, worker, guard, by_signal, escaped, limited, pipes, killed, result>>

(* try_wait fails: wait returns at once, the interpreter unreaped and the  *)
(* drains left to themselves.  Where the caller is gone this drops the     *)
(* last handle, and its drop kills the group.                              *)
WaitFails ==
  /\ task = "poll" /\ task' = "ended" /\ result' = "wait"
  /\ IF caller = "dropped" THEN GroupKilled ELSE UNCHANGED process
  /\ UNCHANGED <<caller, worker, guard, limited, pipes, killed>>

(* One chunk of output; over the limit the drain kills the group and ends. *)
Drain ==
  /\ draining /\ output > 0
  /\ output' = output - 1 /\ drained' = drained + 1
  /\ IF drained' > OUTPUT_LIMIT
     THEN draining' = FALSE /\ GroupKilled
     ELSE UNCHANGED <<draining, process>>
  /\ UNCHANGED <<caller, worker, guard, task, limited, stdin, written, stdin_open, killed,
                 result>>

(* End of file: nobody holds the write end of the output pipe any more. *)
DrainEnds ==
  /\ draining /\ output = 0 /\ leader \in {"zombie", "reaped"} /\ ~forked /\ ~escaped
  /\ draining' = FALSE
  /\ UNCHANGED <<caller, worker, guard, task, process, limited, stdin, written, stdin_open,
                 output, drained, killed, result>>

(* The drains are joined and the outcome decided, in the code's order. *)
Join ==
  /\ task = "join" /\ ~draining
  /\ result' = IF drained > OUTPUT_LIMIT THEN "output-exceeded"
               ELSE IF killed THEN "aborted"
               ELSE IF written < Script /\ by_signal THEN "script-io"
               ELSE IF by_signal THEN "signal" ELSE "exited"
  /\ task' = "ended"
  /\ UNCHANGED <<caller, worker, guard, process, limited, pipes, killed>>

(* The waiter's result reaches the caller, which disarms its guard: the    *)
(* last handle is dropped, and a child that was not reaped is killed.      *)
WaitAwaited ==
  /\ caller = "waiting" /\ task = "ended"
  /\ caller' = "returned" /\ guard' = "disarmed"
  /\ IF result = "wait" THEN GroupKilled ELSE UNCHANGED process
  /\ UNCHANGED <<worker, task, limited, pipes, killed, result>>

(* The caller's future is dropped: the armed guard kills the group and     *)
(* closes the script's pipe.  Without a guard nothing happens here.        *)
Cancel ==
  /\ caller \in {"spawning", "waiting"}
  /\ caller' = "dropped"
  /\ IF guard = "armed"
     THEN /\ guard' = "fired" /\ killed' = TRUE /\ stdin_open' = FALSE /\ GroupKilled
     ELSE UNCHANGED <<guard, killed, stdin_open, process>>
  /\ UNCHANGED <<worker, task, limited, stdin, written, output, drained, draining, result>>

-----------------------------------------------------------------------------
(* External: the interpreter reads a chunk and writes one chunk of output, *)
(* may fork at any chunk it reads, and may exit at any time and must once  *)
(* it has read its script to the end.                                      *)
Interpret ==
  /\ leader = "running" /\ limited /\ stdin > 0 /\ output < PipeSize
  /\ stdin' = stdin - 1 /\ output' = output + 1
  /\ \E f \in BOOLEAN : forked' = (forked \/ f)
  /\ UNCHANGED <<caller, worker, guard, task, leader, by_signal, escaped, limited, written,
                 stdin_open, drained, draining, killed, result>>

Exits ==
  /\ leader = "running" /\ limited
  /\ leader' = "zombie"
  /\ UNCHANGED <<caller, worker, guard, task, by_signal, forked, escaped, limited, pipes,
                 killed, result>>

(* A descendant may leave the group, alone or as the last of it, and one   *)
(* outside it may exit or close its ends of the pipes; nothing makes it.   *)
LeavesGroup ==
  /\ forked /\ escaped' = TRUE /\ \E f \in BOOLEAN : forked' = f
  /\ UNCHANGED <<caller, worker, guard, task, leader, by_signal, limited, pipes, killed, result>>

LetsGo ==
  /\ escaped /\ escaped' = FALSE
  /\ UNCHANGED <<caller, worker, guard, task, leader, by_signal, forked, limited, pipes,
                 killed, result>>

EndOfScript == leader = "running" /\ limited /\ stdin = 0 /\ ~stdin_open

(* What the caller and the blocking side do by themselves. *)
Program ==
  \/ \E c \in BOOLEAN : Preflight(c)
  \/ SpawnFails \/ Spawn \/ Limit \/ LimitFails \/ SpawnAwaited \/ DropUnclaimed
  \/ StartDrains \/ WriteChunk \/ WriteEnds \/ Reap \/ WaitFails \/ Join \/ WaitAwaited

Next == Program \/ Drain \/ DrainEnds \/ Cancel \/ Interpret \/ Exits \/ LeavesGroup \/ LetsGo

Spec == Init /\ [][Next]_vars

(* Tokio polls the caller and runs its blocking tasks, the drain threads   *)
(* run, and the interpreter gets to run its script to the end; nothing     *)
(* makes it exit earlier, and nothing makes a descendant exit at all.      *)
FairSpec ==
  /\ Spec
  /\ WF_vars(Program) /\ WF_vars(Drain) /\ WF_vars(DrainEnds) /\ WF_vars(Interpret)
  /\ WF_vars(EndOfScript /\ Exits)

-----------------------------------------------------------------------------
TypeOK ==
  /\ caller \in {"preflight", "spawning", "waiting", "returned", "dropped"}
  /\ guard \in {"none", "armed", "fired", "disarmed"} /\ task \in Tasks
  /\ leader \in {"none", "running", "zombie", "reaped"}
  /\ stdin \in 0 .. PipeSize /\ output \in 0 .. PipeSize /\ written \in 0 .. Script
  /\ drained \in 0 .. Script
  /\ {worker, by_signal, forked, escaped, limited, stdin_open, draining, killed} \subseteq BOOLEAN

Ended == caller \in {"returned", "dropped"} /\ task \in {"none", "ended"}

(* When a call has returned, or was dropped and its blocking side is done, *)
(* nothing of the interpreter's group runs: no descendant in it is alive,  *)
(* and the interpreter is reaped, or was killed after try_wait failed and  *)
(* is a zombie.  A descendant that left the group is not spoken of: no     *)
(* kill of the code reaches it.                                            *)
NothingOutlivesCall ==
  Ended => /\ ~forked
           /\ leader \in {"none", "reaped"} \/ (leader = "zombie" /\ result = "wait")

(* A call always comes to its end, whatever the script does with its       *)
(* output and the background processes of its group, unless a descendant   *)
(* outside the group holds the output pipes: the drains then wait for it.  *)
CallEnds == []<>(Ended \/ escaped)
=============================================================================
