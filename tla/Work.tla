-------------------------------- MODULE Work ---------------------------------
(****************************************************************************)
(* The work of a run and the processes it goes through: the worker session  *)
(* with its sub-session, the mediated bash call under it, the delivery of   *)
(* the work through the landing of a branch, the tokens it is delivered     *)
(* with, the review pipeline, the supervision of child processes and the    *)
(* daemon's RPC server.                                                     *)
(****************************************************************************)
EXTENDS Integers, Sequences, FiniteSets

CONSTANTS
  max_attempts, max_replans, max_turns_per_attempt, max_consecutive_format_errors,
  max_provider_retries, run_deadline, stall_timeout, tool_repeat_count, tool_repeat_window,
  no_progress_turns, ci_poll_budget, child_turns, child_wall_clock, internal_tools, soft_cap,
  Replies, LossyCalls, MaxNow,
  Script, PipeSize, OUTPUT_LIMIT,
  SupSessions, Projects, ProjectTools, MaxSpawns, MaxRestarts, EventCapacity,
  Controls, Conns, MaxProcs,
  Landers, Trees, MaxFaults, MaxOutside, OtherTrees,
  Threads, Skew, Lifetimes, MaxLifetime, MaxCalls, MaxEpoch,
  Findings, Heads, Severities, Domains, HARD_LOOP_CEILING, MaxLoops, MaxReviewers

VARIABLES
  focus,         \* the component that moves in this behaviour
  depth, fr, now, beat, sessionEvents, sessionEntries, sessionCalls,
  unrecorded, completed, delivers,
  caller, worker, guard, task, leader, by_signal, forked, escaped, limited,
  stdin, written, stdin_open, output, drained, draining, killed, result,
  deliveryHead, commits, temp, lander, wasHead, faults, outside, run, dpc,
  worktree, committed, pr, outcome, prWas,
  slot, thread, got, tokensCalls, epoch,
  config, profile, reviewers, entry, reviewHead, loops, verdict, reportedNow,
  worst,
  supervisorEntries, mon, project_tools, supervisorEvents, spawned, access,
  file, proc, phase, shutdown, conns, grace, report, used

Session == INSTANCE WorkerSession WITH
  events <- sessionEvents, entries <- sessionEntries, calls <- sessionCalls
Bash == INSTANCE MediatedBash
Sup == INSTANCE Supervisor WITH
  Tools <- ProjectTools, entries <- supervisorEntries, events <- supervisorEvents
Server == INSTANCE DaemonServer
Delivery == INSTANCE Delivery WITH head <- deliveryHead
Tokens == INSTANCE InstallationTokens WITH calls <- tokensCalls
Review == INSTANCE ReviewPipeline WITH head <- reviewHead

(* SelectionSound, a fact about folds over reviewer lists, is TLC's to     *)
(* evaluate; the other assumptions say that limits are numbers and that    *)
(* what the budgets count is there.                                        *)
ASSUME WorkAssumption ==
  /\ Session!WorkerAssumption /\ Session!RepliesAssumption /\ Bash!BashAssumption
  /\ Sup!SupAssumption /\ Delivery!DeliveryAssumption /\ Tokens!TokensAssumption
  /\ Review!ReviewAssumption /\ Review!SelectionSound

AConfig == CHOOSE c \in Review!Configs : TRUE
AProfile == [empty |-> FALSE, sensitive |-> TRUE, domain |-> "none", coverage |-> FALSE]

sessionState == <<depth, fr, now, beat, sessionEvents, sessionEntries,
                  sessionCalls, unrecorded, completed, delivers>>
bashState == <<caller, worker, guard, task, leader, by_signal, forked,
               escaped, limited, stdin, written, stdin_open, output, drained,
               draining, killed, result>>
deliveryState == <<deliveryHead, commits, temp, lander, wasHead, faults,
                   outside, run, dpc, worktree, committed, pr, outcome,
                   prWas>>
tokensState == <<slot, thread, got, tokensCalls, epoch>>
reviewState == <<config, profile, reviewers, entry, reviewHead, loops,
                 verdict, reportedNow, worst>>
supervisorState == <<supervisorEntries, mon, project_tools, supervisorEvents,
                     spawned, access>>
serverState == <<file, proc, phase, shutdown, conns, grace, report, used>>
vars == <<focus, sessionState, bashState, deliveryState, tokensState,
          reviewState, supervisorState, serverState>>

(* The components do not meet: one of them moves, the others stay as they  *)
(* begin.  Only the security-sensitive profile is reviewed with more loops *)
(* than one.                                                               *)
Init ==
  /\ focus \in {"session", "bash", "delivery", "tokens", "review",
                "supervisor", "server"}
  /\ Session!Init
  /\ Bash!Init /\ (focus # "bash" => worker)
  /\ Delivery!Init
  /\ Tokens!TokensInit
  /\ Review!ReviewInit /\ (profile # AProfile => config.max_review_loops = 1)
     /\ (focus # "review" => config = AConfig /\ profile = AProfile)
  /\ Sup!SupInit
  /\ Server!ServerInit

Next ==
  \/ /\ focus = "session" /\ Session!Next
     /\ UNCHANGED <<focus, bashState, deliveryState, tokensState,
                    reviewState, supervisorState, serverState>>
  \/ /\ focus = "bash" /\ Bash!Next
     /\ UNCHANGED <<focus, sessionState, deliveryState, tokensState,
                    reviewState, supervisorState, serverState>>
  \/ /\ focus = "delivery" /\ Delivery!Next
     /\ UNCHANGED <<focus, sessionState, bashState, tokensState, reviewState,
                    supervisorState, serverState>>
  \/ /\ focus = "tokens" /\ Tokens!TokensNext
     /\ UNCHANGED <<focus, sessionState, bashState, deliveryState,
                    reviewState, supervisorState, serverState>>
  \/ /\ focus = "review" /\ Review!ReviewNext
     /\ UNCHANGED <<focus, sessionState, bashState, deliveryState,
                    tokensState, supervisorState, serverState>>
  \/ /\ focus = "supervisor" /\ Sup!SupNext
     /\ UNCHANGED <<focus, sessionState, bashState, deliveryState,
                    tokensState, reviewState, serverState>>
  \/ /\ focus = "server" /\ Server!ServerNext
     /\ UNCHANGED <<focus, sessionState, bashState, deliveryState,
                    tokensState, reviewState, supervisorState>>

Fairness ==
  /\ WF_sessionState(focus = "session" /\ Session!Next)
  /\ WF_bashState(focus = "bash" /\ Bash!Program)
  /\ WF_bashState(focus = "bash" /\ Bash!Drain)
  /\ WF_bashState(focus = "bash" /\ Bash!DrainEnds)
  /\ WF_bashState(focus = "bash" /\ Bash!Interpret)
  /\ WF_bashState(focus = "bash" /\ Bash!EndOfScript /\ Bash!Exits)
  /\ WF_deliveryState(focus = "delivery" /\ Delivery!Deliver)
  /\ WF_deliveryState(focus = "delivery" /\ Delivery!Landing)
  /\ WF_deliveryState(focus = "delivery" /\ Delivery!Work)
  /\ \A t \in Threads : WF_tokensState(focus = "tokens" /\ Tokens!Look(t))
  /\ \A t \in Threads : WF_tokensState(focus = "tokens" /\ Tokens!MintEnds(t))
  /\ WF_reviewState(focus = "review" /\ Review!Trigger)
  /\ WF_reviewState(focus = "review" /\ Review!Generation)
  /\ \A m \in Sup!Monitors : WF_supervisorState(focus = "supervisor" /\ Sup!MonitorStep(m))
  /\ WF_serverState(focus = "server" /\ Server!BindSocket)
  /\ WF_serverState(focus = "server" /\ Server!SeeShutdown)
  /\ WF_serverState(focus = "server" /\ Server!GraceExpires)
  /\ WF_serverState(focus = "server" /\ Server!EndProcess)

Spec == Init /\ [][Next]_vars /\ Fairness

-----------------------------------------------------------------------------
(* Well typed, and within every budget of its configuration: the attempts, *)
(* replans, turns and churn window of a session and its sub-session, the   *)
(* restarts and the event queue of a supervised process.                   *)
WorkTypeOK == Session!TypeOK /\ Bash!TypeOK /\ Delivery!TypeOK /\ Sup!SupTypeOK

(* Every request to a provider that the cost sink took, of the session or  *)
(* a sub-session, is in the ledger under an identity of its own, whether   *)
(* or not the sink lost others; every completed one is in the usage the    *)
(* soft cap is judged by; a run delivers at most once, at its very end.    *)
SessionAccounted == Session!EveryCallAccounted /\ Session!DeliveryEndsRun

(* Nothing of the process group of a bash call runs once the call is over, *)
(* cancelled or not (a descendant that left the group may).  Of the        *)
(* processes of a supervised session at most one is not being stopped, a   *)
(* status that says the process ended is true, the restarts are bounded    *)
(* and no tool of another project is allowed; and a daemon that serves can *)
(* be reached on its socket, also after an earlier one died.               *)
ProcessesOwned ==
  /\ Bash!NothingOutlivesCall
  /\ Sup!SupervisionSound
  /\ Server!ServerReachable

(* What is reported of the work is true, whatever fault, timeout or other  *)
(* actor comes between.  A delivery that reports its pull request saw it   *)
(* open on a branch that held its work, and a landing that reports success *)
(* left the branch where it says.  An approval leaves no finding at or     *)
(* above the threshold that the last generation reported and that was ever *)
(* that severe, required reviewers are selected, the loops bounded.  Of    *)
(* the threads that want an installation token at most one mints.          *)
DeliveryTrue ==
  /\ Delivery!OpenedHoldsWork /\ Delivery!LandedIsTrue
  /\ Review!ApprovalIsClean /\ Review!ReviewBounded
  /\ Tokens!OneMint

(* No turn begins past the session's deadline and every turn moves the     *)
(* beat the supervisor watches, in a sub-session too; and a landing moves  *)
(* the branch only onto a verified commit of its own whose parent was the  *)
(* head, so that nobody's commit is dropped.                               *)
StepsGuarded ==
  /\ Session!NoTurnAfterDeadline /\ Session!BeatsAdvance
  /\ Delivery!LandingExtendsHead

(* Every run, delivery and review comes to its end, and so does every bash *)
(* call of which no descendant outside its process group keeps the pipes   *)
(* open; a cancelled process and a daemon told to stop are gone in the     *)
(* end, and every caller that waits for a token gets an answer.            *)
WorkEnds ==
  []<>(CASE focus = "session"    -> Session!Ended
         [] focus = "bash"       -> Bash!Ended \/ escaped
         [] focus = "delivery"   -> Delivery!Ended
         [] focus = "tokens"     -> Tokens!Settled
         [] focus = "review"     -> Review!Settled
         [] focus = "supervisor" -> Sup!Settled
         [] focus = "server"     -> Server!Settled)
=============================================================================
