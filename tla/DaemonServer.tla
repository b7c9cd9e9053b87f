---------------------------- MODULE DaemonServer ------------------------------
(***************************************************************************)
(* orcd's JSON-RPC server on a Unix socket: the capability probe, the      *)
(* socket file, connections, shutdown by signal or by RPC, the bounded     *)
(* drain, and crashes that leave the socket file behind.  Processes come   *)
(* one after another; MaxProcs bounds how many.                            *)
(***************************************************************************)
EXTENDS Naturals, FiniteSets

CONSTANTS Controls, Conns, MaxProcs

VARIABLES
  file,         \* who bound the socket file: 0 when there is none
  proc,         \* the running process, 0 when none
  phase,        \* "off", "starting", "serving", "draining", "ended", "refused"
  shutdown,     \* the watch channel's value
  conns,        \* connection -> "none", "open", "closing", "closed"
  grace,        \* the drain's timeout has passed
  report, used

serverVars == <<file, proc, phase, shutdown, conns, grace, report, used>>

NoReport == [allowed |-> FALSE, degraded |-> FALSE, missing |-> {}]

ServerInit ==
  /\ file = 0 /\ proc = 0 /\ phase = "off" /\ shutdown = FALSE
  /\ conns = [c \in Conns |-> "none"] /\ grace = FALSE /\ report = NoReport /\ used = 0

(* build_report *)
(* Mutant: degraded controls are what refuses protected services. *)
MutantBuildReport(controls) ==
  [allowed |-> \A c \in Controls : controls[c] # "Degraded",
   degraded |-> \E c \in Controls : controls[c] = "Degraded",
   missing |-> {c \in Controls : controls[c] = "Unavailable"}]

BuildReport(controls) ==
  [allowed |-> \A c \in Controls : controls[c] # "Unavailable",
   degraded |-> \E c \in Controls : controls[c] = "Degraded",
   missing |-> {c \in Controls : controls[c] = "Unavailable"}]

(* status_str, what the health method answers *)
StatusStr == IF ~report.allowed THEN "fail_closed" ELSE IF report.degraded THEN "degraded" ELSE "ok"

Start ==
  /\ phase \in {"off", "ended"} /\ used < MaxProcs
  /\ used' = used + 1 /\ proc' = used + 1 /\ phase' = "starting"
  /\ \E controls \in [Controls -> {"Available", "Degraded", "Unavailable"}] :
       report' = BuildReport(controls)
  /\ shutdown' = FALSE /\ conns' = [c \in Conns |-> "none"] /\ grace' = FALSE
  /\ UNCHANGED file

(* bind_socket: a file in the way is removed first. *)
(* Mutant: it is not. *)
MutantBindSocket ==
  /\ phase = "starting"
  /\ IF file = 0 THEN file' = proc /\ phase' = "serving" ELSE phase' = "refused" /\ UNCHANGED file
  /\ UNCHANGED <<proc, shutdown, conns, grace, report, used>>

BindSocket ==
  /\ phase = "starting" /\ phase' = "serving" /\ file' = proc
  /\ UNCHANGED <<proc, shutdown, conns, grace, report, used>>

(* The file cannot be removed, or the bind fails. *)
BindFails ==
  /\ phase = "starting" /\ phase' = "ended" /\ proc' = 0 /\ file' \in {file, 0}
  /\ UNCHANGED <<shutdown, conns, grace, report, used>>

Accept(c) ==
  /\ phase = "serving" /\ conns[c] = "none" /\ conns' = [conns EXCEPT ![c] = "open"]
  /\ UNCHANGED <<file, proc, phase, shutdown, grace, report, used>>

Disconnect(c) ==
  /\ conns[c] \in {"open", "closing"} /\ conns' = [conns EXCEPT ![c] = "closed"]
  /\ UNCHANGED <<file, proc, phase, shutdown, grace, report, used>>

(* The shutdown method of an open connection. *)
RpcShutdown(c) ==
  /\ conns[c] = "open" /\ ~shutdown /\ shutdown' = TRUE
  /\ UNCHANGED <<file, proc, phase, conns, grace, report, used>>

(* A connection watches the channel: only an RPC shutdown reaches it, a    *)
(* signal does not.                                                        *)
ConnSeesShutdown(c) ==
  /\ shutdown /\ conns[c] = "open" /\ conns' = [conns EXCEPT ![c] = "closing"]
  /\ UNCHANGED <<file, proc, phase, shutdown, grace, report, used>>

(* serve_until leaves its loop. *)
BeginDrain ==
  /\ phase = "serving" /\ phase' = "draining"
  /\ UNCHANGED <<file, proc, shutdown, conns, grace, report, used>>
SeeShutdown == shutdown /\ BeginDrain
Sigterm == ~shutdown /\ BeginDrain

GraceExpires ==
  /\ phase = "draining" /\ ~grace /\ grace' = TRUE
  /\ UNCHANGED <<file, proc, phase, shutdown, conns, report, used>>

(* drain_connections: every connection joined, or all aborted at the end   *)
(* of the grace; then SocketFile removes the file.                         *)
(* Mutant: the drain has no timeout. *)
MutantDrained == \A c \in Conns : conns[c] \in {"none", "closed"}
Drained == grace \/ \A c \in Conns : conns[c] \in {"none", "closed"}

EndProcess ==
  /\ phase = "draining" /\ Drained
  /\ phase' = "ended" /\ proc' = 0 /\ file' = 0
  /\ conns' = [c \in Conns |-> "none"]
  /\ UNCHANGED <<shutdown, grace, report, used>>

(* A failed accept returns the error; the socket file goes all the same.   *)
AcceptFails ==
  /\ phase = "serving" /\ phase' = "ended" /\ proc' = 0 /\ file' = 0
  /\ conns' = [c \in Conns |-> "none"]
  /\ UNCHANGED <<shutdown, grace, report, used>>

Crash ==
  /\ phase \in {"starting", "serving", "draining"} /\ phase' = "ended" /\ proc' = 0
  /\ conns' = [c \in Conns |-> "none"]
  /\ UNCHANGED <<file, shutdown, grace, report, used>>

ServerNext ==
  \/ Start \/ BindSocket \/ BindFails \/ SeeShutdown \/ Sigterm \/ GraceExpires \/ EndProcess
  \/ AcceptFails \/ Crash
  \/ \E c \in Conns : Accept(c) \/ Disconnect(c) \/ RpcShutdown(c) \/ ConnSeesShutdown(c)

ServerSpec == ServerInit /\ [][ServerNext]_serverVars

(* The select loop polls what is ready and timers fire; clients owe the    *)
(* server nothing.                                                         *)
ServerFairness ==
  /\ WF_serverVars(BindSocket) /\ WF_serverVars(SeeShutdown)
  /\ WF_serverVars(GraceExpires) /\ WF_serverVars(EndProcess)

-----------------------------------------------------------------------------
(* A serving process can be reached on its socket also after an earlier    *)
(* one died without cleaning up, a start is never refused over a file left *)
(* behind, and health says fail_closed exactly when a control is missing,  *)
(* degraded controls or not.                                               *)
ServerReachable ==
  /\ phase = "serving" => file = proc
  /\ phase # "refused"
  /\ phase = "serving" => (StatusStr = "fail_closed" <=> report.missing # {})

Settled == phase # "draining" /\ ~(phase = "serving" /\ shutdown)

(* A shutdown that was accepted, by signal or by RPC, ends the process     *)
(* though clients keep their connections open.                             *)
ShutdownEnds == []<>Settled
=============================================================================
