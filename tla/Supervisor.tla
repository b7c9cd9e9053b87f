----------------------------- MODULE Supervisor -------------------------------
(***************************************************************************)
(* The daemon's process supervisor: one monitor task per spawned process,  *)
(* told to stop through a watch channel that the supervisor's entry owns.  *)
(* Spawning a session again replaces its entry, which drops the old        *)
(* channel: the old monitor sees the channel change and kills its child.   *)
(* The MCP gateway is a session of its own here.                           *)
(***************************************************************************)
EXTENDS Naturals, FiniteSets

CONSTANTS SupSessions, Projects, Tools,
          MaxSpawns,       \* bound: monitors ever started
          MaxRestarts,     \* a spec's max_restarts
          EventCapacity

SupAssumption == MaxSpawns \in Nat /\ MaxRestarts \in Nat /\ EventCapacity \in Nat

VARIABLES
  entries,        \* session -> monitor and project the supervisor knows
  mon,            \* the monitor tasks
  project_tools,
  events,         \* supervision events waiting in the bounded channel
  spawned,
  access          \* the project bound and the one asked for of an allowed check_tool_access

supVars == <<entries, mon, project_tools, events, spawned, access>>

Monitors == 1 .. MaxSpawns
NoEntry == [monitor |-> 0, project |-> "none"]
NoMonitor == [session |-> "none", project |-> "none", pc |-> "absent", cancel |-> "unset",
              child |-> "none", status |-> "none", restarts |-> 0, starts |-> 0]
MonPcs == {"absent", "wait", "exited", "done"}
NoAccess == <<"none", "none">>

SupInit ==
  /\ entries = [s \in SupSessions |-> NoEntry]
  /\ mon = [m \in Monitors |-> NoMonitor]
  /\ project_tools = [p \in Projects |-> {}]
  /\ events = 0 /\ spawned = 0 /\ access = NoAccess

(* try_send: an event that finds the channel full is dropped. *)
Emit(n) == events' = IF events + n <= EventCapacity THEN events + n ELSE EventCapacity
Put(m, r) == mon' = [mon EXCEPT ![m] = r]

(* Mutant: an entry that is replaced leaves its monitor alone. *)
MutantDropEntry(f, s) == f
(* The watch sender of a replaced entry is dropped with it. *)
DropEntry(f, s) ==
  [m \in Monitors |-> IF m = entries[s].monitor /\ f[m].cancel = "unset"
                      THEN [f[m] EXCEPT !.cancel = "dropped"] ELSE f[m]]

(* spawn_worker and spawn_gateway; a command that cannot be started leaves *)
(* everything as it was.                                                   *)
SpawnWorker(s) ==
  /\ spawned < MaxSpawns /\ spawned' = spawned + 1
  /\ \E p \in Projects :
       LET m == spawned + 1
           fresh == [NoMonitor EXCEPT !.session = s, !.project = p, !.pc = "wait",
                                      !.child = "alive", !.status = "running", !.starts = 1]
       IN  \/ /\ mon' = DropEntry([mon EXCEPT ![m] = fresh], s)
              /\ entries' = [entries EXCEPT ![s] = [monitor |-> m, project |-> p]]
              /\ Emit(1)
           \/ UNCHANGED <<mon, entries, events>>
  /\ UNCHANGED <<project_tools, access>>

ChildExits(m) ==
  /\ mon[m].child = "alive" /\ Put(m, [mon[m] EXCEPT !.child = "dead"])
  /\ UNCHANGED <<entries, project_tools, events, spawned, access>>

(* monitor_process: the select between the child's end and a change of the *)
(* cancel channel; either branch may win when both are ready.              *)
ReapChild(m) ==
  /\ mon[m].pc = "wait" /\ mon[m].child = "dead"
  /\ Put(m, [mon[m] EXCEPT !.pc = "exited", !.status = "exited"]) /\ Emit(1)
  /\ UNCHANGED <<entries, project_tools, spawned, access>>

(* Mutant: a cancelled monitor returns without the kill. *)
MutantKillOnCancel(m) ==
  /\ mon[m].pc = "wait" /\ mon[m].cancel # "unset"
  /\ Put(m, [mon[m] EXCEPT !.pc = "done", !.status = "exited"]) /\ Emit(1)
  /\ UNCHANGED <<entries, project_tools, spawned, access>>

(* Mutant: only a shutdown that was asked for is looked at. *)
MutantKillRequested(m) ==
  /\ mon[m].pc = "wait" /\ mon[m].cancel = "requested"
  /\ Put(m, [mon[m] EXCEPT !.pc = "done", !.child = "dead", !.status = "exited"]) /\ Emit(1)
  /\ UNCHANGED <<entries, project_tools, spawned, access>>

KillOnCancel(m) ==
  /\ mon[m].pc = "wait" /\ mon[m].cancel # "unset"
  /\ Put(m, [mon[m] EXCEPT !.pc = "done", !.child = "dead", !.status = "exited"]) /\ Emit(1)
  /\ UNCHANGED <<entries, project_tools, spawned, access>>

(* After an exit: stop when cancelled, fail when the restarts are used up  *)
(* or the command no longer starts, restart otherwise.                     *)
(* Mutant: the comparison lets one restart more through. *)
MutantRestartsLeft(m) == mon[m].restarts + 1 <= MaxRestarts + 1
RestartsLeft(m) == mon[m].restarts + 1 <= MaxRestarts

AfterExit(m) ==
  /\ mon[m].pc = "exited"
  /\ \/ mon[m].cancel = "requested" /\ Put(m, [mon[m] EXCEPT !.pc = "done"]) /\ UNCHANGED events
     \/ /\ mon[m].cancel # "requested" /\ ~RestartsLeft(m)
        /\ Put(m, [mon[m] EXCEPT !.pc = "done", !.status = "failed"]) /\ Emit(1)
     \/ /\ mon[m].cancel # "requested" /\ RestartsLeft(m)
        /\ \/ /\ Put(m, [mon[m] EXCEPT !.pc = "wait", !.child = "alive", !.status = "running",
                                       !.restarts = mon[m].restarts + 1,
                                       !.starts = mon[m].starts + 1]) /\ Emit(2)
           \/ Put(m, [mon[m] EXCEPT !.pc = "done", !.status = "failed",
                                    !.restarts = mon[m].restarts + 1])
              /\ Emit(2)
  /\ UNCHANGED <<entries, project_tools, spawned, access>>

Requested(f, m) == IF m # 0 /\ f[m].pc # "done" THEN [f EXCEPT ![m].cancel = "requested"] ELSE f

ShutdownWorker(s) ==
  /\ entries[s].monitor # 0 /\ mon' = Requested(mon, entries[s].monitor)
  /\ UNCHANGED <<entries, project_tools, events, spawned, access>>

ShutdownAll ==
  /\ mon' = [m \in Monitors |->
       IF mon[m].pc # "done" /\ \E s \in SupSessions : entries[s].monitor = m
       THEN [mon[m] EXCEPT !.cancel = "requested"] ELSE mon[m]]
  /\ UNCHANGED <<entries, project_tools, events, spawned, access>>

RegisterProjectTools(p, t) ==
  /\ project_tools' = [project_tools EXCEPT ![p] = @ \cup {t}]
  /\ UNCHANGED <<entries, mon, events, spawned, access>>

(* Mutant: a tool is looked up in the project that was asked for. *)
MutantAllowed(s, t, p) == entries[s].monitor # 0 /\ t \in project_tools[p]
Allowed(s, t, p) ==
  /\ entries[s].monitor # 0 /\ entries[s].project = p
  /\ t \in project_tools[entries[s].project]

CheckToolAccess(s, t, p) ==
  /\ access' = IF Allowed(s, t, p) THEN <<entries[s].project, p>> ELSE NoAccess
  /\ IF entries[s].monitor # 0 /\ entries[s].project # p THEN Emit(1) ELSE UNCHANGED events
  /\ UNCHANGED <<entries, mon, project_tools, spawned>>

ReceiveEvent ==
  /\ events > 0 /\ events' = events - 1
  /\ UNCHANGED <<entries, mon, project_tools, spawned, access>>

MonitorStep(m) == ReapChild(m) \/ KillOnCancel(m) \/ AfterExit(m)

SupNext ==
  \/ \E s \in SupSessions : SpawnWorker(s) \/ ShutdownWorker(s)
  \/ \E m \in Monitors : ChildExits(m) \/ MonitorStep(m)
  \/ \E s \in SupSessions, t \in Tools, p \in Projects : CheckToolAccess(s, t, p)
  \/ \E p \in Projects, t \in Tools : RegisterProjectTools(p, t)
  \/ ShutdownAll \/ ReceiveEvent

SupSpec == SupInit /\ [][SupNext]_supVars

(* The runtime polls every task that is ready. *)
SupFairness == \A m \in Monitors : WF_supVars(MonitorStep(m))

-----------------------------------------------------------------------------
SupTypeOK ==
  /\ \A s \in SupSessions : entries[s].monitor \in 0 .. spawned
  /\ \A m \in Monitors : /\ mon[m].pc \in MonPcs
                         /\ mon[m].cancel \in {"unset", "requested", "dropped"}
                         /\ mon[m].restarts \in 0 .. MaxRestarts + 1
  /\ events \in 0 .. EventCapacity

(* Supervision keeps its promises across exits, restarts, shutdowns and    *)
(* replacements in any order: a status that says the process ended is true *)
(* of the process; no monitor starts its command more often than once and  *)
(* its restarts; of the processes of one session at most one is not being  *)
(* stopped; and no tool was allowed outside the project the session is     *)
(* bound to.                                                               *)
SupervisionSound ==
  /\ \A m \in Monitors : mon[m].status \in {"exited", "failed"} => mon[m].child # "alive"
  /\ \A m \in Monitors : mon[m].starts <= MaxRestarts + 1
  /\ \A m, n \in Monitors :
       (m # n /\ mon[m].session = mon[n].session /\ mon[m].child = "alive" /\ mon[n].child = "alive")
         => mon[m].cancel # "unset" \/ mon[n].cancel # "unset"
  /\ access[1] = access[2]

Settled == \A m \in Monitors : mon[m].cancel # "unset" => mon[m].pc = "done"

(* A process that was told to shut down, or whose session was spawned      *)
(* again, is gone in the end, even if it is between an exit and a restart  *)
(* when that happens.                                                      *)
CancelledEnds == []<>Settled
=============================================================================
