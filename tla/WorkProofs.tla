----------------------------- MODULE WorkProofs ------------------------------
(***************************************************************************)
(* Proofs about the work of a run and the processes it goes through: the   *)
(* worker session with its sub-session, the mediated bash call, the        *)
(* delivery through the landing of a branch, installation tokens, the      *)
(* review pipeline, the supervision of child processes and the daemon's    *)
(* RPC server.  For every budget, deadline and set of replies, every       *)
(* length of script and pipe, every number of landers, threads, findings,  *)
(* reviewers, sessions, spawns, restarts, connections and processes.       *)
(***************************************************************************)
EXTENDS Work, FiniteSetTheorems, TLAPS

-----------------------------------------------------------------------------
(***************************************************************************)
(* The components in the composition.                                      *)
(***************************************************************************)

(* Whichever component moves, each of them takes a step of its own or none: *)
(* a behaviour of the composition is a behaviour of every component.       *)
LEMMA ComponentsRun ==
  Spec => /\ Session!Spec /\ Bash!Spec /\ Sup!SupSpec /\ Server!ServerSpec
          /\ Delivery!Spec /\ Tokens!TokensSpec /\ Review!ReviewSpec
<1> USE DEF vars, sessionState, bashState, deliveryState, tokensState, reviewState,
            supervisorState, serverState
<1>1. Init => /\ Session!Init /\ Bash!Init /\ Sup!SupInit /\ Server!ServerInit
              /\ Delivery!Init /\ Tokens!TokensInit /\ Review!ReviewInit
  BY DEF Init
<1>2. [Next]_vars => [Session!Next]_Session!vars
  BY DEF Next, Session!vars
<1>3. [Next]_vars => [Bash!Next]_Bash!vars
  BY DEF Next, Bash!vars
<1>4. [Next]_vars => [Sup!SupNext]_Sup!supVars
  BY DEF Next, Sup!supVars
<1>5. [Next]_vars => [Server!ServerNext]_Server!serverVars
  BY DEF Next, Server!serverVars
<1>6. [Next]_vars => [Delivery!Next]_Delivery!vars
  BY DEF Next, Delivery!vars, Delivery!lvars, Delivery!dvars
<1>7. [Next]_vars => [Tokens!TokensNext]_Tokens!tokenVars
  BY DEF Next, Tokens!tokenVars
<1>8. [Next]_vars => [Review!ReviewNext]_Review!reviewVars
  BY DEF Next, Review!reviewVars
<1> QED
  BY <1>1, <1>2, <1>3, <1>4, <1>5, <1>6, <1>7, <1>8, PTL
     DEF Spec, Session!Spec, Bash!Spec, Sup!SupSpec, Server!ServerSpec, Delivery!Spec,
         Tokens!TokensSpec, Review!ReviewSpec

-----------------------------------------------------------------------------
(***************************************************************************)
(* The mediated bash call.                                                 *)
(***************************************************************************)

(* The guard is armed, the limits are set and the drains run only once the *)
(* interpreter is there; a process that runs has a blocking task that will *)
(* reap it, or a handle whose drop kills it after try_wait failed; the     *)
(* caller returns only when that task is done.                             *)
BashInv ==
  /\ caller \in {"preflight", "spawning", "waiting", "returned", "dropped"}
  /\ leader \in {"none", "running", "zombie", "reaped"}
  /\ leader \in {"none", "reaped"} => ~forked
  /\ task \in {"none", "spawn"} => leader = "none"
  /\ task = "limit" => leader = "running" /\ ~forked
  /\ task \in {"none", "spawn", "limit"} => ~limited /\ ~draining /\ guard = "none"
  /\ task = "join" => leader \in {"none", "reaped"}
  /\ task = "ended" /\ result # "wait" => leader \in {"none", "reaped"}
  /\ caller = "preflight" => task = "none"
  /\ caller = "waiting" => guard = "armed"
  /\ caller = "spawning" => task \in {"spawn", "limit", "spawned", "ended"}
  /\ result = "wait" => task = "ended"
  /\ result = "wait" /\ caller \in {"returned", "dropped"} => leader # "running" /\ ~forked
  /\ result = "wait" => caller \in {"waiting", "returned", "dropped"}
  /\ caller = "returned" => task \in {"none", "ended"}
  /\ leader = "none" => ~limited

LEMMA BashInvStep ==
  ASSUME BashInv, [Bash!Next]_Bash!vars
  PROVE  BashInv'
<1> USE DEF BashInv
<1>1. CASE \E c \in BOOLEAN : Bash!Preflight(c)
  BY <1>1 DEF Bash!Preflight, Bash!process, Bash!pipes
<1>2. CASE Bash!SpawnFails \/ Bash!Spawn \/ Bash!Limit \/ Bash!LimitFails
  BY <1>2 DEF Bash!SpawnFails, Bash!Spawn, Bash!Limit, Bash!LimitFails, Bash!process, Bash!pipes
<1>3. CASE Bash!SpawnAwaited \/ Bash!DropUnclaimed
  BY <1>3 DEF Bash!SpawnAwaited, Bash!DropUnclaimed, Bash!process, Bash!pipes
<1>4. CASE Bash!StartDrains \/ Bash!WriteChunk \/ Bash!WriteEnds
  BY <1>4 DEF Bash!StartDrains, Bash!WriteChunk, Bash!WriteEnds, Bash!process, Bash!pipes
<1>5. CASE Bash!Reap \/ Bash!WaitFails \/ Bash!Join \/ Bash!WaitAwaited
  <2>1. CASE Bash!Reap \/ Bash!Join
    BY <2>1 DEF Bash!Reap, Bash!Join, Bash!process, Bash!pipes
  <2>2. CASE Bash!WaitFails
    BY <2>2 DEF Bash!WaitFails, Bash!GroupKilled, Bash!process, Bash!pipes
  <2>3. CASE Bash!WaitAwaited
    BY <2>3 DEF Bash!WaitAwaited, Bash!GroupKilled, Bash!process, Bash!pipes
  <2> QED
    BY <1>5, <2>1, <2>2, <2>3
<1>6. CASE Bash!Drain
  <2>1. draining /\ draining' \in {draining, FALSE} /\ UNCHANGED <<caller, guard, task, limited, result>>
        /\ (Bash!GroupKilled \/ UNCHANGED Bash!process)
    BY <1>6 DEF Bash!Drain, Bash!process
  <2> QED
    BY <2>1 DEF Bash!GroupKilled, Bash!process
<1>7. CASE Bash!DrainEnds \/ Bash!Interpret \/ Bash!Exits \/ Bash!LeavesGroup \/ Bash!LetsGo
  BY <1>7 DEF Bash!DrainEnds, Bash!Interpret, Bash!Exits, Bash!LeavesGroup, Bash!LetsGo,
              Bash!process, Bash!pipes
<1>8. CASE Bash!Cancel
  BY <1>8 DEF Bash!Cancel, Bash!GroupKilled, Bash!process
<1>9. CASE UNCHANGED Bash!vars
  BY <1>9 DEF Bash!vars
<1> QED
  BY <1>1, <1>2, <1>3, <1>4, <1>5, <1>6, <1>7, <1>8, <1>9 DEF Bash!Next, Bash!Program

-----------------------------------------------------------------------------
(***************************************************************************)
(* Supervision.                                                            *)
(***************************************************************************)

Monitor == [session : SupSessions \cup {"none"}, project : Projects \cup {"none"}, pc : Sup!MonPcs,
            cancel : {"unset", "requested", "dropped"}, child : {"none", "alive", "dead"},
            status : {"none", "running", "exited", "failed"}, restarts : Nat, starts : Nat]

(* What a monitor keeps to itself. *)
MonitorHolds(r) ==
  /\ r.pc \in {"absent", "exited", "done"} => r.child # "alive"
  /\ r.status \in {"exited", "failed"} => r.pc \in {"exited", "done"}
  /\ r.starts <= r.restarts + 1 /\ r.restarts <= MaxRestarts
  /\ r.pc # "absent" => r.session \in SupSessions

SupTypes ==
  /\ supervisorEntries \in [SupSessions -> [monitor : 0 .. MaxSpawns, project : Projects \cup {"none"}]]
  /\ spawned \in 0 .. MaxSpawns
  /\ \A s \in SupSessions : supervisorEntries[s].monitor <= spawned
  /\ mon \in [Sup!Monitors -> Monitor] /\ \A m \in Sup!Monitors : MonitorHolds(mon[m])
  /\ supervisorEvents \in 0 .. EventCapacity
  /\ access[1] = access[2]

(* A monitor that may start its command again and that nobody told to stop *)
(* is the one its session's entry names, also between an exit and a        *)
(* restart.                                                                *)
EntryNames ==
  \A m \in Sup!Monitors :
    mon[m].pc \in {"wait", "exited"} /\ mon[m].cancel = "unset"
      => supervisorEntries[mon[m].session].monitor = m

SupInv == SupTypes /\ EntryNames

(* A step of a monitor puts a record in its place. *)
LEMMA PutKeeps ==
  ASSUME SupInv, NEW m \in Sup!Monitors, NEW r \in Monitor, MonitorHolds(r), mon' = [mon EXCEPT ![m] = r],
         r.session = mon[m].session,
         r.pc \in {"wait", "exited"} /\ r.cancel = "unset"
           => mon[m].pc \in {"wait", "exited"} /\ mon[m].cancel = "unset",
         UNCHANGED <<supervisorEntries, spawned, access>>,
         supervisorEvents' \in 0 .. EventCapacity
  PROVE  SupInv'
<1>1. \A n \in Sup!Monitors : mon'[n] = IF n = m THEN r ELSE mon[n]
  BY DEF SupInv, SupTypes
<1>2. mon' \in [Sup!Monitors -> Monitor]
  BY DEF SupInv, SupTypes
<1>3. SupTypes'
  BY <1>1, <1>2 DEF SupInv, SupTypes, Sup!Monitors, MonitorHolds
<1>4. EntryNames'
  BY <1>1 DEF SupInv, EntryNames, Sup!Monitors
<1> QED
  BY <1>3, <1>4 DEF SupInv

LEMMA EmitKeeps ==
  ASSUME Sup!SupAssumption, SupInv, NEW n \in Nat, Sup!Emit(n)
  PROVE  supervisorEvents' \in 0 .. EventCapacity
BY DEF SupInv, SupTypes, Sup!Emit, Sup!SupAssumption

LEMMA SpawnKeeps ==
  ASSUME Sup!SupAssumption, SupInv, NEW s \in SupSessions, Sup!SpawnWorker(s)
  PROVE  SupInv'
<1>0. supervisorEvents \in 0 .. EventCapacity /\ spawned + 1 \in Sup!Monitors /\ spawned + 1 \in 0 .. MaxSpawns
      /\ spawned' = spawned + 1 /\ access' = access
  BY DEF SupInv, SupTypes, Sup!SpawnWorker, Sup!Monitors, Sup!SupAssumption
<1>1. CASE UNCHANGED <<mon, supervisorEntries, supervisorEvents>>
  BY <1>0, <1>1 DEF SupInv, SupTypes, EntryNames, Sup!Monitors, MonitorHolds
<1>2. ASSUME NEW p \in Projects, NEW fresh,
             fresh = [Sup!NoMonitor EXCEPT !.session = s, !.project = p, !.pc = "wait",
                                           !.child = "alive", !.status = "running", !.starts = 1],
             mon' = Sup!DropEntry([mon EXCEPT ![spawned + 1] = fresh], s),
             supervisorEntries' = [supervisorEntries EXCEPT ![s] = [monitor |-> spawned + 1, project |-> p]],
             Sup!Emit(1)
      PROVE  SupInv'
  <2> DEFINE m == spawned + 1
             old == supervisorEntries[s].monitor
  <2>1. fresh \in Monitor /\ MonitorHolds(fresh) /\ fresh.pc = "wait" /\ fresh.session = s
    <3>1. fresh = [session |-> s, project |-> p, pc |-> "wait", cancel |-> "unset", child |-> "alive",
                   status |-> "running", restarts |-> 0, starts |-> 1]
      BY <1>2 DEF Sup!NoMonitor
    <3>2. fresh \in Monitor
      BY <3>1 DEF Monitor, Sup!MonPcs
    <3> QED
      BY <3>1, <3>2 DEF MonitorHolds, Sup!SupAssumption
  <2>2. old # m /\ \A t \in SupSessions : supervisorEntries[t].monitor # m
    BY DEF SupInv, SupTypes
  <2>3. m \in Sup!Monitors
    BY <1>0
  <2>4. mon'[m] = fresh
    BY <1>2, <2>2, <2>3 DEF Sup!DropEntry, SupInv, SupTypes
  <2>5. ASSUME NEW n \in Sup!Monitors, n # m
        PROVE  mon'[n] = IF n = old /\ mon[n].cancel = "unset"
                         THEN [mon[n] EXCEPT !.cancel = "dropped"] ELSE mon[n]
    BY <1>2, <2>5 DEF Sup!DropEntry, SupInv, SupTypes
  <2>6. ASSUME NEW n \in Sup!Monitors, n # m
        PROVE  /\ mon'[n] \in Monitor /\ MonitorHolds(mon'[n]) /\ mon'[n].session = mon[n].session
               /\ mon'[n].pc = mon[n].pc
               /\ mon'[n].cancel = "unset" => mon[n].cancel = "unset" /\ n # old
    <3>1. mon[n] \in Monitor /\ MonitorHolds(mon[n])
      BY DEF SupInv, SupTypes
    <3>2. CASE n = old /\ mon[n].cancel = "unset"
      BY <2>5, <2>6, <3>1, <3>2 DEF Monitor, MonitorHolds
    <3>3. CASE ~(n = old /\ mon[n].cancel = "unset")
      BY <2>5, <2>6, <3>1, <3>3
    <3> QED
      BY <3>2, <3>3
  <2>7. mon' \in [Sup!Monitors -> Monitor] /\ \A n \in Sup!Monitors : MonitorHolds(mon'[n])
    <3>1. DOMAIN mon' = Sup!Monitors /\ mon' = [n \in Sup!Monitors |-> mon'[n]]
      BY <1>2 DEF Sup!DropEntry
    <3>2. \A n \in Sup!Monitors : mon'[n] \in Monitor /\ MonitorHolds(mon'[n])
      BY <2>1, <2>4, <2>6
    <3> QED
      BY <3>1, <3>2
  <2>8. /\ supervisorEntries' \in [SupSessions -> [monitor : 0 .. MaxSpawns, project : Projects \cup {"none"}]]
        /\ supervisorEntries'[s].monitor = m
        /\ \A t \in SupSessions : t # s => supervisorEntries'[t] = supervisorEntries[t]
    BY <1>0, <1>2 DEF SupInv, SupTypes
  <2>9. supervisorEvents' \in 0 .. EventCapacity
    BY <1>2, EmitKeeps
  <2>10. \A t \in SupSessions : supervisorEntries'[t].monitor <= spawned'
    BY <1>0, <2>8 DEF SupInv, SupTypes
  <2>11. SupTypes'
    BY <1>0, <2>7, <2>8, <2>9, <2>10 DEF SupInv, SupTypes, Sup!Monitors, MonitorHolds
  <2>12. ASSUME NEW n \in Sup!Monitors, mon'[n].pc \in {"wait", "exited"}, mon'[n].cancel = "unset"
         PROVE  supervisorEntries'[mon'[n].session].monitor = n
    <3>1. CASE n = m
      BY <2>1, <2>4, <2>8, <3>1
    <3>2. CASE n # m
      <4>1. supervisorEntries[mon[n].session].monitor = n /\ n # old /\ mon'[n].session = mon[n].session
        BY <2>6, <2>12, <3>2 DEF SupInv, EntryNames
      <4>2. mon[n].session \in SupSessions
        BY <2>6, <2>12, <3>2 DEF SupInv, SupTypes, MonitorHolds
      <4> QED
        BY <2>8, <4>1, <4>2
    <3> QED
      BY <3>1, <3>2
  <2> QED
    BY <2>11, <2>12 DEF SupInv, EntryNames, Sup!Monitors
<1>3. PICK p \in Projects :
        \/ /\ mon' = Sup!DropEntry([mon EXCEPT ![spawned + 1] =
                       [Sup!NoMonitor EXCEPT !.session = s, !.project = p, !.pc = "wait",
                                             !.child = "alive", !.status = "running", !.starts = 1]], s)
           /\ supervisorEntries' = [supervisorEntries EXCEPT ![s] = [monitor |-> spawned + 1, project |-> p]]
           /\ Sup!Emit(1)
        \/ UNCHANGED <<mon, supervisorEntries, supervisorEvents>>
  BY DEF Sup!SpawnWorker
<1> QED
  BY <1>1, <1>2, <1>3
(* A monitor that is told to stop: nothing else of it changes. *)
LEMMA CancelKeeps ==
  ASSUME SupInv, NEW Told, UNCHANGED <<supervisorEntries, supervisorEvents, spawned, access>>,
         mon' = [m \in Sup!Monitors |-> IF m \in Told THEN [mon[m] EXCEPT !.cancel = "requested"] ELSE mon[m]]
  PROVE  SupInv'
<1>1. ASSUME NEW m \in Sup!Monitors
      PROVE  /\ mon'[m] \in Monitor /\ MonitorHolds(mon'[m]) /\ mon'[m].session = mon[m].session
             /\ mon'[m].pc = mon[m].pc /\ mon'[m].cancel \in {mon[m].cancel, "requested"}
  <2>1. mon[m] \in Monitor /\ MonitorHolds(mon[m])
    BY DEF SupInv, SupTypes
  <2>2. CASE m \in Told
    BY <2>1, <2>2 DEF Monitor, MonitorHolds
  <2>3. CASE m \notin Told
    BY <2>1, <2>3
  <2> QED
    BY <2>2, <2>3
<1>2. mon' \in [Sup!Monitors -> Monitor]
  BY <1>1
<1>3. SupTypes'
  BY <1>1, <1>2 DEF SupInv, SupTypes, Sup!Monitors, MonitorHolds
<1>4. EntryNames'
  BY <1>1 DEF SupInv, EntryNames, Sup!Monitors
<1> QED
  BY <1>3, <1>4 DEF SupInv

LEMMA MonitorKeeps ==
  ASSUME Sup!SupAssumption, SupInv, NEW m \in Sup!Monitors, Sup!ChildExits(m) \/ Sup!MonitorStep(m)
  PROVE  SupInv'
<1> DEFINE q == mon[m]
<1>0. q \in Monitor /\ MonitorHolds(q) /\ supervisorEvents \in 0 .. EventCapacity
  BY DEF SupInv, SupTypes
<1>1. CASE Sup!ChildExits(m)
  <2> DEFINE r == [q EXCEPT !.child = "dead"]
  <2>1. /\ r \in Monitor /\ r.session = q.session /\ r.pc = q.pc /\ r.cancel = q.cancel /\ r.child = "dead"
        /\ r.status = q.status /\ r.starts = q.starts /\ r.restarts = q.restarts
    BY <1>0 DEF Monitor
  <2>2. mon' = [mon EXCEPT ![m] = r] /\ UNCHANGED <<supervisorEntries, spawned, access, supervisorEvents>>
    BY <1>1 DEF Sup!ChildExits, Sup!Put
  <2> HIDE DEF r
  <2>3. MonitorHolds(r)
    BY <1>0, <2>1 DEF MonitorHolds
  <2> QED
    BY <1>0, <2>1, <2>2, <2>3, PutKeeps
<1>2. CASE Sup!ReapChild(m)
  <2> DEFINE r == [q EXCEPT !.pc = "exited", !.status = "exited"]
  <2>1. /\ r \in Monitor /\ r.session = q.session /\ r.pc = "exited" /\ r.cancel = q.cancel
        /\ r.child = q.child /\ r.status = "exited" /\ r.starts = q.starts /\ r.restarts = q.restarts
    BY <1>0 DEF Monitor, Sup!MonPcs
  <2>2. mon' = [mon EXCEPT ![m] = r] /\ UNCHANGED <<supervisorEntries, spawned, access>> /\ Sup!Emit(1)
        /\ q.pc = "wait" /\ q.child = "dead"
    BY <1>2 DEF Sup!ReapChild, Sup!Put
  <2> HIDE DEF r
  <2>3. MonitorHolds(r)
    BY <1>0, <2>1, <2>2 DEF MonitorHolds
  <2>4. supervisorEvents' \in 0 .. EventCapacity
    BY <2>2, EmitKeeps
  <2> QED
    BY <2>1, <2>2, <2>3, <2>4, PutKeeps
<1>3. CASE Sup!KillOnCancel(m)
  <2> DEFINE r == [q EXCEPT !.pc = "done", !.child = "dead", !.status = "exited"]
  <2>1. /\ r \in Monitor /\ r.session = q.session /\ r.pc = "done" /\ r.cancel = q.cancel
        /\ r.child = "dead" /\ r.status = "exited" /\ r.starts = q.starts /\ r.restarts = q.restarts
    BY <1>0 DEF Monitor, Sup!MonPcs
  <2>2. mon' = [mon EXCEPT ![m] = r] /\ UNCHANGED <<supervisorEntries, spawned, access>> /\ Sup!Emit(1)
        /\ q.pc = "wait"
    BY <1>3 DEF Sup!KillOnCancel, Sup!Put
  <2> HIDE DEF r
  <2>3. MonitorHolds(r)
    BY <1>0, <2>1, <2>2 DEF MonitorHolds
  <2>4. supervisorEvents' \in 0 .. EventCapacity
    BY <2>2, EmitKeeps
  <2> QED
    BY <2>1, <2>2, <2>3, <2>4, PutKeeps
<1>4. CASE Sup!AfterExit(m)
  <2>0. q.pc = "exited" /\ UNCHANGED <<supervisorEntries, spawned, access>>
        /\ q.child # "alive" /\ q.session \in SupSessions
    BY <1>0, <1>4 DEF Sup!AfterExit, MonitorHolds
  <2>1. CASE Sup!Put(m, [q EXCEPT !.pc = "done"]) /\ UNCHANGED supervisorEvents
    <3> DEFINE r == [q EXCEPT !.pc = "done"]
    <3>1. /\ r \in Monitor /\ r.session = q.session /\ r.pc = "done" /\ r.cancel = q.cancel
          /\ r.child = q.child /\ r.status = q.status /\ r.starts = q.starts /\ r.restarts = q.restarts
      BY <1>0 DEF Monitor, Sup!MonPcs
    <3>2. mon' = [mon EXCEPT ![m] = r]
      BY <2>1 DEF Sup!Put
    <3> HIDE DEF r
    <3>3. MonitorHolds(r)
      BY <1>0, <2>0, <3>1 DEF MonitorHolds
    <3> QED
      BY <1>0, <2>0, <2>1, <3>1, <3>2, <3>3, PutKeeps
  <2>2. CASE Sup!Put(m, [q EXCEPT !.pc = "done", !.status = "failed"]) /\ Sup!Emit(1)
    <3> DEFINE r == [q EXCEPT !.pc = "done", !.status = "failed"]
    <3>1. /\ r \in Monitor /\ r.session = q.session /\ r.pc = "done" /\ r.cancel = q.cancel
          /\ r.child = q.child /\ r.status = "failed" /\ r.starts = q.starts /\ r.restarts = q.restarts
      BY <1>0 DEF Monitor, Sup!MonPcs
    <3>2. mon' = [mon EXCEPT ![m] = r]
      BY <2>2 DEF Sup!Put
    <3> HIDE DEF r
    <3>3. MonitorHolds(r)
      BY <1>0, <2>0, <3>1 DEF MonitorHolds
    <3>4. supervisorEvents' \in 0 .. EventCapacity
      BY <2>2, EmitKeeps
    <3> QED
      BY <2>0, <3>1, <3>2, <3>3, <3>4, PutKeeps
  <2>3. CASE /\ Sup!Put(m, [q EXCEPT !.pc = "wait", !.child = "alive", !.status = "running",
                                     !.restarts = q.restarts + 1, !.starts = q.starts + 1])
             /\ Sup!Emit(2) /\ Sup!RestartsLeft(m)
    <3>0. q.starts \in Nat /\ q.restarts \in Nat /\ MaxRestarts \in Nat
      BY <1>0 DEF Monitor, Sup!SupAssumption
    <3> DEFINE again == q.restarts + 1
               starts == q.starts + 1
               r == [q EXCEPT !.pc = "wait", !.child = "alive", !.status = "running",
                              !.restarts = again, !.starts = starts]
    <3>7. again \in Nat /\ starts \in Nat
      BY <3>0
    <3> HIDE DEF again, starts
    <3>1. /\ r \in Monitor /\ r.session = q.session /\ r.pc = "wait" /\ r.cancel = q.cancel
          /\ r.child = "alive" /\ r.status = "running" /\ r.starts = starts /\ r.restarts = again
      BY <1>0, <3>7 DEF Monitor, Sup!MonPcs
    <3>5. mon' = [mon EXCEPT ![m] = r] /\ q.restarts + 1 <= MaxRestarts
      BY <2>3 DEF Sup!Put, Sup!RestartsLeft, again, starts
    <3> HIDE DEF r
    <3>3. MonitorHolds(r)
      BY <1>0, <2>0, <3>0, <3>1, <3>5 DEF MonitorHolds, again, starts
    <3>4. supervisorEvents' \in 0 .. EventCapacity
      BY <2>3, EmitKeeps
    <3> QED
      BY <2>0, <3>1, <3>3, <3>4, <3>5, PutKeeps
  <2>4. CASE /\ Sup!Put(m, [q EXCEPT !.pc = "done", !.status = "failed", !.restarts = q.restarts + 1])
             /\ Sup!Emit(2) /\ Sup!RestartsLeft(m)
    <3>0. q.starts \in Nat /\ q.restarts \in Nat /\ MaxRestarts \in Nat
      BY <1>0 DEF Monitor, Sup!SupAssumption
    <3> DEFINE again == q.restarts + 1
               r == [q EXCEPT !.pc = "done", !.status = "failed", !.restarts = again]
    <3>7. again \in Nat
      BY <3>0
    <3> HIDE DEF again
    <3>1. /\ r \in Monitor /\ r.session = q.session /\ r.pc = "done" /\ r.cancel = q.cancel
          /\ r.child = q.child /\ r.status = "failed" /\ r.starts = q.starts /\ r.restarts = again
      BY <1>0, <3>7 DEF Monitor, Sup!MonPcs
    <3>5. mon' = [mon EXCEPT ![m] = r] /\ q.restarts + 1 <= MaxRestarts
      BY <2>4 DEF Sup!Put, Sup!RestartsLeft, again
    <3> HIDE DEF r
    <3>3. MonitorHolds(r)
      BY <1>0, <2>0, <3>0, <3>1, <3>5 DEF MonitorHolds, again
    <3>4. supervisorEvents' \in 0 .. EventCapacity
      BY <2>4, EmitKeeps
    <3> QED
      BY <2>0, <3>1, <3>3, <3>4, <3>5, PutKeeps
  <2> QED
    BY <1>4, <2>1, <2>2, <2>3, <2>4 DEF Sup!AfterExit
<1> QED
  BY <1>1, <1>2, <1>3, <1>4 DEF Sup!MonitorStep

LEMMA SupInvStep ==
  ASSUME Sup!SupAssumption, SupInv, [Sup!SupNext]_Sup!supVars
  PROVE  SupInv'
<1>1. ASSUME NEW s \in SupSessions, Sup!ShutdownWorker(s) PROVE SupInv'
  <2> DEFINE n == supervisorEntries[s].monitor
  <2>1. n \in Sup!Monitors /\ mon \in [Sup!Monitors -> Monitor] /\ mon' = Sup!Requested(mon, n)
        /\ UNCHANGED <<supervisorEntries, supervisorEvents, spawned, access>>
    BY <1>1 DEF Sup!ShutdownWorker, SupInv, SupTypes, Sup!Monitors, Sup!SupAssumption
  <2>2. CASE mon[n].pc = "done"
    <3> DEFINE Told == {}
    <3>1. mon' = [m \in Sup!Monitors |-> IF m \in Told THEN [mon[m] EXCEPT !.cancel = "requested"] ELSE mon[m]]
      BY <2>1, <2>2 DEF Sup!Requested
    <3> HIDE DEF Told
    <3> QED
      BY <2>1, <3>1, CancelKeeps
  <2>3. CASE mon[n].pc # "done"
    <3>0. n # 0
      BY <1>1 DEF Sup!ShutdownWorker
    <3>1. mon' = [m \in Sup!Monitors |-> IF m \in {n} THEN [mon[m] EXCEPT !.cancel = "requested"] ELSE mon[m]]
      BY <2>1, <2>3, <3>0 DEF Sup!Requested
    <3> QED
      BY <2>1, <3>1, CancelKeeps
  <2> QED
    BY <2>2, <2>3
<1>2. CASE Sup!ShutdownAll
  <2> DEFINE Told == {m \in Sup!Monitors : mon[m].pc # "done"
                        /\ \E s \in SupSessions : supervisorEntries[s].monitor = m}
  <2>1. mon' = [m \in Sup!Monitors |-> IF m \in Told THEN [mon[m] EXCEPT !.cancel = "requested"] ELSE mon[m]]
    BY <1>2 DEF Sup!ShutdownAll
  <2>2. UNCHANGED <<supervisorEntries, supervisorEvents, spawned, access>>
    BY <1>2 DEF Sup!ShutdownAll
  <2> HIDE DEF Told
  <2> QED
    BY <2>1, <2>2, CancelKeeps
<1>3. ASSUME NEW s \in SupSessions, NEW t \in ProjectTools, NEW p \in Projects, Sup!CheckToolAccess(s, t, p)
      PROVE  SupInv'
  <2>1. supervisorEvents' \in 0 .. EventCapacity
    BY <1>3, EmitKeeps DEF Sup!CheckToolAccess, SupInv, SupTypes
  <2>2. access'[1] = access'[2]
    BY <1>3 DEF Sup!CheckToolAccess, Sup!Allowed, Sup!NoAccess
  <2> QED
    BY <1>3, <2>1, <2>2 DEF Sup!CheckToolAccess, SupInv, SupTypes, EntryNames, Sup!Monitors, MonitorHolds
<1>4. CASE Sup!ReceiveEvent
  <2>1. supervisorEvents' \in 0 .. EventCapacity
    BY <1>4 DEF Sup!ReceiveEvent, SupInv, SupTypes, Sup!SupAssumption
  <2> QED
    BY <1>4, <2>1 DEF Sup!ReceiveEvent, SupInv, SupTypes, EntryNames, Sup!Monitors, MonitorHolds
<1>5. CASE \/ \E p \in Projects, t \in ProjectTools : Sup!RegisterProjectTools(p, t)
           \/ UNCHANGED Sup!supVars
  <2>1. UNCHANGED <<supervisorEntries, mon, supervisorEvents, spawned, access>>
    BY <1>5 DEF Sup!RegisterProjectTools, Sup!supVars
  <2> QED
    BY <2>1 DEF SupInv, SupTypes, EntryNames, Sup!Monitors, MonitorHolds
<1> QED
  BY <1>1, <1>2, <1>3, <1>4, <1>5, SpawnKeeps, MonitorKeeps DEF Sup!SupNext

LEMMA SupFirst ==
  ASSUME Sup!SupAssumption, Sup!SupInit
  PROVE  SupInv
<1>1. Sup!NoMonitor \in Monitor /\ MonitorHolds(Sup!NoMonitor) /\ Sup!NoMonitor.pc = "absent"
  BY DEF Sup!NoMonitor, Monitor, MonitorHolds, Sup!MonPcs, Sup!SupAssumption
<1>2. \A m \in Sup!Monitors : mon[m] = Sup!NoMonitor
  BY DEF Sup!SupInit
<1>3. mon \in [Sup!Monitors -> Monitor]
  BY <1>1 DEF Sup!SupInit
<1>4. access[1] = access[2]
  BY DEF Sup!SupInit, Sup!NoAccess
<1>5. /\ supervisorEntries \in [SupSessions -> [monitor : 0 .. MaxSpawns, project : Projects \cup {"none"}]]
      /\ \A s \in SupSessions : supervisorEntries[s].monitor = 0
  BY DEF Sup!SupInit, Sup!NoEntry, Sup!SupAssumption
<1>6. spawned = 0 /\ spawned \in 0 .. MaxSpawns /\ supervisorEvents \in 0 .. EventCapacity
  BY DEF Sup!SupInit, Sup!SupAssumption
<1> QED
  BY <1>1, <1>2, <1>3, <1>4, <1>5, <1>6 DEF SupInv, SupTypes, EntryNames

LEMMA SupSound ==
  ASSUME Sup!SupAssumption, SupInv
  PROVE  Sup!SupTypeOK /\ Sup!SupervisionSound
<1>1. ASSUME NEW m \in Sup!Monitors
      PROVE  /\ mon[m].pc \in Sup!MonPcs /\ mon[m].cancel \in {"unset", "requested", "dropped"}
             /\ mon[m].restarts \in 0 .. MaxRestarts + 1 /\ mon[m].starts <= MaxRestarts + 1
             /\ mon[m].status \in {"exited", "failed"} => mon[m].child # "alive"
  <2>1. mon[m] \in Monitor /\ MonitorHolds(mon[m])
    BY DEF SupInv, SupTypes
  <2>2. mon[m].restarts \in Nat /\ mon[m].starts \in Nat /\ MaxRestarts \in Nat
    BY <2>1 DEF Monitor, Sup!SupAssumption
  <2> QED
    BY <2>1, <2>2 DEF Monitor, MonitorHolds
<1>2. \A s \in SupSessions : supervisorEntries[s].monitor \in 0 .. spawned
  BY DEF SupInv, SupTypes, Sup!SupAssumption
<1>3. ASSUME NEW m \in Sup!Monitors, mon[m].child = "alive", mon[m].cancel = "unset"
      PROVE  supervisorEntries[mon[m].session].monitor = m
  <2>1. mon[m] \in Monitor /\ MonitorHolds(mon[m])
    BY DEF SupInv, SupTypes
  <2> QED
    BY <1>3, <2>1 DEF SupInv, EntryNames, Monitor, MonitorHolds, Sup!MonPcs
<1>4. Sup!SupTypeOK
  BY <1>1, <1>2 DEF Sup!SupTypeOK, SupInv, SupTypes
<1>5. access[1] = access[2]
  BY DEF SupInv, SupTypes
<1> QED
  BY <1>1, <1>3, <1>4, <1>5 DEF Sup!SupervisionSound

-----------------------------------------------------------------------------
(***************************************************************************)
(* The daemon's RPC server.                                                *)
(***************************************************************************)

ServerInv ==
  /\ phase = "serving" => file = proc
  /\ phase # "refused"
  /\ phase \in {"starting", "serving", "draining"} => report.allowed = (report.missing = {})

LEMMA ServerInvStep ==
  ASSUME ServerInv, [Server!ServerNext]_Server!serverVars
  PROVE  ServerInv'
<1> USE DEF ServerInv
<1>1. CASE Server!Start
  <2>1. PICK controls \in [Controls -> {"Available", "Degraded", "Unavailable"}] :
          report' = Server!BuildReport(controls)
    BY <1>1 DEF Server!Start
  <2> QED
    BY <1>1, <2>1 DEF Server!Start, Server!BuildReport
<1>2. CASE Server!BindSocket \/ Server!BindFails \/ Server!SeeShutdown \/ Server!Sigterm
           \/ Server!GraceExpires \/ Server!EndProcess \/ Server!AcceptFails \/ Server!Crash
  BY <1>2 DEF Server!BindSocket, Server!BindFails, Server!SeeShutdown, Server!Sigterm,
     Server!BeginDrain, Server!GraceExpires, Server!EndProcess, Server!AcceptFails, Server!Crash
<1>3. CASE \E c \in Conns : Server!Accept(c) \/ Server!Disconnect(c) \/ Server!RpcShutdown(c)
                            \/ Server!ConnSeesShutdown(c)
  BY <1>3 DEF Server!Accept, Server!Disconnect, Server!RpcShutdown, Server!ConnSeesShutdown
<1>4. CASE UNCHANGED Server!serverVars
  BY <1>4 DEF Server!serverVars
<1> QED
  BY <1>1, <1>2, <1>3, <1>4 DEF Server!ServerNext

-----------------------------------------------------------------------------
(* The parts apart. *)
LEMMA OwnedApart ==
  Sup!SupAssumption /\ Bash!Spec /\ Sup!SupSpec /\ Server!ServerSpec => []ProcessesOwned
<1> SUFFICES ASSUME Sup!SupAssumption PROVE Bash!Spec /\ Sup!SupSpec /\ Server!ServerSpec => []ProcessesOwned
  OBVIOUS
<1>1. Bash!Init => BashInv
  BY DEF Bash!Init, BashInv
<1>2. Sup!SupInit => SupInv
  BY SupFirst
<1>3. Server!ServerInit => ServerInv
  BY DEF Server!ServerInit, ServerInv
<1>4. BashInv /\ [Bash!Next]_Bash!vars => BashInv'
  BY BashInvStep
<1>5. SupInv /\ [Sup!SupNext]_Sup!supVars => SupInv'
  BY SupInvStep
<1>6. ServerInv /\ [Server!ServerNext]_Server!serverVars => ServerInv'
  BY ServerInvStep
<1>7. BashInv => Bash!NothingOutlivesCall
  BY DEF BashInv, Bash!NothingOutlivesCall, Bash!Ended
<1>8. ServerInv => Server!ServerReachable
  BY DEF ServerInv, Server!ServerReachable, Server!StatusStr
<1>9. BashInv /\ SupInv /\ ServerInv => ProcessesOwned
  BY <1>7, <1>8, SupSound DEF ProcessesOwned
<1> QED
  BY <1>1, <1>2, <1>3, <1>4, <1>5, <1>6, <1>9, PTL DEF Bash!Spec, Sup!SupSpec, Server!ServerSpec

(* Whatever interleaving of cancellation, exit, restart, shutdown, crash   *)
(* and replacement, and whatever leaves its process group: no process in   *)
(* the group of a bash call runs once the call is over, no two processes   *)
(* of a supervised session are both wanted, and a daemon that serves is    *)
(* reachable.                                                              *)
THEOREM ProcessesAreOwned ==
  Spec => []ProcessesOwned
<1>1. Sup!SupAssumption
  BY WorkAssumption
<1> QED
  BY <1>1, ComponentsRun, OwnedApart, PTL

-----------------------------------------------------------------------------
(***************************************************************************)
(* Installation tokens.                                                    *)
(***************************************************************************)

(* The cardinality that an instantiated module reads from FiniteSets. *)
LEMMA SameCardinality ==
  ASSUME NEW S
  PROVE  /\ Tokens!Cardinality(S) = Cardinality(S) /\ Review!Cardinality(S) = Cardinality(S)
         /\ Review!IsFiniteSet(S) = IsFiniteSet(S)
<1>1. Tokens!Cardinality(S) = Cardinality(S)
  BY DEF Tokens!Cardinality, Cardinality
<1>2. Review!Cardinality(S) = Cardinality(S)
  BY DEF Review!Cardinality, Cardinality
<1>3. Review!IsFiniteSet(S) = IsFiniteSet(S)
  BY DEF Review!IsFiniteSet, IsFiniteSet
<1> QED
  BY <1>1, <1>2, <1>3

LEMMA AtMostOne ==
  ASSUME NEW S, \A x, y \in S : x = y
  PROVE  Cardinality(S) <= 1
<1>1. CASE S = {}
  BY <1>1, FS_EmptySet
<1>2. CASE S # {}
  <2>1. PICK x \in S : TRUE
    BY <1>2
  <2>2. S = {x} /\ Cardinality({x}) = 1
    BY <2>1, FS_Singleton
  <2> QED
    BY <2>2
<1> QED
  BY <1>1, <1>2

(* The slot says "minting" for exactly one thread, and nobody waits for    *)
(* nobody.                                                                 *)
TokensInv ==
  /\ thread \in [Threads -> {"idle", "look", "wait", "mint", "dead"}] /\ epoch \in Nat
  /\ slot \in [state : {"empty", "minting", "ready"}, expires : Nat]
  /\ got \in [Threads -> [ok : BOOLEAN, cached : BOOLEAN, expires : Nat, at : Nat]]
  /\ \A t, u \in Threads : thread[t] = "mint" /\ thread[u] = "mint" => t = u
  /\ slot.state = "minting" <=> \E t \in Threads : thread[t] = "mint"
  /\ (\E t \in Threads : thread[t] = "wait") => \E t \in Threads : thread[t] = "mint"
  /\ \A t \in Threads : got[t].ok => got[t].at + (IF got[t].cached THEN Skew ELSE 0) < got[t].expires

(* The answer that a caller gets. *)
LEMMA GotKeeps ==
  ASSUME Tokens!TokensAssumption, TokensInv, NEW t \in Threads,
         NEW ok \in BOOLEAN, NEW cached \in BOOLEAN, NEW expires \in Nat, NEW at \in Nat,
         got' = [got EXCEPT ![t] = [ok |-> ok, cached |-> cached, expires |-> expires, at |-> at]],
         ok => at + (IF cached THEN Skew ELSE 0) < expires
  PROVE  /\ got' \in [Threads -> [ok : BOOLEAN, cached : BOOLEAN, expires : Nat, at : Nat]]
         /\ \A u \in Threads : got'[u].ok => got'[u].at + (IF got'[u].cached THEN Skew ELSE 0) < got'[u].expires
<1>1. \A u \in Threads : got'[u] = IF u = t THEN [ok |-> ok, cached |-> cached, expires |-> expires, at |-> at]
                                   ELSE got[u]
  BY DEF TokensInv
<1>2. \A u \in Threads \ {t} : got'[u].ok => got'[u].at + (IF got'[u].cached THEN Skew ELSE 0) < got'[u].expires
  BY <1>1 DEF TokensInv
<1>3. got'[t].ok => got'[t].at + (IF got'[t].cached THEN Skew ELSE 0) < got'[t].expires
  BY <1>1
<1>4. got' \in [Threads -> [ok : BOOLEAN, cached : BOOLEAN, expires : Nat, at : Nat]]
  BY DEF TokensInv
<1> QED
  BY <1>2, <1>3, <1>4

LEMMA TokensInvStep ==
  ASSUME Tokens!TokensAssumption, TokensInv, [Tokens!TokensNext]_Tokens!tokenVars
  PROVE  TokensInv'
<1> DEFINE GotOK == /\ got' \in [Threads -> [ok : BOOLEAN, cached : BOOLEAN, expires : Nat, at : Nat]]
                    /\ \A u \in Threads :
                         got'[u].ok => got'[u].at + (IF got'[u].cached THEN Skew ELSE 0) < got'[u].expires
<1>0. got' = got => GotOK
  BY DEF TokensInv
<1>1. CASE Tokens!Seconds \/ UNCHANGED Tokens!tokenVars
  <2>1. slot' = slot /\ thread' = thread /\ got' = got /\ epoch' \in Nat
    BY <1>1 DEF Tokens!Seconds, Tokens!tokenVars, TokensInv
  <2> QED
    BY <1>0, <2>1 DEF TokensInv
<1>2. ASSUME NEW t \in Threads, Tokens!CallStarts(t) PROVE TokensInv'
  <2>1. slot' = slot /\ got' = got /\ epoch' = epoch /\ thread[t] = "idle" /\ thread' = [thread EXCEPT ![t] = "look"]
    BY <1>2 DEF Tokens!CallStarts
  <2> QED
    BY <1>0, <2>1 DEF TokensInv
<1>3. ASSUME NEW t \in Threads, Tokens!Look(t) PROVE TokensInv'
  <2>0. epoch' = epoch /\ thread[t] = "look"
    BY <1>3 DEF Tokens!Look
  <2>1. CASE /\ Tokens!Usable(slot.expires)
             /\ got' = [got EXCEPT ![t] = [ok |-> TRUE, cached |-> TRUE, expires |-> slot.expires, at |-> epoch]]
             /\ thread' = [thread EXCEPT ![t] = "idle"] /\ slot' = slot
    <3>1. epoch + Skew < slot.expires /\ slot.expires \in Nat /\ epoch \in Nat
      BY <2>1 DEF Tokens!Usable, TokensInv
    <3>2. GotOK
      BY <2>1, <3>1, GotKeeps
    <3> QED
      BY <2>0, <2>1, <3>2 DEF TokensInv
  <2>2. CASE Tokens!MustWait /\ thread' = [thread EXCEPT ![t] = "wait"] /\ slot' = slot /\ got' = got
    BY <1>0, <2>0, <2>2 DEF TokensInv, Tokens!MustWait
  <2>3. CASE /\ ~Tokens!MustWait /\ thread' = [thread EXCEPT ![t] = "mint"]
             /\ slot' = [Tokens!Empty EXCEPT !.state = "minting"] /\ got' = got
    <3>1. slot' = [state |-> "minting", expires |-> 0]
      BY <2>3 DEF Tokens!Empty
    <3>2. \A u \in Threads : thread[u] # "mint"
      BY <2>3 DEF TokensInv, Tokens!MustWait
    <3>3. thread' \in [Threads -> {"idle", "look", "wait", "mint", "dead"}] /\ thread'[t] = "mint"
          /\ \A u \in Threads : thread'[u] = "mint" => u = t
      BY <2>3, <3>2 DEF TokensInv
    <3>4. slot' \in [state : {"empty", "minting", "ready"}, expires : Nat] /\ slot'.state = "minting"
      BY <3>1
    <3>5. epoch' \in Nat /\ GotOK
      BY <1>0, <2>0, <2>3 DEF TokensInv
    <3> QED
      BY <3>3, <3>4, <3>5 DEF TokensInv
  <2> QED
    BY <1>3, <2>1, <2>2, <2>3 DEF Tokens!Look
<1>4. ASSUME NEW t \in Threads, NEW s \in {"idle", "dead"}, thread[t] = "mint", epoch' = epoch,
             thread' = Tokens!Notified([thread EXCEPT ![t] = s]), GotOK,
             slot' \in [state : {"empty", "ready"}, expires : Nat]
      PROVE  TokensInv'
  <2>1. \A u \in Threads : thread'[u] \in {"idle", "look", "dead"}
    BY <1>4 DEF TokensInv, Tokens!Notified
  <2>2. thread' \in [Threads -> {"idle", "look", "wait", "mint", "dead"}]
    BY <1>4, <2>1 DEF Tokens!Notified
  <2> QED
    BY <1>4, <2>1, <2>2 DEF TokensInv
<1>5. ASSUME NEW t \in Threads, Tokens!MintEnds(t) PROVE TokensInv'
  <2>0. thread[t] = "mint" /\ epoch' = epoch /\ thread' = Tokens!Notified([thread EXCEPT ![t] = "idle"])
    BY <1>5 DEF Tokens!MintEnds
  <2>1. ASSUME NEW l \in Lifetimes, Tokens!Valid(epoch + l),
               slot' = [state |-> "ready", expires |-> epoch + l],
               got' = [got EXCEPT ![t] = [ok |-> TRUE, cached |-> FALSE, expires |-> epoch + l, at |-> epoch]]
        PROVE  TokensInv'
    <3>1. epoch \in Nat /\ epoch + l \in Nat /\ epoch < epoch + l
      BY <2>1 DEF TokensInv, Tokens!TokensAssumption, Tokens!Valid
    <3>2. epoch + 0 < epoch + l
      BY <3>1
    <3>3. GotOK
      BY <2>1, <3>1, <3>2, GotKeeps
    <3> QED
      BY <1>4, <2>0, <2>1, <3>1, <3>3
  <2>2. CASE slot' = Tokens!Empty /\ got' = [got EXCEPT ![t] = Tokens!Nothing]
    <3>1. GotOK
      BY <2>2, GotKeeps DEF Tokens!Nothing
    <3> QED
      BY <1>4, <2>0, <2>2, <3>1 DEF Tokens!Empty
  <2> QED
    BY <1>5, <2>1, <2>2 DEF Tokens!MintEnds
<1>6. ASSUME NEW t \in Threads, Tokens!MintPanics(t) PROVE TokensInv'
  <2>1. thread[t] = "mint" /\ epoch' = epoch /\ thread' = Tokens!Notified([thread EXCEPT ![t] = "dead"])
        /\ slot' = Tokens!Empty /\ got' = got
    BY <1>6 DEF Tokens!MintPanics, Tokens!GuardDrops
  <2> QED
    BY <1>0, <1>4, <2>1 DEF Tokens!Empty
<1> QED
  BY <1>1, <1>2, <1>3, <1>5, <1>6 DEF Tokens!TokensNext

LEMMA TokensSound ==
  ASSUME TokensInv
  PROVE  Tokens!OneMint
<1>1. Tokens!Cardinality({t \in Threads : thread[t] = "mint"}) <= 1
  BY AtMostOne, SameCardinality DEF TokensInv
<1>2. slot.state = "minting" <=> \E t \in Threads : thread[t] = "mint"
  BY DEF TokensInv
<1>3. (\E t \in Threads : thread[t] = "wait") => \E t \in Threads : thread[t] = "mint"
  BY DEF TokensInv
<1>4. \A t \in Threads : got[t].ok => got[t].at + (IF got[t].cached THEN Skew ELSE 0) < got[t].expires
  BY DEF TokensInv
<1> QED
  BY <1>1, <1>2, <1>3, <1>4 DEF Tokens!OneMint

-----------------------------------------------------------------------------
(***************************************************************************)
(* The review pipeline.                                                    *)
(***************************************************************************)

(* The ledger has each finding's worst severity; a review that goes on has *)
(* a generation left in both limits.                                       *)
LedgerEntry == [status : {"absent", "open", "resolved"}, stale : BOOLEAN, max : Nat, first : Nat, last : Nat]

ReviewInv ==
  /\ config \in Review!Configs /\ profile \in Review!Profiles /\ loops \in Nat
  /\ loops <= config.max_review_loops /\ loops <= HARD_LOOP_CEILING
  /\ verdict = "none" => loops = 0
  /\ verdict = "reviewing" => loops < config.max_review_loops /\ loops < HARD_LOOP_CEILING
  /\ entry \in [Findings -> LedgerEntry] /\ worst \in [Findings -> Nat]
  /\ \A f \in Findings : entry[f].max = worst[f]
  /\ Review!ApprovalIsClean
  /\ verdict \notin {"none", "SkippedEmptyChangeSet", "ConfigUnsatisfiable"} =>
       Review!Covers(config, reviewers)

(* What validate leaves of a configuration. *)
LEMMA ConfigTypes ==
  ASSUME Review!ReviewAssumption, NEW c \in Review!Configs
  PROVE  /\ c.max_review_loops \in Nat /\ c.max_review_loops >= 1
         /\ c.max_reviewers \in Nat /\ c.threshold \in Nat
<1>1. /\ c.max_review_loops \in 0 .. MaxLoops /\ c.max_reviewers \in 0 .. MaxReviewers
      /\ c.threshold \in Severities /\ c.max_review_loops >= 1
  BY DEF Review!Configs
<1>2. MaxLoops \in Nat /\ MaxReviewers \in Nat /\ Severities \subseteq Nat
  BY DEF Review!ReviewAssumption
<1>3. c.max_review_loops \in Nat
  BY <1>1, <1>2
<1>4. c.max_reviewers \in Nat
  BY <1>1, <1>2
<1> QED
  BY <1>1, <1>2, <1>3, <1>4

(* The convergence rule: an approval leaves no confirmed blocking finding  *)
(* open, and another generation is within both limits.                     *)
LEMMA EvaluateRule ==
  ASSUME Review!ReviewAssumption, config \in Review!Configs,
         NEW table, NEW h, NEW newHead, NEW done \in Nat
  PROVE  /\ Review!Evaluate(table, h, done, newHead) = "StopNoBlockingFindings" =>
              done >= 1 /\ Review!Blocking(table, FALSE) = {}
         /\ Review!Evaluate(table, h, done, newHead) = "reviewing" =>
              done < config.max_review_loops /\ done < HARD_LOOP_CEILING
         /\ Review!Evaluate(table, h, done, newHead) \notin {"none", "SkippedEmptyChangeSet", "ConfigUnsatisfiable"}
<1>1. config.max_review_loops \in Nat /\ HARD_LOOP_CEILING \in Nat
  BY ConfigTypes DEF Review!ReviewAssumption
<1> DEFINE B == Review!Blocking(table, FALSE)
           S == Review!Blocking(table, TRUE)
<1> HIDE DEF B, S
<1>2. Review!Evaluate(table, h, done, newHead) =
        (IF B # {} /\ done >= HARD_LOOP_CEILING THEN "BlockedHardCeiling"
         ELSE IF B = {} /\ config.stop /\ done >= 1 /\ S = {} /\ h \in {"none", newHead} THEN "StopNoBlockingFindings"
         ELSE IF done >= config.max_review_loops THEN "BlockedMaxLoops"
         ELSE IF done >= HARD_LOOP_CEILING THEN "BlockedHardCeiling"
         ELSE "reviewing")
  BY DEF Review!Evaluate, B, S
<1>3. Review!Evaluate(table, h, done, newHead) = "StopNoBlockingFindings" => done >= 1 /\ B = {}
  BY <1>2
<1>4. Review!Evaluate(table, h, done, newHead) = "reviewing" =>
        done < config.max_review_loops /\ done < HARD_LOOP_CEILING
  BY <1>1, <1>2
<1>5. Review!Evaluate(table, h, done, newHead) \notin {"none", "SkippedEmptyChangeSet", "ConfigUnsatisfiable"}
  BY <1>2
<1> QED
  BY <1>3, <1>4, <1>5 DEF B

LEMMA GenerationKeeps ==
  ASSUME Review!ReviewAssumption, ReviewInv, Review!Generation
  PROVE  ReviewInv'
<1>0. verdict = "reviewing" /\ config' = config /\ profile' = profile /\ reviewers' = reviewers
  BY DEF Review!Generation
<1>1. PICK h \in Heads \cup {"none"}, reported \in SUBSET Findings :
      \E severity \in [reported -> Severities] :
        LET noted == Review!NoteHead(entry, h)
            table == [f \in Findings |-> IF f \in reported THEN Review!Record(noted[f], severity[f])
                                         ELSE Review!Resolve(noted[f])]
            newHead == IF h = "none" THEN reviewHead ELSE h
        IN /\ entry' = table /\ reviewHead' = newHead /\ loops' = loops + 1
           /\ verdict' = Review!Evaluate(table, h, loops + 1, newHead)
           /\ reportedNow' = reported
           /\ worst' = [f \in Findings |-> IF f \in reported /\ severity[f] > worst[f]
                                           THEN severity[f] ELSE worst[f]]
  BY DEF Review!Generation
<1> DEFINE noted == Review!NoteHead(entry, h)
           newHead == IF h = "none" THEN reviewHead ELSE h
           done == loops + 1
<1>2. PICK severity \in [reported -> Severities] :
        /\ entry' = [f \in Findings |-> IF f \in reported THEN Review!Record(noted[f], severity[f])
                                        ELSE Review!Resolve(noted[f])]
        /\ loops' = done
        /\ verdict' = Review!Evaluate(entry', h, done, newHead)
        /\ reportedNow' = reported
        /\ worst' = [f \in Findings |-> IF f \in reported /\ severity[f] > worst[f]
                                        THEN severity[f] ELSE worst[f]]
  BY <1>1
<1>3. /\ done \in Nat /\ done >= 1
      /\ done <= config.max_review_loops /\ done <= HARD_LOOP_CEILING
  BY <1>0, ConfigTypes DEF ReviewInv, Review!ReviewAssumption
<1>4. \A f \in Findings : noted[f] \in LedgerEntry /\ noted[f].max = worst[f]
  BY DEF Review!NoteHead, ReviewInv, LedgerEntry
<1>5. \A f \in reported : severity[f] \in Nat
  BY DEF Review!ReviewAssumption
<1>6. \A f \in Findings : worst[f] \in Nat
  BY DEF ReviewInv
<1>7. loops + 1 = done
  OBVIOUS
<1> HIDE DEF noted, newHead, done
<1>8. ASSUME NEW f \in Findings
      PROVE  /\ entry'[f] \in LedgerEntry /\ entry'[f].max = worst'[f] /\ worst'[f] \in Nat
             /\ f \in reported => entry'[f].status = "open" /\ entry'[f].stale = FALSE
  <2>1. CASE f \in reported
    <3>1. entry'[f] = Review!Record(noted[f], severity[f])
      BY <1>2, <2>1
    <3>2. entry'[f] = [status |-> "open", stale |-> FALSE,
                       max |-> IF severity[f] > noted[f].max THEN severity[f] ELSE noted[f].max,
                       first |-> IF noted[f].status = "absent" THEN done ELSE noted[f].first, last |-> done]
      BY <3>1, <1>7 DEF Review!Record
    <3>3. worst'[f] = IF severity[f] > worst[f] THEN severity[f] ELSE worst[f]
      BY <1>2, <2>1
    <3> QED
      BY <2>1, <3>2, <3>3, <1>3, <1>4, <1>5, <1>6 DEF LedgerEntry
  <2>2. CASE f \notin reported
    <3>1. entry'[f] = Review!Resolve(noted[f]) /\ worst'[f] = worst[f]
      BY <1>2, <2>2
    <3> QED
      BY <2>2, <3>1, <1>4, <1>6 DEF LedgerEntry, Review!Resolve
  <2> QED
    BY <2>1, <2>2
<1>9. entry' \in [Findings -> LedgerEntry] /\ worst' \in [Findings -> Nat]
  BY <1>2, <1>8
<1>10. /\ verdict' = "StopNoBlockingFindings" => Review!Blocking(entry', FALSE) = {}
       /\ verdict' = "reviewing" => done < config.max_review_loops /\ done < HARD_LOOP_CEILING
       /\ verdict' \notin {"none", "SkippedEmptyChangeSet", "ConfigUnsatisfiable"}
  BY <1>2, <1>3, EvaluateRule DEF ReviewInv
<1>11. ASSUME verdict' = "StopNoBlockingFindings", NEW f \in reportedNow' PROVE worst'[f] < config.threshold
  <2>1. f \in reported /\ f \in Findings
    BY <1>2, <1>11
  <2>2. ~(entry'[f].max >= config.threshold)
    BY <1>8, <1>10, <1>11, <2>1 DEF Review!Blocking
  <2>3. config.threshold \in Nat
    BY ConfigTypes DEF ReviewInv
  <2>4. entry'[f].max = worst'[f] /\ worst'[f] \in Nat
    BY <1>8, <2>1
  <2> QED
    BY <2>2, <2>3, <2>4
<1>12. (Review!ApprovalIsClean)'
  BY <1>0, <1>2, <1>3, <1>11 DEF Review!ApprovalIsClean
<1>13. Review!Covers(config', reviewers')
  BY <1>0 DEF ReviewInv
<1> QED
  BY <1>0, <1>2, <1>3, <1>8, <1>9, <1>10, <1>12, <1>13 DEF ReviewInv

LEMMA ReviewInvStep ==
  ASSUME Review!ReviewAssumption, Review!SelectionSound, ReviewInv, [Review!ReviewNext]_Review!reviewVars
  PROVE  ReviewInv'
<1>1. CASE Review!Trigger
  <2>0. verdict = "none" /\ UNCHANGED <<config, profile, entry, loops, worst>>
    BY <1>1 DEF Review!Trigger
  <2>1. loops = 0 /\ config \in Review!Configs /\ profile \in Review!Profiles
    BY <2>0 DEF ReviewInv
  <2>2. /\ config.max_review_loops \in Nat /\ config.max_review_loops >= 1
        /\ HARD_LOOP_CEILING \in Nat \ {0}
    BY <2>1, ConfigTypes DEF Review!ReviewAssumption
  <2>3. 0 < config.max_review_loops /\ 0 < HARD_LOOP_CEILING
    BY <2>2
  <2>4. CASE verdict' \in {"SkippedEmptyChangeSet", "ConfigUnsatisfiable"}
    BY <2>0, <2>4 DEF ReviewInv, Review!ApprovalIsClean
  <2>5. CASE verdict' \notin {"SkippedEmptyChangeSet", "ConfigUnsatisfiable"}
    <3>1. /\ ~(Review!Cardinality(config.required) > config.max_reviewers) /\ verdict' = "reviewing"
          /\ reviewers' = Review!Truncate(config, Review!Candidates(config, profile))
      <4>1. ~profile.empty
        BY <1>1, <2>5 DEF Review!Trigger
      <4>2. ~(Review!Cardinality(config.required) > config.max_reviewers)
        BY <1>1, <2>5 DEF Review!Trigger
      <4> QED
        BY <1>1, <4>1, <4>2 DEF Review!Trigger
    <3>2. config.required \subseteq Domains /\ config.max_reviewers \in Nat
      BY <2>1, ConfigTypes DEF Review!Configs
    <3>3. Review!Cardinality(config.required) <= config.max_reviewers
      <4>1. Cardinality(config.required) \in Nat
        <5>1. IsFiniteSet(Domains)
          BY SameCardinality DEF Review!ReviewAssumption
        <5>2. IsFiniteSet(config.required)
          BY <3>2, <5>1, FS_Subset
        <5> QED
          BY <5>2, FS_CardinalityType
      <4> QED
        BY <3>1, <3>2, <4>1, SameCardinality
    <3>4. Review!Covers(config, reviewers')
      BY <2>1, <3>1, <3>3 DEF Review!SelectionSound
    <3> QED
      BY <2>0, <2>1, <2>3, <3>1, <3>4 DEF ReviewInv, Review!ApprovalIsClean
  <2> QED
    BY <2>4, <2>5
<1>2. CASE Review!Generation
  BY <1>2, GenerationKeeps
<1>3. CASE Review!GenerationFails
  BY <1>3 DEF Review!GenerationFails, ReviewInv, Review!ApprovalIsClean
<1>4. CASE UNCHANGED Review!reviewVars
  BY <1>4 DEF Review!reviewVars, ReviewInv, Review!ApprovalIsClean
<1> QED
  BY <1>1, <1>2, <1>3, <1>4 DEF Review!ReviewNext

LEMMA ReviewFirst ==
  ASSUME Review!ReviewAssumption, Review!ReviewInit
  PROVE  ReviewInv
<1>1. config.max_review_loops \in Nat /\ HARD_LOOP_CEILING \in Nat
  BY ConfigTypes DEF Review!ReviewInit, Review!ReviewAssumption
<1> QED
  BY <1>1 DEF Review!ReviewInit, ReviewInv, Review!NoEntry, LedgerEntry, Review!ApprovalIsClean

LEMMA ReviewSound ==
  ASSUME ReviewInv
  PROVE  Review!ApprovalIsClean /\ Review!ReviewBounded
BY DEF ReviewInv, Review!ReviewBounded

-----------------------------------------------------------------------------
(***************************************************************************)
(* The landing of a branch.                                                *)
(***************************************************************************)

Subjects == {"none", "base", "outside", "land task", "other"}
CommitRec == [tree : Trees \cup {0}, parent : Nat, verified : BOOLEAN, subject : Subjects]
LanderRec == [pc : Delivery!LandPcs, tree : Trees \cup {0}, subject : Subjects, re_land : BOOLEAN,
              observed : Nat, new : Nat, sure : BOOLEAN, result : Delivery!Results]
GoodResults == {"landed", "nothing-to-land", "already-verified"}

(* The commit objects form a tree over the base; the branch points at one  *)
(* of them, which the history remembers.                                   *)
Repository(hd, com, was, flt, out) ==
  /\ com \in Seq(CommitRec) /\ 1 <= Len(com) /\ com[1].tree = 0
  /\ \A i \in 1 .. Len(com) : com[i].parent <= i - 1
  /\ hd \in 0 .. Len(com) /\ was \subseteq 1 .. Len(com) /\ (hd # 0 => hd \in was)
  /\ flt \in 0 .. MaxFaults /\ out \in 0 .. MaxOutside

(* What a lander r knows: the head it read and the commit it made on top   *)
(* of it exist; a result that the delivery takes for a success is true of  *)
(* the branch; without a fault its temporary ref t is there only while it  *)
(* is needed.                                                              *)
Prepared(r, com) ==
  /\ 1 <= r.new /\ com[r.new].parent = Delivery!From(r.observed)
  /\ com[r.new].verified /\ com[r.new].tree = r.tree

OnBranch(tree, com, was) == tree = 0 \/ \E c \in was : com[c].tree = tree

EmptyReLand(r, com) == r.re_land /\ com[Delivery!From(r.observed)].tree = r.tree

LanderHolds(r, t, com, was, flt) ==
  /\ r.observed <= Len(com) /\ r.new <= Len(com) /\ t <= Len(com)
  /\ r.pc = "commit" => t = Delivery!From(r.observed)
  /\ r.pc \in {"drop-temp", "swing", "verify"} => Prepared(r, com)
  /\ r.pc \notin {"clean", "done"} => r.result = "none"
  /\ r.result = "landed" => r.new \in was
  /\ r.result = "landed" => com[r.new].tree = r.tree
  /\ r.result \in GoodResults => OnBranch(r.tree, com, was)
  /\ flt = 0 /\ r.pc \in {"idle", "read", "bootstrap", "done"} => t = 0
  /\ flt = 0 /\ r.pc \in {"swing", "verify", "clean"} /\ EmptyReLand(r, com) => t = 0

LandInv ==
  /\ Repository(deliveryHead, commits, wasHead, faults, outside)
  /\ lander \in [Landers -> LanderRec] /\ temp \in [Landers -> Nat]
  /\ \A l \in Landers : LanderHolds(lander[l], temp[l], commits, wasHead, faults)

(* Commit objects are never changed: the sequence only grows. *)
Grown(com, new) ==
  /\ Len(com) \in Nat /\ Len(new) \in Nat /\ Len(com) <= Len(new)
  /\ \A i \in 1 .. Len(com) : new[i] = com[i]

LEMMA CommitAppended ==
  ASSUME NEW com \in Seq(CommitRec), NEW c \in CommitRec
  PROVE  /\ Append(com, c) \in Seq(CommitRec) /\ Len(Append(com, c)) = Len(com) + 1
         /\ Append(com, c)[Len(com) + 1] = c /\ Grown(com, Append(com, c))
BY DEF Grown

(* What one lander does is nothing to the others. *)
LEMMA OthersKept ==
  ASSUME NEW com \in Seq(CommitRec), NEW new, Grown(com, new), 1 <= Len(com),
         NEW was \in SUBSET (1 .. Len(com)), NEW was2, was \subseteq was2,
         NEW flt, NEW flt2, flt2 = 0 => flt = 0,
         NEW r \in LanderRec, NEW t \in Nat, LanderHolds(r, t, com, was, flt)
  PROVE  LanderHolds(r, t, new, was2, flt2)
<1>1. Len(com) \in Nat /\ Len(new) \in Nat /\ Len(com) <= Len(new)
  BY DEF Grown
<1>2. r.observed \in Nat /\ r.new \in Nat /\ r.observed <= Len(com) /\ r.new <= Len(com) /\ t <= Len(com)
  BY DEF LanderRec, LanderHolds
<1>3. Delivery!From(r.observed) \in 1 .. Len(com)
  BY <1>1, <1>2 DEF Delivery!From, Delivery!Base
<1>4. new[Delivery!From(r.observed)] = com[Delivery!From(r.observed)]
  BY <1>3 DEF Grown
<1>5. EmptyReLand(r, new) = EmptyReLand(r, com)
  BY <1>4 DEF EmptyReLand
<1>6. 1 <= r.new => new[r.new] = com[r.new]
  BY <1>1, <1>2 DEF Grown
<1>7. Prepared(r, com) => Prepared(r, new)
  BY <1>6 DEF Prepared
<1>8. OnBranch(r.tree, com, was) => OnBranch(r.tree, new, was2)
  BY DEF OnBranch, Grown
<1>9. r.new \in was => r.new \in was2 /\ new[r.new] = com[r.new]
  BY DEF Grown
<1>10. r.observed <= Len(new) /\ r.new <= Len(new) /\ t <= Len(new)
  BY <1>1, <1>2
<1> QED
  BY <1>5, <1>7, <1>8, <1>9, <1>10 DEF LanderHolds

(* One step of one lander: what is left to show is its own part and the    *)
(* repository's.                                                           *)
LEMMA OneLander ==
  ASSUME LandInv, NEW l \in Landers, NEW r \in LanderRec, NEW t \in Nat,
         lander' = [lander EXCEPT ![l] = r], temp' = [temp EXCEPT ![l] = t],
         Grown(commits, commits'), wasHead \subseteq wasHead', faults' = 0 => faults = 0,
         Repository(deliveryHead', commits', wasHead', faults', outside'),
         LanderHolds(r, t, commits', wasHead', faults')
  PROVE  LandInv'
<1>1. lander' \in [Landers -> LanderRec] /\ temp' \in [Landers -> Nat]
  BY DEF LandInv
<1>2. ASSUME NEW m \in Landers PROVE LanderHolds(lander'[m], temp'[m], commits', wasHead', faults')
  <2>1. CASE m = l
    <3>1. lander'[m] = r /\ temp'[m] = t
      BY <2>1 DEF LandInv
    <3> QED
      BY <3>1
  <2>2. CASE m # l
    <3>1. lander'[m] = lander[m] /\ temp'[m] = temp[m] /\ lander[m] \in LanderRec /\ temp[m] \in Nat
      BY <2>2 DEF LandInv
    <3>2. /\ commits \in Seq(CommitRec) /\ 1 <= Len(commits) /\ wasHead \in SUBSET (1 .. Len(commits))
          /\ LanderHolds(lander[m], temp[m], commits, wasHead, faults)
      BY DEF LandInv, Repository
    <3>3. LanderHolds(lander[m], temp[m], commits', wasHead', faults')
      BY <3>1, <3>2, OthersKept
    <3> QED
      BY <3>1, <3>3
  <2> QED
    BY <2>1, <2>2
<1> QED
  BY <1>1, <1>2 DEF LandInv

(* A step that only reads, or only the lander's own record and ref change. *)
LEMMA Alone ==
  ASSUME LandInv, Delivery!DeliveryAssumption, NEW l \in Landers, NEW r \in LanderRec, NEW t \in Nat,
         lander' = [lander EXCEPT ![l] = r], temp' = [temp EXCEPT ![l] = t],
         UNCHANGED <<deliveryHead, commits, wasHead, outside>>, Delivery!Fault \/ Delivery!NoFault,
         LanderHolds(r, t, commits, wasHead, faults')
  PROVE  LandInv'
<1>1. faults' \in 0 .. MaxFaults /\ (faults' = 0 => faults = 0)
  BY DEF LandInv, Repository, Delivery!Fault, Delivery!NoFault, Delivery!DeliveryAssumption
<1>2. Grown(commits, commits')
  BY DEF Grown, LandInv, Repository
<1>3. Repository(deliveryHead', commits', wasHead', faults', outside')
  BY <1>1 DEF LandInv, Repository
<1> QED
  BY <1>1, <1>2, <1>3, OneLander

(* Facts about the lander that moves. *)
LEMMA LanderFacts ==
  ASSUME LandInv, NEW l \in Landers
  PROVE  /\ lander[l] \in LanderRec /\ temp[l] \in Nat
         /\ LanderHolds(lander[l], temp[l], commits, wasHead, faults)
         /\ Delivery!From(lander[l].observed) \in 1 .. Len(commits) /\ Len(commits) \in Nat
         /\ temp = [temp EXCEPT ![l] = temp[l]]
         /\ Delivery!ReLands(l) = EmptyReLand(lander[l], commits)
<1>1. /\ lander[l] \in LanderRec /\ temp[l] \in Nat
      /\ LanderHolds(lander[l], temp[l], commits, wasHead, faults)
      /\ temp = [temp EXCEPT ![l] = temp[l]]
  BY DEF LandInv
<1>2. Len(commits) \in Nat /\ 1 <= Len(commits)
  BY DEF LandInv, Repository
<1>3. lander[l].observed \in Nat /\ lander[l].observed <= Len(commits)
  BY <1>1 DEF LanderRec, LanderHolds
<1> QED
  BY <1>1, <1>2, <1>3 DEF Delivery!From, Delivery!Base, Delivery!ReLands, EmptyReLand

(* A lander that gives up, with a fault. *)
LEMMA GivesUp ==
  ASSUME LandInv, Delivery!DeliveryAssumption, NEW l \in Landers,
         NEW what \in {"refused", "failed", "killed"},
         lander' = [lander EXCEPT ![l] = Delivery!End(l, what)],
         NEW t \in Nat, t <= Len(commits), temp' = [temp EXCEPT ![l] = t],
         UNCHANGED <<deliveryHead, commits, wasHead, outside>>, Delivery!Fault
  PROVE  LandInv'
<1> DEFINE r == Delivery!End(l, what)
<1>1. lander[l] \in LanderRec /\ LanderHolds(lander[l], temp[l], commits, wasHead, faults)
  BY LanderFacts
<1>2. /\ r \in LanderRec /\ r.pc = "done" /\ r.result = what
      /\ r.observed = lander[l].observed /\ r.new = lander[l].new /\ r.tree = lander[l].tree
  BY <1>1 DEF Delivery!End, LanderRec, Delivery!LandPcs, Delivery!Results
<1> HIDE DEF r
<1>3. faults' # 0
  BY DEF LandInv, Repository, Delivery!Fault
<1>4. LanderHolds(r, t, commits, wasHead, faults')
  BY <1>1, <1>2, <1>3 DEF LanderHolds, GoodResults
<1>5. lander' = [lander EXCEPT ![l] = r]
  BY DEF r
<1> QED
  BY <1>2, <1>4, <1>5, Alone

LEMMA PushBranchKeeps ==
  ASSUME LandInv, Delivery!DeliveryAssumption, NEW l \in Landers,
         NEW tree \in Trees \cup {0}, NEW subject \in Subjects, NEW re_land \in BOOLEAN,
         Delivery!PushBranch(l, tree, subject, re_land)
  PROVE  LandInv' /\ \A m \in Landers : lander[m].pc = "done" => lander'[m] = lander[m]
<1>0. /\ lander[l].pc = "idle" /\ UNCHANGED <<deliveryHead, commits, wasHead, outside>> /\ temp' = temp
      /\ temp' = [temp EXCEPT ![l] = temp[l]]
      /\ temp[l] \in Nat /\ lander[l] \in LanderRec
      /\ LanderHolds(lander[l], temp[l], commits, wasHead, faults)
  BY LanderFacts DEF Delivery!PushBranch
<1>1. CASE Delivery!NoFault /\ Delivery!SetLander(l, [Delivery!NoLander EXCEPT !.pc = "read", !.tree = tree,
                                              !.subject = subject, !.re_land = re_land])
  <2> DEFINE r == [Delivery!NoLander EXCEPT !.pc = "read", !.tree = tree, !.subject = subject, !.re_land = re_land]
  <2>1. /\ r \in LanderRec /\ r.pc = "read" /\ r.result = "none" /\ r.observed = 0 /\ r.new = 0
        /\ lander' = [lander EXCEPT ![l] = r]
    BY <1>1 DEF Delivery!NoLander, LanderRec, Delivery!LandPcs, Delivery!Results, Delivery!SetLander
  <2> HIDE DEF r
  <2>2. faults' = faults /\ Len(commits) \in Nat
    BY <1>1 DEF Delivery!NoFault, LandInv, Repository
  <2>3. LanderHolds(r, temp[l], commits, wasHead, faults')
    BY <1>0, <2>1, <2>2 DEF LanderHolds, GoodResults
  <2>4. LandInv'
    BY <1>0, <1>1, <2>1, <2>3, Alone
  <2> QED
    BY <1>0, <2>1, <2>4 DEF LandInv
<1>2. CASE Delivery!Fault /\ Delivery!SetLander(l, Delivery!End(l, "refused"))
  <2>1. lander' = [lander EXCEPT ![l] = Delivery!End(l, "refused")] /\ temp[l] <= Len(commits)
    BY <1>0, <1>2 DEF Delivery!SetLander, LanderHolds
  <2>2. LandInv'
    BY <1>0, <1>2, <2>1, GivesUp
  <2> QED
    BY <1>0, <2>1, <2>2 DEF LandInv
<1> QED
  BY <1>1, <1>2 DEF Delivery!PushBranch

LEMMA KillKeeps ==
  ASSUME LandInv, Delivery!DeliveryAssumption, NEW l \in Landers, Delivery!Kill(l)
  PROVE  LandInv' /\ \A m \in Landers : lander[m].pc = "done" => lander'[m] = lander[m]
<1>0. /\ lander[l].pc # "done" /\ UNCHANGED <<deliveryHead, commits, wasHead, outside>>
      /\ temp' = [temp EXCEPT ![l] = temp[l]] /\ temp[l] \in Nat /\ temp[l] <= Len(commits)
      /\ lander' = [lander EXCEPT ![l] = Delivery!End(l, "killed")] /\ Delivery!Fault
  BY LanderFacts DEF Delivery!Kill, Delivery!SetLander, LanderHolds
<1>1. LandInv'
  BY <1>0, GivesUp
<1> QED
  BY <1>0, <1>1 DEF LandInv

(* A head that is read is the base or a commit that the branch pointed at. *)
LEMMA HeadTreeOnBranch ==
  ASSUME LandInv
  PROVE  /\ OnBranch(Delivery!HeadTree(deliveryHead), commits, wasHead)
         /\ deliveryHead \in Nat /\ deliveryHead <= Len(commits)
<1>1. /\ deliveryHead \in 0 .. Len(commits) /\ Len(commits) \in Nat /\ commits[1].tree = 0
      /\ (deliveryHead # 0 => deliveryHead \in wasHead)
  BY DEF LandInv, Repository
<1> QED
  BY <1>1 DEF Delivery!HeadTree, Delivery!From, Delivery!Base, OnBranch

LEMMA ReadHeadKeeps ==
  ASSUME LandInv, Delivery!DeliveryAssumption, NEW l \in Landers, Delivery!ReadHead(l)
  PROVE  LandInv'
<1>0. /\ lander[l].pc = "read" /\ UNCHANGED <<deliveryHead, commits, wasHead, outside>>
      /\ temp' = [temp EXCEPT ![l] = temp[l]] /\ temp[l] \in Nat /\ lander[l] \in LanderRec
      /\ LanderHolds(lander[l], temp[l], commits, wasHead, faults)
  BY LanderFacts DEF Delivery!ReadHead
<1>1. faults' = 0 => faults = 0
  <2>1. faults \in Nat
    BY DEF LandInv, Repository
  <2>2. Delivery!Fault \/ Delivery!NoFault
    BY DEF Delivery!ReadHead
  <2> QED
    BY <2>1, <2>2 DEF Delivery!Fault, Delivery!NoFault
<1>2. ASSUME NEW guarded \in BOOLEAN,
             lander' = [lander EXCEPT ![l] = Delivery!AfterRead(l, deliveryHead, guarded)]
      PROVE  LandInv'
  <2> DEFINE r == Delivery!AfterRead(l, deliveryHead, guarded)
  <2>1. /\ deliveryHead \in Nat /\ deliveryHead <= Len(commits)
        /\ OnBranch(Delivery!HeadTree(deliveryHead), commits, wasHead)
    BY HeadTreeOnBranch
  <2>2. CASE /\ r = [lander[l] EXCEPT !.observed = deliveryHead, !.pc = "bootstrap"]
    <3>1. /\ r \in LanderRec /\ r.pc = "bootstrap" /\ r.observed = deliveryHead
          /\ r.new = lander[l].new /\ r.tree = lander[l].tree /\ r.result = lander[l].result
      BY <1>0, <2>1, <2>2 DEF LanderRec, Delivery!LandPcs
    <3> HIDE DEF r
    <3>2. LanderHolds(r, temp[l], commits, wasHead, faults')
      BY <1>0, <1>1, <2>1, <3>1 DEF LanderHolds
    <3>3. lander' = [lander EXCEPT ![l] = r]
      BY <1>2 DEF r
    <3> QED
      BY <1>0, <3>1, <3>2, <3>3, Alone DEF Delivery!ReadHead
  <2>3. ASSUME NEW what \in {"nothing-to-land", "already-verified", "duplicate-subject", "failed"},
               r = Delivery!End(l, what),
               what \in GoodResults => Delivery!HeadTree(deliveryHead) = lander[l].tree
        PROVE  LandInv'
    <3>1. /\ r \in LanderRec /\ r.pc = "done" /\ r.observed = lander[l].observed
          /\ r.new = lander[l].new /\ r.tree = lander[l].tree /\ r.result = what
      BY <1>0, <2>3 DEF LanderRec, Delivery!LandPcs, Delivery!Results, Delivery!End
    <3> HIDE DEF r
    <3>2. LanderHolds(r, temp[l], commits, wasHead, faults')
      BY <1>0, <1>1, <2>1, <2>3, <3>1 DEF LanderHolds
    <3>3. lander' = [lander EXCEPT ![l] = r]
      BY <1>2 DEF r
    <3> QED
      BY <1>0, <3>1, <3>2, <3>3, Alone DEF Delivery!ReadHead
  <2>4. \/ r = [lander[l] EXCEPT !.observed = deliveryHead, !.pc = "bootstrap"]
        \/ r = Delivery!End(l, "nothing-to-land") /\ Delivery!HeadTree(deliveryHead) = lander[l].tree
        \/ r = Delivery!End(l, "already-verified") /\ Delivery!HeadTree(deliveryHead) = lander[l].tree
        \/ r = Delivery!End(l, "duplicate-subject")
        \/ r = Delivery!End(l, "failed")
    BY DEF Delivery!AfterRead, Delivery!ReLand
  <2>5. "duplicate-subject" \notin GoodResults /\ "failed" \notin GoodResults
    BY DEF GoodResults
  <2> QED
    BY <2>2, <2>3, <2>4, <2>5
<1>3. CASE lander' = [lander EXCEPT ![l] = Delivery!End(l, "failed")] /\ Delivery!Fault
  BY <1>0, <1>3, GivesUp DEF LanderHolds
<1> QED
  BY <1>2, <1>3 DEF Delivery!ReadHead, Delivery!SetLander

LEMMA BootstrapKeeps ==
  ASSUME LandInv, Delivery!DeliveryAssumption, NEW l \in Landers, Delivery!BootstrapTempBranch(l)
  PROVE  LandInv'
<1> DEFINE t == Delivery!From(lander[l].observed)
<1>0. /\ lander[l].pc = "bootstrap" /\ UNCHANGED <<deliveryHead, commits, wasHead, outside>>
      /\ lander[l] \in LanderRec /\ LanderHolds(lander[l], temp[l], commits, wasHead, faults)
      /\ t \in Nat /\ t <= Len(commits) /\ temp[l] \in Nat /\ temp[l] <= Len(commits)
      /\ temp = [temp EXCEPT ![l] = temp[l]]
  BY LanderFacts DEF Delivery!BootstrapTempBranch, LanderHolds
<1>1. CASE /\ temp' = [temp EXCEPT ![l] = t] /\ Delivery!NoFault
           /\ lander' = [lander EXCEPT ![l] = [lander[l] EXCEPT !.pc = "commit"]]
  <2> DEFINE r == [lander[l] EXCEPT !.pc = "commit"]
  <2>1. /\ r \in LanderRec /\ r.pc = "commit" /\ r.observed = lander[l].observed
        /\ r.new = lander[l].new /\ r.tree = lander[l].tree /\ r.result = lander[l].result
    BY <1>0 DEF LanderRec, Delivery!LandPcs
  <2>2. lander' = [lander EXCEPT ![l] = r]
    BY <1>1
  <2> HIDE DEF r
  <2>3. LanderHolds(r, t, commits, wasHead, faults')
    BY <1>0, <2>1 DEF LanderHolds
  <2> QED
    BY <1>0, <1>1, <2>1, <2>2, <2>3, Alone
<1>2. CASE /\ temp' \in {temp, [temp EXCEPT ![l] = t]} /\ Delivery!Fault
           /\ lander' = [lander EXCEPT ![l] = Delivery!End(l, "failed")]
  <2>1. CASE temp' = temp
    BY <1>0, <1>2, <2>1, GivesUp
  <2>2. CASE temp' = [temp EXCEPT ![l] = t]
    BY <1>0, <1>2, <2>2, GivesUp
  <2> QED
    BY <1>2, <2>1, <2>2
<1> QED
  BY <1>1, <1>2 DEF Delivery!BootstrapTempBranch, Delivery!SetLander

(* Both ends of a delete_ref. *)
LEMMA TempDeleted ==
  ASSUME LandInv, Delivery!DeliveryAssumption, NEW l \in Landers, Delivery!DeleteTemp(l), NEW r \in LanderRec,
         lander' = [lander EXCEPT ![l] = r], UNCHANGED <<deliveryHead, commits, wasHead, outside>>,
         r.pc # "commit", LanderHolds(r, 0, commits, wasHead, 0)
  PROVE  LandInv'
<1>0. /\ temp[l] \in Nat /\ temp[l] <= Len(commits) /\ temp = [temp EXCEPT ![l] = temp[l]]
      /\ faults \in Nat /\ Len(commits) \in Nat
  BY LanderFacts DEF LanderHolds, LandInv, Repository
<1>1. CASE temp' = [temp EXCEPT ![l] = 0] /\ Delivery!NoFault
  <2>1. LanderHolds(r, 0, commits, wasHead, faults')
    BY DEF LanderHolds
  <2> QED
    BY <1>1, <2>1, Alone
<1>2. CASE temp' = temp /\ Delivery!Fault
  <2>1. faults' # 0
    BY <1>0, <1>2 DEF Delivery!Fault
  <2>2. LanderHolds(r, temp[l], commits, wasHead, faults')
    BY <1>0, <2>1 DEF LanderHolds
  <2> QED
    BY <1>0, <1>2, <2>2, Alone
<1> QED
  BY <1>1, <1>2 DEF Delivery!DeleteTemp

LEMMA DropTempKeeps ==
  ASSUME LandInv, Delivery!DeliveryAssumption, NEW l \in Landers, Delivery!DropTempEarly(l)
  PROVE  LandInv'
<1> DEFINE r == [lander[l] EXCEPT !.pc = "swing"]
<1>0. /\ lander[l].pc = "drop-temp" /\ UNCHANGED <<deliveryHead, commits, wasHead, outside>>
      /\ lander[l] \in LanderRec /\ LanderHolds(lander[l], temp[l], commits, wasHead, faults)
      /\ lander' = [lander EXCEPT ![l] = r] /\ Delivery!DeleteTemp(l) /\ Len(commits) \in Nat
  BY LanderFacts DEF Delivery!DropTempEarly, Delivery!SetLander
<1>1. /\ r \in LanderRec /\ r.pc = "swing" /\ r.observed = lander[l].observed
      /\ r.new = lander[l].new /\ r.tree = lander[l].tree /\ r.result = lander[l].result
  BY <1>0 DEF LanderRec, Delivery!LandPcs
<1> HIDE DEF r
<1>2. LanderHolds(r, 0, commits, wasHead, 0)
  BY <1>0, <1>1 DEF LanderHolds, Prepared
<1> QED
  BY <1>0, <1>1, <1>2, TempDeleted

LEMMA CleanUpKeeps ==
  ASSUME LandInv, Delivery!DeliveryAssumption, NEW l \in Landers, Delivery!CleanUp(l)
  PROVE  LandInv'
<1> DEFINE r == [lander[l] EXCEPT !.pc = "done"]
<1>0. /\ lander[l].pc = "clean" /\ UNCHANGED <<deliveryHead, commits, wasHead, outside>>
      /\ lander[l] \in LanderRec /\ LanderHolds(lander[l], temp[l], commits, wasHead, faults)
      /\ lander' = [lander EXCEPT ![l] = r] /\ Len(commits) \in Nat /\ temp[l] \in Nat
      /\ temp = [temp EXCEPT ![l] = temp[l]]
  BY LanderFacts DEF Delivery!CleanUp, Delivery!SetLander
<1>1. /\ r \in LanderRec /\ r.pc = "done" /\ r.observed = lander[l].observed
      /\ r.new = lander[l].new /\ r.tree = lander[l].tree /\ r.result = lander[l].result
  BY <1>0 DEF LanderRec, Delivery!LandPcs
<1> HIDE DEF r
<1>2. CASE ~Delivery!ReLands(l)
  <2>1. LanderHolds(r, 0, commits, wasHead, 0)
    BY <1>0, <1>1 DEF LanderHolds
  <2> QED
    BY <1>0, <1>1, <1>2, <2>1, TempDeleted DEF Delivery!CleanUp
<1>3. CASE Delivery!ReLands(l)
  <2>1. EmptyReLand(lander[l], commits) /\ temp' = temp /\ Delivery!NoFault
    BY <1>3, LanderFacts DEF Delivery!CleanUp
  <2>2. LanderHolds(r, temp[l], commits, wasHead, faults')
    BY <1>0, <1>1, <2>1 DEF LanderHolds, Delivery!NoFault
  <2> QED
    BY <1>0, <1>1, <2>1, <2>2, Alone
<1> QED
  BY <1>2, <1>3

LEMMA VerifyMoveKeeps ==
  ASSUME LandInv, Delivery!DeliveryAssumption, NEW l \in Landers, Delivery!VerifyMove(l)
  PROVE  LandInv'
<1>0. /\ lander[l].pc = "verify" /\ UNCHANGED <<deliveryHead, commits, wasHead, outside>>
      /\ lander[l] \in LanderRec /\ LanderHolds(lander[l], temp[l], commits, wasHead, faults)
      /\ temp' = [temp EXCEPT ![l] = temp[l]] /\ Len(commits) \in Nat /\ temp[l] \in Nat
  BY LanderFacts DEF Delivery!VerifyMove
<1>1. faults' = 0 => faults = 0
  BY DEF Delivery!VerifyMove, Delivery!Fault, Delivery!NoFault, LandInv, Repository
<1>2. ASSUME NEW what \in {"landed", "failed"}, what = "landed" => deliveryHead = lander[l].new,
             lander' = [lander EXCEPT ![l] = [lander[l] EXCEPT !.pc = "clean", !.result = what]]
      PROVE  LandInv'
  <2> DEFINE r == [lander[l] EXCEPT !.pc = "clean", !.result = what]
  <2>1. /\ r \in LanderRec /\ r.pc = "clean" /\ r.observed = lander[l].observed /\ r.re_land = lander[l].re_land
        /\ r.new = lander[l].new /\ r.tree = lander[l].tree /\ r.result = what /\ r.new \in Nat
    BY <1>0 DEF LanderRec, Delivery!LandPcs, Delivery!Results
  <2>2. lander' = [lander EXCEPT ![l] = r]
    BY <1>2
  <2> HIDE DEF r
  <2>3. Prepared(lander[l], commits) /\ (deliveryHead # 0 => deliveryHead \in wasHead)
    BY <1>0 DEF LanderHolds, LandInv, Repository
  <2>4. what = "landed" => r.new \in wasHead /\ commits[r.new].tree = r.tree
    BY <1>2, <2>1, <2>3 DEF Prepared
  <2>5. what \in GoodResults => OnBranch(r.tree, commits, wasHead)
    BY <1>2, <2>4 DEF GoodResults, OnBranch
  <2>6. LanderHolds(r, temp[l], commits, wasHead, faults')
    BY <1>0, <1>1, <2>1, <2>4, <2>5 DEF LanderHolds, EmptyReLand
  <2> QED
    BY <1>0, <2>1, <2>2, <2>6, Alone DEF Delivery!VerifyMove
<1>3. CASE lander' = [lander EXCEPT ![l] = [lander[l] EXCEPT !.pc = "clean",
                           !.result = IF deliveryHead = lander[l].new THEN "landed" ELSE "failed"]]
  BY <1>2, <1>3
<1>4. CASE lander' = [lander EXCEPT ![l] = [lander[l] EXCEPT !.pc = "clean", !.result = "failed"]]
  BY <1>2, <1>4
<1> QED
  BY <1>3, <1>4 DEF Delivery!VerifyMove, Delivery!SetLander

LEMMA LandOnTempKeeps ==
  ASSUME LandInv, Delivery!DeliveryAssumption, NEW l \in Landers, Delivery!LandOnTempBranch(l)
  PROVE  LandInv'
<1>0. /\ lander[l].pc = "commit" /\ UNCHANGED <<deliveryHead, wasHead, outside>>
      /\ lander[l] \in LanderRec /\ LanderHolds(lander[l], temp[l], commits, wasHead, faults)
      /\ Len(commits) \in Nat /\ temp[l] \in Nat /\ temp = [temp EXCEPT ![l] = temp[l]]
      /\ Delivery!From(lander[l].observed) \in 1 .. Len(commits)
  BY LanderFacts DEF Delivery!LandOnTempBranch
<1>1. Repository(deliveryHead, commits, wasHead, faults, outside)
  BY DEF LandInv
<1>2. CASE /\ commits' = commits /\ lander' = [lander EXCEPT ![l] = Delivery!End(l, "failed")]
           /\ Delivery!Fault /\ temp' \in {temp, [temp EXCEPT ![l] = 0]}
  <2>1. 0 <= Len(commits) /\ temp[l] <= Len(commits)
    BY <1>0 DEF LanderHolds
  <2>2. CASE temp' = temp
    BY <1>0, <1>2, <2>1, <2>2, GivesUp
  <2>3. CASE temp' = [temp EXCEPT ![l] = 0]
    BY <1>0, <1>2, <2>1, <2>3, GivesUp
  <2> QED
    BY <1>2, <2>2, <2>3
<1>3. ASSUME NEW tree \in Delivery!LandedTrees(l), NEW verified \in BOOLEAN,
             Delivery!CreateCommitOnBranch(l, tree, verified),
             LET c == commits'[Len(commits')]
                 next == IF Delivery!ReLands(l) THEN "drop-temp" ELSE "swing"
             IN  IF Delivery!VerifyLandedCommit(l, c)
                 THEN /\ Delivery!SetLander(l, [lander[l] EXCEPT !.pc = next, !.new = Len(commits')])
                      /\ temp' = [temp EXCEPT ![l] = Len(commits')]
                      /\ Delivery!NoFault
                 ELSE /\ Delivery!SetLander(l, Delivery!End(l, "failed"))
                      /\ Delivery!Fault /\ temp' = [temp EXCEPT ![l] = 0]
      PROVE  LandInv'
  <2> DEFINE c == Delivery!Commit(tree, temp[l], verified, lander[l].subject)
             n == Len(commits) + 1
  <2>1. /\ c \in CommitRec /\ c.tree = tree /\ c.parent = temp[l] /\ c.verified = verified
    BY <1>0, <1>3 DEF Delivery!Commit, CommitRec, LanderRec, Delivery!LandedTrees
  <2>2. commits' = Append(commits, c) /\ commits \in Seq(CommitRec)
    BY <1>1, <1>3 DEF Delivery!CreateCommitOnBranch, Repository
  <2> HIDE DEF c
  <2>3. commits' \in Seq(CommitRec) /\ Len(commits') = n /\ commits'[n] = c /\ Grown(commits, commits')
    BY <2>1, <2>2, CommitAppended
  <2>4. n \in Nat /\ Len(commits) <= n /\ 1 <= n /\ Len(commits) = n - 1
    BY <1>0
  <2> HIDE DEF n
  <2>5. temp[l] = Delivery!From(lander[l].observed) /\ temp[l] <= Len(commits)
    BY <1>0 DEF LanderHolds
  <2>6. \A i \in 1 .. n : commits'[i].parent <= i - 1
    <3>1. \A i \in 1 .. Len(commits) : commits'[i] = commits[i] /\ commits[i].parent <= i - 1
      BY <1>1, <2>3 DEF Grown, Repository
    <3>2. commits'[n].parent <= n - 1
      BY <2>1, <2>3, <2>4, <2>5
    <3> QED
      BY <1>0, <2>4, <3>1, <3>2
  <2>7. commits'[1] = commits[1]
    BY <1>1, <2>3 DEF Grown, Repository
  <2>8. faults' \in 0 .. MaxFaults => Repository(deliveryHead', commits', wasHead', faults', outside')
    BY <1>0, <1>1, <2>3, <2>4, <2>6, <2>7 DEF Repository
  <2>9. Delivery!From(lander[l].observed) \in 1 .. Len(commits)
        /\ commits'[Delivery!From(lander[l].observed)] = commits[Delivery!From(lander[l].observed)]
    BY <1>0, <2>3 DEF Grown
  <2>10. wasHead \in SUBSET (1 .. Len(commits)) /\ 1 <= Len(commits) /\ faults \in 0 .. MaxFaults /\ MaxFaults \in Nat
    BY <1>1 DEF Repository, Delivery!DeliveryAssumption
  <2>11. LanderHolds(lander[l], temp[l], commits', wasHead, faults)
    BY <1>0, <2>2, <2>3, <2>10, OthersKept
  <2>12. CASE ~Delivery!VerifyLandedCommit(l, c)
    <3> DEFINE r == Delivery!End(l, "failed")
    <3>1. Delivery!Fault /\ temp' = [temp EXCEPT ![l] = 0] /\ lander' = [lander EXCEPT ![l] = r]
      BY <1>3, <2>3, <2>12 DEF Delivery!SetLander
    <3>2. /\ r \in LanderRec /\ r.pc = "done" /\ r.result = "failed"
          /\ r.observed = lander[l].observed /\ r.new = lander[l].new /\ r.tree = lander[l].tree
      BY <1>0 DEF Delivery!End, LanderRec, Delivery!LandPcs, Delivery!Results
    <3> HIDE DEF r
    <3>3. faults' \in 0 .. MaxFaults /\ faults' # 0
      BY <2>10, <3>1 DEF Delivery!Fault
    <3>4. LanderHolds(r, 0, commits', wasHead', faults')
      BY <1>0, <2>3, <2>4, <2>11, <3>2, <3>3 DEF LanderHolds, GoodResults
    <3> QED
      BY <1>0, <2>3, <2>8, <3>1, <3>2, <3>3, <3>4, OneLander
  <2>13. CASE Delivery!VerifyLandedCommit(l, c)
    <3> DEFINE next == IF Delivery!ReLands(l) THEN "drop-temp" ELSE "swing"
               r == [lander[l] EXCEPT !.pc = next, !.new = n]
    <3>1. Delivery!NoFault /\ temp' = [temp EXCEPT ![l] = n] /\ lander' = [lander EXCEPT ![l] = r]
      BY <1>3, <2>3, <2>13 DEF Delivery!SetLander
    <3>2. /\ next \in {"drop-temp", "swing"} /\ (next = "swing" => ~EmptyReLand(lander[l], commits))
      BY LanderFacts
    <3> HIDE DEF next
    <3>3. /\ r \in LanderRec /\ r.pc = next /\ r.result = lander[l].result /\ r.re_land = lander[l].re_land
          /\ r.observed = lander[l].observed /\ r.new = n /\ r.tree = lander[l].tree
      BY <1>0, <2>4, <3>2 DEF LanderRec, Delivery!LandPcs
    <3> HIDE DEF r
    <3>4. c.tree = r.tree /\ c.verified /\ c.parent = Delivery!From(r.observed)
      BY <2>1, <2>5, <2>13, <3>3 DEF Delivery!VerifyLandedCommit
    <3>5. Prepared(r, commits')
      BY <2>3, <2>4, <3>3, <3>4 DEF Prepared
    <3>6. next = "swing" => ~EmptyReLand(r, commits')
      BY <2>9, <3>2, <3>3 DEF EmptyReLand
    <3>7. r.result = "none"
      BY <1>0, <3>3 DEF LanderHolds
    <3>8. LanderHolds(r, n, commits', wasHead', faults')
      BY <1>0, <2>3, <2>4, <2>11, <3>2, <3>3, <3>5, <3>6, <3>7 DEF LanderHolds, GoodResults
    <3>9. faults' \in 0 .. MaxFaults /\ (faults' = 0 => faults = 0)
      BY <2>10, <3>1 DEF Delivery!NoFault
    <3> QED
      BY <1>0, <2>3, <2>4, <2>8, <3>1, <3>3, <3>8, <3>9, OneLander
  <2> QED
    BY <2>12, <2>13
<1> QED
  BY <1>2, <1>3 DEF Delivery!LandOnTempBranch, Delivery!SetLander

(* The branch moves to an existing commit, or to one just appended. *)
LEMMA HeadMoves ==
  ASSUME NEW hd, NEW com, NEW was, NEW flt, NEW out, Repository(hd, com, was, flt, out),
         NEW flt2 \in 0 .. MaxFaults, NEW out2 \in 0 .. MaxOutside, NEW c \in 1 .. Len(com)
  PROVE  Repository(c, com, was \cup {c}, flt2, out2)
<1>1. Len(com) \in Nat /\ was \subseteq 1 .. Len(com)
  BY DEF Repository
<1>2. c \in 0 .. Len(com) /\ was \cup {c} \subseteq 1 .. Len(com) /\ c \in was \cup {c}
  BY <1>1
<1> QED
  BY <1>2 DEF Repository

LEMMA SwingKeeps ==
  ASSUME LandInv, Delivery!DeliveryAssumption, NEW l \in Landers, Delivery!Swing(l)
  PROVE  LandInv'
<1>0. /\ lander[l].pc = "swing" /\ UNCHANGED <<commits, temp, outside>>
      /\ lander[l] \in LanderRec /\ LanderHolds(lander[l], temp[l], commits, wasHead, faults)
      /\ Len(commits) \in Nat /\ temp[l] \in Nat /\ temp' = [temp EXCEPT ![l] = temp[l]]
      /\ lander[l].new \in Nat
  BY LanderFacts DEF Delivery!Swing, LanderRec
<1>1. Repository(deliveryHead, commits, wasHead, faults, outside) /\ Prepared(lander[l], commits)
      /\ lander[l].new <= Len(commits)
  BY <1>0 DEF LandInv, LanderHolds
<1>2. lander[l].new \in 1 .. Len(commits)
  BY <1>0, <1>1 DEF Prepared
<1>3. faults' \in 0 .. MaxFaults /\ (faults' = 0 => faults = 0)
  <2>1. faults \in 0 .. MaxFaults /\ MaxFaults \in Nat
    BY <1>1 DEF Repository, Delivery!DeliveryAssumption
  <2>2. Delivery!Fault \/ Delivery!NoFault
    BY DEF Delivery!Swing
  <2> QED
    BY <2>1, <2>2 DEF Delivery!Fault, Delivery!NoFault
<1>4. outside' \in 0 .. MaxOutside
  BY <1>0, <1>1 DEF Repository
<1>5. /\ Repository(deliveryHead', commits', wasHead', faults', outside') /\ wasHead \subseteq wasHead'
      /\ deliveryHead' = lander[l].new => lander[l].new \in wasHead'
  <2>1. CASE Delivery!MoveHead(lander[l].new)
    <3>1. deliveryHead' = lander[l].new /\ wasHead' = wasHead \cup {lander[l].new}
      BY <2>1 DEF Delivery!MoveHead
    <3>2. Repository(lander[l].new, commits, wasHead \cup {lander[l].new}, faults', outside')
      BY <1>1, <1>2, <1>3, <1>4, HeadMoves
    <3> QED
      BY <1>0, <3>1, <3>2
  <2>2. CASE deliveryHead' = deliveryHead /\ wasHead' = wasHead
    BY <1>0, <1>1, <1>2, <1>3, <1>4, <2>2 DEF Repository
  <2> QED
    BY <2>1, <2>2 DEF Delivery!Swing
<1>6. ASSUME NEW pc \in {"clean", "verify"}, NEW sure \in BOOLEAN, NEW what \in {"landed", "failed", "none"},
             pc = "verify" => what = "none", what = "landed" => lander[l].new \in wasHead',
             lander' = [lander EXCEPT ![l] = [lander[l] EXCEPT !.pc = pc, !.sure = sure, !.result = what]]
      PROVE  LandInv'
  <2> DEFINE r == [lander[l] EXCEPT !.pc = pc, !.sure = sure, !.result = what]
  <2>1. /\ r \in LanderRec /\ r.pc = pc /\ r.observed = lander[l].observed /\ r.re_land = lander[l].re_land
        /\ r.new = lander[l].new /\ r.tree = lander[l].tree /\ r.result = what
    BY <1>0 DEF LanderRec, Delivery!LandPcs, Delivery!Results
  <2>2. lander' = [lander EXCEPT ![l] = r]
    BY <1>6
  <2> HIDE DEF r
  <2>3. Prepared(r, commits) /\ commits[r.new].tree = r.tree
    BY <1>1, <2>1 DEF Prepared
  <2>4. what \in GoodResults => OnBranch(r.tree, commits, wasHead')
    BY <1>6, <2>1, <2>3 DEF GoodResults, OnBranch
  <2>5. LanderHolds(r, temp[l], commits', wasHead', faults')
    BY <1>0, <1>3, <1>6, <2>1, <2>3, <2>4 DEF LanderHolds, EmptyReLand
  <2>6. Grown(commits, commits')
    BY <1>0 DEF Grown
  <2> QED
    BY <1>0, <1>3, <1>5, <2>1, <2>2, <2>5, <2>6, OneLander
<1>7. lander' = [lander EXCEPT ![l] = [lander[l] EXCEPT !.pc = "verify", !.sure = TRUE, !.result = "none"]] => LandInv'
  BY <1>6
<1>8. lander' = [lander EXCEPT ![l] = [lander[l] EXCEPT !.pc = "verify", !.sure = FALSE, !.result = "none"]] => LandInv'
  BY <1>6
<1>9. lander' = [lander EXCEPT ![l] = [lander[l] EXCEPT !.pc = "clean", !.sure = TRUE, !.result = "failed"]] => LandInv'
  BY <1>6
<1>10. Delivery!MoveHead(lander[l].new)
       /\ lander' = [lander EXCEPT ![l] = [lander[l] EXCEPT !.pc = "clean", !.sure = TRUE, !.result = "landed"]] => LandInv'
  BY <1>6 DEF Delivery!MoveHead
<1> QED
  BY <1>7, <1>8, <1>9, <1>10 DEF Delivery!Swing, Delivery!SetLander

LEMMA OutsiderKeeps ==
  ASSUME LandInv, Delivery!DeliveryAssumption, Delivery!Outsider
  PROVE  LandInv'
<1>0. /\ UNCHANGED <<temp, lander, faults>> /\ deliveryHead # 0
      /\ Repository(deliveryHead, commits, wasHead, faults, outside)
  BY DEF LandInv, Delivery!Outsider
<1>1. outside' \in 0 .. MaxOutside /\ faults \in 0 .. MaxFaults
  BY <1>0 DEF Delivery!Outsider, Repository, Delivery!DeliveryAssumption
<1>2. deliveryHead \in 1 .. Len(commits) /\ Len(commits) \in Nat /\ commits \in Seq(CommitRec)
      /\ wasHead \in SUBSET (1 .. Len(commits)) /\ 1 <= Len(commits)
  BY <1>0 DEF Repository
<1>3. /\ Repository(deliveryHead', commits', wasHead', faults', outside')
      /\ wasHead \subseteq wasHead' /\ Grown(commits, commits')
  <2>1. CASE /\ commits' = Append(commits, Delivery!Commit(0, deliveryHead, FALSE, "outside"))
             /\ Delivery!MoveHead(Len(commits'))
    <3> DEFINE c == Delivery!Commit(0, deliveryHead, FALSE, "outside")
               n == Len(commits) + 1
    <3>1. c \in CommitRec /\ c.parent = deliveryHead
      <4>1. deliveryHead \in Nat
        BY <1>2
      <4> QED
        BY <4>1 DEF Delivery!Commit, CommitRec, Subjects
    <3>2. commits' = Append(commits, c)
      BY <2>1
    <3> HIDE DEF c
    <3>3. commits' \in Seq(CommitRec) /\ Len(commits') = n /\ commits'[n] = c /\ Grown(commits, commits')
      BY <1>2, <3>1, <3>2, CommitAppended
    <3>4. n \in Nat /\ Len(commits) <= n /\ 1 <= n /\ Len(commits) = n - 1
      BY <1>2
    <3> HIDE DEF n
    <3>5. \A i \in 1 .. n : commits'[i].parent <= i - 1
      <4>1. \A i \in 1 .. Len(commits) : commits'[i] = commits[i] /\ commits[i].parent <= i - 1
        BY <1>0, <3>3 DEF Grown, Repository
      <4>2. commits'[n].parent <= n - 1
        BY <1>2, <3>1, <3>3, <3>4
      <4> QED
        BY <1>2, <3>4, <4>1, <4>2
    <3>6. commits'[1] = commits[1]
      BY <1>2, <3>3 DEF Grown
    <3>7. Repository(deliveryHead, commits', wasHead, faults, outside)
      BY <1>0, <1>2, <3>3, <3>4, <3>5, <3>6 DEF Repository
    <3>8. n \in 1 .. Len(commits')
      BY <3>3, <3>4
    <3>9. Repository(n, commits', wasHead \cup {n}, faults, outside')
      BY <1>1, <3>7, <3>8, HeadMoves
    <3>10. deliveryHead' = n /\ wasHead' = wasHead \cup {n} /\ faults' = faults
      BY <1>0, <2>1, <3>3 DEF Delivery!MoveHead
    <3> QED
      BY <3>3, <3>9, <3>10
  <2>2. CASE /\ commits[deliveryHead].parent # 0 /\ Delivery!MoveHead(commits[deliveryHead].parent)
             /\ commits' = commits
    <3> DEFINE c == commits[deliveryHead].parent
    <3>1. c \in Nat /\ c <= deliveryHead - 1
      <4>1. commits[deliveryHead] \in CommitRec
        BY <1>2
      <4>2. commits[deliveryHead].parent <= deliveryHead - 1
        BY <1>0, <1>2 DEF Repository
      <4> QED
        BY <4>1, <4>2 DEF CommitRec
    <3>2. deliveryHead' = c /\ wasHead' = wasHead \cup {c} /\ faults' = faults /\ c # 0
      BY <1>0, <2>2 DEF Delivery!MoveHead
    <3> HIDE DEF c
    <3>3. c \in 1 .. Len(commits)
      BY <1>2, <3>1, <3>2
    <3>4. Repository(c, commits, wasHead \cup {c}, faults, outside')
      BY <1>0, <1>1, <3>3, HeadMoves
    <3>5. Grown(commits, commits')
      BY <1>2, <2>2 DEF Grown
    <3> QED
      BY <2>2, <3>2, <3>4, <3>5
  <2> QED
    BY <2>1, <2>2 DEF Delivery!Outsider
<1>4. ASSUME NEW m \in Landers PROVE LanderHolds(lander[m], temp[m], commits', wasHead', faults)
  <2>1. /\ lander[m] \in LanderRec /\ temp[m] \in Nat
        /\ LanderHolds(lander[m], temp[m], commits, wasHead, faults)
    BY DEF LandInv
  <2> QED
    BY <1>2, <1>3, <2>1, OthersKept
<1> QED
  BY <1>0, <1>3, <1>4 DEF LandInv

(* Whatever a lander does, the invariant stays, and one that is done is    *)
(* done.                                                                   *)
LEMMA LandStepKeeps ==
  ASSUME LandInv, Delivery!DeliveryAssumption, NEW l \in Landers, Delivery!LandStep(l)
  PROVE  LandInv' /\ \A m \in Landers : lander[m].pc = "done" => lander'[m] = lander[m]
<1>1. LandInv'
  BY ReadHeadKeeps, BootstrapKeeps, LandOnTempKeeps, DropTempKeeps, SwingKeeps, VerifyMoveKeeps, CleanUpKeeps
     DEF Delivery!LandStep
<1>2. lander[l].pc # "done" /\ \E r : lander' = [lander EXCEPT ![l] = r]
  BY DEF Delivery!LandStep, Delivery!ReadHead, Delivery!BootstrapTempBranch, Delivery!LandOnTempBranch,
         Delivery!DropTempEarly, Delivery!Swing, Delivery!VerifyMove, Delivery!CleanUp, Delivery!SetLander
<1> QED
  BY <1>1, <1>2 DEF LandInv

-----------------------------------------------------------------------------
(***************************************************************************)
(* The delivery of a run.                                                  *)
(***************************************************************************)

(* A delivery goes on to the pull request only after its own landing ended *)
(* well, and one that was reported keeps the tree that the pull request    *)
(* was seen with.                                                          *)
DeliveryInv ==
  /\ run \in Delivery!Deliveries /\ dpc \in Delivery!DeliveryPcs /\ pr \in {"none", "open", "closed"}
  /\ worktree \in Trees \cup {0} /\ committed \in Trees \cup {0}
  /\ outcome \in [Landers -> Delivery!Outcomes] /\ prWas \in [Landers -> SUBSET (Trees \cup {0})]
  /\ dpc \in {"open_pr", "lookup"} => lander[run].pc = "done" /\ lander[run].result \in GoodResults
  /\ \A l \in Landers : outcome[l] = "pr-opened" =>
       lander[l].pc = "done" /\ lander[l].tree \in prWas[l] \cup {0}

(* Steps of landers and of people leave the delivery alone. *)
LEMMA LandersApart ==
  ASSUME DeliveryInv, UNCHANGED <<run, dpc, worktree, committed, outcome, prWas>>,
         pr' \in {"none", "open", "closed"},
         \A m \in Landers : lander[m].pc = "done" => lander'[m] = lander[m]
  PROVE  DeliveryInv'
<1>1. run \in Landers
  BY DEF DeliveryInv, Delivery!Deliveries
<1> QED
  BY <1>1 DEF DeliveryInv

(* A delivery that goes on, or ends without a pull request. *)
LEMMA DeliveryGoesOn ==
  ASSUME DeliveryInv, NEW pc \in Delivery!DeliveryPcs, pc \notin {"open_pr", "lookup"}, dpc' = pc,
         NEW o \in Delivery!Outcomes \ {"pr-opened"}, outcome' \in {outcome, [outcome EXCEPT ![run] = o]},
         run' \in Delivery!Deliveries, worktree' \in Trees \cup {0}, committed' \in Trees \cup {0},
         pr' \in {"none", "open", "closed"}, prWas' = prWas,
         \A m \in Landers : lander[m].pc = "done" => lander'[m] = lander[m]
  PROVE  DeliveryInv'
<1>1. outcome' \in [Landers -> Delivery!Outcomes] /\ \A l \in Landers : outcome'[l] \in {outcome[l], o}
  BY DEF DeliveryInv
<1> QED
  BY <1>1 DEF DeliveryInv

(* A pull request that is seen open shows what was on the branch. *)
LEMMA ReportedWork ==
  ASSUME LandInv, DeliveryInv, dpc \in {"open_pr", "lookup"}, Delivery!SeenOpen, Delivery!Ends("pr-opened"),
         UNCHANGED <<lander, run, worktree, committed>>, pr' \in {"none", "open", "closed"}
  PROVE  DeliveryInv'
<1> DEFINE seen == {commits[c].tree : c \in wasHead}
<1>1. run \in Landers /\ lander[run].pc = "done" /\ lander[run].result \in GoodResults
  BY DEF DeliveryInv, Delivery!Deliveries
<1>2. OnBranch(lander[run].tree, commits, wasHead)
  BY <1>1 DEF LandInv, LanderHolds
<1>3. lander[run].tree \in seen \cup {0}
  BY <1>2 DEF OnBranch
<1>4. seen \subseteq Trees \cup {0}
  <2>1. \A c \in wasHead : commits[c] \in CommitRec
    BY DEF LandInv, Repository
  <2> QED
    BY <2>1 DEF CommitRec
<1>5. prWas' = [prWas EXCEPT ![run] = seen] /\ outcome' = [outcome EXCEPT ![run] = "pr-opened"] /\ dpc' = "done"
  BY DEF Delivery!SeenOpen, Delivery!Ends
<1> HIDE DEF seen
<1>6. prWas' \in [Landers -> SUBSET (Trees \cup {0})] /\ prWas'[run] = seen
      /\ \A l \in Landers \ {run} : prWas'[l] = prWas[l]
  BY <1>1, <1>4, <1>5 DEF DeliveryInv
<1>7. outcome' \in [Landers -> Delivery!Outcomes]
      /\ \A l \in Landers \ {run} : outcome'[l] = outcome[l]
  BY <1>5 DEF DeliveryInv, Delivery!Outcomes
<1>8. ASSUME NEW l \in Landers, outcome'[l] = "pr-opened"
      PROVE  lander'[l].pc = "done" /\ lander'[l].tree \in prWas'[l] \cup {0}
  <2>1. CASE l = run
    BY <1>1, <1>3, <1>6, <2>1
  <2>2. CASE l # run
    BY <1>6, <1>7, <1>8, <2>2 DEF DeliveryInv
  <2> QED
    BY <2>1, <2>2
<1> QED
  BY <1>5, <1>6, <1>7, <1>8 DEF DeliveryInv, Delivery!DeliveryPcs

(* The steps of the delivery itself that leave the landers alone. *)
LEMMA DeliveryStepKeeps ==
  ASSUME LandInv, DeliveryInv, Delivery!DeliveryAssumption,
         \/ Delivery!Work \/ Delivery!CommitWorktreeState \/ Delivery!LandingReturns
         \/ Delivery!OpenPr \/ Delivery!Lookup \/ Delivery!NextRun \/ Delivery!ClosePr
  PROVE  DeliveryInv'
<1>0. lander' = lander
  BY DEF Delivery!Work, Delivery!CommitWorktreeState, Delivery!LandingReturns, Delivery!OpenPr,
         Delivery!Lookup, Delivery!NextRun, Delivery!ClosePr, Delivery!lvars
<1>1. CASE Delivery!Work
  <2>1. dpc' = "commit" /\ outcome' = outcome /\ run' = run /\ pr' = pr /\ prWas' = prWas
    BY <1>1 DEF Delivery!Work, Delivery!Continues
  <2>2. worktree' \in Trees \cup {0} /\ committed' \in Trees \cup {0}
    BY <1>1 DEF Delivery!Work, DeliveryInv
  <2>3. run \in Delivery!Deliveries /\ pr \in {"none", "open", "closed"}
    BY DEF DeliveryInv
  <2> QED
    BY <1>0, <2>1, <2>2, <2>3, DeliveryGoesOn DEF Delivery!DeliveryPcs, Delivery!Outcomes
<1>2. CASE Delivery!CommitWorktreeState
  <2>1. /\ run' = run /\ pr' = pr /\ prWas' = prWas /\ worktree' = worktree
        /\ committed' \in {committed, worktree}
    BY <1>2 DEF Delivery!CommitWorktreeState
  <2>2. /\ run' \in Delivery!Deliveries /\ pr' \in {"none", "open", "closed"}
        /\ worktree' \in Trees \cup {0} /\ committed' \in Trees \cup {0}
    BY <2>1 DEF DeliveryInv
  <2>3. CASE Delivery!Continues("landing")
    BY <1>0, <2>1, <2>2, <2>3, DeliveryGoesOn DEF Delivery!DeliveryPcs, Delivery!Outcomes, Delivery!Continues
  <2>4. CASE Delivery!Ends(Delivery!DELIVERY_BRANCH_STATE_FAILED)
    BY <1>0, <2>1, <2>2, <2>4, DeliveryGoesOn DEF Delivery!DeliveryPcs, Delivery!Outcomes, Delivery!Ends,
       Delivery!DELIVERY_BRANCH_STATE_FAILED
  <2> QED
    BY <1>2, <2>3, <2>4 DEF Delivery!CommitWorktreeState
<1>3. CASE Delivery!LandingReturns
  <2>1. /\ UNCHANGED <<run, pr, prWas, worktree, committed>> /\ lander[run].pc = "done"
    BY <1>3 DEF Delivery!LandingReturns
  <2>2. CASE Delivery!LandingExit(lander[run].result) = "open_pr"
    <3>1. lander[run].result \in GoodResults /\ dpc' = "open_pr" /\ outcome' = outcome
      BY <1>3, <2>2 DEF Delivery!LandingReturns, Delivery!LandingExit, Delivery!Continues, GoodResults
    <3> QED
      BY <1>0, <2>1, <3>1 DEF DeliveryInv, Delivery!DeliveryPcs
  <2>3. CASE Delivery!LandingExit(lander[run].result) # "open_pr"
    <3>1. Delivery!Ends(Delivery!DELIVERY_PUSH_FAILED)
      BY <1>3, <2>3 DEF Delivery!LandingReturns
    <3>2. /\ run' \in Delivery!Deliveries /\ pr' \in {"none", "open", "closed"}
          /\ worktree' \in Trees \cup {0} /\ committed' \in Trees \cup {0} /\ prWas' = prWas
      BY <2>1 DEF DeliveryInv
    <3> QED
      BY <1>0, <3>1, <3>2, DeliveryGoesOn DEF Delivery!DeliveryPcs, Delivery!Outcomes, Delivery!Ends,
         Delivery!DELIVERY_PUSH_FAILED
  <2> QED
    BY <2>2, <2>3
<1>4. CASE Delivery!OpenPr
  <2>1. /\ dpc = "open_pr" /\ UNCHANGED <<run, worktree, committed>> /\ pr' \in {"none", "open", "closed"}
    BY <1>4 DEF Delivery!OpenPr, DeliveryInv
  <2>2. /\ run' \in Delivery!Deliveries
        /\ worktree' \in Trees \cup {0} /\ committed' \in Trees \cup {0}
    BY <2>1 DEF DeliveryInv
  <2>3. CASE Delivery!SeenOpen /\ Delivery!Ends("pr-opened")
    BY <1>0, <2>1, <2>3, ReportedWork
  <2>4. CASE Delivery!Ends(Delivery!DELIVERY_PR_OPEN_FAILED) /\ prWas' = prWas
    BY <1>0, <2>1, <2>2, <2>4, DeliveryGoesOn DEF Delivery!DeliveryPcs, Delivery!Outcomes, Delivery!Ends,
       Delivery!DELIVERY_PR_OPEN_FAILED
  <2>5. CASE Delivery!Continues("lookup") /\ prWas' = prWas
    BY <1>0, <2>1, <2>5 DEF DeliveryInv, Delivery!Continues, Delivery!DeliveryPcs
  <2> QED
    BY <1>4, <2>3, <2>4, <2>5 DEF Delivery!OpenPr
<1>5. CASE Delivery!Lookup
  <2>1. /\ dpc = "lookup" /\ UNCHANGED <<run, worktree, committed>> /\ pr' \in {"none", "open", "closed"}
    BY <1>5 DEF Delivery!Lookup, DeliveryInv
  <2>2. /\ run' \in Delivery!Deliveries
        /\ worktree' \in Trees \cup {0} /\ committed' \in Trees \cup {0}
    BY <2>1 DEF DeliveryInv
  <2>3. CASE Delivery!SeenOpen /\ Delivery!Ends("pr-opened")
    BY <1>0, <2>1, <2>3, ReportedWork
  <2>4. CASE Delivery!Ends(Delivery!DELIVERY_PR_OPEN_FAILED) /\ prWas' = prWas
    BY <1>0, <2>1, <2>2, <2>4, DeliveryGoesOn DEF Delivery!DeliveryPcs, Delivery!Outcomes, Delivery!Ends,
       Delivery!DELIVERY_PR_OPEN_FAILED
  <2> QED
    BY <1>5, <2>3, <2>4 DEF Delivery!Lookup, Delivery!LookupConfirms
<1>6. CASE Delivery!NextRun
  <2>1. /\ run' \in Delivery!Deliveries /\ dpc' = "work" /\ outcome' = outcome
        /\ UNCHANGED <<worktree, committed, pr, prWas>>
    BY <1>6 DEF Delivery!NextRun, Delivery!Continues
  <2>2. worktree' \in Trees \cup {0} /\ committed' \in Trees \cup {0} /\ pr' \in {"none", "open", "closed"}
    BY <2>1 DEF DeliveryInv
  <2> QED
    BY <1>0, <2>1, <2>2, DeliveryGoesOn DEF Delivery!DeliveryPcs, Delivery!Outcomes
<1>7. CASE Delivery!ClosePr
  BY <1>0, <1>7, LandersApart DEF Delivery!ClosePr
<1> QED
  BY <1>1, <1>2, <1>3, <1>4, <1>5, <1>6, <1>7

(* Steps of the delivery that do not touch the repository, or only count a *)
(* fault.                                                                  *)
LEMMA RepositoryAlone ==
  ASSUME LandInv, Delivery!DeliveryAssumption,
         UNCHANGED <<deliveryHead, commits, temp, lander, wasHead>>,
         \/ faults' = faults /\ outside' = outside
         \/ Delivery!Fault /\ outside' = outside
         \/ faults' = faults /\ outside' \in 0 .. MaxOutside
  PROVE  LandInv'
<1>1. faults' \in 0 .. MaxFaults /\ (faults' = 0 => faults = 0) /\ outside' \in 0 .. MaxOutside
  <2>1. faults \in 0 .. MaxFaults /\ outside \in 0 .. MaxOutside /\ MaxFaults \in Nat
    BY DEF LandInv, Repository, Delivery!DeliveryAssumption
  <2> QED
    BY <2>1 DEF Delivery!Fault
<1>2. Repository(deliveryHead', commits', wasHead', faults', outside')
  BY <1>1 DEF LandInv, Repository
<1>3. ASSUME NEW m \in Landers PROVE LanderHolds(lander'[m], temp'[m], commits', wasHead', faults')
  <2>1. LanderHolds(lander[m], temp[m], commits, wasHead, faults)
    BY DEF LandInv
  <2> QED
    BY <1>1, <2>1 DEF LanderHolds
<1> QED
  BY <1>2, <1>3 DEF LandInv

LEMMA DeliveryInvStep ==
  ASSUME LandInv, DeliveryInv, Delivery!DeliveryAssumption, [Delivery!Next]_Delivery!vars
  PROVE  LandInv' /\ DeliveryInv'
<1>0. run \in Landers
  BY DEF DeliveryInv, Delivery!Deliveries
<1>1. CASE Delivery!Work \/ Delivery!LandingReturns \/ Delivery!NextRun
  <2>1. UNCHANGED Delivery!lvars
    BY <1>1 DEF Delivery!Work, Delivery!LandingReturns, Delivery!NextRun
  <2>2. LandInv'
    BY <2>1, RepositoryAlone DEF Delivery!lvars
  <2> QED
    BY <1>1, <2>2, DeliveryStepKeeps
<1>2. CASE Delivery!CommitWorktreeState \/ Delivery!OpenPr \/ Delivery!Lookup
  <2>1. /\ UNCHANGED <<deliveryHead, commits, temp, lander, wasHead, outside>>
        /\ faults' = faults \/ Delivery!Fault
    BY <1>2 DEF Delivery!CommitWorktreeState, Delivery!OpenPr, Delivery!Lookup, Delivery!lvars
  <2>2. LandInv'
    BY <2>1, RepositoryAlone
  <2> QED
    BY <1>2, <2>2, DeliveryStepKeeps
<1>3. CASE Delivery!ClosePr
  <2>1. UNCHANGED <<deliveryHead, commits, temp, lander, wasHead, faults>> /\ outside' \in 0 .. MaxOutside
    <3>1. outside \in 0 .. MaxOutside /\ MaxOutside \in Nat
      BY DEF LandInv, Repository, Delivery!DeliveryAssumption
    <3> QED
      BY <1>3, <3>1 DEF Delivery!ClosePr
  <2>2. LandInv'
    BY <2>1, RepositoryAlone
  <2> QED
    BY <1>3, <2>2, DeliveryStepKeeps
<1>4. CASE Delivery!StartLanding
  <2>1. /\ Delivery!PushBranch(run, committed, "land task", FALSE) /\ dpc' = "wait" /\ outcome' = outcome
        /\ UNCHANGED <<run, worktree, committed, pr, prWas>>
    BY <1>4 DEF Delivery!StartLanding, Delivery!Continues
  <2>2. committed \in Trees \cup {0} /\ "land task" \in Subjects
    BY DEF DeliveryInv, Subjects
  <2>3. LandInv' /\ \A m \in Landers : lander[m].pc = "done" => lander'[m] = lander[m]
    BY <1>0, <2>1, <2>2, PushBranchKeeps
  <2>4. /\ run' \in Delivery!Deliveries /\ pr' \in {"none", "open", "closed"}
        /\ worktree' \in Trees \cup {0} /\ committed' \in Trees \cup {0}
    BY <2>1 DEF DeliveryInv
  <2> QED
    <3>1. "wait" \in Delivery!DeliveryPcs /\ "none" \in Delivery!Outcomes \ {"pr-opened"}
      BY DEF Delivery!DeliveryPcs, Delivery!Outcomes
    <3>2. DeliveryInv'
      BY <2>1, <2>3, <2>4, <3>1, DeliveryGoesOn
    <3> QED
      BY <2>3, <3>2
<1>5. CASE Delivery!LandingTimesOut
  <2>1. /\ Delivery!Kill(run) /\ Delivery!Ends(Delivery!DELIVERY_PUSH_FAILED)
        /\ UNCHANGED <<run, worktree, committed, pr, prWas>>
    BY <1>5 DEF Delivery!LandingTimesOut
  <2>2. LandInv' /\ \A m \in Landers : lander[m].pc = "done" => lander'[m] = lander[m]
    BY <1>0, <2>1, KillKeeps
  <2>3. /\ run' \in Delivery!Deliveries /\ pr' \in {"none", "open", "closed"}
        /\ worktree' \in Trees \cup {0} /\ committed' \in Trees \cup {0}
    BY <2>1 DEF DeliveryInv
  <2> QED
    BY <2>1, <2>2, <2>3, DeliveryGoesOn DEF Delivery!DeliveryPcs, Delivery!Outcomes, Delivery!Ends,
       Delivery!DELIVERY_PUSH_FAILED
<1>6. ASSUME UNCHANGED Delivery!dvars, \A m \in Landers : lander[m].pc = "done" => lander'[m] = lander[m]
      PROVE  DeliveryInv'
  <2>1. UNCHANGED <<run, dpc, worktree, committed, outcome, prWas, pr>>
    BY <1>6 DEF Delivery!dvars
  <2>2. pr' \in {"none", "open", "closed"}
    BY <2>1 DEF DeliveryInv
  <2> QED
    BY <1>6, <2>1, <2>2, LandersApart
<1>7. CASE Delivery!OtherPush
  <2>1. PICK tree \in OtherTrees, re_land \in BOOLEAN : Delivery!PushBranch(0, tree, "other", re_land)
    BY <1>7 DEF Delivery!OtherPush
  <2>2. 0 \in Landers /\ tree \in Trees \cup {0} /\ "other" \in Subjects
    BY <1>7 DEF Delivery!OtherPush, Delivery!DeliveryAssumption, Subjects
  <2>3. LandInv' /\ \A m \in Landers : lander[m].pc = "done" => lander'[m] = lander[m]
    BY <2>1, <2>2, PushBranchKeeps
  <2> QED
    BY <1>6, <1>7, <2>3 DEF Delivery!OtherPush
<1>8. CASE Delivery!Landing
  <2>1. PICK l \in Landers : Delivery!LandStep(l) /\ UNCHANGED Delivery!dvars
    BY <1>8 DEF Delivery!Landing
  <2>2. LandInv' /\ \A m \in Landers : lander[m].pc = "done" => lander'[m] = lander[m]
    BY <2>1, LandStepKeeps
  <2> QED
    BY <1>6, <2>1, <2>2
<1>9. CASE Delivery!People
  <2>1. Delivery!Outsider /\ UNCHANGED Delivery!dvars /\ lander' = lander
    BY <1>9 DEF Delivery!People, Delivery!Outsider
  <2>2. LandInv'
    BY <2>1, OutsiderKeeps
  <2> QED
    BY <1>6, <2>1, <2>2
<1>10. CASE UNCHANGED Delivery!vars
  <2>1. UNCHANGED Delivery!lvars /\ UNCHANGED Delivery!dvars
    BY <1>10 DEF Delivery!vars
  <2>2. LandInv' /\ lander' = lander
    BY <2>1, RepositoryAlone DEF Delivery!lvars
  <2> QED
    BY <1>6, <2>1, <2>2
<1> QED
  BY <1>1, <1>2, <1>3, <1>4, <1>5, <1>7, <1>8, <1>9, <1>10 DEF Delivery!Next

LEMMA DeliveryFirst ==
  ASSUME Delivery!DeliveryAssumption, Delivery!Init
  PROVE  LandInv /\ DeliveryInv
<1>1. Delivery!BaseCommit \in CommitRec /\ Delivery!BaseCommit.tree = 0 /\ Delivery!BaseCommit.parent = 0
  BY DEF Delivery!BaseCommit, Delivery!Commit, CommitRec, Subjects
<1>2. commits = <<Delivery!BaseCommit>>
  BY DEF Delivery!Init, Delivery!LandInit
<1>3. commits \in Seq(CommitRec) /\ Len(commits) = 1 /\ commits[1] = Delivery!BaseCommit
  BY <1>1, <1>2
<1>4. /\ deliveryHead = 0 /\ wasHead = {} /\ faults = 0 /\ outside = 0
      /\ temp = [l \in Landers |-> 0] /\ lander = [l \in Landers |-> Delivery!NoLander]
  BY DEF Delivery!Init, Delivery!LandInit
<1>5. Repository(deliveryHead, commits, wasHead, faults, outside)
  BY <1>1, <1>3, <1>4 DEF Repository, Delivery!DeliveryAssumption
<1>6. Delivery!NoLander \in LanderRec
  BY DEF LanderRec, Delivery!NoLander, Delivery!LandPcs, Delivery!Results, Subjects
<1>7. LanderHolds(Delivery!NoLander, 0, commits, wasHead, faults)
  BY <1>3 DEF LanderHolds, Delivery!NoLander, GoodResults
<1>8. LandInv
  BY <1>4, <1>5, <1>6, <1>7 DEF LandInv
<1>9. run \in Delivery!Deliveries
  BY DEF Delivery!Init, Delivery!Deliveries, Delivery!DeliveryAssumption
<1> QED
  BY <1>8, <1>9 DEF DeliveryInv, Delivery!Init, Delivery!Outcomes, Delivery!DeliveryPcs

LEMMA DeliverySound ==
  ASSUME LandInv, DeliveryInv
  PROVE  Delivery!OpenedHoldsWork /\ Delivery!LandedIsTrue
<1>1. Delivery!OpenedHoldsWork
  BY DEF DeliveryInv, Delivery!OpenedHoldsWork
<1>2. Delivery!LandedIsTrue
  BY DEF LandInv, LanderHolds, Delivery!LandedIsTrue
<1> QED
  BY <1>1, <1>2

LEMMA DeliveryTyped ==
  ASSUME LandInv, DeliveryInv
  PROVE  Delivery!TypeOK
<1>1. /\ deliveryHead \in 0 .. Len(commits) /\ wasHead \subseteq 1 .. Len(commits) /\ Len(commits) \in Nat
      /\ faults \in 0 .. MaxFaults /\ outside \in 0 .. MaxOutside
  BY DEF LandInv, Repository
<1>2. ASSUME NEW i \in 1 .. Len(commits)
      PROVE  /\ commits[i].tree \in Trees \cup {0} /\ commits[i].parent \in 0 .. (i - 1)
             /\ commits[i].verified \in BOOLEAN
  <2>1. commits[i] \in CommitRec /\ commits[i].parent <= i - 1
    BY DEF LandInv, Repository
  <2> QED
    BY <2>1 DEF CommitRec
<1>3. ASSUME NEW l \in Landers
      PROVE  /\ lander[l].pc \in Delivery!LandPcs /\ lander[l].result \in Delivery!Results
             /\ {lander[l].observed, lander[l].new, temp[l]} \subseteq 0 .. Len(commits)
  <2>1. /\ lander[l] \in LanderRec /\ temp[l] \in Nat
        /\ LanderHolds(lander[l], temp[l], commits, wasHead, faults)
    BY DEF LandInv
  <2> QED
    BY <1>1, <2>1 DEF LanderRec, LanderHolds
<1>4. Delivery!LandTypeOK
  BY <1>1, <1>2, <1>3 DEF Delivery!LandTypeOK
<1> QED
  BY <1>4 DEF Delivery!TypeOK, DeliveryInv

(* What a landing puts on the branch. *)
LEMMA SwingExtends ==
  ASSUME LandInv, NEW l \in Landers, Delivery!Swing(l), deliveryHead' # deliveryHead
  PROVE  /\ commits[deliveryHead'].parent = Delivery!From(deliveryHead)
         /\ commits[deliveryHead'].verified /\ commits[deliveryHead'].tree = lander[l].tree
<1>1. lander[l].pc = "swing" /\ deliveryHead = lander[l].observed /\ deliveryHead' = lander[l].new
  BY DEF Delivery!Swing, Delivery!Accepts, Delivery!MoveHead
<1>2. Prepared(lander[l], commits)
  BY <1>1 DEF LandInv, LanderHolds
<1> QED
  BY <1>1, <1>2 DEF Prepared

-----------------------------------------------------------------------------
(* The parts apart. *)
LEMMA TrueApart ==
  /\ Delivery!DeliveryAssumption /\ Tokens!TokensAssumption
  /\ Review!ReviewAssumption /\ Review!SelectionSound
  /\ Delivery!Spec /\ Tokens!TokensSpec /\ Review!ReviewSpec
  => []DeliveryTrue
<1> SUFFICES ASSUME Delivery!DeliveryAssumption, Tokens!TokensAssumption,
                    Review!ReviewAssumption, Review!SelectionSound
             PROVE  Delivery!Spec /\ Tokens!TokensSpec /\ Review!ReviewSpec => []DeliveryTrue
  OBVIOUS
<1>1. Delivery!Init => LandInv /\ DeliveryInv
  BY DeliveryFirst
<1>2. LandInv /\ DeliveryInv /\ [Delivery!Next]_Delivery!vars => LandInv' /\ DeliveryInv'
  BY DeliveryInvStep
<1>3. Tokens!TokensInit => TokensInv
  BY DEF Tokens!TokensInit, TokensInv, Tokens!Empty, Tokens!Nothing
<1>4. TokensInv /\ [Tokens!TokensNext]_Tokens!tokenVars => TokensInv'
  BY TokensInvStep
<1>5. Review!ReviewInit => ReviewInv
  BY ReviewFirst
<1>6. ReviewInv /\ [Review!ReviewNext]_Review!reviewVars => ReviewInv'
  BY ReviewInvStep
<1>7. LandInv /\ DeliveryInv /\ TokensInv /\ ReviewInv => DeliveryTrue
  BY DeliverySound, TokensSound, ReviewSound DEF DeliveryTrue
<1> QED
  BY <1>1, <1>2, <1>3, <1>4, <1>5, <1>6, <1>7, PTL DEF Delivery!Spec, Tokens!TokensSpec, Review!ReviewSpec

(* The parts run apart from each other, so the conjunction of their        *)
(* specifications says what any of them may do.  SelectionSound, a fact    *)
(* about folds over reviewer lists, is evaluated by TLC.                   *)
THEOREM DeliveriesAreTrue ==
  Spec => []DeliveryTrue
<1>1. Delivery!DeliveryAssumption /\ Tokens!TokensAssumption
       /\ Review!ReviewAssumption /\ Review!SelectionSound
  BY WorkAssumption
<1> QED
  BY <1>1, ComponentsRun, TrueApart, PTL

(* Whoever else moves the branch meanwhile, a landing only ever puts a     *)
(* verified commit of its own tree on top of the head that its change set  *)
(* was computed against: for any number of landers, outsiders and lost     *)
(* answers nobody's commit is dropped.                                     *)
LEMMA LandingsExtendHead ==
  Delivery!DeliveryAssumption /\ Delivery!Spec => Delivery!LandingExtendsHead
<1> SUFFICES ASSUME Delivery!DeliveryAssumption PROVE Delivery!Spec => Delivery!LandingExtendsHead
  OBVIOUS
<1>1. Delivery!Init => LandInv /\ DeliveryInv
  BY DeliveryFirst
<1>2. LandInv /\ DeliveryInv /\ [Delivery!Next]_Delivery!vars => LandInv' /\ DeliveryInv'
  BY DeliveryInvStep
<1>3. LandInv => [\A l \in Landers :
        (Delivery!Swing(l) /\ deliveryHead' # deliveryHead) =>
          /\ commits[deliveryHead'].parent = Delivery!From(deliveryHead)
          /\ commits[deliveryHead'].verified /\ commits[deliveryHead'].tree = lander[l].tree]_Delivery!lvars
  BY SwingExtends
<1> QED
  BY <1>1, <1>2, <1>3, PTL DEF Delivery!Spec, Delivery!LandingExtendsHead

-----------------------------------------------------------------------------
(***************************************************************************)
(* The worker session.                                                     *)
(***************************************************************************)

Shapes == Session!Tools \X Nat \X {"Ok", "NonZero", "None"}

FrameRec ==
  [pc : Session!Pcs, turns : Nat, format_errors : Nat, progress_at : Nat, shapes : Seq(Shapes),
   streak : Nat, changed : BOOLEAN, polled : Nat, attempts : Nat, replans : Nat, retries : Nat,
   started : Nat, turn_at : Nat, limit : Nat, max_attempts : Nat, max_replans : Nat, max_turns : Nat,
   session : Nat, recorded : Nat, usage : Nat, cap_exceeded : BOOLEAN,
   failure : Session!FailureClass \cup {"none"}, reason : Session!FailureClass \cup {"none"}]

(* A frame within its budgets, at time t. *)
FrameOK(f, t) ==
  /\ f \in FrameRec
  /\ 1 <= f.attempts /\ f.attempts <= Session!Allowed(f) /\ f.replans <= f.max_replans
  /\ f.turns <= f.max_turns /\ Len(f.shapes) <= tool_repeat_window /\ f.turn_at <= t

(* What only a call or the end of a sub-session changes: the accounts, and *)
(* never the limits.                                                       *)
SameAccounts(f, g) ==
  /\ g.session = f.session /\ g.recorded = f.recorded /\ g.usage = f.usage
  /\ g.cap_exceeded = f.cap_exceeded /\ g.limit = f.limit /\ g.started = f.started

LEMMA SessionConstants ==
  ASSUME Session!WorkerAssumption
  PROVE  /\ max_attempts \in Nat /\ max_replans \in Nat /\ max_turns_per_attempt \in Nat
         /\ run_deadline \in Nat /\ tool_repeat_window \in Nat /\ child_turns \in Nat
         /\ child_wall_clock \in Nat /\ soft_cap \in Nat /\ MaxNow \in Nat
BY DEF Session!WorkerAssumption

LEMMA AttemptOK ==
  ASSUME Session!WorkerAssumption, NEW f \in FrameRec, NEW t \in Nat, 1 <= f.attempts,
         f.attempts <= Session!Allowed(f), f.replans <= f.max_replans, f.turn_at <= t
  PROVE  FrameOK(Session!Attempt(f, t), t) /\ SameAccounts(f, Session!Attempt(f, t))
<1> DEFINE g == Session!Attempt(f, t)
<1>1. g \in FrameRec
  <2> DEFINE none == <<>>
             pc == "turn"
  <2>1. none \in Seq(Shapes) /\ pc \in Session!Pcs
    BY DEF Session!Pcs
  <2>2. g = [f EXCEPT !.pc = pc, !.turns = 0, !.format_errors = 0, !.progress_at = t,
                      !.shapes = none, !.streak = 0, !.changed = TRUE, !.polled = 0]
    BY DEF Session!Attempt
  <2> HIDE DEF none, pc, g
  <2> QED
    BY <2>1, <2>2 DEF FrameRec
<1>2. /\ g.attempts = f.attempts /\ g.replans = f.replans /\ g.max_attempts = f.max_attempts
      /\ g.max_replans = f.max_replans /\ g.turns = 0 /\ g.shapes = <<>> /\ g.turn_at = f.turn_at
      /\ SameAccounts(f, g)
  BY DEF Session!Attempt, FrameRec, SameAccounts
<1>3. g.max_turns \in Nat /\ tool_repeat_window \in Nat
  BY <1>1, SessionConstants DEF FrameRec
<1> HIDE DEF g
<1>4. FrameOK(g, t)
  BY <1>1, <1>2, <1>3 DEF FrameOK, Session!Allowed
<1> QED
  BY <1>2, <1>4 DEF g

(* The end of an attempt: another one, within the budgets, or the end of   *)
(* the run, always after a fatal class.                                    *)
LEMMA AfterFailureOK ==
  ASSUME Session!WorkerAssumption, NEW t \in Nat, NEW f, FrameOK(f, t), NEW class \in Session!FailureClass
  PROVE  /\ FrameOK(Session!AfterFailure(f, class, t), t)
         /\ SameAccounts(f, Session!AfterFailure(f, class, t))
         /\ class \in Session!Fatal => Session!AfterFailure(f, class, t).pc = "done"
<1> DEFINE done(c) == [f EXCEPT !.pc = "done", !.failure = c, !.reason = class]
           again == f.replans + 1
           next == f.attempts + 1
           g == [f EXCEPT !.attempts = next, !.replans = again]
           late == [done("WorkerTimeout") EXCEPT !.replans = again]
<1>a. f \in FrameRec
  BY DEF FrameOK
<1>b. f.replans \in Nat /\ f.attempts \in Nat /\ f.max_attempts \in Nat /\ f.max_replans \in Nat
  BY <1>a DEF FrameRec
<1>0. f \in FrameRec /\ again \in Nat /\ next \in Nat /\ f.replans \in Nat /\ f.attempts \in Nat
      /\ f.max_attempts \in Nat /\ f.max_replans \in Nat
  BY <1>a, <1>b
<1>1. ASSUME NEW c \in Session!FailureClass
      PROVE  FrameOK(done(c), t) /\ SameAccounts(f, done(c)) /\ done(c).pc = "done"
  <2>1. done(c) \in FrameRec
    BY <1>0 DEF FrameRec, Session!Pcs
  <2>2. /\ done(c).attempts = f.attempts /\ done(c).replans = f.replans /\ done(c).turns = f.turns
        /\ done(c).max_attempts = f.max_attempts /\ done(c).max_replans = f.max_replans
        /\ done(c).max_turns = f.max_turns /\ done(c).shapes = f.shapes /\ done(c).turn_at = f.turn_at
        /\ SameAccounts(f, done(c)) /\ done(c).pc = "done"
    BY <1>0 DEF FrameRec, SameAccounts
  <2> QED
    BY <2>1, <2>2 DEF FrameOK, Session!Allowed
<1>2. CASE class \in Session!Fatal
  BY <1>1, <1>2 DEF Session!AfterFailure
<1>3. CASE class \notin Session!Fatal /\ f.attempts >= f.max_attempts
  BY <1>1, <1>3 DEF Session!AfterFailure, Session!FailureClass
<1>4. CASE class \notin Session!Fatal /\ ~(f.attempts >= f.max_attempts) /\ f.replans >= f.max_replans
  BY <1>1, <1>4 DEF Session!AfterFailure, Session!FailureClass
<1>5. CASE class \notin Session!Fatal /\ ~(f.attempts >= f.max_attempts) /\ ~(f.replans >= f.max_replans)
  <2>1. again <= f.max_replans /\ 1 <= next /\ next <= f.max_attempts /\ f.max_attempts # 0
    BY <1>0, <1>5
  <2> HIDE DEF again, next
  <2>2. CASE Session!Overdue(f, t)
    <3>1. Session!AfterFailure(f, class, t) = late
      BY <1>5, <2>2 DEF Session!AfterFailure, again
    <3>2. late = [f EXCEPT !.pc = "done", !.failure = "WorkerTimeout", !.reason = class, !.replans = again]
      BY <1>0 DEF FrameRec
    <3>3. "WorkerTimeout" \in Session!FailureClass
      BY DEF Session!FailureClass
    <3>4. late \in FrameRec
      BY <1>0, <3>2, <3>3 DEF FrameRec, Session!Pcs
    <3>5. /\ late.attempts = f.attempts /\ late.replans = again /\ late.turns = f.turns
          /\ late.max_attempts = f.max_attempts /\ late.max_replans = f.max_replans
          /\ late.max_turns = f.max_turns /\ late.shapes = f.shapes /\ late.turn_at = f.turn_at
          /\ SameAccounts(f, late)
      BY <1>0, <3>2 DEF FrameRec, SameAccounts
    <3> HIDE DEF late
    <3>6. FrameOK(late, t)
      BY <2>1, <3>4, <3>5 DEF FrameOK, Session!Allowed
    <3> QED
      BY <1>5, <3>1, <3>5, <3>6
  <2>3. CASE ~Session!Overdue(f, t)
    <3>1. Session!AfterFailure(f, class, t) = Session!Attempt(g, t)
      BY <1>5, <2>3 DEF Session!AfterFailure, again, next
    <3>2. /\ g \in FrameRec /\ g.attempts = next /\ g.replans = again /\ g.max_attempts = f.max_attempts
          /\ g.max_replans = f.max_replans /\ g.turn_at = f.turn_at /\ SameAccounts(f, g)
      BY <1>0 DEF FrameRec, SameAccounts
    <3> HIDE DEF g
    <3>3. g.attempts <= Session!Allowed(g) /\ g.turn_at <= t
      BY <2>1, <3>2 DEF Session!Allowed, FrameOK
    <3>4. FrameOK(Session!Attempt(g, t), t) /\ SameAccounts(g, Session!Attempt(g, t))
      BY <2>1, <3>2, <3>3, AttemptOK
    <3> QED
      BY <1>5, <3>1, <3>2, <3>4 DEF SameAccounts
  <2> QED
    BY <2>2, <2>3
<1> QED
  BY <1>2, <1>3, <1>4, <1>5

(* Each request the sink kept has an entry under the number of its         *)
(* session: those of a sub-session that still runs, or of the session      *)
(* itself, are counted by the frame, and no later sub-session has used its *)
(* number yet.                                                             *)
LedgerHolds(dep, f0, f1, ev, ent, cl, lost) ==
  /\ ent \subseteq Nat \X Nat /\ IsFiniteSet(ent) /\ lost \in Nat /\ Cardinality(ent) + lost = cl
  /\ \A e \in ent : /\ e[1] <= ev + 1
                    /\ e[1] = 0 => e[2] <= f0.recorded
                    /\ e[1] = ev + 1 => dep = 1 /\ e[2] <= f1.recorded
  /\ f0.session = 0 /\ (dep = 1 => f1.session = ev + 1)

(* The usage of both frames is that of every completed call. *)
UsageHolds(dep, f0, f1, comp) ==
  /\ dep = 0 => f0.usage = comp
  /\ dep = 1 => f0.usage + f1.usage = comp
  /\ f0.cap_exceeded <=> f0.usage > soft_cap

(* A sub-session ends before its parent's deadline. *)
CarveHolds(dep, f0, f1) ==
  dep = 1 => f1.limit = 0 \/ f1.limit + f1.started <= f0.limit + f0.started

DeliversHolds(dep, f0, del) == del = 0 \/ (del = 1 /\ dep = 0 /\ f0.pc = "done")

SessionInv ==
  /\ depth \in {0, 1} /\ now \in 0 .. MaxNow
  /\ beat \in Nat /\ sessionEvents \in Nat /\ sessionCalls \in Nat /\ completed \in Nat
  /\ fr \in [0 .. 1 -> FrameRec]
  /\ FrameOK(fr[0], now) /\ FrameOK(fr[1], now)
  /\ LedgerHolds(depth, fr[0], fr[1], sessionEvents, sessionEntries, sessionCalls, unrecorded)
  /\ UsageHolds(depth, fr[0], fr[1], completed)
  /\ CarveHolds(depth, fr[0], fr[1])
  /\ DeliversHolds(depth, fr[0], delivers)

(* A frame whose run begins at time t under a limit, as a session of that  *)
(* number.                                                                 *)
Starts(f, t, limit, session) ==
  /\ FrameOK(f, t) /\ f.session = session /\ f.recorded = 0 /\ f.usage = 0
  /\ f.cap_exceeded = FALSE /\ f.limit = limit /\ f.started = t

LEMMA FrameStarts ==
  ASSUME Session!WorkerAssumption, NEW t \in Nat, NEW limit \in Nat, NEW attempts \in Nat,
         NEW replans \in Nat, NEW turns \in Nat, NEW session \in Nat
  PROVE  Starts(Session!Frame(t, limit, attempts, replans, turns, session), t, limit, session)
<1> DEFINE none == <<>>
           pc == "turn"
           ok == "none"
           one == 1
           g == [pc |-> pc, turns |-> 0, format_errors |-> 0, progress_at |-> t,
                 shapes |-> none, streak |-> 0, changed |-> TRUE, polled |-> 0,
                 attempts |-> one, replans |-> 0, retries |-> 0, started |-> t, turn_at |-> t,
                 limit |-> limit, max_attempts |-> attempts, max_replans |-> replans,
                 max_turns |-> turns, session |-> session, recorded |-> 0, usage |-> 0,
                 cap_exceeded |-> FALSE, failure |-> ok, reason |-> ok]
<1>1. none \in Seq(Shapes) /\ pc \in Session!Pcs /\ ok \in Session!FailureClass \cup {"none"} /\ one \in Nat
  BY DEF Session!Pcs
<1>2. Session!Frame(t, limit, attempts, replans, turns, session) = Session!Attempt(g, t)
  BY DEF Session!Frame
<1>3. one = 1
  OBVIOUS
<1> HIDE DEF none, pc, ok, one
<1>4. g \in FrameRec
  BY <1>1 DEF FrameRec
<1>5. /\ g.attempts = 1 /\ g.replans = 0 /\ g.max_attempts = attempts /\ g.max_replans = replans
      /\ g.turn_at = t /\ g.session = session /\ g.recorded = 0 /\ g.usage = 0
      /\ g.cap_exceeded = FALSE /\ g.limit = limit /\ g.started = t
  BY <1>3
<1> HIDE DEF g
<1>6. 1 <= g.attempts /\ g.attempts <= Session!Allowed(g) /\ g.replans <= g.max_replans /\ g.turn_at <= t
  BY <1>5 DEF Session!Allowed
<1>7. FrameOK(Session!Attempt(g, t), t) /\ SameAccounts(g, Session!Attempt(g, t))
  BY <1>4, <1>6, AttemptOK
<1> QED
  BY <1>2, <1>5, <1>7 DEF SameAccounts, Starts

LEMMA LaterOK ==
  ASSUME NEW t \in Nat, NEW u \in Nat, t <= u, NEW f, FrameOK(f, t)
  PROVE  FrameOK(f, u)
<1>1. f.turn_at \in Nat /\ f.turn_at <= t
  BY DEF FrameOK, FrameRec
<1>2. f.turn_at <= u
  BY <1>1
<1> QED
  BY <1>2 DEF FrameOK

(* A step that leaves the accounts alone. *)
LEMMA FramesMove ==
  ASSUME SessionInv, NEW f, NEW g, FrameOK(f, now'), FrameOK(g, now'),
         SameAccounts(fr[0], f), SameAccounts(fr[1], g),
         fr' \in [0 .. 1 -> FrameRec], fr'[0] = f, fr'[1] = g,
         depth' = depth, now' \in 0 .. MaxNow, beat' \in Nat,
         UNCHANGED <<sessionEntries, sessionCalls, unrecorded, completed>>,
         \/ sessionEvents' = sessionEvents
         \/ depth = 0 /\ sessionEvents' = sessionEvents + 1,
         DeliversHolds(depth, f, delivers')
  PROVE  SessionInv'
<1>1. fr' \in [0 .. 1 -> FrameRec] /\ fr'[0] = f /\ fr'[1] = g
  OBVIOUS
<1>2. sessionEvents' \in Nat
  BY DEF SessionInv
<1>3. LedgerHolds(depth, fr[0], fr[1], sessionEvents, sessionEntries, sessionCalls, unrecorded) /\ sessionEvents \in Nat
  BY DEF SessionInv
<1>4. LedgerHolds(depth, f, g, sessionEvents', sessionEntries, sessionCalls, unrecorded)
  <2>1. CASE sessionEvents' = sessionEvents
    BY <1>3, <2>1 DEF LedgerHolds, SameAccounts
  <2>2. CASE depth = 0 /\ sessionEvents' = sessionEvents + 1
    <3>1. ASSUME NEW e \in sessionEntries
          PROVE  /\ e[1] <= sessionEvents' + 1 /\ e[1] # sessionEvents' + 1
                 /\ e[1] = 0 => e[2] <= f.recorded
      <4>1. e[1] \in Nat /\ e[1] <= sessionEvents + 1
        BY <1>3 DEF LedgerHolds
      <4>2. e[1] = 0 => e[2] <= f.recorded
        BY <1>3 DEF LedgerHolds, SameAccounts
      <4> QED
        BY <1>3, <2>2, <4>1, <4>2
    <3> QED
      BY <1>3, <2>2, <3>1 DEF LedgerHolds, SameAccounts
  <2> QED
    BY <2>1, <2>2
<1>5. UsageHolds(depth, f, g, completed)
  BY DEF SessionInv, UsageHolds, SameAccounts
<1>6. CarveHolds(depth, f, g)
  BY DEF SessionInv, CarveHolds, SameAccounts
<1>7. depth \in {0, 1} /\ completed \in Nat /\ sessionCalls \in Nat
  BY DEF SessionInv
<1> QED
  BY <1>1, <1>2, <1>4, <1>5, <1>6, <1>7 DEF SessionInv

(* The same for a step of the running frame alone. *)
LEMMA FrameMoves ==
  ASSUME SessionInv, NEW f, FrameOK(f, now'), SameAccounts(Session!Cur, f), Session!Set(f),
         depth' = depth, now' \in 0 .. MaxNow, now <= now', beat' \in Nat,
         UNCHANGED <<sessionEntries, sessionCalls, unrecorded, completed>>,
         \/ sessionEvents' = sessionEvents
         \/ depth = 0 /\ sessionEvents' = sessionEvents + 1,
         \/ delivers' = delivers
         \/ depth = 0 /\ f.pc = "done" /\ delivers' = 1
         \/ depth = 1 /\ delivers' = delivers + (1 - depth),
         Session!Cur.pc # "done"
  PROVE  SessionInv'
<1>0. now \in Nat /\ now' \in Nat /\ depth \in {0, 1} /\ FrameOK(fr[0], now) /\ FrameOK(fr[1], now)
      /\ fr \in [0 .. 1 -> FrameRec] /\ DeliversHolds(depth, fr[0], delivers)
  BY DEF SessionInv
<1>1. FrameOK(fr[0], now') /\ FrameOK(fr[1], now')
  BY <1>0, LaterOK
<1>2. SameAccounts(fr[0], fr[0]) /\ SameAccounts(fr[1], fr[1])
  BY DEF SameAccounts
<1>3. CASE depth = 0
  <2>1. fr' \in [0 .. 1 -> FrameRec] /\ fr'[0] = f /\ fr'[1] = fr[1]
    <3>1. fr' = [fr EXCEPT ![0] = f]
      BY <1>3 DEF Session!Set
    <3> QED
      BY <1>0, <3>1 DEF FrameOK
  <2>2. DeliversHolds(depth, f, delivers')
    BY <1>0, <1>3 DEF DeliversHolds, Session!Cur
  <2> QED
    BY <1>1, <1>2, <1>3, <2>1, <2>2, FramesMove DEF Session!Cur
<1>4. CASE depth = 1
  <2>1. fr' \in [0 .. 1 -> FrameRec] /\ fr'[0] = fr[0] /\ fr'[1] = f
    <3>1. fr' = [fr EXCEPT ![1] = f]
      BY <1>4 DEF Session!Set
    <3> QED
      BY <1>0, <3>1 DEF FrameOK
  <2>2. DeliversHolds(depth, fr[0], delivers')
    BY <1>0, <1>4 DEF DeliversHolds
  <2> QED
    BY <1>1, <1>2, <1>4, <2>1, <2>2, FramesMove DEF Session!Cur
<1> QED
  BY <1>0, <1>3, <1>4

LEMMA CurFacts ==
  ASSUME SessionInv
  PROVE  /\ depth \in {0, 1} /\ Session!Cur = fr[depth] /\ FrameOK(Session!Cur, now) /\ Session!Cur \in FrameRec
         /\ now \in Nat /\ now \in 0 .. MaxNow /\ beat \in Nat /\ sessionEvents \in Nat
BY DEF SessionInv, Session!Cur, FrameOK

LEMMA TurnKeeps ==
  ASSUME Session!WorkerAssumption, SessionInv, Session!TurnRefused \/ Session!BeginTurn
  PROVE  SessionInv'
<1>0. /\ Session!Cur \in FrameRec /\ FrameOK(Session!Cur, now) /\ now \in Nat /\ now \in 0 .. MaxNow
      /\ beat \in Nat /\ depth \in {0, 1}
  BY CurFacts
<1>1. CASE Session!TurnRefused
  <2> DEFINE class == Session!TurnCheck(Session!Cur)
             f == Session!AfterFailure(Session!Cur, class, now)
  <2>1. class \in Session!FailureClass
    BY <1>1 DEF Session!TurnRefused, Session!TurnCheck, Session!FailureClass
  <2>2. FrameOK(f, now) /\ SameAccounts(Session!Cur, f)
    BY <1>0, <2>1, AfterFailureOK
  <2>3. /\ Session!Set(f) /\ Session!Cur.pc # "done"
        /\ UNCHANGED <<depth, now, beat, sessionEvents, sessionEntries, sessionCalls, unrecorded, completed, delivers>>
    BY <1>1 DEF Session!TurnRefused
  <2> HIDE DEF f
  <2>4. FrameOK(f, now') /\ now' \in 0 .. MaxNow /\ now <= now' /\ beat' \in Nat
    BY <1>0, <2>2, <2>3
  <2> QED
    BY <2>2, <2>3, <2>4, FrameMoves
<1>2. CASE Session!BeginTurn
  <2> DEFINE n == Session!Cur.turns + 1
             pc == "call"
             f == [Session!Cur EXCEPT !.pc = pc, !.turns = n, !.retries = 0, !.turn_at = now]
  <2>1. /\ Session!Set(f) /\ Session!Cur.pc = "turn" /\ Session!TurnCheck(Session!Cur) = "none"
        /\ beat' = beat + 1
        /\ UNCHANGED <<depth, now, sessionEvents, sessionEntries, sessionCalls, unrecorded, completed, delivers>>
    BY <1>2 DEF Session!BeginTurn, Session!EmitBeat
  <2>2. ~(Session!Cur.turns >= Session!Cur.max_turns)
    BY <2>1 DEF Session!TurnCheck
  <2>3. Session!Cur.turns \in Nat /\ Session!Cur.max_turns \in Nat
    BY <1>0 DEF FrameRec
  <2>4. n \in Nat /\ n <= Session!Cur.max_turns /\ pc \in Session!Pcs
    BY <2>2, <2>3 DEF Session!Pcs
  <2> HIDE DEF n, pc
  <2>5. /\ f \in FrameRec /\ f.turns = n /\ f.max_turns = Session!Cur.max_turns
        /\ f.attempts = Session!Cur.attempts /\ f.replans = Session!Cur.replans
        /\ f.max_attempts = Session!Cur.max_attempts /\ f.max_replans = Session!Cur.max_replans
        /\ f.shapes = Session!Cur.shapes /\ f.turn_at = now /\ SameAccounts(Session!Cur, f)
    BY <1>0, <2>4 DEF FrameRec, SameAccounts
  <2> HIDE DEF f
  <2>6. FrameOK(f, now)
    BY <1>0, <2>4, <2>5 DEF FrameOK, Session!Allowed
  <2>7. FrameOK(f, now') /\ now' \in 0 .. MaxNow /\ now <= now' /\ beat' \in Nat /\ Session!Cur.pc # "done"
    BY <1>0, <2>1, <2>6
  <2> QED
    BY <2>1, <2>5, <2>7, FrameMoves
<1> QED
  BY <1>1, <1>2

(* A request: one more entry, under an identity that no entry has yet. *)
LEMMA CallMoves ==
  ASSUME Session!WorkerAssumption, SessionInv, NEW g, NEW k \in {0, 1}, FrameOK(g, now'),
         Session!Cur.pc # "done",
         g.session = Session!Cur.session, g.recorded = Session!Cur.recorded + 1,
         g.usage = Session!Cur.usage + k, g.limit = Session!Cur.limit, g.started = Session!Cur.started,
         k = 0 => g.cap_exceeded = Session!Cur.cap_exceeded,
         k = 1 => (g.cap_exceeded <=> (Session!Cur.cap_exceeded \/ g.usage > soft_cap)),
         Session!Set(g), Session!RecordCallCost, completed' = completed + k,
         UNCHANGED <<depth, beat, sessionEvents, delivers>>,
         now' \in 0 .. MaxNow, now <= now'
  PROVE  SessionInv'
<1> DEFINE n == Session!Cur.recorded + 1
           s == Session!Cur.session
           x == <<s, n>>
<1>0. /\ now \in Nat /\ now' \in Nat /\ depth \in {0, 1} /\ FrameOK(fr[0], now) /\ FrameOK(fr[1], now)
      /\ fr \in [0 .. 1 -> FrameRec] /\ Session!Cur \in FrameRec /\ Session!Cur = fr[depth]
      /\ sessionEvents \in Nat /\ sessionCalls \in Nat /\ completed \in Nat /\ beat \in Nat
  BY CurFacts DEF SessionInv
<1>1. FrameOK(fr[0], now') /\ FrameOK(fr[1], now')
  BY <1>0, LaterOK
<1>2. fr[0] \in FrameRec /\ fr[1] \in FrameRec /\ g \in FrameRec
  BY <1>0 DEF FrameOK
<1>3. /\ fr[0].recorded \in Nat /\ fr[1].recorded \in Nat /\ fr[0].usage \in Nat /\ fr[1].usage \in Nat
      /\ s \in Nat /\ Session!Cur.recorded \in Nat /\ g.usage \in Nat /\ g.recorded \in Nat
  BY <1>0, <1>2 DEF FrameRec
<1>4. n \in Nat /\ n > Session!Cur.recorded /\ g.recorded = n
  BY <1>3
<1>5. LedgerHolds(depth, fr[0], fr[1], sessionEvents, sessionEntries, sessionCalls, unrecorded)
  BY DEF SessionInv
<1>6. (depth = 0 => s = 0) /\ (depth = 1 => s = sessionEvents + 1)
  BY <1>0, <1>5 DEF LedgerHolds
<1>7. /\ sessionCalls' = sessionCalls + 1
      /\ \/ sessionEntries' = sessionEntries \cup {x} /\ unrecorded' = unrecorded
         \/ sessionEntries' = sessionEntries /\ unrecorded' = unrecorded + 1
  BY DEF Session!RecordCallCost
<1> HIDE DEF n
<1>8. x \notin sessionEntries
  <2>1. SUFFICES ASSUME x \in sessionEntries PROVE FALSE
    OBVIOUS
  <2>2. /\ x[1] = 0 => x[2] <= fr[0].recorded
        /\ x[1] = sessionEvents + 1 => depth = 1 /\ x[2] <= fr[1].recorded
    BY <1>5, <2>1 DEF LedgerHolds
  <2>3. x[1] = s /\ x[2] = n
    OBVIOUS
  <2>4. CASE depth = 0
    BY <1>0, <1>3, <1>4, <1>6, <2>2, <2>3, <2>4
  <2>5. CASE depth = 1
    BY <1>0, <1>3, <1>4, <1>6, <2>2, <2>3, <2>5
  <2> QED
    BY <1>0, <2>4, <2>5
<1>9. /\ sessionEntries' \subseteq Nat \X Nat /\ IsFiniteSet(sessionEntries')
      /\ unrecorded' \in Nat /\ Cardinality(sessionEntries') + unrecorded' = sessionCalls'
  <2>1. /\ IsFiniteSet(sessionEntries) /\ sessionEntries \subseteq Nat \X Nat
        /\ unrecorded \in Nat /\ Cardinality(sessionEntries) + unrecorded = sessionCalls
    BY <1>5 DEF LedgerHolds
  <2>2. x \in Nat \X Nat
    BY <1>3, <1>4
  <2>3. /\ IsFiniteSet(sessionEntries \cup {x})
        /\ Cardinality(sessionEntries \cup {x}) = Cardinality(sessionEntries) + 1
    BY <1>8, <2>1, FS_AddElement
  <2>4. PICK c \in Nat : c = Cardinality(sessionEntries)
    BY <2>1, FS_CardinalityType
  <2>5. CASE sessionEntries' = sessionEntries \cup {x} /\ unrecorded' = unrecorded
    <3>1. Cardinality(sessionEntries') = c + 1
      BY <2>3, <2>4, <2>5
    <3>2. PICK d \in Nat : d = Cardinality(sessionEntries')
      BY <3>1
    <3>3. d + unrecorded' = sessionCalls'
      BY <1>0, <1>7, <2>1, <2>4, <2>5, <3>1, <3>2
    <3> QED
      BY <2>1, <2>2, <2>3, <2>5, <3>2, <3>3
  <2>6. CASE sessionEntries' = sessionEntries /\ unrecorded' = unrecorded + 1
    BY <1>0, <1>7, <2>1, <2>4, <2>6
  <2> QED
    BY <1>7, <2>5, <2>6
<1>10. ASSUME NEW f0, NEW f1, depth = 0 => f0 = g /\ f1 = fr[1], depth = 1 => f0 = fr[0] /\ f1 = g
       PROVE  /\ LedgerHolds(depth, f0, f1, sessionEvents, sessionEntries', sessionCalls', unrecorded')
              /\ UsageHolds(depth, f0, f1, completed') /\ CarveHolds(depth, f0, f1)
              /\ DeliversHolds(depth, f0, delivers)
  <2>1. ASSUME NEW e \in sessionEntries'
        PROVE  /\ e[1] <= sessionEvents + 1
               /\ e[1] = 0 => e[2] <= f0.recorded
               /\ e[1] = sessionEvents + 1 => depth = 1 /\ e[2] <= f1.recorded
    <3>1. CASE e \in sessionEntries
      <4>1. /\ e[1] <= sessionEvents + 1
            /\ e[1] = 0 => e[2] <= fr[0].recorded
            /\ e[1] = sessionEvents + 1 => depth = 1 /\ e[2] <= fr[1].recorded
            /\ e[1] \in Nat /\ e[2] \in Nat
        BY <1>5, <3>1 DEF LedgerHolds
      <4>2. CASE depth = 0
        BY <1>0, <1>3, <1>4, <1>10, <4>1, <4>2
      <4>3. CASE depth = 1
        BY <1>0, <1>3, <1>4, <1>10, <4>1, <4>3
      <4> QED
        BY <1>0, <4>2, <4>3
    <3>2. CASE e = x
      <4>1. e[1] = s /\ e[2] = n
        BY <3>2
      <4>2. CASE depth = 0
        BY <1>0, <1>4, <1>6, <1>10, <4>1, <4>2
      <4>3. CASE depth = 1
        BY <1>0, <1>4, <1>6, <1>10, <4>1, <4>3
      <4> QED
        BY <1>0, <4>2, <4>3
    <3> QED
      BY <1>7, <3>1, <3>2
  <2>2. f0.session = 0 /\ (depth = 1 => f1.session = sessionEvents + 1)
    BY <1>0, <1>5, <1>6, <1>10 DEF LedgerHolds
  <2>3. LedgerHolds(depth, f0, f1, sessionEvents, sessionEntries', sessionCalls', unrecorded')
    BY <1>9, <2>1, <2>2 DEF LedgerHolds
  <2>4. UsageHolds(depth, fr[0], fr[1], completed) /\ soft_cap \in Nat
    BY SessionConstants DEF SessionInv
  <2>5. UsageHolds(depth, f0, f1, completed')
    <3>1. CASE depth = 0
      <4>1. f0 = g /\ fr[0].usage = completed /\ Session!Cur = fr[0]
        BY <1>0, <1>10, <2>4, <3>1 DEF UsageHolds
      <4>2. f0.usage = completed + k
        BY <4>1
      <4>3. fr[0].cap_exceeded <=> fr[0].usage > soft_cap
        BY <2>4 DEF UsageHolds
      <4>4. f0.cap_exceeded <=> f0.usage > soft_cap
        BY <1>3, <2>4, <4>1, <4>2, <4>3
      <4> QED
        BY <3>1, <4>2, <4>4 DEF UsageHolds
    <3>2. CASE depth = 1
      <4>1. f0 = fr[0] /\ f1 = g /\ fr[0].usage + fr[1].usage = completed /\ Session!Cur = fr[1]
        BY <1>0, <1>10, <2>4, <3>2 DEF UsageHolds
      <4>2. f0.usage + f1.usage = completed + k
        BY <1>0, <1>3, <4>1
      <4> QED
        BY <2>4, <3>2, <4>1, <4>2 DEF UsageHolds
    <3> QED
      BY <1>0, <3>1, <3>2
  <2>6. CarveHolds(depth, f0, f1)
    BY <1>0, <1>10 DEF SessionInv, CarveHolds
  <2>7. DeliversHolds(depth, f0, delivers)
    BY <1>0, <1>10 DEF SessionInv, DeliversHolds
  <2> QED
    BY <2>3, <2>5, <2>6, <2>7
<1>11. completed' \in Nat /\ sessionCalls' \in Nat
  BY <1>0, <1>7
<1>12. CASE depth = 0
  <2>1. fr' = [fr EXCEPT ![0] = g]
    BY <1>12 DEF Session!Set
  <2>2. fr' \in [0 .. 1 -> FrameRec] /\ fr'[0] = g /\ fr'[1] = fr[1]
    BY <1>0, <1>2, <2>1
  <2> QED
    BY <1>0, <1>1, <1>10, <1>11, <1>12, <2>2 DEF SessionInv
<1>13. CASE depth = 1
  <2>1. fr' = [fr EXCEPT ![1] = g]
    BY <1>13 DEF Session!Set
  <2>2. fr' \in [0 .. 1 -> FrameRec] /\ fr'[1] = g /\ fr'[0] = fr[0]
    BY <1>0, <1>2, <2>1
  <2> QED
    BY <1>0, <1>1, <1>10, <1>11, <1>13, <2>2 DEF SessionInv
<1> QED
  BY <1>0, <1>12, <1>13

(* The clock within its bound. *)
LEMMA ClockElapses ==
  ASSUME SessionInv, Session!WorkerAssumption, NEW d \in 0 .. 1, Session!Elapses(d)
  PROVE  now' = now + d /\ now' \in 0 .. MaxNow /\ now <= now' /\ now' \in Nat
BY CurFacts, SessionConstants DEF Session!Elapses

(* The frame as a request leaves it before its answer is looked at. *)
Retried(f, retries, n) == [f EXCEPT !.retries = retries, !.recorded = n]
Recorded(f, n) == [f EXCEPT !.recorded = n]

LEMMA RecordedOK ==
  ASSUME NEW t \in Nat, NEW f, FrameOK(f, t), NEW n \in Nat, NEW retries \in Nat,
         NEW g, g \in {Retried(f, retries, n), Recorded(f, n)}
  PROVE  /\ FrameOK(g, t) /\ g.session = f.session /\ g.recorded = n /\ g.usage = f.usage
         /\ g.limit = f.limit /\ g.started = f.started /\ g.cap_exceeded = f.cap_exceeded
<1>0. f \in FrameRec
  BY DEF FrameOK
<1>1. /\ g \in FrameRec /\ g.attempts = f.attempts /\ g.replans = f.replans /\ g.turns = f.turns
      /\ g.max_attempts = f.max_attempts /\ g.max_replans = f.max_replans
      /\ g.max_turns = f.max_turns /\ g.shapes = f.shapes /\ g.turn_at = f.turn_at
  <2>1. CASE g = Retried(f, retries, n)
    BY <1>0, <2>1 DEF FrameRec, Retried, Recorded
  <2>2. CASE g = Recorded(f, n)
    BY <1>0, <2>2 DEF FrameRec, Retried, Recorded
  <2> QED
    BY <2>1, <2>2
<1>2. /\ g.session = f.session /\ g.recorded = n /\ g.usage = f.usage
      /\ g.limit = f.limit /\ g.started = f.started /\ g.cap_exceeded = f.cap_exceeded
  BY <1>0 DEF FrameRec, Retried, Recorded
<1>3. FrameOK(g, t)
  BY <1>1 DEF FrameOK, Session!Allowed
<1> QED
  BY <1>2, <1>3

LEMMA CallKeeps ==
  ASSUME Session!WorkerAssumption, SessionInv,
         Session!CallCompletes \/ Session!CallRetried \/ Session!CallFails
  PROVE  SessionInv'
<1> DEFINE cur == Session!Cur
           n == cur.recorded + 1
<1>0. cur \in FrameRec /\ FrameOK(cur, now) /\ now \in Nat /\ now \in 0 .. MaxNow
  BY CurFacts
<1>1. cur.recorded \in Nat /\ cur.usage \in Nat /\ cur.retries \in Nat /\ cur.cap_exceeded \in BOOLEAN
  BY <1>0 DEF FrameRec
<1>2. n \in Nat
  BY <1>1
<1>3. CASE Session!CallCompletes
  <2> DEFINE u == cur.usage + 1
             cap == cur.cap_exceeded \/ u > soft_cap
             pc == "act"
             g == [cur EXCEPT !.usage = u, !.cap_exceeded = cap, !.pc = pc, !.recorded = n, !.retries = 0]
  <2>1. PICK d \in 0 .. 1 : Session!Elapses(d)
    BY <1>3 DEF Session!CallCompletes
  <2>2. now' \in 0 .. MaxNow /\ now <= now' /\ now' \in Nat
    BY <2>1, ClockElapses
  <2>3. u \in Nat /\ cap \in BOOLEAN /\ pc \in Session!Pcs
    BY <1>1 DEF Session!Pcs
  <2>4. Session!Set([Session!Accrue(cur, 1) EXCEPT !.pc = "act", !.recorded = n, !.retries = 0])
    BY <1>3 DEF Session!CallCompletes
  <2>5. Session!Accrue(cur, 1) = [cur EXCEPT !.usage = u, !.cap_exceeded = cap]
    BY DEF Session!Accrue
  <2>6. u = cur.usage + 1 /\ (cap <=> (cur.cap_exceeded \/ u > soft_cap))
    OBVIOUS
  <2>7. cur.pc # "done"
    BY <1>3 DEF Session!CallCompletes
  <2> HIDE DEF u, cap, n, cur
  <2>8. [Session!Accrue(cur, 1) EXCEPT !.pc = "act", !.recorded = n, !.retries = 0] = g
    BY <1>0, <2>5 DEF FrameRec
  <2> HIDE DEF pc
  <2>9. /\ g \in FrameRec /\ g.attempts = cur.attempts /\ g.replans = cur.replans /\ g.turns = cur.turns
        /\ g.max_attempts = cur.max_attempts /\ g.max_replans = cur.max_replans
        /\ g.max_turns = cur.max_turns /\ g.shapes = cur.shapes /\ g.turn_at = cur.turn_at
    BY <1>0, <1>2, <2>3 DEF FrameRec
  <2>10. /\ g.session = cur.session /\ g.recorded = n /\ g.usage = u
         /\ g.limit = cur.limit /\ g.started = cur.started /\ g.cap_exceeded = cap
    BY <1>0 DEF FrameRec
  <2> HIDE DEF g
  <2>11. FrameOK(g, now)
    BY <1>0, <2>9 DEF FrameOK, Session!Allowed
  <2>12. FrameOK(g, now')
    BY <1>0, <2>2, <2>11, LaterOK
  <2>13. /\ g.recorded = cur.recorded + 1 /\ g.usage = cur.usage + 1
         /\ (g.cap_exceeded <=> (cur.cap_exceeded \/ g.usage > soft_cap)) /\ Session!Set(g)
    BY <2>4, <2>6, <2>8, <2>10 DEF n
  <2>14. /\ Session!RecordCallCost /\ completed' = completed + 1
         /\ UNCHANGED <<depth, beat, sessionEvents, delivers>>
    BY <1>3 DEF Session!CallCompletes
  <2> QED
    BY <2>2, <2>7, <2>10, <2>12, <2>13, <2>14, CallMoves DEF cur
<1>4. CASE Session!CallRetried
  <2> DEFINE r == cur.retries + 1
             g == [cur EXCEPT !.retries = r, !.recorded = n]
  <2>1. r \in Nat
    BY <1>1
  <2>2. /\ Session!Set(g) /\ Session!RecordCallCost /\ cur.pc # "done" /\ Session!Elapses(1)
        /\ UNCHANGED <<depth, beat, sessionEvents, completed, delivers>>
    BY <1>4 DEF Session!CallRetried
  <2>3. now' \in 0 .. MaxNow /\ now <= now' /\ now' \in Nat
    BY <2>2, ClockElapses
  <2> HIDE DEF r, cur, n
  <2>7. g = Retried(cur, r, n)
    BY DEF Retried
  <2> HIDE DEF g
  <2>4. /\ FrameOK(g, now) /\ g.session = cur.session /\ g.recorded = n /\ g.usage = cur.usage
        /\ g.limit = cur.limit /\ g.started = cur.started /\ g.cap_exceeded = cur.cap_exceeded
    BY <1>0, <1>2, <2>1, <2>7, RecordedOK
  <2>5. FrameOK(g, now')
    BY <1>0, <2>3, <2>4, LaterOK
  <2>6. g.recorded = cur.recorded + 1 /\ g.usage = cur.usage + 0 /\ completed' = completed + 0
    BY <1>1, <2>2, <2>4 DEF n, SessionInv
  <2> QED
    BY <2>2, <2>3, <2>4, <2>5, <2>6, CallMoves DEF cur
<1>5. CASE Session!CallFails
  <2> DEFINE h == [cur EXCEPT !.recorded = n]
             g == Session!AfterFailure(h, "ProviderError", now)
  <2>2. /\ Session!Set(g) /\ Session!RecordCallCost /\ cur.pc # "done"
        /\ UNCHANGED <<depth, now, beat, sessionEvents, completed, delivers>>
    BY <1>5 DEF Session!CallFails
  <2> HIDE DEF cur, n
  <2>8. h = Recorded(cur, n)
    BY DEF Recorded
  <2> HIDE DEF h
  <2>3. /\ FrameOK(h, now) /\ h.session = cur.session /\ h.recorded = n /\ h.usage = cur.usage
        /\ h.limit = cur.limit /\ h.started = cur.started /\ h.cap_exceeded = cur.cap_exceeded
    BY <1>0, <1>1, <1>2, <2>8, RecordedOK
  <2>4. FrameOK(g, now) /\ SameAccounts(h, g)
    BY <1>0, <2>3, AfterFailureOK DEF Session!FailureClass
  <2> HIDE DEF g
  <2>5. FrameOK(g, now') /\ now' \in 0 .. MaxNow /\ now <= now'
    BY <1>0, <2>2, <2>4
  <2>6. g.recorded = cur.recorded + 1 /\ g.usage = cur.usage + 0 /\ completed' = completed + 0
    BY <1>1, <2>2, <2>3, <2>4 DEF n, SessionInv, SameAccounts
  <2>7. /\ g.session = cur.session /\ g.limit = cur.limit /\ g.started = cur.started
        /\ g.cap_exceeded = cur.cap_exceeded
    BY <2>3, <2>4 DEF SameAccounts
  <2> QED
    BY <2>2, <2>5, <2>6, <2>7, CallMoves DEF cur
<1> QED
  BY <1>3, <1>4, <1>5

(* The replies that stay within the running frame. *)
LEMMA RejectedKeeps ==
  ASSUME Session!WorkerAssumption, SessionInv, Session!Cur.pc = "act", NEW reply,
         UNCHANGED <<sessionEntries, sessionCalls, unrecorded, completed>>,
         Session!Rejected(reply) \/ Session!Finish(reply)
  PROVE  SessionInv'
<1> DEFINE cur == Session!Cur
           pc == "turn"
           end == "done"
           n == cur.format_errors + 1
           f == [cur EXCEPT !.pc = pc]
           g == [cur EXCEPT !.format_errors = n, !.pc = pc]
           h == [cur EXCEPT !.format_errors = n]
           e == [cur EXCEPT !.pc = end]
<1>0. /\ cur \in FrameRec /\ FrameOK(cur, now) /\ now \in Nat /\ now \in 0 .. MaxNow /\ depth \in {0, 1}
      /\ beat \in Nat
  BY CurFacts
<1>1. cur.format_errors \in Nat
  BY <1>0 DEF FrameRec
<1>2. n \in Nat /\ pc \in Session!Pcs /\ end \in Session!Pcs
  BY <1>1 DEF Session!Pcs
<1>3. /\ FrameOK(f, now) /\ SameAccounts(cur, f) /\ FrameOK(g, now) /\ SameAccounts(cur, g)
      /\ FrameOK(h, now) /\ SameAccounts(cur, h) /\ FrameOK(e, now) /\ SameAccounts(cur, e) /\ e.pc = "done"
  <2>0. end = "done"
    OBVIOUS
  <2> HIDE DEF n, pc, cur, end
  <2>1. f \in FrameRec /\ g \in FrameRec /\ h \in FrameRec /\ e \in FrameRec
    BY <1>0, <1>2 DEF FrameRec
  <2>2. FrameOK(f, now) /\ SameAccounts(cur, f)
    BY <1>0, <2>1 DEF FrameRec, SameAccounts, FrameOK, Session!Allowed
  <2>3. FrameOK(g, now) /\ SameAccounts(cur, g)
    BY <1>0, <2>1 DEF FrameRec, SameAccounts, FrameOK, Session!Allowed
  <2>4. FrameOK(h, now) /\ SameAccounts(cur, h)
    BY <1>0, <2>1 DEF FrameRec, SameAccounts, FrameOK, Session!Allowed
  <2>5. FrameOK(e, now) /\ SameAccounts(cur, e)
    BY <1>0, <2>1 DEF FrameRec, SameAccounts, FrameOK, Session!Allowed
  <2>6. e.pc = "done"
    BY <1>0, <2>0 DEF FrameRec
  <2> QED
    BY <2>2, <2>3, <2>4, <2>5, <2>6
<1>4. ASSUME NEW x, FrameOK(x, now), SameAccounts(cur, x), Session!Set(x),
             UNCHANGED <<depth, now, beat, sessionEvents>>,
             \/ delivers' = delivers
             \/ depth = 0 /\ x.pc = "done" /\ delivers' = 1
             \/ depth = 1 /\ delivers' = delivers + (1 - depth)
      PROVE  SessionInv'
  <2>1. FrameOK(x, now') /\ now' \in 0 .. MaxNow /\ now <= now' /\ beat' \in Nat
    BY <1>0, <1>4
  <2> QED
    BY <1>4, <2>1, FrameMoves
<1>5. ASSUME NEW y, FrameOK(y, now), SameAccounts(cur, y), NEW class \in Session!FailureClass
      PROVE  /\ FrameOK(Session!AfterFailure(y, class, now), now)
             /\ SameAccounts(cur, Session!AfterFailure(y, class, now))
             /\ class \in Session!Fatal => Session!AfterFailure(y, class, now).pc = "done"
  <2>1. /\ FrameOK(Session!AfterFailure(y, class, now), now)
        /\ SameAccounts(y, Session!AfterFailure(y, class, now))
        /\ class \in Session!Fatal => Session!AfterFailure(y, class, now).pc = "done"
    BY <1>0, <1>5, AfterFailureOK
  <2> QED
    BY <1>5, <2>1 DEF SameAccounts
<1>6. "FormatErrorsExhausted" \in Session!FailureClass /\ "TaskNotCompleted" \in Session!FailureClass
      /\ "DeliveryFailed" \in Session!FailureClass /\ "DeliveryFailed" \in Session!Fatal
  BY DEF Session!FailureClass, Session!Fatal
<1>7. SameAccounts(cur, cur)
  BY DEF SameAccounts
<1>8. CASE Session!Rejected(reply)
  <2>1. UNCHANGED <<depth, now, beat, sessionEvents, delivers>>
        /\ (Session!Set(f) \/ Session!Set(g) \/ Session!Set(Session!AfterFailure(h, "FormatErrorsExhausted", now)))
    BY <1>8 DEF Session!Rejected
  <2> HIDE DEF f, g, h, e, cur
  <2> QED
    BY <1>3, <1>4, <1>5, <1>6, <2>1
<1>9. CASE Session!Finish(reply)
  <2>0. DeliversHolds(depth, fr[0], delivers) /\ (depth = 0 => fr[0].pc = "act")
    BY CurFacts DEF SessionInv
  <2>1. CASE Session!Set(Session!AfterFailure(cur, "TaskNotCompleted", now))
             /\ UNCHANGED <<depth, now, beat, sessionEvents, delivers>>
    BY <1>0, <1>4, <1>5, <1>6, <1>7, <2>1
  <2>2. CASE /\ Session!Set(e) \/ (depth = 0 /\ Session!Set(Session!AfterFailure(cur, "DeliveryFailed", now)))
             /\ delivers' = delivers + (1 - depth) /\ UNCHANGED <<depth, now, beat, sessionEvents>>
    <3>1. depth = 0 => delivers' = 1
      BY <2>0, <2>2 DEF DeliversHolds
    <3> DEFINE x == Session!AfterFailure(cur, "DeliveryFailed", now)
    <3>2. FrameOK(x, now) /\ SameAccounts(cur, x) /\ x.pc = "done"
      BY <1>0, <1>5, <1>6, <1>7
    <3> HIDE DEF x, e, cur
    <3>3. Session!Set(e) \/ (depth = 0 /\ Session!Set(x))
      BY <2>2 DEF x
    <3> QED
      BY <1>0, <1>3, <1>4, <2>2, <3>1, <3>2, <3>3
  <2>3. \/ Session!Set(Session!AfterFailure(cur, "TaskNotCompleted", now))
           /\ UNCHANGED <<depth, now, beat, sessionEvents, delivers>>
        \/ /\ Session!Set(e) \/ (depth = 0 /\ Session!Set(Session!AfterFailure(cur, "DeliveryFailed", now)))
           /\ delivers' = delivers + (1 - depth) /\ UNCHANGED <<depth, now, beat, sessionEvents>>
    BY <1>0, <1>9 DEF Session!Finish
  <2> QED
    BY <2>1, <2>2, <2>3
<1> QED
  BY <1>8, <1>9

Exits == {"Ok", "NonZero", "None"}

LEMMA DispatchType ==
  ASSUME NEW tool, NEW o \in Session!Dispatch(tool)
  PROVE  o.exit \in Exits /\ o.touched \in BOOLEAN /\ o.refused \in BOOLEAN
<1>1. o \in {Session!Refusal} \cup Session!ReadFile \cup Session!Search \cup Session!WriteFile \cup Session!Bash
             \cup Session!Think
  BY DEF Session!Dispatch
<1>2. \E e \in Exits, t \in BOOLEAN, r \in BOOLEAN : o = Session!Outcome(e, t, r)
  <2>1. "Ok" \in Exits /\ "NonZero" \in Exits /\ "None" \in Exits
    BY DEF Exits
  <2> QED
    BY <1>1, <2>1 DEF Session!ReadFile, Session!Search, Session!WriteFile, Session!Bash, Session!Think,
       Session!Confined, Session!Refusal
<1> QED
  BY <1>2 DEF Session!Outcome

(* The churn window is never longer than configured. *)
LEMMA LastOfOK ==
  ASSUME NEW s \in Seq(Shapes), NEW n \in Nat
  PROVE  Session!LastOf(s, n) \in Seq(Shapes) /\ Len(Session!LastOf(s, n)) <= n
<1>1. CASE Len(s) <= n
  BY <1>1 DEF Session!LastOf
<1>2. CASE ~(Len(s) <= n)
  <2> DEFINE m == Len(s) - n + 1
  <2>1. Len(s) \in Nat /\ m \in 1 .. Len(s) + 1 /\ Len(s) \in 0 .. Len(s) /\ Len(s) - m + 1 = n
    BY <1>2
  <2>2. Session!LastOf(s, n) = SubSeq(s, m, Len(s))
    BY <1>2 DEF Session!LastOf
  <2> HIDE DEF m
  <2>3. SubSeq(s, m, Len(s)) \in Seq(Shapes)
    BY <2>1
  <2>4. Len(SubSeq(s, m, Len(s))) = IF m <= Len(s) THEN Len(s) - m + 1 ELSE 0
    BY <2>1
  <2> QED
    BY <2>1, <2>2, <2>3, <2>4
<1> QED
  BY <1>1, <1>2

(* A frame that goes on to its next turn, with new guard readings. *)
Guarded(f, polled, t, shapes, streak, changed) ==
  [f EXCEPT !.pc = "turn", !.polled = polled, !.progress_at = t, !.format_errors = 0,
            !.shapes = shapes, !.streak = streak, !.changed = changed]

LEMMA GuardedOK ==
  ASSUME NEW t \in Nat, NEW f, FrameOK(f, t), NEW polled \in Nat, NEW shapes \in Seq(Shapes),
         Len(shapes) <= tool_repeat_window, NEW streak \in Nat, NEW changed \in BOOLEAN
  PROVE  /\ FrameOK(Guarded(f, polled, t, shapes, streak, changed), t)
         /\ SameAccounts(f, Guarded(f, polled, t, shapes, streak, changed))
<1> DEFINE pc == "turn"
           g == [f EXCEPT !.pc = pc, !.polled = polled, !.progress_at = t, !.format_errors = 0,
                          !.shapes = shapes, !.streak = streak, !.changed = changed]
<1>0. f \in FrameRec
  BY DEF FrameOK
<1>1. pc \in Session!Pcs
  BY DEF Session!Pcs
<1>2. g = Guarded(f, polled, t, shapes, streak, changed)
  BY DEF Guarded
<1> HIDE DEF pc
<1>3. g \in FrameRec
  BY <1>0, <1>1 DEF FrameRec
<1>4. /\ g.attempts = f.attempts /\ g.replans = f.replans /\ g.turns = f.turns
      /\ g.max_attempts = f.max_attempts /\ g.max_replans = f.max_replans
      /\ g.max_turns = f.max_turns /\ g.shapes = shapes /\ g.turn_at = f.turn_at
      /\ SameAccounts(f, g)
  BY <1>0 DEF FrameRec, SameAccounts
<1> HIDE DEF g
<1>5. FrameOK(g, t)
  BY <1>3, <1>4 DEF FrameOK, Session!Allowed
<1> QED
  BY <1>2, <1>4, <1>5

(* A failure of a frame that is itself only a new reading of the guards. *)
LEMMA FailedOK ==
  ASSUME Session!WorkerAssumption, NEW t \in Nat, NEW f, NEW g, FrameOK(g, t), SameAccounts(f, g),
         NEW class \in Session!FailureClass
  PROVE  FrameOK(Session!AfterFailure(g, class, t), t) /\ SameAccounts(f, Session!AfterFailure(g, class, t))
<1>1. FrameOK(Session!AfterFailure(g, class, t), t) /\ SameAccounts(g, Session!AfterFailure(g, class, t))
  BY AfterFailureOK
<1> QED
  BY <1>1 DEF SameAccounts

LEMMA AfterToolOK ==
  ASSUME Session!WorkerAssumption, SessionInv, NEW t \in Nat, NEW f, FrameOK(f, t), NEW tool \in Session!Tools,
         NEW poll \in BOOLEAN, NEW o, o.exit \in Exits, o.touched \in BOOLEAN, o.refused \in BOOLEAN
  PROVE  /\ FrameOK(Session!AfterTool(f, tool, poll, o, t), t)
         /\ SameAccounts(f, Session!AfterTool(f, tool, poll, o, t))
<1> DEFINE polled == f.polled + (t - f.turn_at)
           kept == IF poll THEN polled ELSE f.polled
           shape == Session!Shape(tool, o.exit)
           shapes == Session!LastOf(Append(f.shapes, shape), tool_repeat_window)
           streak == IF f.changed \/ o.touched THEN 1 ELSE f.streak + 1
           g == [f EXCEPT !.pc = "turn", !.polled = kept, !.progress_at = t, !.format_errors = 0]
           h == [g EXCEPT !.shapes = shapes, !.streak = streak, !.changed = FALSE]
<1>0. f \in FrameRec /\ f.turn_at <= t /\ Len(f.shapes) <= tool_repeat_window
  BY DEF FrameOK
<1>1. f.polled \in Nat /\ f.turn_at \in Nat /\ f.streak \in Nat /\ f.shapes \in Seq(Shapes) /\ f.changed \in BOOLEAN
  BY <1>0 DEF FrameRec
<1>2. polled \in Nat /\ streak \in Nat /\ kept \in Nat
  BY <1>0, <1>1
<1>3. shape \in Shapes
  <2>1. Session!Cur.turns \in Nat
    BY CurFacts DEF FrameRec
  <2> QED
    BY <2>1 DEF Session!Shape, Shapes, Exits
<1>4. Append(f.shapes, shape) \in Seq(Shapes) /\ tool_repeat_window \in Nat
  BY <1>1, <1>3, SessionConstants
<1>5. shapes \in Seq(Shapes) /\ Len(shapes) <= tool_repeat_window
  BY <1>4, LastOfOK
<1>6. Session!AfterTool(f, tool, poll, o, t) =
        IF poll /\ Session!PollExceeded(polled) THEN Session!AfterFailure(f, "PollBudgetExhausted", t)
        ELSE IF o.refused THEN Session!AfterFailure(g, "MediationRefused", t)
        ELSE IF Session!Churns(shapes) THEN Session!AfterFailure(h, "ToolLoopChurn", t)
        ELSE IF Session!Stuck(streak) THEN Session!AfterFailure(h, "NoProgress", t)
        ELSE h
  BY DEF Session!AfterTool
<1> HIDE DEF polled, shapes, streak, kept
<1>7. g = Guarded(f, kept, t, f.shapes, f.streak, f.changed) /\ h = Guarded(f, kept, t, shapes, streak, FALSE)
  BY <1>0 DEF Guarded, FrameRec
<1> HIDE DEF g, h
<1>8. FrameOK(g, t) /\ SameAccounts(f, g) /\ FrameOK(h, t) /\ SameAccounts(f, h) /\ SameAccounts(f, f)
  <2>1. FrameOK(g, t) /\ SameAccounts(f, g)
    BY <1>0, <1>1, <1>2, <1>7, GuardedOK
  <2>2. FrameOK(h, t) /\ SameAccounts(f, h)
    BY <1>2, <1>5, <1>7, GuardedOK
  <2> QED
    BY <2>1, <2>2 DEF SameAccounts
<1>9. {"PollBudgetExhausted", "MediationRefused", "ToolLoopChurn", "NoProgress"} \subseteq Session!FailureClass
  BY DEF Session!FailureClass
<1>10. /\ FrameOK(Session!AfterFailure(f, "PollBudgetExhausted", t), t)
       /\ SameAccounts(f, Session!AfterFailure(f, "PollBudgetExhausted", t))
  BY <1>8, <1>9, FailedOK
<1>11. /\ FrameOK(Session!AfterFailure(g, "MediationRefused", t), t)
       /\ SameAccounts(f, Session!AfterFailure(g, "MediationRefused", t))
  BY <1>8, <1>9, FailedOK
<1>12. /\ FrameOK(Session!AfterFailure(h, "ToolLoopChurn", t), t)
       /\ SameAccounts(f, Session!AfterFailure(h, "ToolLoopChurn", t))
  BY <1>8, <1>9, FailedOK
<1>13. /\ FrameOK(Session!AfterFailure(h, "NoProgress", t), t)
       /\ SameAccounts(f, Session!AfterFailure(h, "NoProgress", t))
  BY <1>8, <1>9, FailedOK
<1> QED
  BY <1>6, <1>8, <1>10, <1>11, <1>12, <1>13

(* A frame that only learns that the worktree changed. *)
LEMMA ChangedOK ==
  ASSUME NEW t \in Nat, NEW f, FrameOK(f, t), NEW c \in BOOLEAN
  PROVE  FrameOK([f EXCEPT !.changed = c], t) /\ SameAccounts(f, [f EXCEPT !.changed = c])
         /\ [f EXCEPT !.changed = c].pc = f.pc
<1> DEFINE g == [f EXCEPT !.changed = c]
<1>0. f \in FrameRec
  BY DEF FrameOK
<1>1. /\ g \in FrameRec /\ g.attempts = f.attempts /\ g.replans = f.replans /\ g.turns = f.turns
      /\ g.max_attempts = f.max_attempts /\ g.max_replans = f.max_replans
      /\ g.max_turns = f.max_turns /\ g.shapes = f.shapes /\ g.turn_at = f.turn_at
      /\ SameAccounts(f, g) /\ g.pc = f.pc
  BY <1>0 DEF FrameRec, SameAccounts
<1> HIDE DEF g
<1>2. FrameOK(g, t)
  BY <1>1 DEF FrameOK, Session!Allowed
<1> QED
  BY <1>1, <1>2 DEF g

LEMMA ResumedOK ==
  ASSUME NEW t \in Nat, NEW f, FrameOK(f, t), NEW touched \in BOOLEAN
  PROVE  FrameOK(Session!Resumed(f, t, touched), t) /\ SameAccounts(f, Session!Resumed(f, t, touched))
<1>1. /\ f \in FrameRec /\ Len(f.shapes) <= tool_repeat_window
  BY DEF FrameOK
<1>2. f.polled \in Nat /\ f.shapes \in Seq(Shapes) /\ f.streak \in Nat /\ f.changed \in BOOLEAN
  BY <1>1 DEF FrameRec
<1>3. Session!Resumed(f, t, touched) = Guarded(f, f.polled, t, f.shapes, f.streak, f.changed \/ touched)
  BY <1>1 DEF Session!Resumed, Guarded, FrameRec
<1>4. (f.changed \/ touched) \in BOOLEAN
  OBVIOUS
<1> QED
  BY <1>1, <1>2, <1>3, <1>4, GuardedOK

LEMMA BuiltInKeeps ==
  ASSUME Session!WorkerAssumption, SessionInv, Session!Cur.pc = "act", NEW reply,
         UNCHANGED <<sessionEntries, sessionCalls, unrecorded, completed>>, Session!BuiltIn(reply)
  PROVE  SessionInv'
<1> DEFINE tool == IF reply = "poll" THEN "bash" ELSE reply
           poll == reply = "poll"
<1>0. /\ now \in Nat /\ depth \in {0, 1} /\ FrameOK(fr[0], now) /\ FrameOK(fr[1], now) /\ beat \in Nat
      /\ fr \in [0 .. 1 -> FrameRec] /\ DeliversHolds(depth, fr[0], delivers) /\ Session!Cur = fr[depth]
  BY CurFacts DEF SessionInv
<1>1. /\ tool \in Session!Tools /\ beat' = beat + 1 /\ UNCHANGED <<depth, sessionEvents, delivers>>
  BY DEF Session!BuiltIn, Session!EmitBeat
<1>2. PICK o \in Session!Dispatch(tool), d \in 0 .. 1 :
        /\ Session!Elapses(d)
        /\ fr' = [k \in 0 .. 1 |-> IF k = depth THEN Session!AfterTool(Session!Cur, tool, poll, o, now + d)
                                   ELSE [fr[k] EXCEPT !.changed = fr[k].changed \/ o.touched]]
  BY DEF Session!BuiltIn
<1>3. now' = now + d /\ now' \in 0 .. MaxNow /\ now <= now' /\ now' \in Nat
  BY <1>2, ClockElapses
<1>4. FrameOK(fr[0], now') /\ FrameOK(fr[1], now') /\ FrameOK(Session!Cur, now')
  BY <1>0, <1>3, LaterOK
<1>5. o.exit \in Exits /\ o.touched \in BOOLEAN /\ o.refused \in BOOLEAN /\ poll \in BOOLEAN
  BY DispatchType
<1> DEFINE a == Session!AfterTool(Session!Cur, tool, poll, o, now')
           other(k) == [fr[k] EXCEPT !.changed = fr[k].changed \/ o.touched]
<1>6. FrameOK(a, now') /\ SameAccounts(Session!Cur, a)
  BY <1>1, <1>3, <1>4, <1>5, AfterToolOK
<1>7. ASSUME NEW k \in {0, 1} PROVE FrameOK(other(k), now') /\ SameAccounts(fr[k], other(k)) /\ other(k).pc = fr[k].pc
  <2>1. (fr[k].changed \/ o.touched) \in BOOLEAN /\ FrameOK(fr[k], now')
    BY <1>4
  <2> QED
    BY <1>3, <2>1, ChangedOK
<1>8. fr' = [k \in 0 .. 1 |-> IF k = depth THEN a ELSE other(k)]
  BY <1>2, <1>3
<1> HIDE DEF a, other
<1>9. CASE depth = 0
  <2>1. fr'[0] = a /\ fr'[1] = other(1) /\ fr' \in [0 .. 1 -> FrameRec]
    BY <1>6, <1>7, <1>8, <1>9 DEF FrameOK
  <2>2. DeliversHolds(depth, a, delivers')
    BY <1>0, <1>1, <1>9 DEF DeliversHolds
  <2>3. SameAccounts(fr[0], a) /\ SameAccounts(fr[1], other(1)) /\ FrameOK(other(1), now') /\ beat' \in Nat
    BY <1>0, <1>1, <1>6, <1>7, <1>9
  <2> QED
    BY <1>1, <1>3, <1>6, <2>1, <2>2, <2>3, FramesMove
<1>10. CASE depth = 1
  <2>1. fr'[1] = a /\ fr'[0] = other(0) /\ fr' \in [0 .. 1 -> FrameRec]
    BY <1>6, <1>7, <1>8, <1>10 DEF FrameOK
  <2>2. DeliversHolds(depth, other(0), delivers')
    BY <1>0, <1>1, <1>10 DEF DeliversHolds
  <2>3. SameAccounts(fr[1], a) /\ SameAccounts(fr[0], other(0)) /\ FrameOK(other(0), now') /\ beat' \in Nat
    BY <1>0, <1>1, <1>6, <1>7, <1>10
  <2> QED
    BY <1>1, <1>3, <1>6, <2>1, <2>2, <2>3, FramesMove
<1> QED
  BY <1>0, <1>9, <1>10

LEMMA DeclaredKeeps ==
  ASSUME Session!WorkerAssumption, SessionInv, Session!Cur.pc = "act", NEW reply,
         UNCHANGED <<sessionEntries, sessionCalls, unrecorded, completed>>,
         Session!DeclaredCommand(reply) \/ Session!SubagentRefused(reply)
  PROVE  SessionInv'
<1>0. /\ now \in Nat /\ now \in 0 .. MaxNow /\ depth \in {0, 1} /\ FrameOK(Session!Cur, now) /\ beat \in Nat
  BY CurFacts
<1>1. CASE Session!DeclaredCommand(reply)
  <2>1. PICK d \in 0 .. 1, o \in {"completed", "changed", "timeout", "mediation", "refused"} :
          /\ Session!Elapses(d)
          /\ LET f == Session!Resumed(Session!Cur, now + d, o = "changed")
             IN  Session!Set(IF o = "mediation" THEN Session!AfterFailure(f, "MediationRefused", now + d) ELSE f)
    <3>1. \A c : (IF reply = "command" /\ depth = 0 THEN {"completed", "changed", "timeout", "mediation"} ELSE {"refused"})
                 \subseteq {"completed", "changed", "timeout", "mediation", "refused"}
      OBVIOUS
    <3> QED
      BY <1>1, <3>1 DEF Session!DeclaredCommand
  <2>2. now' = now + d /\ now' \in 0 .. MaxNow /\ now <= now' /\ now' \in Nat
    BY <2>1, ClockElapses
  <2> DEFINE f == Session!Resumed(Session!Cur, now', o = "changed")
             g == Session!AfterFailure(f, "MediationRefused", now')
  <2>3. FrameOK(Session!Cur, now') /\ (o = "changed") \in BOOLEAN
    BY <1>0, <2>2, LaterOK
  <2>4. FrameOK(f, now') /\ SameAccounts(Session!Cur, f)
    BY <2>2, <2>3, ResumedOK
  <2>5. "MediationRefused" \in Session!FailureClass
    BY DEF Session!FailureClass
  <2>6. FrameOK(g, now') /\ SameAccounts(Session!Cur, g)
    BY <2>2, <2>4, <2>5, FailedOK
  <2>7. Session!Set(f) \/ Session!Set(g)
    BY <2>1, <2>2
  <2>8. /\ UNCHANGED <<depth, sessionEvents, delivers>> /\ beat' \in Nat
    BY <1>0, <1>1 DEF Session!DeclaredCommand, Session!EmitBeat
  <2> HIDE DEF f, g
  <2> QED
    BY <2>2, <2>4, <2>6, <2>7, <2>8, FrameMoves
<1>2. CASE Session!SubagentRefused(reply)
  <2> DEFINE f == Session!Resumed(Session!Cur, now, FALSE)
  <2>1. /\ Session!Set(f) /\ depth = 0 /\ sessionEvents' = sessionEvents + 1
        /\ UNCHANGED <<depth, now, delivers>> /\ beat' = beat + 1
    BY <1>2 DEF Session!SubagentRefused, Session!EmitBeat
  <2>2. FrameOK(f, now) /\ SameAccounts(Session!Cur, f)
    BY <1>0, ResumedOK
  <2> HIDE DEF f
  <2>3. FrameOK(f, now') /\ now' \in 0 .. MaxNow /\ now <= now' /\ beat' \in Nat
    BY <1>0, <2>1, <2>2
  <2> QED
    BY <2>1, <2>2, <2>3, FrameMoves
<1> QED
  BY <1>1, <1>2

LEMMA SpawnKeepsSession ==
  ASSUME Session!WorkerAssumption, SessionInv, Session!Cur.pc = "act", NEW reply,
         UNCHANGED <<sessionEntries, sessionCalls, unrecorded, completed>>, Session!SubagentSpawns(reply)
  PROVE  SessionInv'
<1> DEFINE left == fr[0].limit - (now - fr[0].started)
           limit == Session!MinOf(child_wall_clock, IF left < 0 THEN 0 ELSE left)
           turns == IF child_turns = 0 THEN 1 ELSE child_turns
           s == sessionEvents + 1
           c == Session!Frame(now, limit, 1, 0, turns, s)
<1>0. /\ now \in Nat /\ now \in 0 .. MaxNow /\ beat \in Nat /\ sessionEvents \in Nat
      /\ sessionCalls \in Nat /\ completed \in Nat
      /\ FrameOK(fr[0], now) /\ fr \in [0 .. 1 -> FrameRec] /\ fr[0] \in FrameRec
      /\ LedgerHolds(depth, fr[0], fr[1], sessionEvents, sessionEntries, sessionCalls, unrecorded)
      /\ UsageHolds(depth, fr[0], fr[1], completed) /\ DeliversHolds(depth, fr[0], delivers)
  BY DEF SessionInv, FrameOK
<1>1. /\ depth = 0 /\ Session!Cur = fr[0] /\ depth' = 1 /\ beat' = beat + 1 + 1
      /\ fr' = [fr EXCEPT ![1] = Session!ChildFrame(Session!Cur)] /\ UNCHANGED <<now, sessionEvents, delivers>>
  BY DEF Session!SubagentSpawns, Session!EmitBeat, Session!Cur
<1>2. child_wall_clock \in Nat /\ child_turns \in Nat
  BY SessionConstants
<1>3. fr[0].limit \in Nat /\ fr[0].started \in Nat /\ fr[0].usage \in Nat
  BY <1>0 DEF FrameRec
<1>4. left \in Int /\ limit \in Nat /\ (limit = 0 \/ limit <= left) /\ turns \in Nat /\ s \in Nat
  BY <1>0, <1>2, <1>3 DEF Session!MinOf
<1>5. limit = 0 \/ limit + now <= fr[0].limit + fr[0].started
  <2> HIDE DEF limit
  <2> QED
    BY <1>0, <1>3, <1>4
<1>6. Session!ChildFrame(Session!Cur) = c
  BY <1>1 DEF Session!ChildFrame
<1> HIDE DEF limit, turns, s
<1>7. /\ FrameOK(c, now) /\ c.session = s /\ c.recorded = 0 /\ c.usage = 0
      /\ c.limit = limit /\ c.started = now
  <2>1. 1 \in Nat /\ 0 \in Nat /\ now \in Nat /\ limit \in Nat /\ turns \in Nat /\ s \in Nat
    BY <1>0, <1>4
  <2>2. Starts(c, now, limit, s)
    BY <2>1, FrameStarts
  <2> QED
    BY <2>2 DEF Starts
<1> HIDE DEF c
<1>8. fr' \in [0 .. 1 -> FrameRec] /\ fr'[0] = fr[0] /\ fr'[1] = c
  BY <1>0, <1>1, <1>6, <1>7 DEF FrameOK
<1>9. LedgerHolds(1, fr[0], c, sessionEvents, sessionEntries, sessionCalls, unrecorded)
  BY <1>0, <1>1, <1>7 DEF LedgerHolds, s
<1>10. UsageHolds(1, fr[0], c, completed)
  BY <1>0, <1>1, <1>3, <1>7 DEF UsageHolds
<1>11. CarveHolds(1, fr[0], c)
  BY <1>5, <1>7 DEF CarveHolds
<1>12. DeliversHolds(1, fr[0], delivers)
  BY <1>0, <1>1 DEF DeliversHolds
<1>13. beat' \in Nat
  BY <1>0, <1>1
<1> QED
  BY <1>0, <1>1, <1>7, <1>8, <1>9, <1>10, <1>11, <1>12, <1>13 DEF SessionInv

(* NoFrame, the place of a sub-session when none runs. *)
LEMMA NoFrameOK ==
  ASSUME Session!WorkerAssumption, NEW t \in Nat
  PROVE  FrameOK(Session!NoFrame, t)
<1> DEFINE f == Session!Frame(0, 0, 1, 0, 1, 0)
           pc == "done"
           g == [f EXCEPT !.pc = pc]
<1>1. FrameOK(f, 0)
  <2>1. Starts(f, 0, 0, 0)
    BY FrameStarts
  <2> QED
    BY <2>1 DEF Starts
<1>2. f \in FrameRec /\ pc \in Session!Pcs
  BY <1>1 DEF FrameOK, Session!Pcs
<1>3. g = Session!NoFrame
  BY DEF Session!NoFrame
<1> HIDE DEF f, pc
<1>4. /\ g \in FrameRec /\ g.attempts = f.attempts /\ g.replans = f.replans /\ g.turns = f.turns
      /\ g.max_attempts = f.max_attempts /\ g.max_replans = f.max_replans
      /\ g.max_turns = f.max_turns /\ g.shapes = f.shapes /\ g.turn_at = f.turn_at
  BY <1>2 DEF FrameRec
<1> HIDE DEF g
<1>5. FrameOK(g, 0)
  BY <1>1, <1>4 DEF FrameOK, Session!Allowed
<1>6. FrameOK(g, t)
  BY <1>5, LaterOK
<1> QED
  BY <1>3, <1>6

LEMMA ReturnKeeps ==
  ASSUME Session!WorkerAssumption, SessionInv, Session!SubsessionReturns
  PROVE  SessionInv'
<1> DEFINE r == Session!Resumed(fr[0], now, FALSE)
           u == r.usage + fr[1].usage
           cap == r.cap_exceeded \/ u > soft_cap
           g == [r EXCEPT !.usage = u, !.cap_exceeded = cap]
           ev == sessionEvents + 1
<1>0. /\ now \in Nat /\ now \in 0 .. MaxNow /\ beat \in Nat /\ sessionEvents \in Nat
      /\ sessionCalls \in Nat /\ completed \in Nat /\ soft_cap \in Nat
      /\ FrameOK(fr[0], now) /\ FrameOK(fr[1], now) /\ fr \in [0 .. 1 -> FrameRec]
      /\ LedgerHolds(depth, fr[0], fr[1], sessionEvents, sessionEntries, sessionCalls, unrecorded)
      /\ UsageHolds(depth, fr[0], fr[1], completed) /\ DeliversHolds(depth, fr[0], delivers)
  BY SessionConstants DEF SessionInv
<1>1. /\ depth = 1 /\ depth' = 0 /\ beat' = beat + 1 /\ sessionEvents' = ev
      /\ UNCHANGED <<now, sessionEntries, sessionCalls, unrecorded, completed, delivers>>
      /\ fr' = [fr EXCEPT ![0] = Session!Accrue(r, fr[1].usage), ![1] = Session!NoFrame]
  BY DEF Session!SubsessionReturns, Session!EmitBeat
<1>2. FrameOK(r, now) /\ SameAccounts(fr[0], r)
  BY <1>0, ResumedOK
<1>3. fr[0] \in FrameRec /\ fr[1] \in FrameRec /\ r \in FrameRec
  BY <1>0, <1>2 DEF FrameOK
<1>4. fr[0].usage \in Nat /\ fr[1].usage \in Nat /\ r.usage \in Nat /\ r.cap_exceeded \in BOOLEAN
      /\ r.usage = fr[0].usage /\ r.cap_exceeded = fr[0].cap_exceeded
      /\ r.session = fr[0].session /\ r.recorded = fr[0].recorded
  <2>1. fr[0].usage \in Nat /\ fr[1].usage \in Nat
    BY <1>3 DEF FrameRec
  <2>2. r.usage \in Nat /\ r.cap_exceeded \in BOOLEAN
    BY <1>3 DEF FrameRec
  <2> QED
    BY <1>2, <2>1, <2>2 DEF SameAccounts
<1> HIDE DEF r
<1>5. u \in Nat /\ cap \in BOOLEAN /\ u = completed /\ (cap <=> u > soft_cap)
  <2>1. fr[0].usage + fr[1].usage = completed /\ (fr[0].cap_exceeded <=> fr[0].usage > soft_cap)
    BY <1>0, <1>1 DEF UsageHolds
  <2> QED
    BY <1>0, <1>4, <2>1
<1>6. Session!Accrue(r, fr[1].usage) = g
  BY DEF Session!Accrue
<1> HIDE DEF u, cap
<1>7. /\ g \in FrameRec /\ g.attempts = r.attempts /\ g.replans = r.replans /\ g.turns = r.turns
      /\ g.max_attempts = r.max_attempts /\ g.max_replans = r.max_replans
      /\ g.max_turns = r.max_turns /\ g.shapes = r.shapes /\ g.turn_at = r.turn_at
      /\ g.usage = u /\ g.cap_exceeded = cap /\ g.session = r.session /\ g.recorded = r.recorded
  BY <1>3, <1>5 DEF FrameRec
<1> HIDE DEF g
<1>8. FrameOK(g, now)
  BY <1>2, <1>7 DEF FrameOK, Session!Allowed
<1>9. FrameOK(Session!NoFrame, now)
  BY <1>0, NoFrameOK
<1>10. fr' \in [0 .. 1 -> FrameRec] /\ fr'[0] = g /\ fr'[1] = Session!NoFrame
  BY <1>0, <1>1, <1>6, <1>8, <1>9 DEF FrameOK
<1>11. LedgerHolds(0, g, Session!NoFrame, ev, sessionEntries, sessionCalls, unrecorded)
  <2>1. ASSUME NEW e \in sessionEntries
        PROVE  /\ e[1] <= ev + 1 /\ e[1] # ev + 1
               /\ e[1] = 0 => e[2] <= g.recorded
    <3>1. e[1] \in Nat /\ e[1] <= sessionEvents + 1
      BY <1>0 DEF LedgerHolds
    <3>2. e[1] = 0 => e[2] <= g.recorded
      BY <1>0, <1>4, <1>7 DEF LedgerHolds
    <3> QED
      BY <1>0, <3>1, <3>2
  <2> QED
    BY <1>0, <1>4, <1>7, <2>1 DEF LedgerHolds
<1>12. UsageHolds(0, g, Session!NoFrame, completed)
  BY <1>5, <1>7 DEF UsageHolds
<1>13. CarveHolds(0, g, Session!NoFrame) /\ DeliversHolds(0, g, delivers)
  BY <1>0, <1>1 DEF CarveHolds, DeliversHolds
<1>14. beat' \in Nat /\ ev \in Nat
  BY <1>0, <1>1
<1> HIDE DEF ev
<1> QED
  BY <1>0, <1>1, <1>8, <1>9, <1>10, <1>11, <1>12, <1>13, <1>14 DEF SessionInv

LEMMA SessionInvStep ==
  ASSUME Session!WorkerAssumption, SessionInv, [Session!Next]_Session!vars
  PROVE  SessionInv'
<1>1. CASE Session!Act
  BY <1>1, RejectedKeeps, BuiltInKeeps, DeclaredKeeps, SpawnKeepsSession DEF Session!Act
<1>2. CASE UNCHANGED Session!vars
  BY <1>2 DEF Session!vars, SessionInv
<1> QED
  BY <1>1, <1>2, TurnKeeps, CallKeeps, ReturnKeeps DEF Session!Next

LEMMA SessionFirst ==
  ASSUME Session!WorkerAssumption, Session!Init
  PROVE  SessionInv
<1> DEFINE f == Session!Frame(0, run_deadline, max_attempts, max_replans, max_turns_per_attempt, 0)
<1>0. /\ depth = 0 /\ now = 0 /\ beat = 0 /\ sessionEvents = 0 /\ sessionEntries = {} /\ sessionCalls = 0
      /\ unrecorded = 0
      /\ completed = 0 /\ delivers = 0 /\ fr = [d \in 0 .. 1 |-> IF d = 0 THEN f ELSE Session!NoFrame]
  BY DEF Session!Init
<1>1. /\ FrameOK(f, 0) /\ f.session = 0 /\ f.recorded = 0 /\ f.usage = 0 /\ f.cap_exceeded = FALSE
  <2>1. Starts(f, 0, run_deadline, 0)
    BY SessionConstants, FrameStarts
  <2> QED
    BY <2>1 DEF Starts
<1>2. FrameOK(Session!NoFrame, 0)
  BY NoFrameOK
<1> HIDE DEF f
<1>3. fr[0] = f /\ fr[1] = Session!NoFrame /\ fr \in [0 .. 1 -> FrameRec]
  BY <1>0, <1>1, <1>2 DEF FrameOK
<1>4. soft_cap \in Nat /\ MaxNow \in Nat
  BY SessionConstants
<1>5. LedgerHolds(0, f, Session!NoFrame, 0, {}, 0, 0)
  BY <1>1, FS_EmptySet DEF LedgerHolds
<1>6. UsageHolds(0, f, Session!NoFrame, 0)
  BY <1>1, <1>4 DEF UsageHolds
<1> QED
  BY <1>0, <1>1, <1>2, <1>3, <1>4, <1>5, <1>6 DEF SessionInv, CarveHolds, DeliversHolds

LEMMA SessionSound ==
  ASSUME Session!WorkerAssumption, SessionInv
  PROVE  Session!TypeOK /\ Session!EveryCallAccounted /\ Session!DeliveryEndsRun
<1>1. Session!EveryCallAccounted
  <2>1. Session!Cardinality(sessionEntries) = Cardinality(sessionEntries)
    BY DEF Session!Cardinality, Cardinality
  <2>2. Cardinality(sessionEntries) + unrecorded = sessionCalls
    BY DEF SessionInv, LedgerHolds
  <2>3. depth = 0 => fr[0].usage = completed /\ (fr[0].cap_exceeded <=> fr[0].usage > soft_cap)
    BY DEF SessionInv, UsageHolds
  <2>4. fr[0].cap_exceeded \in BOOLEAN
    BY DEF SessionInv, FrameOK, FrameRec
  <2>5. depth = 0 => fr[0].cap_exceeded = (completed > soft_cap)
    BY <2>3, <2>4
  <2> QED
    BY <2>1, <2>2, <2>3, <2>5 DEF Session!EveryCallAccounted
<1>2. Session!DeliveryEndsRun
  BY DEF SessionInv, DeliversHolds, Session!DeliveryEndsRun
<1>3. Session!TypeOK
  <2>1. ASSUME NEW d \in 0 .. 1
        PROVE  /\ fr[d].pc \in Session!Pcs /\ fr[d].failure \in Session!FailureClass \cup {"none"}
               /\ fr[d].attempts \in 1 .. Session!Allowed(fr[d]) /\ fr[d].replans \in 0 .. fr[d].max_replans
               /\ fr[d].turns \in 0 .. fr[d].max_turns
               /\ {fr[d].usage, fr[d].polled} \subseteq Nat
               /\ Len(fr[d].shapes) <= tool_repeat_window
    <3>1. FrameOK(fr[d], now)
      BY DEF SessionInv
    <3>2. /\ fr[d].pc \in Session!Pcs /\ fr[d].failure \in Session!FailureClass \cup {"none"}
          /\ fr[d].attempts \in Nat /\ fr[d].replans \in Nat /\ fr[d].max_replans \in Nat
          /\ fr[d].max_attempts \in Nat
          /\ fr[d].turns \in Nat /\ fr[d].max_turns \in Nat /\ fr[d].usage \in Nat /\ fr[d].polled \in Nat
      BY <3>1 DEF FrameOK, FrameRec
    <3>3. Session!Allowed(fr[d]) \in Nat
      BY <3>2 DEF Session!Allowed
    <3> QED
      BY <3>1, <3>2, <3>3 DEF FrameOK
  <2>2. delivers \in Nat /\ depth \in 0 .. 1 /\ sessionEntries \subseteq Nat \X Nat /\ unrecorded \in Nat
    BY DEF SessionInv, DeliversHolds, LedgerHolds
  <2>3. now \in 0 .. MaxNow /\ {beat, sessionEvents, sessionCalls, unrecorded, completed, delivers} \subseteq Nat
    BY <2>2 DEF SessionInv
  <2> QED
    BY <2>1, <2>2, <2>3 DEF Session!TypeOK
<1> QED
  BY <1>1, <1>2, <1>3

-----------------------------------------------------------------------------
(***************************************************************************)
(* What a step of the session may do.                                      *)
(***************************************************************************)

(* A turn begins before the deadline of the frame it is a turn of, and so  *)
(* before the session's: the sub-session's time was carved out of it.      *)
LEMMA TurnsInTime ==
  ASSUME SessionInv, Session!BeginTurn
  PROVE  now - fr[0].started <= fr[0].limit
<1>1. /\ now \in Nat /\ depth \in {0, 1} /\ fr[0] \in FrameRec /\ fr[1] \in FrameRec
      /\ CarveHolds(depth, fr[0], fr[1])
  BY DEF SessionInv, FrameOK
<1>2. /\ fr[0].limit \in Nat /\ fr[0].started \in Nat /\ fr[1].limit \in Nat /\ fr[1].started \in Nat
  BY <1>1 DEF FrameRec
<1>3. ~Session!Overdue(fr[depth], now)
  BY DEF Session!BeginTurn, Session!TurnCheck, Session!Cur
<1>4. CASE depth = 0
  BY <1>1, <1>2, <1>3, <1>4 DEF Session!Overdue
<1>5. CASE depth = 1
  <2>1. now - fr[1].started <= fr[1].limit /\ fr[1].limit # 0
    BY <1>1, <1>2, <1>3, <1>5 DEF Session!Overdue
  <2>2. fr[1].limit + fr[1].started <= fr[0].limit + fr[0].started
    BY <1>1, <1>5, <2>1 DEF CarveHolds
  <2> QED
    BY <1>1, <1>2, <2>1, <2>2
<1> QED
  BY <1>1, <1>4, <1>5

LEMMA BeatsMove ==
  ASSUME SessionInv, Session!Next
  PROVE  beat' >= beat /\ (Session!BeginTurn => beat' > beat)
<1>0. beat \in Nat
  BY DEF SessionInv
<1>1. Session!BeginTurn => beat' = beat + 1
  BY DEF Session!BeginTurn, Session!EmitBeat
<1>2. beat' = beat \/ beat' = beat + 1 \/ beat' = beat + 1 + 1
  <2>1. CASE Session!TurnRefused \/ Session!CallCompletes \/ Session!CallRetried \/ Session!CallFails
    BY <2>1 DEF Session!TurnRefused, Session!CallCompletes, Session!CallRetried, Session!CallFails
  <2>2. CASE Session!SubsessionReturns
    BY <2>2 DEF Session!SubsessionReturns, Session!EmitBeat
  <2>3. CASE Session!Act
    BY <2>3 DEF Session!Act, Session!Rejected, Session!Finish, Session!BuiltIn, Session!DeclaredCommand,
                Session!SubagentRefused, Session!SubagentSpawns, Session!EmitBeat
  <2> QED
    BY <1>1, <2>1, <2>2, <2>3 DEF Session!Next
<1> QED
  BY <1>0, <1>1, <1>2

(* The session apart. *)
LEMMA AccountedApart ==
  Session!WorkerAssumption /\ Session!Spec => []SessionAccounted
<1> SUFFICES ASSUME Session!WorkerAssumption PROVE Session!Spec => []SessionAccounted
  OBVIOUS
<1>1. Session!Init => SessionInv
  BY SessionFirst
<1>2. SessionInv /\ [Session!Next]_Session!vars => SessionInv'
  BY SessionInvStep
<1>3. SessionInv => SessionAccounted
  BY SessionSound DEF SessionAccounted
<1> QED
  BY <1>1, <1>2, <1>3, PTL DEF Session!Spec

(* For every configuration of a run and every sequence of replies,         *)
(* failures, retries and sub-sessions, and whichever entries the cost sink *)
(* loses: record_call_cost puts each request to the sink under an identity *)
(* no other has, accrue_usage_and_check_cap counts each completed call     *)
(* once, and DeliverySink::deliver is called at most once, by the session  *)
(* itself and as its last step.                                            *)
THEOREM SessionsAccounted ==
  Spec => []SessionAccounted
<1>1. Session!WorkerAssumption
  BY WorkAssumption
<1> QED
  BY <1>1, ComponentsRun, AccountedApart, PTL

(* The parts apart. *)
LEMMA GuardedApart ==
  /\ Session!WorkerAssumption /\ Delivery!DeliveryAssumption
  /\ Session!Spec /\ Delivery!Spec
  => StepsGuarded
<1> SUFFICES ASSUME Session!WorkerAssumption, Delivery!DeliveryAssumption
             PROVE  Session!Spec /\ Delivery!Spec => StepsGuarded
  OBVIOUS
<1>1. Session!Init => SessionInv
  BY SessionFirst
<1>2. SessionInv /\ [Session!Next]_Session!vars => SessionInv'
  BY SessionInvStep
<1>3. SessionInv /\ [Session!Next]_Session!vars
        => [Session!BeginTurn => now - fr[0].started <= fr[0].limit]_Session!vars
  BY TurnsInTime
<1>4. SessionInv /\ [Session!Next]_Session!vars
        => [beat' >= beat /\ (Session!BeginTurn => beat' > beat)]_Session!vars
  BY BeatsMove
<1>5. Session!Spec => Session!NoTurnAfterDeadline
  BY <1>1, <1>2, <1>3, PTL DEF Session!Spec, Session!NoTurnAfterDeadline
<1>6. Session!Spec => Session!BeatsAdvance
  BY <1>1, <1>2, <1>4, PTL DEF Session!Spec, Session!BeatsAdvance
<1>7. Delivery!Spec => Delivery!LandingExtendsHead
  BY LandingsExtendHead
<1> QED
  BY <1>5, <1>6, <1>7 DEF StepsGuarded

(* The three action properties of the work, of run_attempt's checks before *)
(* a turn, the supervisor's watch channel and the compare-and-swap of      *)
(* BranchLanding, for every budget, deadline, number of landers and fault. *)
THEOREM StepsAreGuarded ==
  Spec => StepsGuarded
<1>1. Session!WorkerAssumption /\ Delivery!DeliveryAssumption
  BY WorkAssumption
<1> QED
  BY <1>1, ComponentsRun, GuardedApart, PTL

-----------------------------------------------------------------------------
(***************************************************************************)
(* Types and budgets of the work.                                          *)
(***************************************************************************)

(* The places a bash call can be in. *)
BashTyped ==
  /\ caller \in {"preflight", "spawning", "waiting", "returned", "dropped"}
  /\ guard \in {"none", "armed", "fired", "disarmed"} /\ task \in Bash!Tasks
  /\ leader \in {"none", "running", "zombie", "reaped"}
  /\ worker \in BOOLEAN /\ by_signal \in BOOLEAN /\ forked \in BOOLEAN
  /\ escaped \in BOOLEAN /\ limited \in BOOLEAN
  /\ stdin_open \in BOOLEAN /\ draining \in BOOLEAN /\ killed \in BOOLEAN

(* The pipes within their sizes, and every chunk of the script that was    *)
(* written in one place.                                                   *)
BashFlow ==
  /\ stdin \in 0 .. PipeSize /\ output \in 0 .. PipeSize /\ drained \in Nat
  /\ written \in 0 .. Script /\ stdin + output + drained = written

LEMMA BashTypedStep ==
  ASSUME BashTyped, [Bash!Next]_Bash!vars
  PROVE  BashTyped'
<1> USE DEF BashTyped, Bash!Tasks
<1>1. CASE \E c \in BOOLEAN : Bash!Preflight(c)
  <2>1. /\ caller' \in {"spawning", "returned"} /\ worker' \in {worker, TRUE} /\ task' \in {task, "spawn"}
        /\ UNCHANGED <<guard, leader, by_signal, forked, escaped, limited, stdin_open, draining, killed>>
    BY <1>1 DEF Bash!Preflight, Bash!process, Bash!pipes
  <2>2. worker' \in BOOLEAN
    BY <2>1
  <2>3. caller' \in {"preflight", "spawning", "waiting", "returned", "dropped"} /\ task' \in Bash!Tasks
    BY <2>1
  <2> QED
    BY <2>1, <2>2, <2>3
<1>2. CASE Bash!SpawnFails \/ Bash!Spawn \/ Bash!Limit \/ Bash!LimitFails
  BY <1>2 DEF Bash!SpawnFails, Bash!Spawn, Bash!Limit, Bash!LimitFails, Bash!process, Bash!pipes
<1>3. CASE Bash!SpawnAwaited \/ Bash!DropUnclaimed
  BY <1>3 DEF Bash!SpawnAwaited, Bash!DropUnclaimed, Bash!process, Bash!pipes
<1>4. CASE Bash!StartDrains \/ Bash!WriteChunk \/ Bash!WriteEnds
  BY <1>4 DEF Bash!StartDrains, Bash!WriteChunk, Bash!WriteEnds, Bash!process, Bash!pipes
<1>5. CASE Bash!Reap \/ Bash!WaitFails \/ Bash!Join \/ Bash!WaitAwaited
  BY <1>5 DEF Bash!Reap, Bash!WaitFails, Bash!Join, Bash!WaitAwaited, Bash!GroupKilled, Bash!process,
              Bash!pipes
<1>a. ASSUME Bash!GroupKilled \/ UNCHANGED Bash!process
      PROVE  leader' \in {"none", "running", "zombie", "reaped"} /\ by_signal' \in BOOLEAN
             /\ forked' \in BOOLEAN /\ escaped' \in BOOLEAN
  <2>1. by_signal' = (by_signal \/ leader = "running") \/ by_signal' = by_signal
    BY <1>a DEF Bash!GroupKilled, Bash!process
  <2>2. by_signal' \in BOOLEAN
    BY <2>1, Zenon
  <2>3. leader' \in {"none", "running", "zombie", "reaped"} /\ forked' \in BOOLEAN /\ escaped' \in BOOLEAN
    BY <1>a DEF Bash!GroupKilled, Bash!process
  <2> QED
    BY <2>2, <2>3
<1>6. CASE Bash!Drain
  <2>1. /\ draining' \in {draining, FALSE} /\ (Bash!GroupKilled \/ UNCHANGED Bash!process)
        /\ UNCHANGED <<caller, worker, guard, task, limited, stdin_open, killed>>
    BY <1>6 DEF Bash!Drain
  <2>2. draining' \in BOOLEAN
    BY <2>1
  <2> QED
    BY <1>a, <2>1, <2>2, Zenon
<1>7. CASE Bash!DrainEnds \/ Bash!Interpret \/ Bash!Exits \/ Bash!LeavesGroup \/ Bash!LetsGo
  <2>1. CASE Bash!DrainEnds \/ Bash!Interpret \/ Bash!Exits
    BY <2>1 DEF Bash!DrainEnds, Bash!Interpret, Bash!Exits, Bash!process, Bash!pipes
  <2>2. CASE Bash!LeavesGroup
    <3>1. /\ forked' \in BOOLEAN /\ escaped' \in BOOLEAN
          /\ UNCHANGED <<caller, worker, guard, task, leader, by_signal, limited, Bash!pipes, killed>>
      BY <2>2, Zenon DEF Bash!LeavesGroup
    <3> QED
      BY <3>1 DEF Bash!pipes
  <2>3. CASE Bash!LetsGo
    <3>1. /\ escaped' \in BOOLEAN
          /\ UNCHANGED <<caller, worker, guard, task, leader, by_signal, forked, limited, Bash!pipes,
                         killed>>
      BY <2>3, Zenon DEF Bash!LetsGo
    <3> QED
      BY <3>1 DEF Bash!pipes
  <2> QED
    BY <1>7, <2>1, <2>2, <2>3
<1>8. CASE Bash!Cancel
  <2>1. /\ caller' = "dropped" /\ guard' \in {guard, "fired"} /\ killed' \in {killed, TRUE}
        /\ stdin_open' \in {stdin_open, FALSE} /\ (Bash!GroupKilled \/ UNCHANGED Bash!process)
        /\ UNCHANGED <<worker, task, limited, draining>>
    BY <1>8 DEF Bash!Cancel
  <2> QED
    BY <1>a, <2>1
<1>9. CASE UNCHANGED Bash!vars
  BY <1>9 DEF Bash!vars
<1> QED
  BY <1>1, <1>2, <1>3, <1>4, <1>5, <1>6, <1>7, <1>8, <1>9 DEF Bash!Next, Bash!Program

LEMMA BashFlowStep ==
  ASSUME Bash!BashAssumption, BashFlow, [Bash!Next]_Bash!vars
  PROVE  BashFlow'
<1> USE DEF BashFlow, Bash!BashAssumption
<1>1. CASE UNCHANGED <<stdin, output, drained, written>>
  BY <1>1
<1>2. CASE Bash!WriteChunk
  BY <1>2 DEF Bash!WriteChunk
<1>3. CASE Bash!Drain
  BY <1>3 DEF Bash!Drain
<1>4. CASE Bash!Interpret
  BY <1>4 DEF Bash!Interpret
<1>5. CASE ~(Bash!WriteChunk \/ Bash!Drain \/ Bash!Interpret)
  <2>1. UNCHANGED <<stdin, output, drained, written>>
    BY <1>5 DEF Bash!Next, Bash!Program, Bash!vars, Bash!Preflight, Bash!SpawnFails, Bash!Spawn,
                Bash!Limit, Bash!LimitFails, Bash!SpawnAwaited, Bash!DropUnclaimed, Bash!StartDrains,
                Bash!WriteEnds, Bash!Reap, Bash!WaitFails, Bash!Join, Bash!WaitAwaited, Bash!DrainEnds,
                Bash!Cancel, Bash!Exits, Bash!LeavesGroup, Bash!LetsGo, Bash!pipes
  <2> QED
    BY <1>1, <2>1
<1> QED
  BY <1>2, <1>3, <1>4, <1>5

LEMMA BashTypes ==
  ASSUME Bash!BashAssumption, BashTyped, BashFlow
  PROVE  Bash!TypeOK
<1>1. drained \in 0 .. Script
  BY DEF BashFlow, Bash!BashAssumption
<1> QED
  BY <1>1 DEF BashTyped, BashFlow, Bash!TypeOK

(* The parts apart. *)
LEMMA TypedApart ==
  /\ Session!WorkerAssumption /\ Bash!BashAssumption
  /\ Delivery!DeliveryAssumption /\ Sup!SupAssumption
  /\ Session!Spec /\ Bash!Spec /\ Delivery!Spec /\ Sup!SupSpec
  => []WorkTypeOK
<1> SUFFICES ASSUME Session!WorkerAssumption, Bash!BashAssumption,
                    Delivery!DeliveryAssumption, Sup!SupAssumption
             PROVE  Session!Spec /\ Bash!Spec /\ Delivery!Spec /\ Sup!SupSpec => []WorkTypeOK
  OBVIOUS
<1>1. Session!Init => SessionInv
  BY SessionFirst
<1>2. SessionInv /\ [Session!Next]_Session!vars => SessionInv'
  BY SessionInvStep
<1>3. Bash!Init => BashTyped /\ BashFlow
  <2>1. Bash!Init => BashTyped
    BY Zenon DEF Bash!Init, BashTyped, Bash!Tasks
  <2>2. Bash!Init => BashFlow
    BY DEF Bash!Init, BashFlow, Bash!BashAssumption
  <2> QED
    BY <2>1, <2>2
<1>4. BashTyped /\ BashFlow /\ [Bash!Next]_Bash!vars => BashTyped' /\ BashFlow'
  BY BashTypedStep, BashFlowStep
<1>5. Delivery!Init => LandInv /\ DeliveryInv
  BY DeliveryFirst
<1>6. LandInv /\ DeliveryInv /\ [Delivery!Next]_Delivery!vars => LandInv' /\ DeliveryInv'
  BY DeliveryInvStep
<1>7. Sup!SupInit => SupInv
  BY SupFirst
<1>8. SupInv /\ [Sup!SupNext]_Sup!supVars => SupInv'
  BY SupInvStep
<1>9. SessionInv /\ BashTyped /\ BashFlow /\ LandInv /\ DeliveryInv /\ SupInv => WorkTypeOK
  BY SessionSound, BashTypes, DeliveryTyped, SupSound DEF WorkTypeOK
<1> QED
  BY <1>1, <1>2, <1>3, <1>4, <1>5, <1>6, <1>7, <1>8, <1>9, PTL
     DEF Session!Spec, Bash!Spec, Delivery!Spec, Sup!SupSpec

(* Type correctness of the session, the mediated bash call, the delivery   *)
(* and the supervision, and with it the budgets run_worker, ToolBudget,    *)
(* the pipes and RestartPolicy set, for every value of them.               *)
THEOREM WorkTyped ==
  Spec => []WorkTypeOK
<1>1. Session!WorkerAssumption /\ Bash!BashAssumption
       /\ Delivery!DeliveryAssumption /\ Sup!SupAssumption
  BY WorkAssumption
<1> QED
  BY <1>1, ComponentsRun, TypedApart, PTL

=============================================================================
