--------------------------- MODULE ServicesProofs ----------------------------
(***************************************************************************)
(* Proofs about what is kept and decided between runs: the breaker behind  *)
(* the providers, the worktrees of the processes that run the loop, the    *)
(* guardrails of an attempt, the audit log and the daemon's store, the     *)
(* reconciler's events, the declared tools, the record of a session, the   *)
(* workspace with its delivery, the routing of roles, the cost ledger, the *)
(* campaign's passes and the layers of the configuration.  For every       *)
(* number of callers, connections, processes, tasks, cards, files, paths,  *)
(* layers and request keys, every setting, and every bound on time, faults *)
(* and restarts.                                                           *)
(***************************************************************************)
EXTENDS Services, FiniteSetTheorems, SequenceTheorems, NaturalsInduction, TLAPS

-----------------------------------------------------------------------------
(***************************************************************************)
(* The components in the composition.                                      *)
(***************************************************************************)

(* The counts, layers and names of the assumption on the constants.        *)
LEMMA CountsAndNames ==
  /\ Gov!GovernanceAssumption
  /\ Watch!Nobody \notin Procs /\ "outside" \notin LogConns
  /\ IsFiniteSet(RTasks)
  /\ AfterCalls \in Nat
  /\ ToolLayers \subseteq 1 .. 8
  /\ Kinds \subseteq {"blob", "link", "escapingLink", "dotgit"}
  /\ Settings \subseteq Nat /\ DefaultTurns \in Nat \ {0}
  /\ DefaultGuard \in Nat \ {0} /\ DefaultWindow \in Nat \ {0}
  /\ DefaultRepeat \in Nat \ {0, 1}
  /\ MaxImport \in Nat
BY ServicesAssumption

(* Whichever component moves, each of those proved about takes a step of   *)
(* its own or none.                                                        *)
LEMMA ComponentSteps ==
  ASSUME [Next]_vars
  PROVE  /\ [Gov!GovNext]_Gov!govVars /\ [Stores!LogNext]_Stores!logVars
         /\ [Stores!StoreNext]_Stores!storeVars /\ [Watch!WatchNext]_Watch!watchVars
         /\ [Watch!ReconNext]_Watch!reconVars /\ [Limits!LimitsNext]_Limits!limitVars
         /\ [Config!ToolNext]_Config!toolVars /\ [Life!LifecycleNext]_Life!lifecycleVars
         /\ [Space!WorkspaceNext]_Space!workspaceVars
<1> USE DEF vars, governanceState, auditState, storeState, costsState, watchState,
            reconState, campaignState, routingState, limitsState, configState,
            registryState, lifecycleState, workspaceState
<1>1. [Gov!GovNext]_Gov!govVars
  BY DEF Next, Gov!govVars
<1>2. [Stores!LogNext]_Stores!logVars
  BY DEF Next, Stores!logVars
<1>3. [Stores!StoreNext]_Stores!storeVars
  BY DEF Next, Stores!storeVars
<1>4. [Watch!WatchNext]_Watch!watchVars
  BY DEF Next, Watch!watchVars
<1>5. [Watch!ReconNext]_Watch!reconVars
  BY DEF Next, Watch!reconVars
<1>6. [Limits!LimitsNext]_Limits!limitVars
  BY DEF Next, Limits!limitVars
<1>7. [Config!ToolNext]_Config!toolVars
  BY DEF Next, Config!toolVars
<1>8. [Life!LifecycleNext]_Life!lifecycleVars
  BY DEF Next, Life!lifecycleVars
<1>9. [Space!WorkspaceNext]_Space!workspaceVars
  BY DEF Next, Space!workspaceVars
<1> QED
  BY <1>1, <1>2, <1>3, <1>4, <1>5, <1>6, <1>7, <1>8, <1>9

-----------------------------------------------------------------------------
(***************************************************************************)
(* The declared tools.                                                     *)
(***************************************************************************)

(* A nonempty set of layers has a highest one. *)
LEMMA HighestLayer ==
  ASSUME NEW L, L \subseteq 1 .. 8, L # {}
  PROVE  \E l \in L : \A m \in L : m <= l
<1>1. CASE L \cap 5 .. 8 # {}
  <2>1. CASE 8 \in L
    BY <2>1
  <2>2. CASE 8 \notin L /\ 7 \in L
    BY <2>2
  <2>3. CASE 8 \notin L /\ 7 \notin L /\ 6 \in L
    BY <2>3
  <2>4. CASE 8 \notin L /\ 7 \notin L /\ 6 \notin L /\ 5 \in L
    BY <2>4
  <2> QED
    BY <1>1, <2>1, <2>2, <2>3, <2>4
<1>2. CASE L \subseteq 1 .. 4
  <2>1. CASE 4 \in L
    BY <1>2, <2>1
  <2>2. CASE 4 \notin L /\ 3 \in L
    BY <1>2, <2>2
  <2>3. CASE 4 \notin L /\ 3 \notin L /\ 2 \in L
    BY <1>2, <2>3
  <2>4. CASE 4 \notin L /\ 3 \notin L /\ 2 \notin L /\ 1 \in L
    BY <1>2, <2>4
  <2>5. PICK x : x \in L
    OBVIOUS
  <2>6. x = 1 \/ x = 2 \/ x = 3 \/ x = 4
    BY <1>2, <2>5
  <2> QED
    BY <2>1, <2>2, <2>3, <2>4, <2>5, <2>6
<1> QED
  BY <1>1, <1>2

(* What is registered passed every check, from a trusted highest layer. *)
ToolInv ==
  /\ defined \in [ToolLayers -> Definitions]
  /\ registry.tool # Config!NoTool =>
       /\ Config!Carriers # {} /\ Config!Trusted /\ registry.tool = Config!Merged
       /\ Config!ToolOk(registry.tool)
       /\ registry.worker => registry.tool["visible"] = "worker"

LEMMA ToolInvHolds ==
  ASSUME ToolInv, [Config!ToolNext]_Config!toolVars
  PROVE  ToolInv'
<1>1. CASE Config!BuildDeclaredTools
  <2>1. Config!Carriers' = Config!Carriers /\ Config!Merged' = Config!Merged
        /\ Config!Trusted' = Config!Trusted
        /\ toolId' = toolId
    BY <1>1 DEF Config!BuildDeclaredTools, Config!Carriers, Config!Merged, Config!Trusted,
                Config!Supplying
  <2> QED
    BY <1>1, <2>1 DEF ToolInv, Config!BuildDeclaredTools, Config!Pending, Config!ToolOk
<1>2. CASE Config!SubRoleRefused
  BY <1>2 DEF ToolInv, Config!SubRoleRefused, Config!Pending
<1>3. CASE UNCHANGED Config!toolVars
  BY <1>3 DEF ToolInv, Config!toolVars, Config!Carriers, Config!Merged, Config!Trusted,
              Config!Supplying, Config!ToolOk
<1> QED
  BY <1>1, <1>2, <1>3 DEF Config!ToolNext

LEMMA ToolsTrustedHolds ==
  ASSUME ToolInv
  PROVE  Config!ToolsTrusted
<1> SUFFICES ASSUME registry.tool # Config!NoTool
             PROVE  /\ \A l \in ToolLayers \ Config!TrustedLayers : defined[l] = Config!NoTool
                    /\ ~(registry.tool["command"] # Config!Absent /\ registry.tool["role"] # Config!Absent)
                    /\ registry.worker =>
                         \E l \in Config!TrustedLayers \intersect ToolLayers : defined[l]["visible"] = "worker"
  BY DEF Config!ToolsTrusted
<1>1. Config!Carriers \subseteq 1 .. 8 /\ Config!Carriers \subseteq ToolLayers /\ Config!Carriers # {}
  BY CountsAndNames DEF ToolInv, Config!Carriers
<1>2. Config!Supplying \in Config!Carriers /\ \A m \in Config!Carriers : m <= Config!Supplying
  <2>1. \E l \in Config!Carriers : \A m \in Config!Carriers : m <= l
    BY <1>1, HighestLayer
  <2> QED
    BY <2>1 DEF Config!Supplying
<1>3. Config!Carriers \subseteq Config!TrustedLayers
  BY <1>1, <1>2 DEF ToolInv, Config!Trusted, Config!TrustedLayers
<1>4. ASSUME NEW l \in ToolLayers \ Config!TrustedLayers PROVE defined[l] = Config!NoTool
  BY <1>3 DEF Config!Carriers
<1>5. ~(registry.tool["command"] # Config!Absent /\ registry.tool["role"] # Config!Absent)
  BY DEF ToolInv, Config!ToolOk, Config!MechanismOk, Config!CommandOk, Config!SubagentOk, Config!Absent
<1>6. ASSUME registry.worker
      PROVE  \E l \in Config!TrustedLayers \intersect ToolLayers : defined[l]["visible"] = "worker"
  <2> DEFINE H == {l \in Config!Carriers : defined[l]["visible"] # Config!Absent}
  <2>1. Config!Merged["visible"] = "worker"
    BY <1>6 DEF ToolInv
  <2>2. H # {} /\ Config!Merged["visible"] =
                    defined[CHOOSE l \in H : \A m \in H : m <= l]["visible"]
    BY <2>1 DEF Config!Merged, Config!Fields, Config!Absent
  <2>3. PICK l \in H : \A m \in H : m <= l
    BY <1>1, <2>2, HighestLayer
  <2>4. (CHOOSE k \in H : \A m \in H : m <= k) \in H
    BY <2>3
  <2> QED
    BY <1>1, <1>3, <2>1, <2>2, <2>4
<1> QED
  BY <1>4, <1>5, <1>6

-----------------------------------------------------------------------------
(***************************************************************************)
(* The workspace and its delivery.                                         *)
(***************************************************************************)

(* What is written is what the commit has; a file that differs from the    *)
(* manifest was changed by the worker, and a changed one of the manifest   *)
(* differs; what of the manifest was changed before a reconciliation began *)
(* is still to digest or found.                                            *)
SnapshotInv ==
  /\ workspaceTree \in [Paths -> Kinds]
  /\ files \in [Paths -> Kinds \union {"edited", "absent"}]
  /\ manifest \in [Paths -> Kinds \union {"absent"}]
  /\ snap \in [step : {"resolve", "write", "ready", "over"}, base : Nat, head : Nat,
               left : SUBSET Paths, failed : BOOLEAN]
  /\ head \in Nat
  /\ snap.step = "ready" => snap.left = {} /\ ~snap.failed
  /\ snap.step = "write" => ~snap.failed
  /\ snap.step = "resolve" => snap.left = Paths /\ ~snap.failed
  /\ \A p \in Paths : p \in snap.left => manifest[p] = "absent" /\ files[p] = "absent"
  /\ \A p \in Paths \ snap.left :
       /\ manifest[p] = IF Space!Visible(p) THEN workspaceTree[p] ELSE "absent"
       /\ Space!Visible(p) => ~Space!Unsafe(workspaceTree[p])

ReportInv ==
  /\ report \in [step : {"off", "digest", "done", "error"}, left : SUBSET Paths,
                 found : SUBSET Paths, head : Nat, touched : SUBSET Paths]
  /\ changed \subseteq Paths
  /\ snap.step # "ready" => changed = {} /\ report.step = "off"
  /\ \A p \in Paths : p \notin changed => files[p] = manifest[p]
  /\ \A p \in changed : files[p] \in {"edited", "absent"}
  /\ report.step \in {"digest", "done"} =>
       /\ report.found \subseteq changed
       /\ \A p \in changed \ report.touched :
            manifest[p] # "absent" => p \in report.left \union report.found
  /\ report.step = "done" => report.left = {}

(* A pull request is opened right after a push that arrived. *)
DraftInv ==
  /\ local \in Nat /\ remote \in Nat /\ pr \in Nat
  /\ remote <= local /\ pr <= remote
  /\ deliver = "open" => remote = local

SpaceInv == SnapshotInv /\ ReportInv /\ DraftInv

LEMMA SpaceInitially ==
  ASSUME Space!WorkspaceInit
  PROVE  SpaceInv
BY CountsAndNames DEF Space!WorkspaceInit, SpaceInv, SnapshotInv, ReportInv, DraftInv, Space!Off

LEMMA SnapshotStep ==
  ASSUME SnapshotInv, [Space!WorkspaceNext]_Space!workspaceVars
  PROVE  SnapshotInv'
<1> USE DEF SnapshotInv, Space!Visible
<1>1. CASE Space!ResolveBase
  BY <1>1 DEF Space!ResolveBase
<1>2. CASE Space!FinishSnapshot
  BY <1>2 DEF Space!FinishSnapshot
<1>3. ASSUME NEW p \in Paths, Space!Materialize(p)
      PROVE  SnapshotInv'
  BY <1>3 DEF Space!Materialize, Space!Unsafe
<1>4. CASE Space!Edit
  BY <1>4 DEF Space!Edit
<1>5. CASE Space!SourceMoves
  BY <1>5 DEF Space!SourceMoves
<1>6. CASE UNCHANGED <<workspaceTree, files, manifest, snap, head>>
  BY <1>6
<1> QED
  BY <1>1, <1>2, <1>3, <1>4, <1>5, <1>6
     DEF Space!WorkspaceNext, Space!workspaceVars, Space!StartReconcile, Space!EndReconcile,
         Space!DigestPath, Space!ProvisionWorktree, Space!WorkerChanges, Space!CommitAll,
         Space!CommitFails, Space!Credential, Space!Push, Space!OpenDraft, Space!StepFails, Space!OthersPush, Space!checkout

LEMMA ReportStep ==
  ASSUME SnapshotInv, ReportInv, [Space!WorkspaceNext]_Space!workspaceVars
  PROVE  ReportInv'
<1> USE DEF ReportInv
<1>1. CASE Space!ResolveBase \/ Space!FinishSnapshot \/ Space!SourceMoves
  BY <1>1 DEF SnapshotInv, Space!ResolveBase, Space!FinishSnapshot, Space!SourceMoves
<1>2. ASSUME NEW p \in Paths, Space!Materialize(p)
      PROVE  ReportInv'
  BY <1>2 DEF SnapshotInv, Space!Materialize, Space!Unsafe
<1>3. CASE Space!StartReconcile
  <2> DEFINE L == {p \in Paths : manifest[p] # "absent"}
  <2>1. /\ report' = [step |-> "digest", left |-> L, found |-> {}, head |-> head, touched |-> {}]
        /\ UNCHANGED <<snap, files, manifest, changed>> /\ snap.step = "ready"
    BY <1>3 DEF Space!StartReconcile, Space!Off
  <2>2. L \subseteq Paths /\ \A p \in changed : manifest[p] # "absent" => p \in L
    OBVIOUS
  <2>3. report' \in [step : {"off", "digest", "done", "error"}, left : SUBSET Paths,
                     found : SUBSET Paths, head : Nat, touched : SUBSET Paths]
    BY <2>1, <2>2 DEF SnapshotInv
  <2> QED
    BY <2>1, <2>2, <2>3
<1>4. ASSUME NEW p \in Paths, Space!DigestPath(p)
      PROVE  ReportInv'
  <2>1. /\ report.step = "digest" /\ p \in report.left
        /\ UNCHANGED <<snap, files, manifest, changed>>
    BY <1>4 DEF Space!DigestPath
  <2>2. CASE files[p] = "absent"
    BY <1>4, <2>1, <2>2 DEF Space!DigestPath
  <2>3. CASE files[p] # "absent" /\ files[p] # manifest[p]
    <3>1. report' = [report EXCEPT !.left = @ \ {p}, !.found = @ \union {p}] /\ p \in changed
      BY <1>4, <2>3 DEF Space!DigestPath, Space!Mutated
    <3> QED
      BY <2>1, <2>3, <3>1
  <2>4. CASE files[p] # "absent" /\ files[p] = manifest[p]
    <3>1. report' = [report EXCEPT !.left = @ \ {p}]
      BY <1>4, <2>4 DEF Space!DigestPath, Space!Mutated
    <3>2. p \notin changed
      <4>1. manifest[p] \in Kinds
        BY <2>4 DEF SnapshotInv
      <4> QED
        BY <2>4, <4>1, CountsAndNames
    <3> QED
      BY <2>1, <2>4, <3>1, <3>2
  <2> QED
    BY <2>2, <2>3, <2>4
<1>5. CASE Space!EndReconcile
  BY <1>5 DEF Space!EndReconcile
<1>6. CASE Space!Edit
  <2>1. PICK p \in Paths, c \in {"edited", "absent"} :
          /\ files' = [files EXCEPT ![p] = c] /\ changed' = changed \union {p}
          /\ report' = [report EXCEPT !.touched = @ \union {p}]
    BY <1>6 DEF Space!Edit
  <2> QED
    BY <1>6, <2>1 DEF SnapshotInv, Space!Edit
<1>7. CASE UNCHANGED <<files, manifest, snap, report, changed>>
  BY <1>7
<1> QED
  BY <1>1, <1>2, <1>3, <1>4, <1>5, <1>6, <1>7
     DEF Space!WorkspaceNext, Space!workspaceVars, Space!ProvisionWorktree, Space!WorkerChanges,
         Space!CommitAll, Space!CommitFails, Space!Credential, Space!Push, Space!OpenDraft, Space!StepFails, Space!OthersPush,
         Space!checkout

LEMMA DraftStep ==
  ASSUME DraftInv, [Space!WorkspaceNext]_Space!workspaceVars
  PROVE  DraftInv'
<1> USE DEF DraftInv
<1>1. CASE Space!CommitAll \/ Space!CommitFails \/ Space!ProvisionWorktree
  BY <1>1 DEF Space!CommitAll, Space!CommitFails, Space!ProvisionWorktree
<1>2. CASE Space!Credential \/ Space!Push \/ Space!OpenDraft
  BY <1>2 DEF Space!Credential, Space!Push, Space!OpenDraft
<1>3. CASE Space!StepFails
  BY <1>3 DEF Space!StepFails, Space!KeptCommit
<1>4. CASE UNCHANGED <<local, remote, pr, deliver>>
  BY <1>4
<1> QED
  BY <1>1, <1>2, <1>3, <1>4
     DEF Space!WorkspaceNext, Space!workspaceVars, Space!ResolveBase, Space!FinishSnapshot,
         Space!StartReconcile, Space!EndReconcile, Space!Edit, Space!SourceMoves,
         Space!Materialize, Space!DigestPath, Space!WorkerChanges, Space!OthersPush,
         Space!delivery

LEMMA SnapshotHolds ==
  ASSUME SpaceInv
  PROVE  Space!SnapshotAccounted
<1>1. ASSUME snap.step = "ready"
      PROVE  /\ \A p \in Paths : manifest[p] = IF Space!Visible(p) THEN workspaceTree[p] ELSE "absent"
             /\ \A p \in Paths : manifest[p] \notin {"dotgit", "escapingLink"} /\ ~snap.failed
  BY <1>1 DEF SpaceInv, SnapshotInv, Space!Unsafe
<1> QED
  BY <1>1 DEF SpaceInv, ReportInv, DraftInv, Space!SnapshotAccounted

-----------------------------------------------------------------------------
(***************************************************************************)
(* The record of a session.                                                *)
(***************************************************************************)

(* The record as a sequence of transitions. *)
LifeInv ==
  /\ trail \in Seq([key : RequestKeys, from : Life!States, to : Life!States, start : Nat])
  /\ session \in Life!States /\ starts \in Nat
  /\ recovery.after \in Life!States
  /\ cursor.calls \in Nat
  /\ Life!RecordIsChain

LEMMA MovesExtends ==
  ASSUME LifeInv, NEW k \in RequestKeys, NEW to \in Life!States, Life!Moves(k, to),
         cursor' = cursor, starts' = starts, recovery'.after \in Life!States
  PROVE  LifeInv'
<1> DEFINE n == Len(trail)
           r == [key |-> k, from |-> session, to |-> to, start |-> starts]
<1>1. r \in [key : RequestKeys, from : Life!States, to : Life!States, start : Nat]
  BY DEF LifeInv
<1>2. /\ trail' = Append(trail, r) /\ n \in Nat /\ Len(trail') = n + 1
      /\ trail' \in Seq([key : RequestKeys, from : Life!States, to : Life!States, start : Nat])
      /\ trail'[n + 1] = r /\ \A i \in 1 .. n : trail'[i] = trail[i]
  BY <1>1 DEF LifeInv, Life!Moves
<1>3. session \notin Life!Terminal
  BY DEF Life!Moves, Life!TransitionAllowed, Life!Terminal, Life!Waiting
<1>4. session' = trail'[Len(trail')].to /\ trail' # <<>>
  BY <1>2 DEF Life!Moves
<1>5. ASSUME NEW i \in 1 .. Len(trail')
      PROVE  /\ trail'[i].from = IF i = 1 THEN "queued" ELSE trail'[i - 1].to
             /\ trail'[i].from \notin Life!Terminal
             /\ \A j \in 1 .. (i - 1) : trail'[j].key # trail'[i].key
  <2>1. CASE i \in 1 .. n
    BY <1>2, <2>1 DEF LifeInv, Life!RecordIsChain
  <2>2. CASE i = n + 1
    <3>1. \A j \in 1 .. n : trail[j].key # k
      BY DEF Life!Moves, Life!Applied
    <3>2. session = IF n = 0 THEN "queued" ELSE trail[n].to
      BY <1>2 DEF LifeInv, Life!RecordIsChain
    <3> QED
      BY <1>2, <1>3, <2>2, <3>1, <3>2
  <2> QED
    BY <1>2, <2>1, <2>2
<1> QED
  BY <1>2, <1>4, <1>5 DEF LifeInv, Life!RecordIsChain, Life!Moves

LEMMA LifeStep ==
  ASSUME LifeInv, [Life!LifecycleNext]_Life!lifecycleVars
  PROVE  LifeInv'
<1>1. ASSUME UNCHANGED <<session, trail, starts, recovery, cursor>>
      PROVE  LifeInv'
  BY <1>1 DEF LifeInv, Life!RecordIsChain
<1>2. ASSUME NEW k \in RequestKeys, Life!Recover(k)
      PROVE  LifeInv'
  <2>1. CASE Life!Moves(k, recovery.after)
    BY <1>2, <2>1, MovesExtends DEF LifeInv, Life!Recover, Life!Keep, Life!States
  <2>2. CASE UNCHANGED <<session, trail>>
    BY <1>2, <2>2 DEF LifeInv, Life!Recover, Life!Keep, Life!States, Life!RecordIsChain
  <2> QED
    BY <1>2, <2>1, <2>2 DEF Life!Recover
<1>3. CASE Life!CancelWithCleanup
  BY <1>1, <1>3 DEF Life!CancelWithCleanup
<1>4. ASSUME NEW k \in RequestKeys, NEW to \in Life!States, Life!Request(k, to)
      PROVE  LifeInv'
  <2>1. CASE Life!Moves(k, to)
    BY <1>4, <2>1, MovesExtends DEF LifeInv, Life!Request
  <2>2. CASE Life!Replays(k, to)
    BY <1>1, <1>4, <2>2 DEF Life!Request, Life!Replays
  <2> QED
    BY <1>4, <2>1, <2>2 DEF Life!Request, Life!Attempt
<1>5. CASE Life!Restart
  BY <1>5, CountsAndNames
     DEF LifeInv, Life!Restart, Life!AfterRestart, Life!RecordIsChain, Life!States
<1>6. CASE Life!LeaseCheck
  BY <1>6 DEF LifeInv, Life!LeaseCheck, Life!RecordIsChain, Life!States
<1>7. CASE Life!ToolCall
  <2>1. cursor'.calls \in Nat /\ (AfterCalls # 0 => cursor'.calls < AfterCalls)
    BY <1>7, CountsAndNames DEF LifeInv, Life!RecordIsChain, Life!ToolCall, Life!RecordToolCall
  <2> QED
    BY <1>7, <2>1 DEF LifeInv, Life!RecordIsChain, Life!ToolCall
<1>8. CASE Life!CleanupEnds \/ Life!Tick \/ UNCHANGED Life!lifecycleVars
  BY <1>1, <1>8 DEF Life!CleanupEnds, Life!Tick, Life!lifecycleVars
<1> QED
  BY <1>2, <1>3, <1>4, <1>5, <1>6, <1>7, <1>8 DEF Life!LifecycleNext

LEMMA LifeInitially ==
  ASSUME Life!LifecycleInit
  PROVE  LifeInv
BY CountsAndNames DEF Life!LifecycleInit, LifeInv, Life!RecordIsChain, Life!Keep, Life!States

(* What sessions, tools and workspaces keep to: a tool a worker can call   *)
(* has no field of an untrusted layer, a session's record is one chain     *)
(* that applies no request twice, a snapshot holds every visible path, its *)
(* reconciliation names each of them the worker had changed before (not a  *)
(* file the worker created, which is in no manifest), and a delivery loses *)
(* no commit.  For every set of layers, definitions, request keys, paths   *)
(* and kinds.                                                              *)
THEOREM SessionsAreContained == Spec => []SessionsContained
<1> DEFINE I == ToolInv /\ LifeInv /\ SpaceInv
<1>1. Init => I
  <2>1. Config!ToolInit => ToolInv
    BY DEF ToolInv, Config!ToolInit, Config!Pending
  <2> QED
    BY <2>1, LifeInitially, SpaceInitially DEF Init
<1>2. I /\ [Next]_vars => I'
  BY ComponentSteps, ToolInvHolds, LifeStep, SnapshotStep, ReportStep, DraftStep DEF SpaceInv
<1>3. I => SessionsContained
  BY ToolsTrustedHolds, SnapshotHolds DEF SessionsContained, LifeInv
<1> QED
  BY <1>1, <1>2, <1>3, PTL DEF Spec

-----------------------------------------------------------------------------
(***************************************************************************)
(* The breaker behind the providers.                                       *)
(***************************************************************************)

(* The breaker is away from Closed exactly while the failures since the    *)
(* last success reach the threshold; a caller that waits for a retry has   *)
(* an attempt left.                                                        *)
BreakerInv ==
  /\ breaker \in [state : {"Closed", "Open", "HalfOpen"}, opened_at : Nat, failures : Nat]
  /\ governanceClock \in Nat /\ ops \in 0 .. MaxOps
  /\ early = FALSE
  /\ breaker.state # "Closed" <=> breaker.failures >= FailureThreshold

CallerStates == [pc : Gov!Pcs, attempt : Nat, result : Gov!Results]
CallerOk(r) ==
  r \in CallerStates /\ r.attempt <= MaxAttempts /\ (r.pc = "backoff" => r.attempt < MaxAttempts)

CallersInv ==
  /\ caller \in [Callers -> CallerStates]
  /\ \A c \in Callers : CallerOk(caller[c])

GovInv == BreakerInv /\ CallersInv

LEMMA GovNumbers ==
  /\ MaxAttempts \in Nat /\ FailureThreshold \in Nat \ {0} /\ RecoveryTimeout \in Nat
  /\ MaxOps \in Nat
BY CountsAndNames DEF Gov!GovernanceAssumption

LEMMA GovInitially ==
  ASSUME Gov!GovInit
  PROVE  GovInv
BY GovNumbers
   DEF GovInv, BreakerInv, CallersInv, CallerOk, CallerStates, Gov!GovInit, Gov!NoCall, Gov!Pcs,
       Gov!Results

LEMMA CallerSet ==
  ASSUME CallersInv, NEW c \in Callers, NEW r, CallerOk(r), caller' = [caller EXCEPT ![c] = r]
  PROVE  CallersInv'
BY DEF CallersInv, CallerOk

LEMMA CallersStep ==
  ASSUME CallersInv, [Gov!GovNext]_Gov!govVars
  PROVE  CallersInv'
<1>1. ASSUME NEW c \in Callers, NEW result \in Gov!Results, Gov!Finish(c, result)
      PROVE  CallersInv'
  <2>1. CallerOk([caller[c] EXCEPT !.pc = "done", !.result = result])
    BY DEF CallersInv, CallerOk, CallerStates, Gov!Pcs
  <2> QED
    BY <1>1, <2>1, CallerSet DEF Gov!Finish, Gov!Set
<1>2. ASSUME NEW c \in Callers, Gov!Route(c)
      PROVE  CallersInv'
  <2>1. "fatal" \in Gov!Results /\ "exhausted" \in Gov!Results
    BY DEF Gov!Results
  <2>2. MaxAttempts # 0 => CallerOk([Gov!NoCall EXCEPT !.pc = "allows", !.attempt = 1])
    <3>1. \A n \in Nat : n <= MaxAttempts =>
            CallerOk([Gov!NoCall EXCEPT !.pc = "allows", !.attempt = n])
      BY DEF CallerOk, CallerStates, Gov!Pcs, Gov!Results, Gov!NoCall
    <3>2. MaxAttempts # 0 => 1 <= MaxAttempts
      BY GovNumbers
    <3> QED
      BY <3>1, <3>2
  <2>3. ASSUME MaxAttempts # 0, Gov!Set(c, [Gov!NoCall EXCEPT !.pc = "allows", !.attempt = 1])
        PROVE  CallersInv'
    BY <2>2, <2>3, CallerSet DEF Gov!Set
  <2> QED
    BY <1>1, <1>2, <2>1, <2>3 DEF Gov!Route
<1>3. ASSUME NEW c \in Callers, Gov!BreakerAllows(c)
      PROVE  CallersInv'
  <2>1. "open" \in Gov!Results
    BY DEF Gov!Results
  <2>2. CallerOk([caller[c] EXCEPT !.pc = "inflight"])
    BY DEF CallersInv, CallerOk, CallerStates, Gov!Pcs
  <2>3. ASSUME Gov!Set(c, [caller[c] EXCEPT !.pc = "inflight"])
        PROVE  CallersInv'
    BY <2>2, <2>3, CallerSet DEF Gov!Set
  <2> QED
    BY <1>1, <1>3, <2>1, <2>3 DEF Gov!BreakerAllows
<1>4. ASSUME NEW c \in Callers, Gov!OperationSucceeds(c)
      PROVE  CallersInv'
  <2>1. "ok" \in Gov!Results
    BY DEF Gov!Results
  <2> QED
    BY <1>1, <1>4, <2>1 DEF Gov!OperationSucceeds
<1>5. ASSUME NEW c \in Callers, Gov!OperationFails(c)
      PROVE  CallersInv'
  <2>1. "fatal" \in Gov!Results
    BY DEF Gov!Results
  <2>2. CallerOk(Gov!AfterTransient(c))
    <3>1. CallerOk(caller[c])
      BY DEF CallersInv
    <3>2. CallerOk([caller[c] EXCEPT !.pc = "done", !.result = "exhausted"])
      BY <3>1 DEF CallerOk, CallerStates, Gov!Pcs, Gov!Results
    <3>3. caller[c].attempt < MaxAttempts => CallerOk([caller[c] EXCEPT !.pc = "backoff"])
      BY <3>1 DEF CallerOk, CallerStates, Gov!Pcs
    <3>4. caller[c].attempt >= MaxAttempts \/ caller[c].attempt < MaxAttempts
      BY <3>1, GovNumbers DEF CallerOk, CallerStates
    <3> QED
      BY <3>2, <3>3, <3>4 DEF Gov!AfterTransient
  <2>3. ASSUME Gov!Set(c, Gov!AfterTransient(c))
        PROVE  CallersInv'
    BY <2>2, <2>3, CallerSet DEF Gov!Set
  <2> QED
    BY <1>1, <1>5, <2>1, <2>3 DEF Gov!OperationFails
<1>6. ASSUME NEW c \in Callers, Gov!BackoffEnds(c)
      PROVE  CallersInv'
  <2>1. "cancelled" \in Gov!Results
    BY DEF Gov!Results
  <2>2. CallerOk([caller[c] EXCEPT !.pc = "allows", !.attempt = @ + 1])
    <3>1. CallerOk(caller[c]) /\ caller[c].pc = "backoff"
      BY <1>6 DEF CallersInv, Gov!BackoffEnds, Gov!At
    <3>2. caller[c].attempt + 1 \in Nat /\ caller[c].attempt + 1 <= MaxAttempts
      BY <3>1, GovNumbers DEF CallerOk, CallerStates
    <3>3. \A n \in Nat : n <= MaxAttempts =>
            CallerOk([caller[c] EXCEPT !.pc = "allows", !.attempt = n])
      BY <3>1 DEF CallerOk, CallerStates, Gov!Pcs
    <3> QED
      BY <3>2, <3>3
  <2>3. ASSUME Gov!Set(c, [caller[c] EXCEPT !.pc = "allows", !.attempt = @ + 1])
        PROVE  CallersInv'
    BY <2>2, <2>3, CallerSet DEF Gov!Set
  <2> QED
    BY <1>1, <1>6, <2>1, <2>3 DEF Gov!BackoffEnds
<1>7. ASSUME NEW c \in Callers, Gov!Return(c)
      PROVE  CallersInv'
  <2>1. CallerOk(Gov!NoCall)
    BY GovNumbers DEF CallerOk, CallerStates, Gov!NoCall, Gov!Pcs, Gov!Results
  <2> QED
    BY <1>7, <2>1, CallerSet DEF Gov!Return, Gov!Set
<1>8. CASE UNCHANGED caller
  BY <1>8 DEF CallersInv
<1> QED
  BY <1>2, <1>3, <1>4, <1>5, <1>6, <1>7, <1>8 DEF Gov!GovNext, Gov!ClockTick, Gov!govVars

LEMMA BreakerStep ==
  ASSUME BreakerInv, [Gov!GovNext]_Gov!govVars
  PROVE  BreakerInv'
<1> USE GovNumbers DEF BreakerInv
<1>1. ASSUME NEW c \in Callers, Gov!BreakerAllows(c)
      PROVE  BreakerInv'
  <2>1. CASE Gov!CoolingDown
    BY <1>1, <2>1 DEF Gov!BreakerAllows
  <2>2. CASE ~Gov!CoolingDown
    <3>1. early' = FALSE
      <4>1. early' = (early \/ Gov!CoolingDown)
        BY <1>1, <2>2, Zenon DEF Gov!BreakerAllows
      <4> QED
        BY <2>2, <4>1, Zenon
    <3>2. ops' \in 0 .. MaxOps /\ governanceClock' = governanceClock
      BY <1>1, <2>2 DEF Gov!BreakerAllows
    <3>3. breaker' = breaker
          \/ (breaker.state = "Open" /\ breaker' = [breaker EXCEPT !.state = "HalfOpen"])
      BY <1>1, <2>2, Zenon DEF Gov!BreakerAllows
    <3> QED
      BY <3>1, <3>2, <3>3
  <2> QED
    BY <2>1, <2>2
<1>2. ASSUME NEW c \in Callers, Gov!OperationSucceeds(c)
      PROVE  BreakerInv'
  <2>1. breaker' = [state |-> "Closed", opened_at |-> breaker.opened_at, failures |-> 0]
    BY <1>2 DEF Gov!OperationSucceeds, Gov!RecordSuccess
  <2> QED
    BY <1>2, <2>1 DEF Gov!OperationSucceeds
<1>3. ASSUME NEW c \in Callers, Gov!OperationFails(c)
      PROVE  BreakerInv'
  BY <1>3 DEF Gov!OperationFails, Gov!RecordFailure
<1>4. CASE Gov!ClockTick
  BY <1>4 DEF Gov!ClockTick
<1>5. CASE UNCHANGED <<breaker, governanceClock, ops, early>>
  BY <1>5
<1> QED
  BY <1>1, <1>2, <1>3, <1>4, <1>5
     DEF Gov!GovNext, Gov!govVars, Gov!Route, Gov!BackoffEnds, Gov!Return

LEMMA GovHolds ==
  ASSUME GovInv
  PROVE  Gov!GovTypeOK /\ Gov!BreakerSound
BY GovNumbers
   DEF GovInv, BreakerInv, CallersInv, CallerOk, CallerStates, Gov!GovTypeOK, Gov!BreakerSound

-----------------------------------------------------------------------------
(***************************************************************************)
(* The processes that run the loop and their worktrees.                    *)
(***************************************************************************)

(* Only the process that holds the lock has a stage, and a worker belongs  *)
(* to a process whose invocation runs: whoever prunes is alone.            *)
WatchInv ==
  /\ stage \in [Procs -> {"off", "locked", "pruned", "running"}]
  /\ worker \in [WTasks -> Procs \union {Watch!Nobody}]
  /\ \A p \in Procs : stage[p] # "off" => lock = p
  /\ \A t \in WTasks, p \in Procs : worker[t] = p => stage[p] = "running"
  /\ Watch!WorktreeKept

LEMMA WatchStep ==
  ASSUME WatchInv, [Watch!WatchNext]_Watch!watchVars
  PROVE  WatchInv'
<1> USE CountsAndNames DEF WatchInv, Watch!WorktreeKept
<1>1. ASSUME NEW p \in Procs, Watch!Acquire(p)
      PROVE  WatchInv'
  BY <1>1 DEF Watch!Acquire
<1>2. ASSUME NEW p \in Procs, Watch!StartupFails(p)
      PROVE  WatchInv'
  BY <1>2 DEF Watch!StartupFails
<1>3. ASSUME NEW p \in Procs, Watch!Prune(p)
      PROVE  WatchInv'
  <2>1. \A t \in WTasks : worker[t] = Watch!Nobody
    BY <1>3 DEF Watch!Prune
  <2> QED
    BY <1>3, <2>1 DEF Watch!Prune
<1>4. ASSUME NEW p \in Procs, Watch!BeginInvocation(p)
      PROVE  WatchInv'
  BY <1>4 DEF Watch!BeginInvocation
<1>5. ASSUME NEW p \in Procs, Watch!NextInvocation(p)
      PROVE  WatchInv'
  BY <1>5 DEF Watch!NextInvocation, Watch!Drained
<1>6. ASSUME NEW p \in Procs, Watch!Exit(p)
      PROVE  WatchInv'
  BY <1>6 DEF Watch!Exit, Watch!Drained
<1>7. ASSUME NEW p \in Procs, Watch!Crash(p)
      PROVE  WatchInv'
  BY <1>7 DEF Watch!Crash
<1>8. ASSUME NEW p \in Procs, NEW t \in WTasks, Watch!Start(p, t)
      PROVE  WatchInv'
  BY <1>8 DEF Watch!Start, Watch!Startable
<1>9. ASSUME NEW t \in WTasks, Watch!WorkerDone(t) \/ Watch!WorkerFails(t)
      PROVE  WatchInv'
  BY <1>9 DEF Watch!WorkerDone, Watch!WorkerFails
<1>10. ASSUME UNCHANGED <<lock, stage, watchTree, worker>>
       PROVE  WatchInv'
  BY <1>10
<1> QED
  BY <1>1, <1>2, <1>3, <1>4, <1>5, <1>6, <1>7, <1>8, <1>9, <1>10
     DEF Watch!WatchNext, Watch!watchVars, Watch!StartFails, Watch!WorktreeInTheWay

LEMMA WatchInitially ==
  ASSUME Watch!WatchInit
  PROVE  WatchInv
BY CountsAndNames DEF WatchInv, Watch!WatchInit, Watch!WorktreeKept

-----------------------------------------------------------------------------
(***************************************************************************)
(* The guardrails of an attempt.                                           *)
(***************************************************************************)

LEMMA LimitNumbers ==
  /\ Settings \subseteq Nat /\ DefaultTurns \in Nat \ {0}
  /\ DefaultGuard \in Nat \ {0} /\ DefaultWindow \in Nat \ {0} /\ DefaultRepeat \in Nat \ {0, 1}
BY CountsAndNames

(* The window holds the last turns of the attempt, at most its size. *)
IsWindow(w, s, size) ==
  /\ Len(w) = (IF Len(s) > size THEN size ELSE Len(s))
  /\ \A i \in 1 .. Len(w) : w[i] = s[Len(s) - Len(w) + i]

(* Appending a shape to both, and dropping the oldest of a full window,    *)
(* keeps it the window of the attempt.                                     *)
LEMMA WindowSlides ==
  ASSUME NEW S, NEW w \in Seq(S), NEW s \in Seq(S), NEW size \in Nat \ {0}, NEW x \in S,
         IsWindow(w, s, size), NEW v,
         v = IF Len(Append(w, x)) > size THEN Tail(Append(w, x)) ELSE Append(w, x)
  PROVE  v \in Seq(S) /\ IsWindow(v, Append(s, x), size)
<1> DEFINE a == Append(w, x)
           b == Append(s, x)
<1>1. /\ a \in Seq(S) /\ Len(a) = Len(w) + 1 /\ a[Len(w) + 1] = x
      /\ \A i \in 1 .. Len(w) : a[i] = w[i]
  OBVIOUS
<1>2. /\ b \in Seq(S) /\ Len(b) = Len(s) + 1 /\ b[Len(s) + 1] = x
      /\ \A i \in 1 .. Len(s) : b[i] = s[i]
  OBVIOUS
<1>3. /\ Len(w) \in Nat /\ Len(s) \in Nat /\ Len(w) <= Len(s) /\ Len(w) <= size
      /\ Len(s) > size => Len(w) = size
      /\ Len(s) <= size => Len(w) = Len(s)
  BY DEF IsWindow
<1>w. \A i \in 1 .. Len(w) : w[i] = s[Len(s) - Len(w) + i]
  BY DEF IsWindow
<1>v. /\ Len(a) > size => v = Tail(a)
      /\ ~(Len(a) > size) => v = a
  OBVIOUS
<1> HIDE DEF a, b
<1>4. \A i \in 1 .. Len(a) : a[i] = b[Len(b) - Len(a) + i]
  <2> SUFFICES ASSUME NEW i \in 1 .. Len(a)
               PROVE  a[i] = b[Len(b) - Len(a) + i]
    OBVIOUS
  <2>1. CASE i \in 1 .. Len(w)
    <3>1. Len(s) - Len(w) + i \in 1 .. Len(s)
      BY <1>3, <2>1
    <3> QED
      <4>1. a[i] = w[i] /\ w[i] = s[Len(s) - Len(w) + i]
        BY <1>1, <1>w, <2>1
      <4>2. b[Len(s) - Len(w) + i] = s[Len(s) - Len(w) + i]
        BY <1>2, <3>1
      <4>3. Len(b) - Len(a) + i = Len(s) - Len(w) + i
        BY <1>1, <1>2, <1>3, <2>1
      <4> QED
        BY <4>1, <4>2, <4>3
  <2>2. CASE i = Len(w) + 1
    <3>1. Len(b) - Len(a) + i = Len(s) + 1
      BY <1>1, <1>2, <1>3, <2>2
    <3> QED
      BY <1>1, <1>2, <2>2, <3>1
  <2> QED
    BY <1>1, <1>3, <2>1, <2>2
<1>5. CASE Len(a) > size
  <2>1. /\ v \in Seq(S) /\ Len(v) = Len(a) - 1
        /\ \A i \in 1 .. Len(v) : v[i] = a[i + 1]
    BY <1>1, <1>3, <1>5, <1>v
  <2>2. Len(w) = size /\ Len(v) = size /\ Len(b) > size
    BY <1>1, <1>2, <1>3, <1>5, <2>1
  <2>3. ASSUME NEW i \in 1 .. Len(v) PROVE v[i] = b[Len(b) - Len(v) + i]
    <3>1. i + 1 \in 1 .. Len(a) /\ Len(b) - Len(a) + (i + 1) = Len(b) - Len(v) + i
      <4>1. Len(a) \in Nat /\ Len(b) \in Nat /\ Len(v) \in Nat /\ Len(v) = Len(a) - 1
        BY <1>1, <1>2, <1>3, <2>1
      <4>2. PICK m, n, k \in Nat : m = Len(v) /\ n = Len(a) /\ k = Len(b)
        BY <4>1
      <4>3. i \in 1 .. m /\ m = n - 1
        BY <4>1, <4>2
      <4>4. i + 1 \in 1 .. n /\ k - n + (i + 1) = k - m + i
        BY <4>3
      <4> QED
        BY <4>2, <4>4
    <3> QED
      BY <1>4, <2>1, <3>1
  <2> QED
    <3>1. Len(v) = IF Len(b) > size THEN size ELSE Len(b)
      BY <2>2
    <3> QED
      BY <2>1, <2>3, <3>1 DEF IsWindow, b
<1>6. CASE ~(Len(a) > size)
  <2>1. v = a
    BY <1>6, <1>v
  <2>2. Len(w) = Len(s)
    BY <1>1, <1>3, <1>6
  <2> QED
    <3>1. Len(v) = IF Len(b) > size THEN size ELSE Len(b)
      BY <1>1, <1>2, <1>3, <1>6, <2>1, <2>2
    <3> QED
      BY <1>1, <1>4, <2>1, <3>1 DEF IsWindow, b
<1> QED
  BY <1>5, <1>6

(* The window counts what the last turns of the attempt hold. *)
LEMMA WindowCounts ==
  ASSUME NEW S, NEW w \in Seq(S), NEW s \in Seq(S), NEW size \in Nat \ {0},
         IsWindow(w, s, size), s # <<>>
  PROVE  Cardinality({n \in 1 .. Len(w) : w[n] = w[Len(w)]})
           = Cardinality({k \in 1 .. Len(s) : k > Len(s) - size /\ s[k] = s[Len(s)]})
<1> DEFINE A == {n \in 1 .. Len(w) : w[n] = w[Len(w)]}
           B == {k \in 1 .. Len(s) : k > Len(s) - size /\ s[k] = s[Len(s)]}
           d == Len(s) - Len(w)
           f == [n \in A |-> n + d]
<1>1. /\ Len(w) \in Nat /\ Len(s) \in Nat \ {0} /\ Len(w) > 0 /\ Len(w) <= Len(s) /\ d \in Nat
      /\ Len(w) <= size /\ (Len(s) > size => Len(w) = size) /\ (Len(s) <= size => d = 0)
  BY DEF IsWindow
<1>w. \A i \in 1 .. Len(w) : w[i] = s[i + d]
  <2> SUFFICES ASSUME NEW i \in 1 .. Len(w) PROVE w[i] = s[i + d]
    OBVIOUS
  <2>1. Len(s) - Len(w) + i = i + d
    BY <1>1
  <2> QED
    BY <2>1 DEF IsWindow
<1>2. w[Len(w)] = s[Len(s)]
  <2>1. Len(w) \in 1 .. Len(w) /\ Len(w) + d = Len(s)
    BY <1>1
  <2> QED
    BY <1>w, <2>1
<1>3. ASSUME NEW n \in A PROVE n + d \in B
  <2>1. n + d \in 1 .. Len(s) /\ n + d > Len(s) - size
    BY <1>1
  <2> QED
    BY <1>2, <1>w, <2>1
<1>4. ASSUME NEW k \in B PROVE k - d \in A
  <2>1. k - d \in 1 .. Len(w) /\ (k - d) + d = k
    BY <1>1
  <2> QED
    BY <1>2, <1>w, <2>1
<1>5. f \in Bijection(A, B)
  <2>1. f \in [A -> B] /\ \A x \in A : f[x] = x + d
    BY <1>3
  <2>2. \A x, y \in A : f[x] = f[y] => x = y
    BY <1>1, <2>1
  <2>3. \A k \in B : \E x \in A : f[x] = k
    BY <1>1, <1>4, <2>1
  <2> QED
    BY <2>1, <2>2, <2>3 DEF Bijection, Injection, Surjection, IsInjective
<1>6. IsFiniteSet(A)
  <2>1. IsFiniteSet(1 .. Len(w)) /\ A \in SUBSET (1 .. Len(w))
    BY <1>1, FS_Interval
  <2> QED
    BY <2>1, FS_Subset
<1> QED
  BY <1>5, <1>6, FS_Bijection DEF ExistsBijection

(* A guard that the settings switch off was warned about. *)
Guarded ==
  /\ \A k \in Limits!Guards : settings[k] = 0 => k \in warned
  /\ ~Limits!ChurnEnabled => warned \cap {"repeat", "window"} # {}

(* Before the attempt starts nothing was run and the default turn bound    *)
(* stands; from then on the window is the one of the attempt.              *)
LimitInv ==
  /\ \A k \in DOMAIN block : block[k] \in Nat
  /\ settings \in [Limits!Guards -> Nat] /\ maxTurns \in Nat
  /\ run \in Seq(CallShapes) /\ window \in Seq(CallShapes)
  /\ step \in {"resolve", "apply", "refused", "running", "churn", "turns-exhausted"}
  /\ step \in {"resolve", "apply"} => run = <<>> /\ window = <<>> /\ maxTurns = DefaultTurns
  /\ step \in {"apply", "running", "churn", "turns-exhausted"} => Guarded
  /\ step \in {"running", "churn", "turns-exhausted"} =>
       /\ weak = {} /\ maxTurns > 0 /\ Len(run) <= maxTurns
       /\ Limits!TurnsOverride => maxTurns = block["turns"]
       /\ Limits!ChurnEnabled => IsWindow(window, run, settings["window"])
       /\ (step = "churn") <=> (Limits!ChurnEnabled /\ Limits!Churning(settings["window"]))

LEMMA DefaultsOn ==
  /\ Limits!Defaults \in [Limits!Guards -> Nat \ {0}]
  /\ Limits!Defaults["repeat"] > 1 /\ Limits!Defaults["window"] > 0
  /\ \A k \in Limits!Guards : Limits!Defaults[k] = Limits!Default(k)
BY LimitNumbers DEF Limits!Defaults, Limits!Default, Limits!Guards

LEMMA LimitInitially ==
  ASSUME Limits!LimitsInit
  PROVE  LimitInv
<1>1. \A k \in DOMAIN block : block[k] \in Nat
  <2>1. PICK K : block \in [K -> Settings]
    BY DEF Limits!LimitsInit
  <2> QED
    BY <2>1, LimitNumbers
<1> QED
  BY <1>1, LimitNumbers, DefaultsOn DEF LimitInv, Limits!LimitsInit

LEMMA ResolveStep ==
  ASSUME LimitInv, Limits!ResolveGuardrails
  PROVE  LimitInv'
<1> USE DEF LimitInv
<1>1. CASE step' = "refused"
  BY <1>1 DEF Limits!ResolveGuardrails
<1>2. CASE resolves /\ settings' = Limits!FromConfig /\ warned' = Limits!Warnings /\ step' = "apply"
  <2>1. ASSUME NEW k \in Limits!Guards
        PROVE  /\ settings'[k] \in Nat
               /\ settings'[k] = 0 => k \in warned'
               /\ k = "repeat" /\ ~(settings'[k] > 1) => k \in warned'
    <3>1. CASE k \in DOMAIN block
      <4>1. settings'[k] = block[k] /\ block[k] \in Nat
        BY <1>2, <3>1 DEF Limits!FromConfig
      <4>2. k \in warned' <=> block[k] = 0 \/ (k = "repeat" /\ block[k] = 1)
        BY <1>2, <3>1 DEF Limits!Warnings
      <4> QED
        BY <4>1, <4>2
    <3>2. CASE k \notin DOMAIN block
      <4>1. settings'[k] = Limits!Defaults[k]
        BY <1>2, <3>2, DefaultsOn DEF Limits!FromConfig
      <4> QED
        BY <4>1, DefaultsOn
    <3> QED
      BY <3>1, <3>2
  <2>2. settings' \in [Limits!Guards -> Nat]
    BY <1>2, <2>1 DEF Limits!FromConfig
  <2>3. Guarded'
    BY <2>1, <2>2 DEF Guarded, Limits!ChurnEnabled, Limits!Guards
  <2> QED
    BY <1>2, <2>2, <2>3 DEF Limits!ResolveGuardrails
<1>3. CASE settings' = Limits!Defaults /\ warned' = Limits!Guards /\ step' = "apply"
  <2>1. Guarded'
    BY <1>3, DefaultsOn DEF Guarded, Limits!ChurnEnabled, Limits!Guards
  <2>2. settings' \in [Limits!Guards -> Nat]
    BY <1>3, DefaultsOn
  <2> QED
    BY <1>3, <2>1, <2>2 DEF Limits!ResolveGuardrails
<1> QED
  BY <1>1, <1>2, <1>3 DEF Limits!ResolveGuardrails

LEMMA ApplyStep ==
  ASSUME LimitInv, Limits!WithGuardrails
  PROVE  LimitInv'
<1>1. /\ step = "apply" /\ run = <<>> /\ window = <<>> /\ maxTurns = DefaultTurns
      /\ UNCHANGED <<block, resolves, weak, settings, warned, window, run>>
      /\ maxTurns' = Limits!AppliedTurns
  BY DEF LimitInv, Limits!WithGuardrails
<1>2. maxTurns' \in Nat
  BY <1>1, LimitNumbers DEF LimitInv, Limits!AppliedTurns, Limits!TurnsOverride
<1>3. Guarded'
  BY <1>1 DEF LimitInv, Guarded, Limits!ChurnEnabled
<1>4. CASE Limits!Valid(Limits!AppliedTurns)
  <2>1. step' = "running" /\ weak' = {} /\ maxTurns' > 0 /\ Len(run') = 0
    BY <1>1, <1>2, <1>4 DEF Limits!WithGuardrails, Limits!Valid
  <2>2. Limits!TurnsOverride' => maxTurns' = block'["turns"]
    BY <1>1 DEF Limits!AppliedTurns, Limits!TurnsOverride
  <2>3. Limits!ChurnEnabled' => IsWindow(window', run', settings'["window"])
    BY <1>1 DEF LimitInv, Limits!ChurnEnabled, IsWindow, Limits!Guards
  <2>4. ~(Limits!Churning(settings["window"])')
    BY <1>1 DEF Limits!Churning
  <2> QED
    BY <1>1, <1>2, <1>3, <2>1, <2>2, <2>3, <2>4 DEF LimitInv
<1>5. CASE ~Limits!Valid(Limits!AppliedTurns)
  BY <1>1, <1>2, <1>5 DEF LimitInv, Limits!WithGuardrails
<1> QED
  BY <1>4, <1>5

LEMMA TurnStep ==
  ASSUME LimitInv, Limits!Turn
  PROVE  LimitInv'
<1> DEFINE W == settings["window"]
<1>1. PICK s \in CallShapes :
        /\ run' = Append(run, s)
        /\ window' = IF Limits!ChurnEnabled THEN Limits!Observed(s) ELSE <<>>
  BY DEF Limits!Turn
<1>2. /\ step = "running" /\ Len(run) < maxTurns
      /\ UNCHANGED <<block, resolves, weak, settings, warned, maxTurns>>
      /\ step' = IF Limits!ChurnEnabled /\ Limits!Fires(window') THEN "churn" ELSE "running"
  BY DEF Limits!Turn
<1>3. run' \in Seq(CallShapes) /\ Len(run') = Len(run) + 1 /\ run' # <<>> /\ Len(run') <= maxTurns'
  BY <1>1, <1>2 DEF LimitInv
<1>4. /\ Guarded' /\ Limits!ChurnEnabled' = Limits!ChurnEnabled
      /\ Limits!TurnsOverride' = Limits!TurnsOverride
  BY <1>2 DEF LimitInv, Guarded, Limits!ChurnEnabled, Limits!TurnsOverride
<1>5. CASE Limits!ChurnEnabled
  <2>1. W \in Nat \ {0}
    BY <1>5 DEF LimitInv, Limits!ChurnEnabled, Limits!Guards
  <2>2. window' = IF Len(Append(window, s)) > W THEN Tail(Append(window, s)) ELSE Append(window, s)
    BY <1>1, <1>5 DEF Limits!Observed
  <2>3. window' \in Seq(CallShapes) /\ IsWindow(window', run', W)
    BY <1>1, <1>2, <1>5, <2>1, <2>2, WindowSlides DEF LimitInv
  <2>4. Limits!Fires(window') <=> Limits!Churning(W)'
    <3>1. Cardinality({n \in 1 .. Len(window') : window'[n] = window'[Len(window')]})
            = Cardinality({k \in 1 .. Len(run') : k > Len(run') - W /\ run'[k] = run'[Len(run')]})
      BY <1>3, <2>1, <2>3, WindowCounts
    <3>2. Limits!Fires(window') <=>
            Cardinality({n \in 1 .. Len(window') : window'[n] = window'[Len(window')]})
              >= settings["repeat"]
      BY DEF Limits!Fires, Limits!Cardinality, Cardinality
    <3>3. Limits!Churning(W)' <=>
            /\ run' # <<>>
            /\ Cardinality({k \in 1 .. Len(run') : k > Len(run') - W' /\ run'[k] = run'[Len(run')]})
              >= settings'["repeat"]
      BY DEF Limits!Churning, Limits!Cardinality, Cardinality
    <3> QED
      BY <1>2, <1>3, <3>1, <3>2, <3>3
  <2> QED
    BY <1>2, <1>3, <1>4, <1>5, <2>3, <2>4 DEF LimitInv
<1>6. CASE ~Limits!ChurnEnabled
  <2>1. window' = <<>> /\ step' = "running"
    BY <1>1, <1>2, <1>6
  <2> QED
    BY <1>2, <1>3, <1>4, <1>6, <2>1 DEF LimitInv
<1> QED
  BY <1>5, <1>6

LEMMA LimitStep ==
  ASSUME LimitInv, [Limits!LimitsNext]_Limits!limitVars
  PROVE  LimitInv'
<1>1. CASE Limits!TurnsSpent
  BY <1>1 DEF LimitInv, Limits!TurnsSpent, Guarded, Limits!ChurnEnabled, Limits!TurnsOverride,
              Limits!Churning
<1>2. CASE UNCHANGED Limits!limitVars
  BY <1>2 DEF LimitInv, Limits!limitVars, Guarded, Limits!ChurnEnabled, Limits!TurnsOverride,
              Limits!Churning
<1> QED
  BY <1>1, <1>2, ResolveStep, ApplyStep, TurnStep DEF Limits!LimitsNext

LEMMA LimitsHold ==
  ASSUME LimitInv
  PROVE  Limits!LimitsEnforced
BY DEF LimitInv, Guarded, Limits!LimitsEnforced, Limits!TurnsOverride

(* Nothing exceeds what was configured or takes what is in use: the        *)
(* guardrails are those the settings ask for and the churn guard fires     *)
(* exactly when the last turns of the whole attempt say so; the breaker    *)
(* counts the failures since the last success whatever order the callers'  *)
(* results come in; no prune takes a worktree in use.  For every setting,  *)
(* threshold, number of callers, processes and tasks.                      *)
THEOREM LimitsAreKept == Spec => []LimitsKept
<1> DEFINE I == GovInv /\ WatchInv /\ LimitInv
<1>1. Init => I
  BY GovInitially, WatchInitially, LimitInitially DEF Init
<1>2. I /\ [Next]_vars => I'
  BY ComponentSteps, BreakerStep, CallersStep, WatchStep, LimitStep DEF GovInv
<1>3. I => LimitsKept
  BY GovHolds, LimitsHold DEF LimitsKept, WatchInv
<1> QED
  BY <1>1, <1>2, <1>3, PTL DEF Spec

-----------------------------------------------------------------------------
(***************************************************************************)
(* Chains: tables of records that each name their predecessor's hash.      *)
(***************************************************************************)

LEMMA SameCounting ==
  ASSUME NEW S
  PROVE  Stores!Cardinality(S) = Cardinality(S)
BY DEF Stores!Cardinality, Cardinality

(* One chain without gap or fork. *)
Linked(T) ==
  /\ {e.seq : e \in T} = 1 .. Cardinality(T)
  /\ \A e \in T : IF e.seq = 1 THEN e.prev = <<>>
                  ELSE \E p \in T : p.seq = e.seq - 1 /\ e.prev = p.hash

(* The record that a table's length and last hash call for. *)
Succeeds(r, T) ==
  /\ r.seq = Cardinality(T) + 1
  /\ T = {} => r.prev = <<>>
  /\ T # {} => \E p \in T : p.seq = Cardinality(T) /\ r.prev = p.hash

LEMMA LinkedGrows ==
  ASSUME NEW T, IsFiniteSet(T), Linked(T), NEW r, Succeeds(r, T)
  PROVE  IsFiniteSet(T \union {r}) /\ Linked(T \union {r})
<1> DEFINE n == Cardinality(T)
           U == T \union {r}
<1>1. n \in Nat
  BY FS_CardinalityType
<1>2. \A e \in T : e.seq \in 1 .. n
  BY DEF Linked
<1>3. r \notin T
  BY <1>1, <1>2 DEF Succeeds
<1>4. IsFiniteSet(U) /\ Cardinality(U) = n + 1
  BY <1>3, FS_AddElement
<1>5. {e.seq : e \in U} = 1 .. (n + 1)
  <2>1. \A k \in 1 .. n : \E e \in T : e.seq = k
    BY DEF Linked
  <2>2. ASSUME NEW k \in 1 .. (n + 1) PROVE \E e \in U : e.seq = k
    <3>1. CASE k \in 1 .. n
      BY <2>1, <3>1
    <3>2. CASE k = n + 1
      BY <3>2 DEF Succeeds
    <3> QED
      BY <1>1, <3>1, <3>2
  <2>3. ASSUME NEW e \in U PROVE e.seq \in 1 .. (n + 1)
    <3>1. CASE e \in T
      BY <1>1, <1>2, <3>1
    <3>2. CASE e = r
      BY <1>1, <3>2 DEF Succeeds
    <3> QED
      BY <3>1, <3>2
  <2> QED
    BY <2>2, <2>3
<1>6. ASSUME NEW e \in U
      PROVE  IF e.seq = 1 THEN e.prev = <<>> ELSE \E p \in U : p.seq = e.seq - 1 /\ e.prev = p.hash
  <2>1. CASE e \in T
    BY <2>1 DEF Linked
  <2>2. CASE e = r /\ T = {}
    <3>1. n = 0
      BY <2>2, FS_EmptySet
    <3> QED
      BY <2>2, <3>1 DEF Succeeds
  <2>3. CASE e = r /\ T # {}
    <3>1. n # 0
      BY <2>3, FS_EmptySet
    <3>2. PICK p \in T : p.seq = n /\ r.prev = p.hash
      BY <2>3 DEF Succeeds
    <3>3. e.seq # 1 /\ p.seq = e.seq - 1
      BY <1>1, <2>3, <3>1, <3>2 DEF Succeeds
    <3> QED
      BY <2>3, <3>2, <3>3
  <2> QED
    BY <2>1, <2>2, <2>3
<1> QED
  BY <1>4, <1>5, <1>6 DEF Linked

(* The record with the highest number is the last of the chain. *)
Last(T) == CHOOSE e \in T : \A o \in T : o.seq <= e.seq

LEMMA LastOfChain ==
  ASSUME NEW T, IsFiniteSet(T), Linked(T), T # {}
  PROVE  Last(T) \in T /\ Last(T).seq = Cardinality(T)
<1>1. Cardinality(T) \in Nat /\ Cardinality(T) # 0
  BY FS_CardinalityType, FS_EmptySet
<1>2. PICK e \in T : e.seq = Cardinality(T)
  <2>1. Cardinality(T) \in 1 .. Cardinality(T)
    BY <1>1
  <2> QED
    BY <2>1 DEF Linked
<1>3. \A o \in T : o.seq \in 1 .. Cardinality(T)
  BY DEF Linked
<1>4. \A o \in T : o.seq <= e.seq
  BY <1>1, <1>2, <1>3
<1>5. Last(T) \in T /\ \A o \in T : o.seq <= Last(T).seq
  BY <1>4 DEF Last
<1> QED
  BY <1>1, <1>2, <1>3, <1>5

(* What a table that verifies is: a chain whose hashes are recomputed. *)
LEMMA VerifiesIsLinked ==
  ASSUME NEW T
  PROVE  Stores!Verifies(T) <=> Linked(T) /\ \A r \in T : r.hash = Append(r.prev, r.payload)
BY SameCounting DEF Stores!Verifies, Linked

-----------------------------------------------------------------------------
(***************************************************************************)
(* The audit log.                                                          *)
(***************************************************************************)

Hashes == Seq(Payloads)
Records == [seq : Nat, prev : Hashes, payload : Payloads \union {0}, hash : Hashes]

LogTypeOK ==
  /\ auditRows \subseteq Records /\ IsFiniteSet(auditRows)
  /\ version \in [LogConns -> Nat]
  /\ cache \in [LogConns -> [head : Records, version : Nat]]
  /\ envelope \in [LogConns -> [seq : Nat, prev : Hashes]]
  /\ importing \subseteq LogConns /\ raced \subseteq LogConns /\ tampered \in BOOLEAN

(* A cached head was proven to be of a table that verifies, unless         *)
(* somebody committed since or the connection's import was overtaken.      *)
CacheInv ==
  \A c \in LogConns :
    /\ cache[c].version <= version[c]
    /\ c \notin raced /\ cache[c].head # Stores!None /\ version[c] = cache[c].version
       => Stores!Verifies(auditRows)

LogInv == LogTypeOK /\ CacheInv /\ Stores!ChainKept

LEMMA LogInitially ==
  ASSUME Stores!LogInit
  PROVE  LogInv
<1>1. Stores!Verifies({})
  BY FS_EmptySet, VerifiesIsLinked DEF Linked
<1>2. Stores!None \in Records /\ Stores!NoEnvelope \in [seq : Nat, prev : Hashes]
  BY DEF Stores!None, Stores!NoEnvelope, Records, Hashes
<1>3. LogTypeOK
  BY <1>2, FS_EmptySet DEF Stores!LogInit, LogTypeOK
<1> QED
  BY <1>1, <1>3 DEF Stores!LogInit, LogInv, CacheInv, Stores!ChainKept

(* The envelope that append accepts on a table that verifies continues it, *)
(* whether it was compared with the cached head or with the disk's.        *)
LEMMA AcceptedContinues ==
  ASSUME LogTypeOK, NEW c \in LogConns, Stores!Accepted(c), Stores!Verifies(auditRows)
  PROVE  /\ envelope[c].seq = Cardinality(auditRows) + 1
         /\ auditRows = {} => envelope[c].prev = <<>>
         /\ auditRows # {} => \E p \in auditRows : p.seq = Cardinality(auditRows)
                                                   /\ envelope[c].prev = p.hash
<1> DEFINE n == Cardinality(auditRows)
           h == Stores!TrustedHead(c)
<1>1. Linked(auditRows) /\ IsFiniteSet(auditRows) /\ n \in Nat
  BY VerifiesIsLinked, FS_CardinalityType DEF LogTypeOK
<1>2. /\ envelope[c].seq = h.seq + 1 /\ envelope[c].prev = h.hash
      /\ \A r \in auditRows : r.seq # h.seq + 1
  BY DEF Stores!Accepted
<1>3. \A r \in auditRows : r.seq \in 1 .. n
  BY <1>1 DEF Linked
<1>4. CASE auditRows = {}
  <2>1. n = 0
    BY <1>4, FS_EmptySet
  <2>2. h = Stores!None
    BY <1>4 DEF Stores!TrustedHead, Stores!CacheCurrent, Stores!DiskHead
  <2> QED
    BY <1>2, <1>4, <2>1, <2>2 DEF Stores!None
<1>5. CASE auditRows # {}
  <2>1. PICK r \in auditRows : r.seq = h.seq /\ r.hash = h.hash
    <3>1. CASE Stores!CacheCurrent(c)
      BY <3>1 DEF Stores!CacheCurrent, Stores!TrustedHead
    <3>2. CASE ~Stores!CacheCurrent(c)
      <4>1. h = Last(auditRows)
        BY <1>5, <3>2 DEF Stores!TrustedHead, Stores!DiskHead, Last
      <4> QED
        BY <1>1, <1>5, <4>1, LastOfChain
    <3> QED
      BY <3>1, <3>2
  <2>2. h.seq = n
    <3>1. ASSUME h.seq # n PROVE FALSE
      <4>1. h.seq \in 1 .. n
        BY <1>3, <2>1
      <4>2. h.seq + 1 \in 1 .. n
        BY <1>1, <3>1, <4>1
      <4>3. PICK q \in auditRows : q.seq = h.seq + 1
        BY <1>1, <4>2 DEF Linked
      <4> QED
        BY <1>2, <4>3
    <3> QED
      BY <3>1
  <2> QED
    BY <1>2, <1>5, <2>1, <2>2
<1> QED
  BY <1>4, <1>5

LEMMA AppendedVerifies ==
  ASSUME LogTypeOK, NEW c \in LogConns, Stores!Accepted(c), Stores!Verifies(auditRows), NEW x
  PROVE  Stores!Verifies(auditRows \union {Stores!Record(envelope[c].seq, envelope[c].prev, x)})
<1> DEFINE r == Stores!Record(envelope[c].seq, envelope[c].prev, x)
<1>1. /\ r.seq = envelope[c].seq /\ r.prev = envelope[c].prev
      /\ r.hash = Append(r.prev, r.payload)
  BY DEF Stores!Record
<1> HIDE DEF r
<1>2. Succeeds(r, auditRows)
  BY <1>1, AcceptedContinues DEF Succeeds
<1>3. Linked(auditRows \union {r})
  BY <1>2, LinkedGrows, VerifiesIsLinked DEF LogTypeOK
<1>4. \A q \in auditRows \union {r} : q.hash = Append(q.prev, q.payload)
  BY <1>1, VerifiesIsLinked
<1> QED
  BY <1>3, <1>4, VerifiesIsLinked DEF r

(* The table an import writes: record i has the first i payloads' hash. *)
LEMMA ImportedVerifies ==
  ASSUME NEW n \in Nat, NEW s \in [1 .. n -> Payloads], NEW chain,
         \A i \in 1 .. n : chain[i] = Stores!Record(i, SubSeq(s, 1, i - 1), s[i]), NEW T,
         \A e : e \in T <=> \E i \in 1 .. n : e = chain[i]
  PROVE  /\ T \subseteq Records /\ IsFiniteSet(T) /\ Stores!Verifies(T)
         /\ \A i \in 1 .. n : chain[i] \in Records
<1>1. s \in Seq(Payloads) /\ Len(s) = n
  OBVIOUS
<1>2. ASSUME NEW i \in 1 .. n
      PROVE  /\ chain[i].seq = i /\ chain[i].prev = SubSeq(s, 1, i - 1)
             /\ chain[i].payload = s[i] /\ chain[i].hash = Append(SubSeq(s, 1, i - 1), s[i])
             /\ chain[i] \in Records
  <2>1. SubSeq(s, 1, i - 1) \in Hashes
    <3>1. \A k \in 1 .. (i - 1) : s[k] \in Payloads
      OBVIOUS
    <3> QED
      BY <3>1, SubSeqProperties DEF Hashes
  <2>2. Append(SubSeq(s, 1, i - 1), s[i]) \in Hashes
    BY <2>1 DEF Hashes
  <2>3. chain[i] = [seq |-> i, prev |-> SubSeq(s, 1, i - 1), payload |-> s[i],
                    hash |-> Append(SubSeq(s, 1, i - 1), s[i])]
    BY DEF Stores!Record
  <2>4. i \in Nat /\ s[i] \in Payloads
    OBVIOUS
  <2>5. \A m \in Nat, a, b \in Hashes, x \in Payloads :
          [seq |-> m, prev |-> a, payload |-> x, hash |-> b] \in Records
    BY DEF Records
  <2>6. chain[i] \in Records
    <3>1. PICK m \in Nat, a, b \in Hashes, x \in Payloads :
            m = i /\ a = SubSeq(s, 1, i - 1) /\ b = Append(SubSeq(s, 1, i - 1), s[i]) /\ x = s[i]
      BY <2>1, <2>2, <2>4
    <3>2. chain[i] = [seq |-> m, prev |-> a, payload |-> x, hash |-> b]
      BY <2>3, <3>1
    <3> QED
      BY <2>5, <3>2
  <2> QED
    BY <2>3, <2>6
<1> DEFINE f == [i \in 1 .. n |-> chain[i]]
<1>3. f \in Bijection(1 .. n, T)
  <2>1. f \in [1 .. n -> T]
    OBVIOUS
  <2>2. \A i, j \in 1 .. n : f[i] = f[j] => i = j
    BY <1>2
  <2>3. \A e \in T : \E i \in 1 .. n : f[i] = e
    OBVIOUS
  <2> QED
    BY <2>1, <2>2, <2>3 DEF Bijection, Injection, Surjection, IsInjective
<1>4. IsFiniteSet(T) /\ Cardinality(T) = n
  <2>1. IsFiniteSet(1 .. n) /\ Cardinality(1 .. n) = n
    BY FS_Interval
  <2> QED
    BY <1>3, <2>1, FS_Bijection DEF ExistsBijection
<1>5. {e.seq : e \in T} = 1 .. n
  <2>1. ASSUME NEW e \in T PROVE e.seq \in 1 .. n
    <3>1. PICK i \in 1 .. n : e = chain[i]
      OBVIOUS
    <3>2. e.seq = i
      BY <1>2, <3>1
    <3> QED
      BY <3>2
  <2>2. ASSUME NEW i \in 1 .. n PROVE \E e \in T : e.seq = i
    <3>1. chain[i] \in T /\ chain[i].seq = i
      BY <1>2
    <3> QED
      BY <3>1
  <2> QED
    BY <2>1, <2>2
<1>6. ASSUME NEW e \in T
      PROVE  IF e.seq = 1 THEN e.prev = <<>> ELSE \E p \in T : p.seq = e.seq - 1 /\ e.prev = p.hash
  <2>1. PICK i \in 1 .. n : e = chain[i]
    OBVIOUS
  <2>2. CASE i = 1
    <3>1. SubSeq(s, 1, i - 1) = <<>>
      BY <2>2, SubSeqEmpty
    <3> QED
      BY <1>2, <2>1, <2>2, <3>1
  <2>3. CASE i # 1
    <3>1. i - 1 \in 1 .. n /\ chain[i - 1] \in T /\ 1 \in 1 .. Len(s) /\ i - 1 \in 1 .. Len(s)
      BY <1>1, <2>3
    <3>2. SubSeq(s, 1, i - 1) = SubSeq(s, 1, (i - 1) - 1) \o <<s[i - 1]>>
      BY <1>1, <3>1, SubSeqRecursiveSecond
    <3>3. Append(SubSeq(s, 1, (i - 1) - 1), s[i - 1]) = SubSeq(s, 1, (i - 1) - 1) \o <<s[i - 1]>>
      <4>1. \A k \in 1 .. ((i - 1) - 1) : s[k] \in Payloads
        BY <2>3
      <4>2. SubSeq(s, 1, (i - 1) - 1) \in Seq(Payloads)
        BY <4>1, SubSeqProperties
      <4> QED
        BY <3>1, <4>2, AppendIsConcat
    <3>4. chain[i - 1].seq = i - 1 /\ chain[i - 1].hash = Append(SubSeq(s, 1, (i - 1) - 1), s[i - 1])
      BY <1>2, <3>1
    <3>5. chain[i].prev = chain[i - 1].hash /\ chain[i].seq = i
      <4>1. chain[i].prev = SubSeq(s, 1, i - 1) /\ chain[i].seq = i
        BY <1>2
      <4> QED
        BY <3>2, <3>3, <3>4, <4>1, Zenon
    <3> QED
      BY <2>1, <2>3, <3>1, <3>4, <3>5
  <2> QED
    BY <2>2, <2>3
<1>7. ASSUME NEW e \in T PROVE e.hash = Append(e.prev, e.payload) /\ e \in Records
  <2>1. PICK i \in 1 .. n : e = chain[i]
    OBVIOUS
  <2>2. /\ e.prev = SubSeq(s, 1, i - 1) /\ e.payload = s[i] /\ e.hash = Append(SubSeq(s, 1, i - 1), s[i])
        /\ e \in Records
    BY <1>2, <2>1
  <2> QED
    BY <2>2, Zenon
<1>8. Linked(T)
  BY <1>4, <1>5, <1>6 DEF Linked
<1> QED
  BY <1>2, <1>4, <1>7, <1>8, VerifiesIsLinked

(* What a commit does to the versions the other connections see. *)
LEMMA CommitMoves ==
  ASSUME LogTypeOK, NEW by, Stores!Committed(by)
  PROVE  /\ version' \in [LogConns -> Nat]
         /\ \A c \in LogConns : version'[c] = IF c = by THEN version[c] ELSE version[c] + 1
BY DEF LogTypeOK, Stores!Committed

LEMMA ReadHeadStep ==
  ASSUME LogInv, NEW c \in LogConns, Stores!ReadHead(c)
  PROVE  LogInv'
<1> DEFINE e == [seq |-> Stores!Cardinality(auditRows) + 1, prev |-> Stores!DiskHead.hash]
<1>1. /\ Stores!Verifies(auditRows) /\ envelope' = [envelope EXCEPT ![c] = e]
      /\ UNCHANGED <<auditRows, version, cache, importing, raced, tampered>>
  BY DEF Stores!ReadHead
<1>2. Linked(auditRows) /\ IsFiniteSet(auditRows) /\ auditRows \subseteq Records
  BY <1>1, VerifiesIsLinked DEF LogInv, LogTypeOK
<1>3. Stores!DiskHead.hash \in Hashes
  <2>1. CASE auditRows = {}
    BY <2>1 DEF Stores!DiskHead, Stores!None, Hashes
  <2>2. CASE auditRows # {}
    <3>1. Stores!DiskHead = Last(auditRows)
      BY <2>2 DEF Stores!DiskHead, Last
    <3>2. Stores!DiskHead \in Records
      BY <1>2, <2>2, <3>1, LastOfChain
    <3> QED
      BY <3>2 DEF Records
  <2> QED
    BY <2>1, <2>2
<1>4. Stores!Cardinality(auditRows) + 1 \in Nat
  BY <1>2, SameCounting, FS_CardinalityType
<1>5. e \in [seq : Nat, prev : Hashes]
  <2>1. \A n \in Nat, h \in Hashes : [seq |-> n, prev |-> h] \in [seq : Nat, prev : Hashes]
    OBVIOUS
  <2> QED
    BY <1>3, <1>4, <2>1, Zenon
<1> HIDE DEF e
<1>6. LogTypeOK'
  BY <1>1, <1>5 DEF LogInv, LogTypeOK
<1>7. Stores!Verifies(auditRows)' /\ Stores!ChainKept'
  <2>1. Stores!Verifies(auditRows')
    BY <1>1
  <2> QED
    BY <2>1 DEF Stores!ChainKept
<1>8. CacheInv'
  BY <1>1, <1>7 DEF LogInv, CacheInv
<1> QED
  BY <1>6, <1>7, <1>8 DEF LogInv

LEMMA WrapStoreStep ==
  ASSUME LogInv, NEW c \in LogConns, Stores!WrapStore(c)
  PROVE  LogInv'
<1>1. /\ envelope' = [envelope EXCEPT ![c] = Stores!EmptyCursor]
      /\ UNCHANGED <<auditRows, version, cache, importing, raced, tampered>>
  BY DEF Stores!WrapStore
<1>2. Stores!EmptyCursor \in [seq : Nat, prev : Hashes]
  BY DEF Stores!EmptyCursor, Hashes
<1>3. Stores!Verifies(auditRows') <=> Stores!Verifies(auditRows)
  BY <1>1
<1> QED
  BY <1>1, <1>2, <1>3 DEF LogInv, LogTypeOK, CacheInv, Stores!ChainKept

LEMMA AppendRecordStep ==
  ASSUME LogInv, NEW c \in LogConns, Stores!AppendRecord(c)
  PROVE  LogInv'
<1>1. UNCHANGED <<importing, tampered>>
  BY DEF Stores!AppendRecord
<1>2. Stores!NoEnvelope \in [seq : Nat, prev : Hashes]
  BY DEF Stores!NoEnvelope, Hashes
<1>3. CASE ~Stores!Accepted(c)
  <2>1. /\ UNCHANGED <<auditRows, version, cache, raced>>
        /\ envelope' = [envelope EXCEPT ![c] = Stores!NoEnvelope]
    BY <1>3 DEF Stores!AppendRecord
  <2>2. Stores!Verifies(auditRows') <=> Stores!Verifies(auditRows)
    BY <2>1
  <2> QED
    BY <1>1, <1>2, <2>1, <2>2 DEF LogInv, LogTypeOK, CacheInv, Stores!ChainKept
<1>4. CASE Stores!Accepted(c)
  <2>1. PICK p \in Payloads :
          LET r == Stores!Record(envelope[c].seq, envelope[c].prev, p)
          IN /\ auditRows' = auditRows \union {r}
             /\ Stores!Committed(c)
             /\ cache' = [cache EXCEPT ![c] = [head |-> r, version |-> version[c]]]
             /\ raced' = IF Stores!CacheCurrent(c) THEN raced ELSE raced \ {c}
             /\ \E next \in {Stores!NoEnvelope, Stores!CursorAfter(r)} :
                  envelope' = [envelope EXCEPT ![c] = next]
    BY <1>4 DEF Stores!AppendRecord
  <2> DEFINE r == Stores!Record(envelope[c].seq, envelope[c].prev, p)
             k == [head |-> r, version |-> version[c]]
  <2>2. r \in Records
    <3>1. envelope[c].seq \in Nat /\ envelope[c].prev \in Hashes
      BY DEF LogInv, LogTypeOK
    <3>2. Append(envelope[c].prev, p) \in Hashes
      BY <3>1 DEF Hashes
    <3>3. \A n \in Nat, a, b \in Hashes, x \in Payloads :
            [seq |-> n, prev |-> a, payload |-> x, hash |-> b] \in Records
      BY DEF Records
    <3> QED
      BY <3>1, <3>2, <3>3, Zenon DEF Stores!Record
  <2>3. k \in [head : Records, version : Nat] /\ k.version = version[c]
    <3>1. version[c] \in Nat
      BY DEF LogInv, LogTypeOK
    <3> HIDE DEF r
    <3> QED
      BY <2>2, <3>1
  <2>4. Stores!ChainKept'
    <3>1. CASE tampered
      BY <1>1, <3>1 DEF Stores!ChainKept
    <3>2. CASE ~tampered
      <4>1. Stores!Verifies(auditRows \union {r})
        BY <1>4, <3>2, AppendedVerifies DEF LogInv, Stores!ChainKept
      <4> QED
        BY <2>1, <4>1 DEF Stores!ChainKept
    <3> QED
      BY <3>1, <3>2 DEF LogInv, LogTypeOK
  <2>5. /\ auditRows' = auditRows \union {r} /\ cache' = [cache EXCEPT ![c] = k]
        /\ raced' = IF Stores!CacheCurrent(c) THEN raced ELSE raced \ {c}
    BY <2>1
  <2>0. PICK next \in [seq : Nat, prev : Hashes] : envelope' = [envelope EXCEPT ![c] = next]
    <3>1. r.seq + 1 \in Nat /\ r.hash \in Hashes
      <4> HIDE DEF r
      <4> QED
        BY <2>2 DEF Records
    <3>2. Stores!CursorAfter(r) \in [seq : Nat, prev : Hashes]
      <4> HIDE DEF r
      <4> QED
        BY <3>1 DEF Stores!CursorAfter
    <3> QED
      BY <1>2, <2>1, <3>2
  <2>9. c \notin raced' => Stores!Verifies(auditRows \union {r})
    <3>1. CASE Stores!Verifies(auditRows)
      BY <1>4, <3>1, AppendedVerifies DEF LogInv
    <3>2. CASE ~Stores!Verifies(auditRows)
      <4>1. Stores!CacheCurrent(c)
        BY <1>4, <3>2 DEF Stores!Accepted
      <4>2. c \in raced
        BY <3>2, <4>1 DEF Stores!CacheCurrent, LogInv, CacheInv
      <4> QED
        BY <2>5, <4>1, <4>2
    <3> QED
      BY <3>1, <3>2
  <2>6. /\ version' \in [LogConns -> Nat]
        /\ \A d \in LogConns : version'[d] = IF d = c THEN version[d] ELSE version[d] + 1
    BY <2>1, CommitMoves DEF LogInv
  <2> HIDE DEF r, k
  <2>7. LogTypeOK'
    <3>1. IsFiniteSet(auditRows')
      BY <2>5, FS_AddElement DEF LogInv, LogTypeOK
    <3> QED
      BY <1>1, <2>0, <2>2, <2>3, <2>5, <2>6, <3>1 DEF LogInv, LogTypeOK
  <2>8. CacheInv'
    <3>1. ASSUME NEW d \in LogConns
          PROVE  /\ cache'[d].version <= version'[d]
                 /\ d \notin raced' /\ version'[d] = cache'[d].version
                    => Stores!Verifies(auditRows')
      <4>1. CASE d = c
        <5>1. cache'[d].version = version[d] /\ version'[d] = version[d] /\ version[d] \in Nat
          BY <2>3, <2>5, <2>6, <4>1 DEF LogInv, LogTypeOK
        <5>2. c \notin raced' => Stores!Verifies(auditRows')
          BY <2>5, <2>9
        <5> QED
          BY <4>1, <5>1, <5>2
      <4>2. CASE d # c
        <5>1. cache'[d] = cache[d] /\ version'[d] = version[d] + 1
          BY <2>5, <2>6, <4>2 DEF LogInv, LogTypeOK
        <5>2. cache[d].version \in Nat /\ version[d] \in Nat /\ cache[d].version <= version[d]
          BY DEF LogInv, LogTypeOK, CacheInv
        <5> QED
          BY <5>1, <5>2
      <4> QED
        BY <4>1, <4>2
    <3> QED
      BY <3>1 DEF CacheInv
  <2> QED
    BY <2>4, <2>7, <2>8 DEF LogInv
<1> QED
  BY <1>3, <1>4

LEMMA ImportCommitStep ==
  ASSUME LogInv, NEW c \in LogConns, Stores!ImportCommit(c)
  PROVE  LogInv'
<1>1. PICK n \in 0 .. MaxImport : \E s \in [1 .. n -> Payloads] :
        LET chain == [i \in 1 .. n |-> Stores!Record(i, SubSeq(s, 1, i - 1), s[i])]
        IN /\ auditRows' = {chain[i] : i \in 1 .. n}
           /\ cache' = [cache EXCEPT ![c] = [head |-> IF n = 0 THEN Stores!None ELSE chain[n],
                                             version |-> version[c]]]
  BY DEF Stores!ImportCommit
<1>2. PICK s \in [1 .. n -> Payloads] :
        LET chain == [i \in 1 .. n |-> Stores!Record(i, SubSeq(s, 1, i - 1), s[i])]
        IN /\ auditRows' = {chain[i] : i \in 1 .. n}
           /\ cache' = [cache EXCEPT ![c] = [head |-> IF n = 0 THEN Stores!None ELSE chain[n],
                                             version |-> version[c]]]
  BY <1>1
<1> DEFINE chain == [i \in 1 .. n |-> Stores!Record(i, SubSeq(s, 1, i - 1), s[i])]
           h == IF n = 0 THEN Stores!None ELSE chain[n]
           k == [head |-> h, version |-> version[c]]
<1>3. auditRows' = {chain[i] : i \in 1 .. n} /\ cache' = [cache EXCEPT ![c] = k]
  BY <1>2, Zenon
<1>4. n \in Nat
  BY CountsAndNames
<1>5. /\ auditRows' \subseteq Records /\ IsFiniteSet(auditRows') /\ Stores!Verifies(auditRows')
      /\ \A i \in 1 .. n : chain[i] \in Records
  <2> HIDE DEF h, k
  <2>1. chain = [i \in 1 .. n |-> Stores!Record(i, SubSeq(s, 1, i - 1), s[i])]
    OBVIOUS
  <2> HIDE DEF chain
  <2> QED
    <3>1. PICK f : f = chain
      OBVIOUS
    <3>2. PICK T : T = auditRows'
      OBVIOUS
    <3>3. \A i \in 1 .. n : f[i] = Stores!Record(i, SubSeq(s, 1, i - 1), s[i])
      BY <2>1, <3>1
    <3>4. \A e : e \in T <=> \E i \in 1 .. n : e = f[i]
      BY <1>3, <3>1, <3>2
    <3>5. T \subseteq Records /\ IsFiniteSet(T) /\ Stores!Verifies(T) /\ \A i \in 1 .. n : f[i] \in Records
      BY <1>4, <3>3, <3>4, ImportedVerifies, Zenon
    <3> QED
      BY <3>1, <3>2, <3>5
<1> HIDE DEF chain
<1>6. h \in Records
  <2>1. Stores!None \in Records
    BY DEF Stores!None, Records, Hashes
  <2>2. n # 0 => n \in 1 .. n
    BY <1>4
  <2> QED
    BY <1>5, <2>1, <2>2
<1> HIDE DEF h
<1>7. k \in [head : Records, version : Nat] /\ k.version = version[c]
  BY <1>6 DEF LogInv, LogTypeOK
<1> HIDE DEF k
<1>8. /\ Stores!Committed(c) /\ importing' = importing \union {c} /\ raced' = raced \ {c}
      /\ tampered' = FALSE /\ UNCHANGED envelope
  BY DEF Stores!ImportCommit
<1>9. /\ version' \in [LogConns -> Nat]
      /\ \A d \in LogConns : version'[d] = IF d = c THEN version[d] ELSE version[d] + 1
  BY <1>8, CommitMoves DEF LogInv
<1>10. LogTypeOK'
  BY <1>3, <1>5, <1>7, <1>8, <1>9 DEF LogInv, LogTypeOK
<1>11. \A d \in LogConns : cache'[d].version <= version'[d]
  <2> SUFFICES ASSUME NEW d \in LogConns PROVE cache'[d].version <= version'[d]
    OBVIOUS
  <2>1. cache[d].version \in Nat /\ version[d] \in Nat /\ cache[d].version <= version[d]
    BY DEF LogInv, LogTypeOK, CacheInv
  <2>2. CASE d = c
    BY <1>3, <1>7, <1>9, <2>1, <2>2 DEF LogInv, LogTypeOK
  <2>3. CASE d # c
    BY <1>3, <1>9, <2>1, <2>3 DEF LogInv, LogTypeOK
  <2> QED
    BY <2>2, <2>3
<1> QED
  BY <1>5, <1>10, <1>11 DEF LogInv, CacheInv, Stores!ChainKept

LEMMA ImportCacheStep ==
  ASSUME LogInv, NEW c \in LogConns, Stores!ImportCache(c)
  PROVE  LogInv'
<1>1. /\ raced' = IF version[c] # cache[c].version THEN raced \union {c} ELSE raced
      /\ cache' = [cache EXCEPT ![c].version = version[c]]
      /\ importing' = importing \ {c}
      /\ UNCHANGED <<auditRows, version, envelope, tampered>>
  BY DEF Stores!ImportCache
<1>2. LogTypeOK'
  BY <1>1 DEF LogInv, LogTypeOK
<1>3. Stores!Verifies(auditRows') <=> Stores!Verifies(auditRows)
  BY <1>1
<1>4. CacheInv'
  <2> SUFFICES ASSUME NEW d \in LogConns
               PROVE  /\ cache'[d].version <= version'[d]
                      /\ d \notin raced' /\ cache'[d].head # Stores!None
                           /\ version'[d] = cache'[d].version
                         => Stores!Verifies(auditRows')
    BY DEF CacheInv
  <2>1. CASE d = c
    <3>1. cache'[d].version = version[c] /\ cache'[d].head = cache[c].head /\ version[c] \in Nat
      BY <1>1, <2>1 DEF LogInv, LogTypeOK
    <3> QED
      BY <1>1, <1>3, <2>1, <3>1 DEF LogInv, CacheInv
  <2>2. CASE d # c
    BY <1>1, <1>3, <2>2 DEF LogInv, LogTypeOK, CacheInv
  <2> QED
    BY <2>1, <2>2
<1> QED
  BY <1>1, <1>2, <1>3, <1>4 DEF LogInv, Stores!ChainKept

LEMMA TamperStep ==
  ASSUME LogInv, Stores!Tamper
  PROVE  LogInv'
<1>1. /\ Stores!Committed("outside") /\ tampered' = TRUE
      /\ UNCHANGED <<cache, envelope, importing, raced>>
  BY DEF Stores!Tamper
<1>2. auditRows' \subseteq Records /\ IsFiniteSet(auditRows')
  <2>1. PICK r \in auditRows :
          \/ auditRows' = auditRows \ {r}
          \/ \E p \in Payloads \ {r.payload} :
               auditRows' = (auditRows \ {r}) \union {[r EXCEPT !.payload = p]}
    BY DEF Stores!Tamper
  <2>2. auditRows \ {r} \subseteq Records /\ IsFiniteSet(auditRows \ {r})
    BY FS_RemoveElement DEF LogInv, LogTypeOK
  <2>3. CASE auditRows' = auditRows \ {r}
    BY <2>2, <2>3
  <2>4. ASSUME NEW p \in Payloads, auditRows' = (auditRows \ {r}) \union {[r EXCEPT !.payload = p]}
        PROVE  auditRows' \subseteq Records /\ IsFiniteSet(auditRows')
    <3>1. [r EXCEPT !.payload = p] \in Records
      BY DEF LogInv, LogTypeOK, Records
    <3> QED
      BY <2>2, <2>4, <3>1, FS_AddElement
  <2> QED
    BY <2>1, <2>3, <2>4
<1>3. /\ version' \in [LogConns -> Nat] /\ \A d \in LogConns : version'[d] = version[d] + 1
  BY <1>1, CommitMoves, CountsAndNames DEF LogInv
<1>4. LogTypeOK'
  BY <1>1, <1>2, <1>3 DEF LogInv, LogTypeOK
<1>5. ASSUME NEW d \in LogConns
      PROVE  cache'[d].version <= version'[d] /\ version'[d] # cache'[d].version
  <2>1. cache[d].version \in Nat /\ version[d] \in Nat /\ cache[d].version <= version[d]
    BY DEF LogInv, LogTypeOK, CacheInv
  <2> QED
    BY <1>1, <1>3, <2>1
<1> QED
  BY <1>1, <1>4, <1>5 DEF LogInv, CacheInv, Stores!ChainKept

LEMMA LogStep ==
  ASSUME LogInv, [Stores!LogNext]_Stores!logVars
  PROVE  LogInv'
<1>1. CASE UNCHANGED Stores!logVars
  <2>1. Stores!Verifies(auditRows') <=> Stores!Verifies(auditRows)
    BY <1>1 DEF Stores!logVars
  <2> QED
    BY <1>1, <2>1 DEF LogInv, LogTypeOK, CacheInv, Stores!ChainKept, Stores!logVars
<1> QED
  BY <1>1, ReadHeadStep, WrapStoreStep, AppendRecordStep, ImportCommitStep, ImportCacheStep, TamperStep
     DEF Stores!LogNext

(* Only an append moves on its envelope and changes the table. *)
LEMMA AppendVerified ==
  ASSUME LogInv, [Stores!LogNext]_Stores!logVars, NEW c \in LogConns,
         envelope'[c] # envelope[c], auditRows' # auditRows, c \notin raced
  PROVE  Stores!Verifies(auditRows)
<1>1. PICK d \in LogConns : Stores!AppendRecord(d)
  BY DEF Stores!LogNext, Stores!logVars, Stores!ReadHead, Stores!WrapStore, Stores!ImportCache,
         Stores!ImportCommit, Stores!Tamper
<1>2. d = c
  <2>1. \E n : envelope' = [envelope EXCEPT ![d] = n]
    BY <1>1 DEF Stores!AppendRecord
  <2> QED
    BY <2>1 DEF LogInv, LogTypeOK
<1>3. Stores!Accepted(c)
  BY <1>1, <1>2 DEF Stores!AppendRecord
<1> QED
  BY <1>3 DEF LogInv, CacheInv, Stores!Accepted, Stores!CacheCurrent

-----------------------------------------------------------------------------
(***************************************************************************)
(* The daemon's store.                                                     *)
(***************************************************************************)

EventHashes == Seq(StoreConns)
ConnStates == [pc : {"closed", "migrate", "idle", "numbered", "hashed", "append", "validate", "insert"},
               seq : Nat, prev : EventHashes, lastHash : EventHashes]

LEMMA IdleConn ==
  /\ Stores!Closed \in ConnStates /\ Stores!Closed.seq = 0 /\ Stores!Closed.pc = "closed"
  /\ Stores!Idle \in ConnStates /\ Stores!Idle.seq = 0 /\ Stores!Idle.pc = "idle"
<1>1. Stores!Closed \in ConnStates /\ Stores!Closed.seq = 0 /\ Stores!Closed.pc = "closed"
  BY DEF Stores!Closed, ConnStates, EventHashes
<1>2. [Stores!Closed EXCEPT !.pc = "idle"] \in ConnStates
  BY <1>1 DEF ConnStates
<1>3. /\ [Stores!Closed EXCEPT !.pc = "idle"].seq = 0
      /\ [Stores!Closed EXCEPT !.pc = "idle"].pc = "idle"
  BY <1>1 DEF ConnStates
<1> QED
  BY <1>1, <1>2, <1>3 DEF Stores!Idle

(* A number that was read is never beyond the next one, and what was read  *)
(* before a step is what holds unless somebody inserted in between, which  *)
(* makes the number stale.                                                 *)
EventInv ==
  /\ conn \in [StoreConns -> ConnStates]
  /\ events \subseteq [seq : Nat, prev : EventHashes, hash : EventHashes]
  /\ IsFiniteSet(events) /\ Linked(events)
  /\ \A c \in StoreConns :
       /\ conn[c].seq <= Cardinality(events) + 1
       /\ conn[c].pc = "insert" => conn[c].seq >= 1
       /\ conn[c].pc = "validate" /\ conn[c].seq = Cardinality(events) + 1
            => conn[c].lastHash = Stores!LastHash
       /\ conn[c].pc = "insert" /\ conn[c].seq = Cardinality(events) + 1
            => conn[c].prev = Stores!LastHash

LEMMA NextOfChain ==
  ASSUME EventInv
  PROVE  /\ Stores!NextSequence = Cardinality(events) + 1 /\ Cardinality(events) \in Nat
         /\ Stores!LastHash \in EventHashes
         /\ events = {} => Stores!LastHash = <<>>
         /\ events # {} => \E p \in events : p.seq = Cardinality(events) /\ Stores!LastHash = p.hash
<1>1. Cardinality(events) \in Nat
  BY FS_CardinalityType DEF EventInv
<1>2. CASE events = {}
  <2>1. Cardinality(events) = 0
    BY <1>2, FS_EmptySet
  <2> QED
    BY <1>2, <2>1 DEF Stores!NextSequence, Stores!LastHash, EventHashes
<1>3. CASE events # {}
  <2>1. Last(events) \in events /\ Last(events).seq = Cardinality(events)
    BY <1>3, LastOfChain DEF EventInv
  <2>2. Stores!NextSequence = 1 + Last(events).seq /\ Stores!LastHash = Last(events).hash
    BY <1>3 DEF Stores!NextSequence, Stores!LastHash, Last
  <2>3. Last(events).hash \in EventHashes
    BY <2>1 DEF EventInv
  <2> QED
    BY <1>1, <1>3, <2>1, <2>2, <2>3
<1> QED
  BY <1>2, <1>3

(* A connection moves; the table stays. *)
ConnOk(r) ==
  /\ r \in ConnStates /\ r.seq <= Cardinality(events) + 1
  /\ r.pc = "insert" => r.seq >= 1
  /\ r.pc = "validate" /\ r.seq = Cardinality(events) + 1 => r.lastHash = Stores!LastHash
  /\ r.pc = "insert" /\ r.seq = Cardinality(events) + 1 => r.prev = Stores!LastHash

LEMMA ConnMoves ==
  ASSUME EventInv, NEW c \in StoreConns, NEW r, ConnOk(r), conn' = [conn EXCEPT ![c] = r],
         events' = events
  PROVE  EventInv'
<1>1. Stores!LastHash' = Stores!LastHash
  BY DEF Stores!LastHash
<1>2. conn' \in [StoreConns -> ConnStates]
  BY DEF EventInv, ConnOk
<1>3. ASSUME NEW d \in StoreConns PROVE ConnOk(conn'[d])
  <2>1. ConnOk(conn[d])
    BY DEF EventInv, ConnOk
  <2> QED
    BY <2>1 DEF EventInv
<1> QED
  BY <1>1, <1>2, <1>3 DEF EventInv, ConnOk

LEMMA InsertStep ==
  ASSUME EventInv, NEW c \in StoreConns, Stores!AppendInsert(c)
  PROVE  EventInv'
<1> DEFINE n == Cardinality(events)
           r == [seq |-> conn[c].seq, prev |-> conn[c].prev, hash |-> Append(conn[c].prev, c)]
<1>0. Stores!Idle \in ConnStates /\ Stores!Idle.seq = 0 /\ Stores!Idle.pc = "idle"
  BY IdleConn
<1>1. /\ conn[c].pc = "insert" /\ conn' = [conn EXCEPT ![c] = Stores!Idle] /\ n \in Nat
      /\ conn' \in [StoreConns -> ConnStates]
  BY <1>0, NextOfChain DEF EventInv, Stores!AppendInsert
<1>2. CASE events' = events
  <2>1. ConnOk(Stores!Idle)
    BY <1>0, <1>1 DEF ConnOk
  <2> QED
    BY <1>1, <1>2, <2>1, ConnMoves
<1>3. CASE conn[c].seq \notin {e.seq : e \in events} /\ events' = events \union {r}
  <2>1. conn[c].seq = n + 1
    <3>1. conn[c].seq \in Nat /\ conn[c].seq >= 1 /\ conn[c].seq <= n + 1
      BY <1>1 DEF EventInv, ConnStates
    <3>2. conn[c].seq \notin 1 .. n
      BY <1>3 DEF EventInv, Linked
    <3> QED
      BY <1>1, <3>1, <3>2
  <2>2. conn[c].prev = Stores!LastHash
    BY <1>1, <2>1 DEF EventInv
  <2>3. r \in [seq : Nat, prev : EventHashes, hash : EventHashes]
    <3>1. conn[c].seq \in Nat /\ conn[c].prev \in EventHashes
      BY DEF EventInv, ConnStates
    <3>2. Append(conn[c].prev, c) \in EventHashes
      BY <3>1 DEF EventHashes
    <3> QED
      BY <3>1, <3>2
  <2>4. r.seq = conn[c].seq /\ r.prev = conn[c].prev
    OBVIOUS
  <2> HIDE DEF r
  <2>5. Succeeds(r, events)
    BY <2>1, <2>2, <2>4, NextOfChain DEF Succeeds
  <2>6. r \notin events
    BY <1>1, <2>1, <2>4 DEF EventInv, Linked
  <2>7. IsFiniteSet(events') /\ Linked(events') /\ Cardinality(events') = n + 1
    BY <1>3, <2>5, <2>6, LinkedGrows, FS_AddElement DEF EventInv
  <2>8. ASSUME NEW d \in StoreConns
        PROVE  /\ conn'[d].seq <= n + 1 /\ conn'[d].seq \in Nat
               /\ conn'[d].pc = "insert" => conn'[d].seq >= 1
    BY <1>0, <1>1 DEF EventInv, ConnStates
  <2>9. ASSUME NEW d \in StoreConns
        PROVE  conn'[d].seq <= (n + 1) + 1 /\ conn'[d].seq # (n + 1) + 1
    BY <1>1, <2>8
  <2> QED
    BY <1>1, <1>3, <2>3, <2>7, <2>8, <2>9 DEF EventInv
<1> QED
  BY <1>2, <1>3 DEF Stores!AppendInsert

LEMMA EventStep ==
  ASSUME EventInv, [Stores!StoreNext]_Stores!storeVars
  PROVE  EventInv'
<1>0. \A c \in StoreConns : ConnOk(conn[c]) /\ conn[c] \in ConnStates
  BY DEF EventInv, ConnOk
<1>1. ASSUME NEW c \in StoreConns, Stores!OpenProbe(c) \/ Stores!OpenMigrate(c)
      PROVE  EventInv'
  <2>1. PICK p \in {"idle", "migrate", "closed"} :
          conn' = [conn EXCEPT ![c].pc = p] /\ events' = events
    BY <1>1 DEF Stores!OpenProbe, Stores!OpenMigrate
  <2>2. ConnOk([conn[c] EXCEPT !.pc = p])
    BY <1>0 DEF ConnOk, ConnStates
  <2> QED
    BY <2>1, <2>2, ConnMoves
<1>2. ASSUME NEW c \in StoreConns, Stores!BuildSequence(c)
      PROVE  EventInv'
  <2>1. PICK p \in {"numbered", "append"} :
          conn' = [conn EXCEPT ![c] = [conn[c] EXCEPT !.pc = p, !.seq = Stores!NextSequence]]
          /\ events' = events
    BY <1>0, <1>2 DEF Stores!BuildSequence, ConnStates
  <2>2. \A n \in Nat : n <= Cardinality(events) + 1 => ConnOk([conn[c] EXCEPT !.pc = p, !.seq = n])
    BY <1>0 DEF ConnOk, ConnStates
  <2>3. Stores!NextSequence \in Nat /\ Stores!NextSequence <= Cardinality(events) + 1
    BY NextOfChain
  <2> QED
    BY <2>1, <2>2, <2>3, ConnMoves
<1>3. ASSUME NEW c \in StoreConns, Stores!BuildPrevious(c)
      PROVE  EventInv'
  <2>1. PICK p \in {"hashed", "append"} :
          conn' = [conn EXCEPT ![c] = [conn[c] EXCEPT !.pc = p, !.prev = Stores!LastHash]]
          /\ events' = events
    BY <1>0, <1>3 DEF Stores!BuildPrevious, ConnStates
  <2>2. ConnOk([conn[c] EXCEPT !.pc = p, !.prev = Stores!LastHash])
    BY <1>0, NextOfChain DEF ConnOk, ConnStates
  <2> QED
    BY <2>1, <2>2, ConnMoves
<1>4. ASSUME NEW c \in StoreConns, Stores!AppendReadHash(c)
      PROVE  EventInv'
  <2>1. conn' = [conn EXCEPT ![c] = [conn[c] EXCEPT !.pc = "validate", !.lastHash = Stores!LastHash]]
        /\ events' = events
    BY <1>0, <1>4 DEF Stores!AppendReadHash, ConnStates
  <2>2. ConnOk([conn[c] EXCEPT !.pc = "validate", !.lastHash = Stores!LastHash])
    BY <1>0, NextOfChain DEF ConnOk, ConnStates
  <2> QED
    BY <2>1, <2>2, ConnMoves
<1>5. ASSUME NEW c \in StoreConns, Stores!AppendValidate(c)
      PROVE  EventInv'
  <2>1. conn[c].pc = "validate" /\ events' = events
        /\ conn' = [conn EXCEPT ![c] = IF Stores!ValidNext(c) THEN [conn[c] EXCEPT !.pc = "insert"]
                                       ELSE Stores!Idle]
    BY <1>5 DEF Stores!AppendValidate
  <2>2. CASE Stores!ValidNext(c)
    <3>1. ConnOk([conn[c] EXCEPT !.pc = "insert"])
      BY <1>0, <2>1, <2>2, NextOfChain DEF ConnOk, ConnStates, Stores!ValidNext
    <3> QED
      BY <2>1, <2>2, <3>1, ConnMoves
  <2>3. CASE ~Stores!ValidNext(c)
    <3>1. ConnOk(Stores!Idle)
      BY NextOfChain, IdleConn DEF ConnOk
    <3> QED
      BY <2>1, <2>3, <3>1, ConnMoves
  <2> QED
    BY <2>2, <2>3
<1>6. ASSUME NEW c \in StoreConns, Stores!StoreCrash(c)
      PROVE  EventInv'
  <2>1. ConnOk(Stores!Closed)
    BY NextOfChain DEF ConnOk, ConnStates, Stores!Closed, EventHashes
  <2> QED
    BY <1>6, <2>1, ConnMoves DEF Stores!StoreCrash
<1>7. CASE UNCHANGED <<conn, events>>
  BY <1>7 DEF EventInv, Stores!LastHash
<1> QED
  BY <1>1, <1>2, <1>3, <1>4, <1>5, <1>6, <1>7, InsertStep
     DEF Stores!StoreNext, Stores!storeVars, Stores!PutCheck, Stores!PutOpen, Stores!PutWrite,
         Stores!PutRename, Stores!PutAgain

(* While no process died, a file that is not full is being written. *)
BlobInv ==
  /\ writer \in [StoreConns -> {"none", "ok", "open", "write", "rename", "failed"}]
  /\ storeHeld \in [StoreConns -> Nat] /\ restarts \in Nat
  /\ content \in Seq({"empty", "full"})
  /\ temp \in 0 .. Len(content) /\ object \in 0 .. Len(content)
  /\ \A c \in StoreConns : writer[c] = "write" => storeHeld[c] \in 1 .. Len(content)
  /\ restarts = 0 => \A f \in 1 .. Len(content) :
       content[f] = "full" \/ \E c \in StoreConns : writer[c] = "write" /\ storeHeld[c] = f

LEMMA BlobStep ==
  ASSUME BlobInv, [Stores!StoreNext]_Stores!storeVars
  PROVE  BlobInv'
<1> USE DEF BlobInv
<1>1. ASSUME NEW c \in StoreConns, Stores!PutCheck(c) \/ Stores!PutAgain(c)
      PROVE  BlobInv'
  BY <1>1 DEF Stores!PutCheck, Stores!PutAgain
<1>2. ASSUME NEW c \in StoreConns, Stores!PutOpen(c)
      PROVE  BlobInv'
  <2>1. /\ writer[c] = "open" /\ writer' = [writer EXCEPT ![c] = "write"]
        /\ UNCHANGED <<object, restarts>>
    BY <1>2 DEF Stores!PutOpen
  <2>2. CASE temp = 0
    <3>1. /\ content' = Append(content, "empty") /\ temp' = Len(content) + 1
          /\ storeHeld' = [storeHeld EXCEPT ![c] = Len(content) + 1]
      BY <1>2, <2>2 DEF Stores!PutOpen
    <3>2. /\ content' \in Seq({"empty", "full"}) /\ Len(content') = Len(content) + 1
          /\ \A f \in 1 .. Len(content) : content'[f] = content[f]
      BY <3>1
    <3>3. /\ temp' \in 0 .. Len(content') /\ object' \in 0 .. Len(content')
          /\ storeHeld' \in [StoreConns -> Nat]
      BY <2>1, <3>1, <3>2
    <3>4. ASSUME NEW f \in 1 .. Len(content'), restarts' = 0
          PROVE  content'[f] = "full" \/ \E d \in StoreConns : writer'[d] = "write" /\ storeHeld'[d] = f
      <4>1. CASE f = Len(content) + 1
        BY <2>1, <3>1, <4>1
      <4>2. CASE f \in 1 .. Len(content)
        BY <2>1, <3>1, <3>2, <3>4, <4>2
      <4> QED
        BY <3>2, <4>1, <4>2
    <3>5. ASSUME NEW d \in StoreConns, writer'[d] = "write" PROVE storeHeld'[d] \in 1 .. Len(content')
      BY <2>1, <3>1, <3>2, <3>5
    <3> QED
      BY <2>1, <3>2, <3>3, <3>4, <3>5
  <2>3. CASE temp # 0
    <3>1. /\ content' = [content EXCEPT ![temp] = "empty"] /\ temp' = temp
          /\ storeHeld' = [storeHeld EXCEPT ![c] = temp]
      BY <1>2, <2>3 DEF Stores!PutOpen
    <3>3. temp \in 1 .. Len(content) /\ temp \in Nat
      BY <2>3
    <3>2. /\ content' \in Seq({"empty", "full"}) /\ Len(content') = Len(content)
          /\ \A f \in 1 .. Len(content) : f # temp => content'[f] = content[f]
      BY <3>1, <3>3
    <3>4. ASSUME NEW f \in 1 .. Len(content'), restarts' = 0
          PROVE  content'[f] = "full" \/ \E d \in StoreConns : writer'[d] = "write" /\ storeHeld'[d] = f
      <4>1. CASE f = temp
        BY <2>1, <3>1, <3>3, <4>1
      <4>2. CASE f # temp
        BY <2>1, <3>1, <3>2, <3>4, <4>2
      <4> QED
        BY <4>1, <4>2
    <3>5. ASSUME NEW d \in StoreConns, writer'[d] = "write" PROVE storeHeld'[d] \in 1 .. Len(content')
      BY <2>1, <3>1, <3>2, <3>3, <3>5
    <3> QED
      BY <2>1, <3>1, <3>2, <3>3, <3>4, <3>5
  <2> QED
    BY <2>2, <2>3
<1>3. ASSUME NEW c \in StoreConns, Stores!PutWrite(c)
      PROVE  BlobInv'
  <2>1. /\ writer[c] = "write" /\ writer' = [writer EXCEPT ![c] = "rename"]
        /\ content' = [content EXCEPT ![storeHeld[c]] = "full"]
        /\ UNCHANGED <<storeHeld, temp, object, restarts>>
    BY <1>3 DEF Stores!PutWrite
  <2>2. /\ content' \in Seq({"empty", "full"}) /\ Len(content') = Len(content)
        /\ content'[storeHeld[c]] = "full"
        /\ \A f \in 1 .. Len(content) : f # storeHeld[c] => content'[f] = content[f]
    BY <2>1
  <2>3. ASSUME NEW f \in 1 .. Len(content'), restarts' = 0
        PROVE  content'[f] = "full" \/ \E d \in StoreConns : writer'[d] = "write" /\ storeHeld'[d] = f
    <3>1. CASE f = storeHeld[c]
      BY <2>2, <3>1
    <3>2. CASE f # storeHeld[c]
      BY <2>1, <2>2, <2>3, <3>2
    <3> QED
      BY <3>1, <3>2
  <2> QED
    BY <2>1, <2>2, <2>3
<1>4. ASSUME NEW c \in StoreConns, Stores!PutRename(c)
      PROVE  BlobInv'
  BY <1>4 DEF Stores!PutRename
<1>5. ASSUME NEW c \in StoreConns, Stores!StoreCrash(c)
      PROVE  BlobInv'
  BY <1>5 DEF Stores!StoreCrash
<1>6. CASE UNCHANGED <<writer, storeHeld, temp, object, content, restarts>>
  BY <1>6
<1> QED
  BY <1>1, <1>2, <1>3, <1>4, <1>5, <1>6
     DEF Stores!StoreNext, Stores!storeVars, Stores!OpenProbe, Stores!OpenMigrate,
         Stores!BuildSequence, Stores!BuildPrevious, Stores!AppendReadHash, Stores!AppendValidate,
         Stores!AppendInsert

LEMMA StoreInitially ==
  ASSUME Stores!StoreInit
  PROVE  EventInv /\ BlobInv
<1>1. BlobInv
  BY DEF BlobInv, Stores!StoreInit
<1>2. IsFiniteSet(events) /\ Linked(events) /\ Cardinality(events) = 0
  BY FS_EmptySet DEF Stores!StoreInit, Linked
<1> QED
  BY <1>1, <1>2, IdleConn DEF EventInv, Stores!StoreInit

LEMMA StoreHolds ==
  ASSUME EventInv, BlobInv
  PROVE  Stores!EventChainKept /\ Stores!BlobsComplete
<1>1. Stores!EventChainKept
  BY SameCounting DEF EventInv, Linked, Stores!EventChainKept
<1>2. Stores!BlobsComplete
  BY DEF BlobInv, Stores!BlobsComplete
<1> QED
  BY <1>1, <1>2

-----------------------------------------------------------------------------
(***************************************************************************)
(* The reconciler's events.                                                *)
(***************************************************************************)

(* A finite set as a sequence: every element once and nothing else. *)
Enumerates(s, S) ==
  /\ s \in Seq(S)
  /\ \A i, j \in 1 .. Len(s) : s[i] = s[j] => i = j
  /\ \A x \in S : \E i \in 1 .. Len(s) : s[i] = x

LEMMA SetToSeqEnumerates ==
  ASSUME NEW S, IsFiniteSet(S)
  PROVE  Enumerates(Watch!SetToSeq(S), S)
<1> DEFINE n == Cardinality(S)
           s == Watch!SetToSeq(S)
<1>1. Watch!Cardinality(S) = n
  BY DEF Watch!Cardinality, Cardinality
<1>2. n \in Nat /\ ExistsBijection(1 .. n, S)
  BY FS_CardinalityType
<1>3. PICK f : f \in Bijection(1 .. n, S)
  BY <1>2 DEF ExistsBijection
<1>4. f \in [1 .. n -> S] /\ Watch!IsInjective(f)
  BY <1>3 DEF Bijection, Injection, IsInjective, Watch!IsInjective
<1>5. s \in [1 .. n -> S] /\ Watch!IsInjective(s)
  BY <1>1, <1>4 DEF Watch!SetToSeq
<1> HIDE DEF s
<1>6. s \in Injection(1 .. n, S)
  BY <1>5 DEF Injection, IsInjective, Watch!IsInjective
<1>7. IsFiniteSet(1 .. n) /\ Cardinality(1 .. n) = n
  BY <1>2, FS_Interval
<1>8. s \in Surjection(1 .. n, S)
  BY <1>6, <1>7, FS_Injection
<1>9. s \in Seq(S) /\ Len(s) = n
  BY <1>2, <1>5
<1>10. \A i, j \in 1 .. Len(s) : s[i] = s[j] => i = j
  BY <1>5, <1>9 DEF Watch!IsInjective
<1>11. \A x \in S : \E i \in 1 .. Len(s) : s[i] = x
  BY <1>8, <1>9 DEF Surjection
<1>12. Enumerates(s, S)
  BY <1>9, <1>10, <1>11 DEF Enumerates
<1> QED
  BY <1>12 DEF s

LEMMA ConcatEnumerates ==
  ASSUME NEW S, NEW T, S \cap T = {}, NEW s, Enumerates(s, S), NEW t, Enumerates(t, T)
  PROVE  Enumerates(s \o t, S \union T)
<1> DEFINE U == S \union T
           u == s \o t
<1>1. s \in Seq(U) /\ t \in Seq(U) /\ Len(s) \in Nat /\ Len(t) \in Nat
  BY DEF Enumerates
<1>2. /\ u \in Seq(U) /\ Len(u) = Len(s) + Len(t)
      /\ \A i \in 1 .. Len(s) + Len(t) : u[i] = IF i <= Len(s) THEN s[i] ELSE t[i - Len(s)]
  BY <1>1, ConcatProperties
<1> HIDE DEF u
<1>3. ASSUME NEW i \in 1 .. Len(s)
      PROVE  u[i] = s[i] /\ u[i] \in S /\ i \in 1 .. Len(u)
  <2>1. i \in 1 .. Len(s) + Len(t) /\ i <= Len(s)
    BY <1>1
  <2>2. u[i] = s[i]
    BY <1>2, <2>1
  <2>3. s[i] \in S
    BY DEF Enumerates
  <2> QED
    BY <1>2, <2>1, <2>2, <2>3
<1>4. ASSUME NEW j \in 1 .. Len(t)
      PROVE  u[Len(s) + j] = t[j] /\ u[Len(s) + j] \in T /\ Len(s) + j \in 1 .. Len(u)
  <2>1. Len(s) + j \in 1 .. Len(s) + Len(t) /\ ~(Len(s) + j <= Len(s)) /\ (Len(s) + j) - Len(s) = j
    BY <1>1
  <2>2. u[Len(s) + j] = t[j]
    BY <1>2, <2>1
  <2>3. t[j] \in T
    BY DEF Enumerates
  <2> QED
    BY <1>2, <2>1, <2>2, <2>3
<1>5. ASSUME NEW k \in 1 .. Len(u)
      PROVE  k \in 1 .. Len(s) \/ \E j \in 1 .. Len(t) : k = Len(s) + j
  <2>1. CASE k <= Len(s)
    BY <1>1, <2>1
  <2>2. CASE ~(k <= Len(s))
    <3>1. k - Len(s) \in 1 .. Len(t) /\ k = Len(s) + (k - Len(s))
      BY <1>1, <1>2, <2>2
    <3> QED
      BY <3>1
  <2> QED
    BY <2>1, <2>2
<1>6. ASSUME NEW k \in 1 .. Len(u), NEW l \in 1 .. Len(u), u[k] = u[l] PROVE k = l
  <2>1. CASE k \in 1 .. Len(s) /\ l \in 1 .. Len(s)
    BY <1>3, <1>6, <2>1 DEF Enumerates
  <2>2. ASSUME NEW i \in 1 .. Len(s), NEW j \in 1 .. Len(t), {k, l} = {i, Len(s) + j} PROVE FALSE
    <3>1. u[i] \in S /\ u[Len(s) + j] \in T
      BY <1>3, <1>4
    <3>2. u[i] = u[Len(s) + j]
      BY <1>6, <2>2
    <3> QED
      BY <3>1, <3>2
  <2>3. ASSUME NEW i \in 1 .. Len(t), NEW j \in 1 .. Len(t), k = Len(s) + i, l = Len(s) + j PROVE k = l
    <3>1. t[i] = t[j]
      BY <1>4, <1>6, <2>3
    <3>2. i = j
      BY <3>1 DEF Enumerates
    <3> QED
      BY <2>3, <3>2
  <2>4. CASE k \in 1 .. Len(s)
    BY <1>5, <2>1, <2>2, <2>4
  <2>5. CASE \E i \in 1 .. Len(t) : k = Len(s) + i
    <3>1. PICK i \in 1 .. Len(t) : k = Len(s) + i
      BY <2>5
    <3>2. CASE l \in 1 .. Len(s)
      BY <2>2, <3>1, <3>2
    <3>3. CASE \E j \in 1 .. Len(t) : l = Len(s) + j
      BY <2>3, <3>1, <3>3
    <3> QED
      BY <1>5, <3>2, <3>3
  <2> QED
    BY <1>5, <2>4, <2>5
<1>7. ASSUME NEW x \in U PROVE \E k \in 1 .. Len(u) : u[k] = x
  <2>1. CASE x \in S
    <3>1. PICK i \in 1 .. Len(s) : s[i] = x
      BY <2>1 DEF Enumerates
    <3> QED
      BY <1>3, <3>1
  <2>2. CASE x \in T
    <3>1. PICK j \in 1 .. Len(t) : t[j] = x
      BY <2>2 DEF Enumerates
    <3> QED
      BY <1>4, <3>1
  <2> QED
    BY <2>1, <2>2
<1>8. Enumerates(u, U)
  BY <1>2, <1>6, <1>7 DEF Enumerates
<1> QED
  BY <1>8 DEF u

(* Events of one kind, one for each of some tasks. *)
Of(kind, D) == {[kind |-> kind, task |-> t] : t \in D}

LEMMA OfFinite ==
  ASSUME NEW kind, NEW D, D \subseteq RTasks
  PROVE  IsFiniteSet(Of(kind, D))
<1> DEFINE f == [t \in D |-> [kind |-> kind, task |-> t]]
<1>1. IsFiniteSet(D)
  BY CountsAndNames, FS_Subset
<1>2. f \in Surjection(D, Of(kind, D))
  BY DEF Surjection, Of
<1> QED
  BY <1>1, <1>2, FS_Surjection

(* What a poll has to record: the new divergences and the promotions. *)
ToRecord(snap_) ==
  Of("diverged", {t \in recovered \ seen : snap_[t] = "closed"})
    \union Of("promoted", {t \in previous : snap_[t] = "ready"})

LEMMA EventsEnumerate ==
  ASSUME recovered \subseteq RTasks, previous \subseteq RTasks, NEW s
  PROVE  Enumerates(Watch!Events(s), ToRecord(s))
<1> DEFINE A == Of("diverged", {t \in recovered \ seen : s[t] = "closed"})
           B == Of("promoted", {t \in previous : s[t] = "ready"})
<1>1. IsFiniteSet(A) /\ IsFiniteSet(B)
  BY OfFinite
<1>2. A \cap B = {}
  BY DEF Of
<1>3. Watch!Events(s) = Watch!SetToSeq(A) \o Watch!SetToSeq(B)
  BY DEF Watch!Events, Of
<1>4. ToRecord(s) = A \union B
  BY DEF ToRecord
<1> HIDE DEF A, B
<1>5. Enumerates(Watch!SetToSeq(A), A) /\ Enumerates(Watch!SetToSeq(B), B)
  BY <1>1, SetToSeqEnumerates
<1> QED
  BY <1>2, <1>3, <1>4, <1>5, ConcatEnumerates

(* What is left of an enumeration once its head is taken. *)
Distinct(s) == \A i, j \in 1 .. Len(s) : s[i] = s[j] => i = j
Holds(s, e) == \E i \in 1 .. Len(s) : s[i] = e

LEMMA TailDrops ==
  ASSUME NEW S, NEW s \in Seq(S), Distinct(s), s # <<>>
  PROVE  /\ Head(s) \in S /\ Holds(s, Head(s)) /\ Tail(s) \in Seq(S) /\ Distinct(Tail(s))
         /\ \A e : Holds(Tail(s), e) <=> Holds(s, e) /\ e # Head(s)
<1> DEFINE t == Tail(s)
<1>1. PICK n \in Nat : n = Len(s)
  OBVIOUS
<1>2. /\ Head(s) \in S /\ Head(s) = s[1] /\ n # 0 /\ t \in Seq(S) /\ Len(t) = n - 1
      /\ \A i \in 1 .. n - 1 : t[i] = s[i + 1]
  BY <1>1, HeadTailProperties, EmptySeq
<1> HIDE DEF t
<1>3. \A i \in 1 .. n - 1 : i + 1 \in 1 .. n /\ i + 1 # 1
  OBVIOUS
<1>4. \A i \in 1 .. n : i # 1 => i - 1 \in 1 .. n - 1 /\ (i - 1) + 1 = i
  OBVIOUS
<1>5. Distinct(t)
  <2>1. ASSUME NEW i \in 1 .. n - 1, NEW j \in 1 .. n - 1, t[i] = t[j] PROVE i = j
    <3>1. s[i + 1] = s[j + 1]
      BY <1>2, <2>1
    <3>2. i + 1 = j + 1
      BY <1>1, <1>3, <3>1 DEF Distinct
    <3> QED
      BY <3>2
  <2> QED
    BY <1>2, <2>1 DEF Distinct
<1>6. ASSUME NEW e, Holds(t, e) PROVE Holds(s, e) /\ e # Head(s)
  <2>1. PICK i \in 1 .. n - 1 : t[i] = e
    BY <1>2, <1>6 DEF Holds
  <2>2. s[i + 1] = e
    BY <1>2, <2>1
  <2>3. i + 1 \in 1 .. n /\ 1 \in 1 .. n /\ i + 1 # 1
    BY <1>2, <1>3
  <2>4. s[i + 1] # s[1]
    BY <1>1, <2>3 DEF Distinct
  <2> QED
    BY <1>1, <1>2, <2>2, <2>3, <2>4 DEF Holds
<1>7. ASSUME NEW e, Holds(s, e), e # Head(s) PROVE Holds(t, e)
  <2>1. PICK i \in 1 .. n : s[i] = e
    BY <1>1, <1>7 DEF Holds
  <2>2. i # 1
    BY <1>2, <1>7, <2>1
  <2>3. i - 1 \in 1 .. n - 1 /\ (i - 1) + 1 = i
    BY <1>4, <2>2
  <2>4. t[i - 1] = e
    BY <1>2, <2>1, <2>3
  <2> QED
    BY <1>2, <2>3, <2>4 DEF Holds
<1>8. Holds(s, Head(s))
  BY <1>1, <1>2 DEF Holds
<1> QED
  BY <1>2, <1>5, <1>6, <1>7, <1>8 DEF t

Reconciled == [kind : {"diverged", "promoted"}, task : RTasks]

ReconTypeOK ==
  /\ recovered \subseteq RTasks /\ seen \subseteq RTasks
  /\ previous \subseteq RTasks /\ blockedSince \subseteq RTasks
  /\ reconBoard \in [RTasks -> Watch!Statuses] /\ snapshot \in [RTasks -> Watch!Statuses]
  /\ lastSeen \in [RTasks -> Watch!Statuses]
  /\ divergedLog \in [RTasks -> Nat] /\ promotedLog \in [RTasks -> Nat]
  /\ unblocked \in [RTasks -> Nat]
  /\ polling \in BOOLEAN /\ batch \in Seq(Reconciled)

(* What is still to append: each event once, a divergence that is not yet  *)
(* marked as seen, and exactly the promotions of the poll that the blocked *)
(* candidates do not show as recorded.                                     *)
BatchInv ==
  /\ Distinct(batch) /\ (~polling => batch = <<>>)
  /\ \A t \in RTasks :
       /\ Holds(batch, [kind |-> "diverged", task |-> t]) => t \notin seen
       /\ Holds(batch, [kind |-> "promoted", task |-> t]) => t \in previous /\ snapshot[t] = "ready"
       /\ polling /\ t \in previous /\ snapshot[t] = "ready"
            => Holds(batch, [kind |-> "promoted", task |-> t])

(* What is in the log: a divergence once it is seen, and a promotion for    *)
(* every time a task was unblocked and for the one that the next poll that *)
(* succeeds will count.                                                    *)
RecordedInv ==
  \A t \in RTasks :
    /\ divergedLog[t] <= 1 /\ (t \notin seen => divergedLog[t] = 0)
    /\ unblocked[t] <= promotedLog[t]
    /\ lastSeen[t] = "blocked" /\ t \notin previous => unblocked[t] + 1 <= promotedLog[t]

BlockedInv ==
  /\ previous \subseteq blockedSince
  /\ polling => \A t \in RTasks : snapshot[t] = "blocked" => t \in blockedSince

ReconInv == ReconTypeOK /\ BatchInv /\ RecordedInv /\ BlockedInv

LEMMA ReconInitially ==
  ASSUME Watch!ReconInit
  PROVE  ReconInv
<1> USE DEF Watch!ReconInit, Watch!Zero, Watch!Statuses
<1>1. ReconTypeOK
  <2>1. batch \in Seq(Reconciled) /\ polling \in BOOLEAN
    BY EmptySeq
  <2>2. /\ recovered \subseteq RTasks /\ seen \subseteq RTasks
        /\ previous \subseteq RTasks /\ blockedSince \subseteq RTasks
    OBVIOUS
  <2>3. divergedLog \in [RTasks -> Nat] /\ promotedLog \in [RTasks -> Nat] /\ unblocked \in [RTasks -> Nat]
    OBVIOUS
  <2>4. lastSeen \in [RTasks -> Watch!Statuses] /\ reconBoard \in [RTasks -> Watch!Statuses]
    OBVIOUS
  <2>5. snapshot \in [RTasks -> Watch!Statuses]
    BY <2>4
  <2> QED
    BY <2>1, <2>2, <2>3, <2>4, <2>5 DEF ReconTypeOK
<1>2. BatchInv
  BY DEF BatchInv, Distinct, Holds
<1>3. RecordedInv
  BY DEF RecordedInv
<1>4. BlockedInv
  BY DEF BlockedInv
<1> QED
  BY <1>1, <1>2, <1>3, <1>4 DEF ReconInv

(* A poll begins: everything it has to record is in its batch, once. *)
LEMMA PollStep ==
  ASSUME ReconInv, Watch!Poll
  PROVE  ReconInv'
<1> USE DEF ReconInv
<1>1. Enumerates(batch', ToRecord(reconBoard))
  BY EventsEnumerate DEF ReconTypeOK, Watch!Poll
<1>2. ToRecord(reconBoard) \subseteq Reconciled
  BY DEF ToRecord, Of, Reconciled, ReconTypeOK
<1>3. \A e : Holds(batch', e) <=> e \in ToRecord(reconBoard)
  BY <1>1 DEF Enumerates, Holds
<1>4. \A t \in RTasks :
        /\ [kind |-> "diverged", task |-> t] \in ToRecord(reconBoard)
             => t \notin seen
        /\ [kind |-> "promoted", task |-> t] \in ToRecord(reconBoard)
             <=> t \in previous /\ reconBoard[t] = "ready"
  BY DEF ToRecord, Of
<1>5. ReconTypeOK'
  <2>1. batch' \in Seq(Reconciled)
    BY <1>1, <1>2 DEF Enumerates
  <2> QED
    BY <2>1 DEF ReconTypeOK, Watch!Poll
<1>6. BatchInv'
  BY <1>1, <1>3, <1>4 DEF BatchInv, Watch!Poll, Distinct, Enumerates
<1>7. RecordedInv' /\ BlockedInv'
  BY DEF RecordedInv, BlockedInv, Watch!Poll
<1> QED
  BY <1>5, <1>6, <1>7

(* An event is appended and marked as recorded in one step. *)
LEMMA RecordStep ==
  ASSUME ReconInv, Watch!RecordEvent
  PROVE  /\ ReconInv'
         /\ \A t \in RTasks : promotedLog'[t] > promotedLog[t] => t \in blockedSince
<1> DEFINE e == Head(batch)
<1> USE DEF ReconInv
<1>1. /\ e \in Reconciled /\ Holds(batch, e) /\ batch' \in Seq(Reconciled) /\ Distinct(batch')
      /\ \A x : Holds(batch', x) <=> Holds(batch, x) /\ x # e
  BY TailDrops DEF ReconTypeOK, BatchInv, Watch!RecordEvent
<1>2. PICK k \in {"diverged", "promoted"}, u \in RTasks : e = [kind |-> k, task |-> u]
  BY <1>1 DEF Reconciled
<1>3. Watch!Dedup(e) /\ polling
  BY DEF Watch!RecordEvent
<1>4. /\ UNCHANGED <<reconBoard, recovered, snapshot, polling, unblocked, lastSeen>>
      /\ IF e.kind = "diverged"
         THEN /\ divergedLog' = [divergedLog EXCEPT ![e.task] = @ + 1]
              /\ UNCHANGED <<promotedLog, blockedSince>>
         ELSE /\ promotedLog' = [promotedLog EXCEPT ![e.task] = @ + 1]
              /\ blockedSince' = blockedSince \ {e.task} /\ UNCHANGED divergedLog
  BY DEF Watch!RecordEvent
<1> HIDE DEF e
<1>5. CASE k = "diverged"
  <2>1. /\ e.kind = "diverged" /\ e.task = u /\ u \notin seen
        /\ seen' = seen \union {u} /\ previous' = previous
        /\ divergedLog' = [divergedLog EXCEPT ![u] = @ + 1]
        /\ promotedLog' = promotedLog /\ blockedSince' = blockedSince
    BY <1>1, <1>2, <1>3, <1>4, <1>5 DEF BatchInv, Watch!Dedup
  <2>2. \A t \in RTasks :
          /\ divergedLog'[t] = (IF t = u THEN divergedLog[u] + 1 ELSE divergedLog[t])
          /\ divergedLog[t] \in Nat
    BY <2>1 DEF ReconTypeOK
  <2>3. ReconTypeOK'
    BY <1>1, <1>4, <2>1 DEF ReconTypeOK
  <2>4. BatchInv'
    BY <1>1, <1>2, <1>3, <1>4, <1>5, <2>1 DEF BatchInv
  <2>5. RecordedInv'
    BY <1>4, <2>1, <2>2 DEF RecordedInv
  <2>6. BlockedInv'
    BY <1>4, <2>1 DEF BlockedInv
  <2>7. \A t \in RTasks : ~(promotedLog'[t] > promotedLog[t])
    BY <2>1 DEF ReconTypeOK
  <2> QED
    BY <2>3, <2>4, <2>5, <2>6, <2>7
<1>6. CASE k = "promoted"
  <2>1. /\ e.kind = "promoted" /\ e.task = u /\ u \in previous /\ snapshot[u] = "ready"
        /\ previous' = previous \ {u} /\ seen' = seen
        /\ promotedLog' = [promotedLog EXCEPT ![u] = @ + 1]
        /\ blockedSince' = blockedSince \ {u} /\ divergedLog' = divergedLog
    BY <1>1, <1>2, <1>3, <1>4, <1>6 DEF BatchInv, Watch!Dedup
  <2>2. \A t \in RTasks :
          /\ promotedLog'[t] = (IF t = u THEN promotedLog[u] + 1 ELSE promotedLog[t])
          /\ promotedLog[t] \in Nat /\ unblocked[t] \in Nat
    BY <2>1 DEF ReconTypeOK
  <2>3. ReconTypeOK'
    BY <1>1, <1>4, <2>1 DEF ReconTypeOK
  <2>4. BatchInv'
    BY <1>1, <1>2, <1>3, <1>4, <1>6, <2>1 DEF BatchInv
  <2>5. RecordedInv'
    BY <1>4, <2>1, <2>2 DEF RecordedInv
  <2>6. BlockedInv'
    BY <1>4, <2>1 DEF BlockedInv
  <2>7. u \in blockedSince /\ \A t \in RTasks : t # u => ~(promotedLog'[t] > promotedLog[t])
    BY <2>1, <2>2 DEF BlockedInv
  <2> QED
    BY <2>3, <2>4, <2>5, <2>6, <2>7
<1> QED
  BY <1>2, <1>5, <1>6

(* A poll ends with all of its batch in the log. *)
LEMMA PollDoneStep ==
  ASSUME ReconInv, Watch!PollDone
  PROVE  ReconInv'
<1> USE DEF ReconInv, Watch!PollDone
<1>1. \A x : ~Holds(batch, x)
  BY DEF Holds
<1>2. \A t \in RTasks : ~(t \in previous /\ snapshot[t] = "ready")
  BY <1>1 DEF BatchInv
<1>3. previous' = {t \in RTasks : snapshot[t] = "blocked"}
  BY DEF Watch!NewPrevious
<1>4. \A t \in RTasks : unblocked[t] \in Nat /\ promotedLog[t] \in Nat
  BY DEF ReconTypeOK
<1>5. ReconTypeOK'
  <2>1. polling' \in BOOLEAN /\ batch' \in Seq(Reconciled) /\ previous' \subseteq RTasks
    BY <1>3 DEF ReconTypeOK
  <2>2. unblocked' \in [RTasks -> Nat]
    BY <1>4
  <2>3. lastSeen' \in [RTasks -> Watch!Statuses]
    BY DEF ReconTypeOK
  <2> QED
    BY <2>1, <2>2, <2>3 DEF ReconTypeOK
<1>6. BatchInv'
  BY <1>1, <1>3 DEF BatchInv, Holds, Distinct
<1>7. ASSUME NEW t \in RTasks
      PROVE  /\ unblocked'[t] <= promotedLog'[t]
             /\ ~(lastSeen'[t] = "blocked" /\ t \notin previous')
  <2>1. CASE lastSeen[t] = "blocked" /\ snapshot[t] = "ready"
    <3>1. t \notin previous
      BY <1>2, <2>1
    <3>2. unblocked[t] + 1 <= promotedLog[t]
      BY <2>1, <3>1 DEF RecordedInv
    <3>3. unblocked'[t] = unblocked[t] + 1
      BY <2>1
    <3> QED
      BY <1>3, <3>2, <3>3
  <2>2. CASE ~(lastSeen[t] = "blocked" /\ snapshot[t] = "ready")
    <3>1. unblocked'[t] = unblocked[t]
      BY <2>2
    <3> QED
      BY <1>3, <3>1 DEF RecordedInv
  <2> QED
    BY <2>1, <2>2
<1>8. RecordedInv'
  BY <1>7 DEF RecordedInv
<1>9. BlockedInv'
  BY <1>3 DEF BlockedInv
<1> QED
  BY <1>5, <1>6, <1>8, <1>9

LEMMA ReconStep ==
  ASSUME ReconInv, [Watch!ReconNext]_Watch!reconVars
  PROVE  /\ ReconInv'
         /\ \A t \in RTasks : promotedLog'[t] > promotedLog[t] => t \in blockedSince
<1> USE DEF ReconInv
<1>1. \A t \in RTasks : ~(promotedLog[t] > promotedLog[t])
  BY DEF ReconTypeOK
<1>2. CASE Watch!BoardMoves
  BY <1>1, <1>2 DEF Watch!BoardMoves, ReconTypeOK, BatchInv, RecordedInv, BlockedInv
<1>3. CASE Watch!Poll
  BY <1>1, <1>3, PollStep DEF Watch!Poll
<1>4. CASE Watch!PollFails
  BY <1>1, <1>4 DEF Watch!PollFails, ReconTypeOK, BatchInv, RecordedInv, BlockedInv
<1>5. CASE Watch!RecordEvent
  BY <1>5, RecordStep
<1>6. CASE Watch!AppendFails
  <2>1. BatchInv'
    BY <1>6 DEF Watch!AppendFails, BatchInv, Distinct, Holds
  <2>2. ReconTypeOK'
    BY <1>6, EmptySeq DEF Watch!AppendFails, ReconTypeOK
  <2>3. RecordedInv' /\ BlockedInv'
    BY <1>6 DEF Watch!AppendFails, RecordedInv, BlockedInv
  <2> QED
    BY <1>1, <1>6, <2>1, <2>2, <2>3 DEF Watch!AppendFails
<1>7. CASE Watch!PollDone
  BY <1>1, <1>7, PollDoneStep DEF Watch!PollDone
<1>8. CASE Watch!BeginReconciling
  <2>1. BatchInv'
    BY <1>8 DEF Watch!BeginReconciling, BatchInv, Distinct, Holds
  <2>2. RecordedInv'
    BY <1>8 DEF Watch!BeginReconciling, RecordedInv, Watch!Zero
  <2> QED
    BY <1>1, <1>8, <2>1, <2>2 DEF Watch!BeginReconciling, ReconTypeOK, BlockedInv, Watch!Zero
<1>9. CASE UNCHANGED Watch!reconVars
  BY <1>1, <1>9 DEF Watch!reconVars, ReconTypeOK, BatchInv, RecordedInv, BlockedInv
<1> QED
  BY <1>2, <1>3, <1>4, <1>5, <1>6, <1>7, <1>8, <1>9 DEF Watch!ReconNext

-----------------------------------------------------------------------------
(***************************************************************************)
(* The records.                                                            *)
(***************************************************************************)

RecordsInv == LogInv /\ EventInv /\ BlobInv /\ ReconInv

LEMMA RecordsInvHolds == Spec => []RecordsInv
<1>1. Init => RecordsInv
  BY LogInitially, StoreInitially, ReconInitially DEF Init, RecordsInv
<1>2. RecordsInv /\ [Next]_vars => RecordsInv'
  BY ComponentSteps, LogStep, EventStep, BlobStep, ReconStep DEF RecordsInv
<1> QED
  BY <1>1, <1>2, PTL DEF Spec

(* As long as nobody edits its file, the audit log is one hash chain       *)
(* without gap or fork, through appends from a stale cached head and       *)
(* imports (events/src/sqlite.rs); the events of the daemon's store are    *)
(* one chain (daemon/src/store/sqlite.rs); a blob that nobody writes any   *)
(* more is whole unless a process died (store/cas.rs); and no promotion is *)
(* missing in the log that two polls of the board saw, however often an    *)
(* append failed between them (daemon/src/watch.rs).                       *)
THEOREM ChainsAreKept == Spec => []ChainsKept
<1>1. RecordsInv => ChainsKept
  BY StoreHolds DEF RecordsInv, LogInv, ReconInv, RecordedInv, ChainsKept, Watch!PromotionsRecorded
<1> QED
  BY <1>1, RecordsInvHolds, PTL

(* A record is appended to a chain that verifies, edits of the file        *)
(* included, although append skips the verification when its cache is      *)
(* current (events/src/sqlite.rs).  The exception is a connection whose    *)
(* import was overtaken between its commit and the reading of the version: *)
(* until its cache is found stale it appends unchecked.  And the           *)
(* reconciler records a divergence once in an invocation and a promotion   *)
(* only after the task was seen blocked again, wherever a failed append    *)
(* cuts a batch (daemon/src/watch.rs).                                     *)
THEOREM RecordsAreAppendedOnce == Spec => RecordsAppendOnce
<1>1. RecordsInv /\ RecordsInv' /\ [Next]_vars
        => [\A t \in RTasks :
              /\ divergedLog'[t] <= 1
              /\ promotedLog'[t] > promotedLog[t] => t \in blockedSince]_Watch!reconVars
  BY ComponentSteps, ReconStep DEF RecordsInv, ReconInv, RecordedInv
<1>2. RecordsInv /\ [Next]_vars
        => [\A c \in LogConns :
              envelope'[c] # envelope[c] /\ auditRows' # auditRows /\ c \notin raced
              => Stores!Verifies(auditRows)]_Stores!logVars
  BY ComponentSteps, AppendVerified DEF RecordsInv
<1> QED
  BY <1>1, <1>2, RecordsInvHolds, PTL
     DEF Spec, RecordsAppendOnce, Stores!AppendsToVerified, Watch!RecordedOnce

-----------------------------------------------------------------------------
(***************************************************************************)
(* The decisions: routing, selection, configuration and caps.              *)
(***************************************************************************)

LEMMA DecisionSteps ==
  ASSUME [Next]_vars
  PROVE  /\ [Routing!RoutingNext]_Routing!routingVars
         /\ [Campaign!CampaignNext]_Campaign!campaignVars
         /\ [Costs!LedgerNext]_Costs!ledgerVars /\ [Config!ConfigNext]_Config!configVars
<1> USE DEF vars, governanceState, auditState, storeState, costsState, watchState,
            reconState, campaignState, routingState, limitsState, configState,
            registryState, lifecycleState, workspaceState
<1>1. [Routing!RoutingNext]_Routing!routingVars
  BY DEF Next, Routing!routingVars
<1>2. [Campaign!CampaignNext]_Campaign!campaignVars
  BY DEF Next, Campaign!campaignVars
<1>3. [Costs!LedgerNext]_Costs!ledgerVars
  BY DEF Next, Costs!ledgerVars
<1>4. [Config!ConfigNext]_Config!configVars
  BY DEF Next, Config!configVars
<1> QED
  BY <1>1, <1>2, <1>3, <1>4

(* What a resolution carries is a decision that may be recorded from the   *)
(* moment it is made: a proposal is validated as it is taken, and the      *)
(* heuristic that replaces it was validated before.                        *)
RoutingDecisions ==
  [provider : Routing!Providers, model : Routing!Models,
   path : {"bootstrap-default", "roles", "decision-provider"}, fallback : BOOLEAN]
Validated(d) ==
  /\ d \in RoutingDecisions /\ d.provider \in Routing!AllowedProviders
  /\ Routing!ValidModel(d.model)
Excused(d, provider) == provider # "off" /\ d.path # "decision-provider" => d.fallback
JobOk(j) ==
  /\ j.pc = "consult" => Validated(j.heuristic)
  /\ j.pc \in {"open", "migrate", "record", "done"} =>
       Validated(j.decision) /\ Excused(j.decision, j.provider)
JobRecord(j) ==
  /\ DOMAIN j = {"pc", "role", "provider", "heuristic", "decision"}
  /\ j = [pc |-> j.pc, role |-> j.role, provider |-> j.provider, heuristic |-> j.heuristic,
          decision |-> j.decision]
RowOk(row) ==
  /\ row.by \in Resolvers /\ job[row.by].pc = "done"
  /\ row.decision = job[row.by].decision

RoutingInv ==
  /\ keys \in [provider : Routing!Providers \cup {Routing!Unset},
              model : Routing!Models \cup {Routing!Unset}]
  /\ DOMAIN job = Resolvers /\ \A r \in Resolvers : JobRecord(job[r]) /\ JobOk(job[r])
  /\ routingRows \in Seq([by : Resolvers, decision : RoutingDecisions])
  /\ \A n \in DOMAIN routingRows : RowOk(routingRows[n])
  /\ \A r \in Resolvers : job[r].pc = "done" => \E n \in DOMAIN routingRows : routingRows[n].by = r

LEMMA ResolvedRole ==
  ASSUME NEW role, keys \in [provider : Routing!Providers \cup {Routing!Unset},
                             model : Routing!Models \cup {Routing!Unset}],
         "error" \notin DOMAIN Routing!ResolveRole(role)
  PROVE  Validated(Routing!ResolveRole(role))
<1> USE DEF Routing!ResolveRole, Validated, RoutingDecisions
<1>1. CASE keys.provider = Routing!Unset /\ keys.model = Routing!Unset
  BY <1>1 DEF Routing!Providers, Routing!AllowedProviders, Routing!Bootstrap, Routing!ValidModel,
     Routing!Models
<1>2. CASE ~(keys.provider = Routing!Unset /\ keys.model = Routing!Unset)
  BY <1>2 DEF Routing!Providers, Routing!ValidPair, Routing!Models
<1> QED
  BY <1>1, <1>2

(* A resolution that goes on without a record. *)
LEMMA JobStep ==
  ASSUME RoutingInv, NEW r \in Resolvers, NEW j, JobRecord(j), JobOk(j),
         job[r].pc # "done", j.pc # "done", job' = [job EXCEPT ![r] = j],
         UNCHANGED <<keys, routingRows>>
  PROVE  RoutingInv'
<1> USE DEF RoutingInv
<1>1. DOMAIN job' = Resolvers /\ job'[r] = j /\ \A q \in Resolvers : q # r => job'[q] = job[q]
  OBVIOUS
<1>2. \A q \in Resolvers : JobRecord(job'[q]) /\ JobOk(job'[q])
  BY <1>1
<1>3. \A n \in DOMAIN routingRows' : RowOk(routingRows[n])'
  BY <1>1 DEF RowOk
<1> QED
  BY <1>1, <1>2, <1>3

LEMMA StartResolveStep ==
  ASSUME RoutingInv, NEW r \in Resolvers, Routing!StartResolve(r)
  PROVE  RoutingInv'
<1>0. job[r].pc = "idle" /\ UNCHANGED <<keys, routingRows>>
  BY DEF Routing!StartResolve
<1>1. PICK role \in Routing!Roles, provider \in {"off", "fixture", "error"} :
        job' = [job EXCEPT ![r] =
                  IF provider = "error" \/ "error" \in DOMAIN Routing!ResolveRole(role)
                  THEN [Routing!NoJob EXCEPT !.pc = "refused"]
                  ELSE [pc |-> IF provider = "off" THEN "open" ELSE "consult", role |-> role,
                        provider |-> provider, heuristic |-> Routing!ResolveRole(role),
                        decision |-> Routing!ResolveRole(role)]]
  BY DEF Routing!StartResolve
<1>2. PICK h : h = Routing!ResolveRole(role)
  OBVIOUS
<1>3. CASE provider = "error" \/ "error" \in DOMAIN h
  <2>1. PICK j : j = [Routing!NoJob EXCEPT !.pc = "refused"] /\ job' = [job EXCEPT ![r] = j]
    BY <1>1, <1>2, <1>3
  <2>2. JobRecord(j) /\ j.pc = "refused"
    BY <2>1 DEF JobRecord, Routing!NoJob
  <2>3. JobOk(j)
    BY <2>2 DEF JobOk
  <2> QED
    BY <1>0, <2>1, <2>2, <2>3, JobStep
<1>4. CASE ~(provider = "error" \/ "error" \in DOMAIN h)
  <2>1. PICK j : /\ j = [pc |-> IF provider = "off" THEN "open" ELSE "consult", role |-> role,
                         provider |-> provider, heuristic |-> h, decision |-> h]
                 /\ job' = [job EXCEPT ![r] = j]
    BY <1>1, <1>2, <1>4
  <2>2. JobRecord(j) /\ j.pc \in {"open", "consult"}
    BY <2>1 DEF JobRecord
  <2>3. Validated(h)
    BY <1>2, <1>4, ResolvedRole DEF RoutingInv
  <2>4. JobOk(j)
    BY <2>1, <2>3 DEF JobOk, Excused
  <2> QED
    BY <1>0, <2>1, <2>2, <2>4, JobStep
<1> QED
  BY <1>3, <1>4

LEMMA ConsultRoleStep ==
  ASSUME RoutingInv, NEW r \in Resolvers, Routing!ConsultRole(r)
  PROVE  RoutingInv'
<1>0. job[r].pc = "consult" /\ UNCHANGED <<keys, routingRows>> /\ JobRecord(job[r])
      /\ Validated(job[r].heuristic) /\ DOMAIN job = Resolvers
  BY DEF Routing!ConsultRole, RoutingInv, JobOk
<1>1. PICK p \in Routing!Providers, m \in Routing!Models, answered \in BOOLEAN :
        job' = [job EXCEPT ![r].pc = "open", ![r].decision =
                  IF answered /\ Routing!Routable(p, m)
                  THEN [provider |-> p, model |-> m, path |-> "decision-provider", fallback |-> FALSE]
                  ELSE [job[r].heuristic EXCEPT !.fallback = TRUE]]
  BY DEF Routing!ConsultRole
<1>2. PICK d : d = IF answered /\ Routing!Routable(p, m)
                   THEN [provider |-> p, model |-> m, path |-> "decision-provider", fallback |-> FALSE]
                   ELSE [job[r].heuristic EXCEPT !.fallback = TRUE]
  OBVIOUS
<1>3. Validated(d) /\ Excused(d, job[r].provider)
  <2>1. CASE answered /\ Routing!Routable(p, m)
    BY <1>2, <2>1 DEF Validated, RoutingDecisions, Excused, Routing!Routable
  <2>2. CASE ~(answered /\ Routing!Routable(p, m))
    <3>1. d = [job[r].heuristic EXCEPT !.fallback = TRUE]
      BY <1>2, <2>2
    <3> QED
      BY <1>0, <3>1 DEF Validated, RoutingDecisions, Excused
  <2> QED
    BY <2>1, <2>2
<1>4. PICK j : j = [[job[r] EXCEPT !.pc = "open"] EXCEPT !.decision = d]
  OBVIOUS
<1>5. job' = [job EXCEPT ![r] = j]
  BY <1>0, <1>1, <1>2, <1>4
<1>6. JobRecord(j) /\ j.pc = "open" /\ j.decision = d /\ j.provider = job[r].provider
  BY <1>0, <1>4 DEF JobRecord
<1>7. JobOk(j)
  BY <1>3, <1>6 DEF JobOk
<1> QED
  BY <1>0, <1>5, <1>6, <1>7, JobStep

LEMMA RoutingStoreStep ==
  ASSUME RoutingInv, NEW r \in Resolvers, Routing!OpenRouting(r) \/ Routing!MigrateRouting(r)
  PROVE  RoutingInv'
<1>0. job[r].pc \in {"open", "migrate"} /\ UNCHANGED <<keys, routingRows>> /\ DOMAIN job = Resolvers
      /\ JobRecord(job[r]) /\ JobOk(job[r])
  BY DEF Routing!OpenRouting, Routing!MigrateRouting, RoutingInv
<1>1. PICK pc \in {"migrate", "record", "failed"} : job' = [job EXCEPT ![r].pc = pc]
  BY DEF Routing!OpenRouting, Routing!MigrateRouting
<1>2. PICK j : j = [job[r] EXCEPT !.pc = pc]
  OBVIOUS
<1>3. job' = [job EXCEPT ![r] = j]
  BY <1>0, <1>1, <1>2
<1>4. JobRecord(j) /\ j.pc = pc /\ j.decision = job[r].decision /\ j.provider = job[r].provider
  BY <1>0, <1>2 DEF JobRecord
<1>5. JobOk(j)
  BY <1>0, <1>4 DEF JobOk
<1> QED
  BY <1>0, <1>3, <1>4, <1>5, JobStep

LEMMA RecordRoutingStep ==
  ASSUME RoutingInv, NEW r \in Resolvers, Routing!RecordRouting(r)
  PROVE  RoutingInv'
<1> USE DEF RoutingInv
<1>0. job[r].pc = "record" /\ UNCHANGED keys /\ JobRecord(job[r]) /\ JobOk(job[r])
      /\ Validated(job[r].decision)
  BY DEF Routing!RecordRouting, JobOk
<1>1. PICK row : row = [by |-> r, decision |-> job[r].decision] /\ routingRows' = Append(routingRows, row)
  BY DEF Routing!RecordRouting
<1>2. row \in [by : Resolvers, decision : RoutingDecisions]
  BY <1>0, <1>1 DEF Validated
<1>3. PICK j : j = [job[r] EXCEPT !.pc = "done"] /\ job' = [job EXCEPT ![r] = j]
  BY DEF Routing!RecordRouting
<1>4. JobRecord(j) /\ j.pc = "done" /\ j.decision = job[r].decision /\ j.provider = job[r].provider
  BY <1>0, <1>3 DEF JobRecord
<1>5. JobOk(j)
  BY <1>0, <1>4 DEF JobOk
<1>6. DOMAIN job' = Resolvers /\ job'[r] = j /\ \A q \in Resolvers : q # r => job'[q] = job[q]
  BY <1>3
<1>7. PICK len \in Nat : len = Len(routingRows) /\ DOMAIN routingRows = 1 .. len
  OBVIOUS
<1>8. /\ routingRows' \in Seq([by : Resolvers, decision : RoutingDecisions])
      /\ DOMAIN routingRows' = 1 .. (len + 1) /\ routingRows'[len + 1] = row
      /\ \A n \in 1 .. len : routingRows'[n] = routingRows[n]
  BY <1>1, <1>2, <1>7
<1>9. \A n \in 1 .. len : routingRows[n].by # r
  BY <1>0, <1>7 DEF RowOk
<1>10. ASSUME NEW n \in DOMAIN routingRows' PROVE RowOk(routingRows[n])'
  <2>1. CASE n = len + 1
    BY <1>1, <1>4, <1>6, <1>8, <2>1 DEF RowOk
  <2>2. CASE n \in 1 .. len
    BY <1>6, <1>7, <1>8, <1>9, <2>2 DEF RowOk
  <2> QED
    BY <1>8, <2>1, <2>2
<1>11. ASSUME NEW q \in Resolvers, job'[q].pc = "done"
       PROVE  \E n \in DOMAIN routingRows' : routingRows'[n].by = q
  <2>1. CASE q = r
    BY <1>1, <1>8, <2>1
  <2>2. CASE q # r
    BY <1>6, <1>7, <1>8, <1>11, <2>2
  <2> QED
    BY <2>1, <2>2
<1>12. \A q \in Resolvers : JobRecord(job'[q]) /\ JobOk(job'[q])
  BY <1>4, <1>5, <1>6
<1> QED
  BY <1>0, <1>6, <1>8, <1>10, <1>11, <1>12

LEMMA RoutingStep ==
  ASSUME RoutingInv, [Routing!RoutingNext]_Routing!routingVars
  PROVE  RoutingInv'
<1>1. CASE UNCHANGED Routing!routingVars
  BY <1>1 DEF Routing!routingVars, RoutingInv, RowOk
<1> QED
  BY <1>1, StartResolveStep, ConsultRoleStep, RoutingStoreStep, RecordRoutingStep DEF Routing!RoutingNext

LEMMA RoutingInitially == Routing!RoutingInit => RoutingInv
<1> SUFFICES ASSUME Routing!RoutingInit PROVE RoutingInv
  OBVIOUS
<1>1. \A r \in Resolvers : job[r] = Routing!NoJob
  BY DEF Routing!RoutingInit
<1>2. JobRecord(Routing!NoJob) /\ Routing!NoJob.pc = "idle"
  BY DEF JobRecord, Routing!NoJob
<1>3. JobOk(Routing!NoJob)
  BY <1>2 DEF JobOk
<1> QED
  BY <1>1, <1>2, <1>3 DEF Routing!RoutingInit, RoutingInv

LEMMA RoutingHolds ==
  ASSUME RoutingInv
  PROVE  Routing!RoutingSound
<1> USE DEF RoutingInv
<1>1. ASSUME NEW n \in DOMAIN routingRows
      PROVE  /\ routingRows[n].by \in Resolvers
             /\ Validated(routingRows[n].decision)
             /\ Excused(routingRows[n].decision, job[routingRows[n].by].provider)
  BY DEF RowOk, JobOk
<1> QED
  BY <1>1 DEF Routing!RoutingSound, Validated, Excused

-----------------------------------------------------------------------------
(***************************************************************************)
(* Induction over finite sets, and what a fold over one computes.          *)
(***************************************************************************)

(* Induction over the numbers, for a set in place of a predicate: the      *)
(* least number outside of it has a predecessor inside.                    *)
LEMMA NatSetInduction ==
  ASSUME NEW N \in SUBSET Nat, 0 \in N, \A n \in N : n + 1 \in N
  PROVE  \A n \in Nat : n \in N
<1>1. SUFFICES ASSUME Nat \ N # {} PROVE FALSE
  OBVIOUS
<1>2. PICK m \in Nat \ N : \A k \in Nat \ N : ~(<<k, m>> \in OpToRel(<, Nat))
  BY <1>1, WFMin, NatLessThanWellFounded
<1>3. \A k \in Nat : k < m => k \in N
  BY <1>2 DEF OpToRel
<1>4. m # 0 /\ m \in Nat /\ m \notin N
  OBVIOUS
<1>5. m - 1 \in Nat /\ m - 1 < m /\ (m - 1) + 1 = m
  BY <1>4
<1>6. m - 1 \in N
  BY <1>3, <1>5
<1>7. (m - 1) + 1 \in N
  BY <1>6
<1> QED
  BY <1>7, <1>5, <1>4

(* A property of the subsets of a finite set that holds of one as soon as  *)
(* it holds of all that have one element less.                             *)
LEMMA SubsetInduction ==
  ASSUME NEW S, IsFiniteSet(S), NEW P,
         \A s \in SUBSET S : (\A x \in s : s \ {x} \in P) => s \in P
  PROVE  \A s \in SUBSET S : s \in P
<1> DEFINE N == {n \in Nat : \A s \in SUBSET S : Cardinality(s) = n => s \in P}
<1>1. 0 \in N
  <2>1. \A s \in SUBSET S : Cardinality(s) = 0 => s = {}
    BY FS_Subset, FS_EmptySet
  <2> QED
    BY <2>1
<1>2. ASSUME NEW n \in N PROVE n + 1 \in N
  <2>1. SUFFICES ASSUME NEW s \in SUBSET S, Cardinality(s) = n + 1 PROVE s \in P
    BY <1>2
  <2>2. IsFiniteSet(s) /\ n \in Nat
    BY FS_Subset, <1>2
  <2>3. ASSUME NEW x \in s PROVE s \ {x} \in P
    <3>1. Cardinality(s \ {x}) = Cardinality(s) - 1
      BY <2>2, FS_RemoveElement
    <3>2. Cardinality(s \ {x}) = n
      BY <3>1, <2>1, <2>2
    <3> QED
      BY <3>2
  <2> QED
    BY <2>3
<1>3. \A n \in Nat : n \in N
  <2>1. N \in SUBSET Nat
    OBVIOUS
  <2> HIDE DEF N
  <2> QED
    BY <1>1, <1>2, <2>1, NatSetInduction
<1>4. \A s \in SUBSET S : Cardinality(s) \in Nat
  BY FS_Subset, FS_CardinalityType
<1> QED
  BY <1>3, <1>4

(* g is the fold of F over the subsets of S, with elements taken by c. *)
FoldStep(g, s, base, F, c) == IF s = {} THEN base ELSE F[c[s]][g[s \ {c[s]}]]
Folding(g, S, base, F, c) == g = [s \in SUBSET S |-> FoldStep(g, s, base, F, c)]
Choosing(c, S) == \A s \in SUBSET S : s # {} => c[s] \in s

(* A fold has one value for every subset, *)
LEMMA FoldUnique ==
  ASSUME NEW S, IsFiniteSet(S), NEW base, NEW F, NEW c, Choosing(c, S),
         NEW g, Folding(g, S, base, F, c), NEW h, Folding(h, S, base, F, c)
  PROVE  g = h
<1> DEFINE P == {s \in SUBSET S : g[s] = h[s]}
<1>1. ASSUME NEW s \in SUBSET S, \A x \in s : s \ {x} \in P PROVE s \in P
  <2>1. CASE s = {}
    <3>1. g[s] = base /\ h[s] = base
      BY <2>1 DEF Folding, FoldStep
    <3> QED
      BY <3>1
  <2>2. CASE s # {}
    <3>1. c[s] \in s
      BY <2>2 DEF Choosing
    <3>2. g[s \ {c[s]}] = h[s \ {c[s]}]
      BY <3>1, <1>1
    <3>3. g[s] = F[c[s]][g[s \ {c[s]}]] /\ h[s] = F[c[s]][h[s \ {c[s]}]]
      BY <2>2 DEF Folding, FoldStep
    <3> QED
      BY <3>2, <3>3
  <2> QED
    BY <2>1, <2>2
<1>2. \A s \in SUBSET S : s \in P
  <2> HIDE DEF P
  <2> QED
    BY <1>1, SubsetInduction
<1>3. \A s \in SUBSET S : g[s] = h[s]
  BY <1>2
<1>4. g = [s \in SUBSET S |-> g[s]] /\ h = [s \in SUBSET S |-> h[s]]
  BY DEF Folding
<1> QED
  BY <1>3, <1>4

(* and it has one: a function that is right for all subsets up to a size   *)
(* gives one that is right for the next size.                              *)
LEMMA FoldExists ==
  ASSUME NEW S, IsFiniteSet(S), NEW V, NEW base \in V, NEW F \in [S -> [V -> V]],
         NEW c, Choosing(c, S)
  PROVE  \E g \in [SUBSET S -> V] : Folding(g, S, base, F, c)
<1> DEFINE Upto(g, n) == \A s \in SUBSET S : Cardinality(s) <= n => g[s] = FoldStep(g, s, base, F, c)
           N == {n \in Nat : \E g \in [SUBSET S -> V] : Upto(g, n)}
<1>0. \A s \in SUBSET S : Cardinality(s) \in Nat
  BY FS_Subset, FS_CardinalityType
<1>1. 0 \in N
  <2>1. [s \in SUBSET S |-> base] \in [SUBSET S -> V]
    OBVIOUS
  <2>2. \A s \in SUBSET S : Cardinality(s) <= 0 => s = {}
    BY <1>0, FS_Subset, FS_EmptySet
  <2>3. Upto([s \in SUBSET S |-> base], 0)
    BY <2>2 DEF FoldStep
  <2> QED
    BY <2>1, <2>3
<1>2. ASSUME NEW n \in N PROVE n + 1 \in N
  <2>1. PICK g \in [SUBSET S -> V] : Upto(g, n)
    BY <1>2
  <2>2. n \in Nat
    BY <1>2
  <2>3. PICK h : h = [s \in SUBSET S |-> FoldStep(g, s, base, F, c)]
    OBVIOUS
  <2>4. ASSUME NEW s \in SUBSET S PROVE FoldStep(g, s, base, F, c) \in V
    <3>1. CASE s = {}
      BY <3>1 DEF FoldStep
    <3>2. CASE s # {}
      <4>1. c[s] \in S /\ s \ {c[s]} \in SUBSET S
        BY <3>2 DEF Choosing
      <4>2. g[s \ {c[s]}] \in V /\ F[c[s]] \in [V -> V]
        BY <4>1
      <4> QED
        BY <3>2, <4>2 DEF FoldStep
    <3> QED
      BY <3>1, <3>2
  <2>5. h \in [SUBSET S -> V]
    BY <2>3, <2>4
  <2>6. ASSUME NEW s \in SUBSET S, Cardinality(s) <= n + 1 PROVE h[s] = FoldStep(h, s, base, F, c)
    <3>1. CASE s = {}
      BY <3>1, <2>3 DEF FoldStep
    <3>2. CASE s # {}
      <4>1. PICK t \in SUBSET S : t = s \ {c[s]} /\ c[s] \in s
        BY <3>2 DEF Choosing
      <4>2. Cardinality(t) = Cardinality(s) - 1
        BY <4>1, FS_Subset, FS_RemoveElement
      <4>3. Cardinality(t) <= n
        BY <4>2, <2>6, <2>2, <1>0
      <4>4. g[t] = FoldStep(g, t, base, F, c)
        BY <4>3, <2>1
      <4>5. h[t] = g[t]
        BY <4>4, <2>3
      <4> QED
        BY <4>5, <4>1, <3>2, <2>3 DEF FoldStep
    <3> QED
      BY <3>1, <3>2
  <2> QED
    BY <2>2, <2>5, <2>6
<1>3. \A n \in Nat : n \in N
  <2>1. N \in SUBSET Nat
    OBVIOUS
  <2> HIDE DEF N
  <2> QED
    BY <1>1, <1>2, <2>1, NatSetInduction
<1>4. PICK g \in [SUBSET S -> V] : Upto(g, Cardinality(S))
  <2>1. Cardinality(S) \in N
    BY <1>0, <1>3
  <2> QED
    BY <2>1
<1>5. ASSUME NEW s \in SUBSET S PROVE g[s] = FoldStep(g, s, base, F, c)
  <2>1. Cardinality(s) <= Cardinality(S)
    BY FS_Subset
  <2> QED
    BY <2>1, <1>4
<1>6. g = [s \in SUBSET S |-> g[s]]
  OBVIOUS
<1>7. Folding(g, S, base, F, c)
  BY <1>5, <1>6 DEF Folding
<1> QED
  BY <1>7

-----------------------------------------------------------------------------
(***************************************************************************)
(* Sums.                                                                   *)
(***************************************************************************)

Taken(s) == CHOOSE x \in s : TRUE
Summing(g, h) ==
  g = [s \in SUBSET DOMAIN h |-> IF s = {} THEN 0 ELSE h[Taken(s)] + g[s \ {Taken(s)}]]
SumOf(h) == (CHOOSE g : Summing(g, h))[DOMAIN h]
SumOver(h, t) == SumOf([x \in t |-> h[x]])
Adding(D, h, W) == [x \in D |-> [v \in W |-> h[x] + v]]
Taking(D) == [s \in SUBSET D |-> Taken(s)]

LEMMA TakingChooses ==
  ASSUME NEW D
  PROVE  Choosing(Taking(D), D) /\ \A s \in SUBSET D : s # {} => Taken(s) \in s /\ Taking(D)[s] = Taken(s)
BY DEF Taking, Taken, Choosing

LEMMA SummingFolds ==
  ASSUME NEW h, NEW g, NEW W, DOMAIN g = SUBSET DOMAIN h, \A s \in SUBSET DOMAIN h : g[s] \in W
  PROVE  Summing(g, h) <=> Folding(g, DOMAIN h, 0, Adding(DOMAIN h, h, W), Taking(DOMAIN h))
<1> DEFINE D == DOMAIN h
           Value(s) == IF s = {} THEN 0 ELSE h[Taken(s)] + g[s \ {Taken(s)}]
<1>1. ASSUME NEW s \in SUBSET D PROVE Value(s) = FoldStep(g, s, 0, Adding(D, h, W), Taking(D))
  <2>1. CASE s = {}
    BY <2>1 DEF FoldStep
  <2>2. CASE s # {}
    <3>1. Taken(s) \in D /\ s \ {Taken(s)} \in SUBSET D /\ Taking(D)[s] = Taken(s)
      BY <2>2, TakingChooses
    <3>2. Adding(D, h, W)[Taken(s)][g[s \ {Taken(s)}]] = h[Taken(s)] + g[s \ {Taken(s)}]
      BY <3>1 DEF Adding
    <3> QED
      BY <2>2, <3>1, <3>2 DEF FoldStep
  <2> QED
    BY <2>1, <2>2
<1>2. [s \in SUBSET D |-> Value(s)] = [s \in SUBSET D |-> FoldStep(g, s, 0, Adding(D, h, W), Taking(D))]
  BY <1>1
<1> QED
  BY <1>2 DEF Summing, Folding

LEMMA SummingUnique ==
  ASSUME NEW h, IsFiniteSet(DOMAIN h), NEW g, Summing(g, h), NEW k, Summing(k, h)
  PROVE  g = k
<1>1. DOMAIN g = SUBSET DOMAIN h /\ DOMAIN k = SUBSET DOMAIN h
  BY DEF Summing
<1>2. PICK W : W = {g[s] : s \in SUBSET DOMAIN h} \cup {k[s] : s \in SUBSET DOMAIN h}
  OBVIOUS
<1>3. Folding(g, DOMAIN h, 0, Adding(DOMAIN h, h, W), Taking(DOMAIN h))
  <2>1. \A s \in SUBSET DOMAIN h : g[s] \in W
    BY <1>2
  <2> QED
    BY <1>1, <2>1, SummingFolds
<1>4. Folding(k, DOMAIN h, 0, Adding(DOMAIN h, h, W), Taking(DOMAIN h))
  <2>1. \A s \in SUBSET DOMAIN h : k[s] \in W
    BY <1>2
  <2> QED
    BY <1>1, <2>1, SummingFolds
<1> QED
  BY <1>3, <1>4, TakingChooses, FoldUnique

LEMMA SummingExists ==
  ASSUME NEW D, IsFiniteSet(D), NEW h \in [D -> Nat]
  PROVE  \E g \in [SUBSET D -> Nat] : Summing(g, h)
<1>1. Adding(D, h, Nat) \in [D -> [Nat -> Nat]]
  BY DEF Adding
<1>2. PICK g \in [SUBSET D -> Nat] : Folding(g, D, 0, Adding(D, h, Nat), Taking(D))
  BY <1>1, TakingChooses, FoldExists
<1>3. Summing(g, h)
  <2>1. DOMAIN h = D /\ DOMAIN g = SUBSET D /\ \A s \in SUBSET D : g[s] \in Nat
    OBVIOUS
  <2> QED
    BY <1>2, <2>1, SummingFolds
<1> QED
  BY <1>3

LEMMA SumIs ==
  ASSUME NEW h, IsFiniteSet(DOMAIN h), NEW g, Summing(g, h)
  PROVE  SumOf(h) = g[DOMAIN h]
<1>1. Summing(CHOOSE k : Summing(k, h), h)
  OBVIOUS
<1> QED
  BY <1>1, SummingUnique DEF SumOf

(* The order in which a sum takes its terms does not matter. *)
LEMMA SummingAnyOrder ==
  ASSUME NEW D, IsFiniteSet(D), NEW h \in [D -> Nat], NEW g \in [SUBSET D -> Nat], Summing(g, h)
  PROVE  \A s \in SUBSET D, x \in D : x \in s => g[s] = h[x] + g[s \ {x}]
<1> DEFINE P == {s \in SUBSET D : \A x \in s : g[s] = h[x] + g[s \ {x}]}
<1>1. ASSUME NEW s \in SUBSET D, \A x \in s : s \ {x} \in P PROVE s \in P
  <2>1. SUFFICES ASSUME NEW x \in s PROVE g[s] = h[x] + g[s \ {x}]
    OBVIOUS
  <2>2. PICK y : y = Taken(s) /\ y \in s
    BY TakingChooses
  <2>3. g[s] = h[y] + g[s \ {y}]
    BY <2>2 DEF Summing
  <2>4. CASE x = y
    BY <2>3, <2>4
  <2>5. CASE x # y
    <3>1. g[s \ {y}] = h[x] + g[(s \ {y}) \ {x}]
      BY <1>1, <2>2, <2>5
    <3>2. g[s \ {x}] = h[y] + g[(s \ {x}) \ {y}]
      BY <1>1, <2>2, <2>5
    <3>3. (s \ {y}) \ {x} = (s \ {x}) \ {y} /\ (s \ {x}) \ {y} \in SUBSET D
      OBVIOUS
    <3>4. PICK v \in Nat : v = g[(s \ {x}) \ {y}]
      BY <3>3
    <3>5. PICK a \in Nat, b \in Nat : a = h[x] /\ b = h[y]
      BY <2>2
    <3>6. g[s \ {y}] = a + v /\ g[s \ {x}] = b + v
      BY <3>1, <3>2, <3>3, <3>4, <3>5
    <3>7. g[s] = b + (a + v) /\ h[x] + g[s \ {x}] = a + (b + v)
      BY <2>3, <3>5, <3>6
    <3> QED
      BY <3>4, <3>5, <3>7
  <2> QED
    BY <2>4, <2>5
<1>2. \A s \in SUBSET D : s \in P
  <2> HIDE DEF P
  <2> QED
    BY <1>1, SubsetInduction
<1> QED
  BY <1>2

(* The sum over a part of the terms. *)
LEMMA PartialSums ==
  ASSUME NEW D, IsFiniteSet(D), NEW h \in [D -> Nat], NEW g \in [SUBSET D -> Nat], Summing(g, h),
         NEW t \in SUBSET D
  PROVE  SumOf([x \in t |-> h[x]]) = g[t]
<1>0. PICK k : k = [x \in t |-> h[x]]
  OBVIOUS
<1>1. DOMAIN k = t /\ \A x \in t : k[x] = h[x]
  BY <1>0
<1>2. PICK f : f = [s \in SUBSET t |-> g[s]]
  OBVIOUS
<1>3. ASSUME NEW s \in SUBSET t
      PROVE  f[s] = IF s = {} THEN 0 ELSE k[Taken(s)] + f[s \ {Taken(s)}]
  <2>1. CASE s = {}
    BY <1>2, <2>1 DEF Summing
  <2>2. CASE s # {}
    <3>1. Taken(s) \in s
      BY <2>2, TakingChooses
    <3>2. g[s] = h[Taken(s)] + g[s \ {Taken(s)}]
      BY <2>2 DEF Summing
    <3> QED
      BY <1>1, <1>2, <2>2, <3>1, <3>2
  <2> QED
    BY <2>1, <2>2
<1>4. Summing(f, k)
  <2>1. f = [s \in SUBSET t |-> f[s]]
    BY <1>2
  <2> QED
    BY <1>1, <1>3, <2>1 DEF Summing
<1>5. IsFiniteSet(t)
  BY FS_Subset
<1>6. SumOf(k) = f[t]
  BY <1>1, <1>4, <1>5, SumIs
<1> QED
  BY <1>0, <1>2, <1>6

(* What the other lemmas use of a sum. *)
LEMMA SumTerms ==
  ASSUME NEW D, IsFiniteSet(D), NEW h \in [D -> Nat]
  PROVE  /\ \A t \in SUBSET D : SumOver(h, t) \in Nat
         /\ SumOver(h, {}) = 0
         /\ \A t \in SUBSET D, y \in D : y \in t => SumOver(h, t) = h[y] + SumOver(h, t \ {y})
<1>1. PICK g \in [SUBSET D -> Nat] : Summing(g, h)
  BY SummingExists
<1>2. \A t \in SUBSET D : SumOver(h, t) = g[t]
  BY <1>1, PartialSums DEF SumOver
<1>3. {} \in SUBSET D /\ g[{}] = 0
  BY <1>1 DEF Summing
<1>4. \A t \in SUBSET D, y \in D : y \in t => g[t] = h[y] + g[t \ {y}]
  BY <1>1, SummingAnyOrder
<1> QED
  BY <1>2, <1>3, <1>4

(* The sums of the ledger are such sums: of tokens, of candidate tokens,   *)
(* over the groups of a profile, over the profiles and over the sessions.  *)
LEMMA TokensAre ==
  Costs!TokenUsage = SumOf([x \in entries |-> x.tokens])
<1>1. PICK S : S = entries
  OBVIOUS
<1>2. PICK h : h = [x \in S |-> x.tokens]
  OBVIOUS
<1>3. DOMAIN h = S /\ \A x \in S : h[x] = x.tokens
  BY <1>2
<1> DEFINE Iterates(g) == g = [t \in SUBSET S |-> IF t = {} THEN 0 ELSE Taken(t).tokens + g[t \ {Taken(t)}]]
<1>4. Costs!TokenUsage = (CHOOSE g : Iterates(g))[S]
  BY <1>1 DEF Costs!TokenUsage, Costs!MapThenSumSet, Costs!MapThenFoldSet, Taken
<1>5. ASSUME NEW g PROVE Iterates(g) <=> Summing(g, h)
  <2>1. \A t \in SUBSET S : t # {} => h[Taken(t)] = Taken(t).tokens
    BY <1>3, TakingChooses
  <2>2. [t \in SUBSET S |-> IF t = {} THEN 0 ELSE Taken(t).tokens + g[t \ {Taken(t)}]]
          = [t \in SUBSET S |-> IF t = {} THEN 0 ELSE h[Taken(t)] + g[t \ {Taken(t)}]]
    BY <2>1
  <2> QED
    BY <1>3, <2>2 DEF Summing
<1>6. (CHOOSE g : Iterates(g)) = CHOOSE g : Summing(g, h)
  <2> HIDE DEF Iterates
  <2> QED
    BY <1>5
<1> QED
  BY <1>1, <1>2, <1>3, <1>4, <1>6 DEF SumOf

LEMMA TokensAreNext ==
  Costs!TokenUsage' = SumOf([x \in entries' |-> x.tokens])
<1>1. (Costs!TokenUsage = SumOf([x \in entries |-> x.tokens]))'
  BY TokensAre, PTL
<1> QED
  BY <1>1

LEMMA CandidatesAre ==
  ASSUME NEW s
  PROVE  Costs!SessionCandidates(s) = SumOf([x \in {r \in receipts : r.session = s} |-> x.candidate])
<1>1. PICK S : S = {r \in receipts : r.session = s}
  OBVIOUS
<1>2. PICK h : h = [x \in S |-> x.candidate]
  OBVIOUS
<1>3. DOMAIN h = S /\ \A x \in S : h[x] = x.candidate
  BY <1>2
<1> DEFINE Iterates(g) == g = [t \in SUBSET S |-> IF t = {} THEN 0 ELSE Taken(t).candidate + g[t \ {Taken(t)}]]
<1>4. Costs!SessionCandidates(s) = (CHOOSE g : Iterates(g))[S]
  BY <1>1 DEF Costs!SessionCandidates, Costs!MapThenSumSet, Costs!MapThenFoldSet, Taken
<1>5. ASSUME NEW g PROVE Iterates(g) <=> Summing(g, h)
  <2>1. \A t \in SUBSET S : t # {} => h[Taken(t)] = Taken(t).candidate
    BY <1>3, TakingChooses
  <2>2. [t \in SUBSET S |-> IF t = {} THEN 0 ELSE Taken(t).candidate + g[t \ {Taken(t)}]]
          = [t \in SUBSET S |-> IF t = {} THEN 0 ELSE h[Taken(t)] + g[t \ {Taken(t)}]]
    BY <2>1
  <2> QED
    BY <1>3, <2>2 DEF Summing
<1>6. (CHOOSE g : Iterates(g)) = CHOOSE g : Summing(g, h)
  <2> HIDE DEF Iterates
  <2> QED
    BY <1>5
<1> QED
  BY <1>1, <1>2, <1>3, <1>4, <1>6 DEF SumOf

LEMMA RollupIs ==
  ASSUME NEW p
  PROVE  Costs!ProfileRollup(p).candidate = SumOf([x \in {g \in Costs!Groups : g.profile = p} |-> Costs!SessionCandidates(x.session)])
<1>1. PICK S : S = {g \in Costs!Groups : g.profile = p}
  OBVIOUS
<1>2. PICK h : h = [x \in S |-> Costs!SessionCandidates(x.session)]
  OBVIOUS
<1>3. DOMAIN h = S /\ \A x \in S : h[x] = Costs!SessionCandidates(x.session)
  BY <1>2
<1> DEFINE Iterates(g) == g = [t \in SUBSET S |-> IF t = {} THEN 0 ELSE Costs!SessionCandidates(Taken(t).session) + g[t \ {Taken(t)}]]
<1>4. Costs!ProfileRollup(p).candidate = (CHOOSE g : Iterates(g))[S]
  BY <1>1 DEF Costs!ProfileRollup, Costs!MapThenSumSet, Costs!MapThenFoldSet, Taken
<1>5. ASSUME NEW g PROVE Iterates(g) <=> Summing(g, h)
  <2>1. \A t \in SUBSET S : t # {} => h[Taken(t)] = Costs!SessionCandidates(Taken(t).session)
    BY <1>3, TakingChooses
  <2>2. [t \in SUBSET S |-> IF t = {} THEN 0 ELSE Costs!SessionCandidates(Taken(t).session) + g[t \ {Taken(t)}]]
          = [t \in SUBSET S |-> IF t = {} THEN 0 ELSE h[Taken(t)] + g[t \ {Taken(t)}]]
    BY <2>1
  <2> QED
    BY <1>3, <2>2 DEF Summing
<1>6. (CHOOSE g : Iterates(g)) = CHOOSE g : Summing(g, h)
  <2> HIDE DEF Iterates
  <2> QED
    BY <1>5
<1> QED
  BY <1>1, <1>2, <1>3, <1>4, <1>6 DEF SumOf

-----------------------------------------------------------------------------
(***************************************************************************)
(* The cost ledger.                                                        *)
(***************************************************************************)

EntriesOk ==
  /\ IsFiniteSet(entries)
  /\ \A e \in entries : e.tokens \in Nat /\ e.profile \in Profiles \cup {Costs!NoProfile}
  /\ \A e, o \in entries : e.session = o.session => e.profile = o.profile
ReceiptsOk == IsFiniteSet(receipts) /\ \A r \in receipts : r.candidate \in Nat
ConnsOk ==
  /\ DOMAIN ledger = LedgerConns /\ DOMAIN decision = LedgerConns
  /\ \A c \in LedgerConns : ledger[c] # "failed"

(* A decision that warns or blocks, and the usage it needs. *)
Stands(d, u) ==
  /\ d = "hard" => u + Estimate > HardCap
  /\ d = "warn" => u + Estimate > SoftCap
DecisionsStand == \A c \in LedgerConns : Stands(decision[c], Costs!TokenUsage)

LedgerInv == EntriesOk /\ ReceiptsOk /\ ConnsOk /\ DecisionsStand

(* A sum that is a number, beside the numbers of the configuration. *)
LEMMA LedgerNumbers ==
  ASSUME EntriesOk
  PROVE  /\ Costs!TokenUsage \in Nat
         /\ Estimate \in Nat /\ HardCap \in Nat /\ SoftCap \in Nat
<1>1. Estimate \in Nat /\ HardCap \in Nat /\ SoftCap \in Nat
  BY ServicesAssumption
<1>2. PICK h : h = [x \in entries |-> x.tokens]
  OBVIOUS
<1>3. h \in [entries -> Nat] /\ h = [x \in entries |-> h[x]]
  BY <1>2 DEF EntriesOk
<1>4. SumOver(h, entries) \in Nat
  BY <1>3, SumTerms DEF EntriesOk
<1> QED
  BY <1>1, <1>2, <1>3, <1>4, TokensAre DEF SumOver

(* A charge adds its tokens to the usage. *)
LEMMA UsageGrows ==
  ASSUME EntriesOk, NEW e, e \notin entries, e.tokens \in Nat, entries' = entries \cup {e}
  PROVE  Costs!TokenUsage' = e.tokens + Costs!TokenUsage
<1>1. PICK h : h = [x \in entries' |-> x.tokens]
  OBVIOUS
<1>2. IsFiniteSet(entries')
  BY FS_AddElement DEF EntriesOk
<1>3. h \in [entries' -> Nat] /\ h[e] = e.tokens
  BY <1>1 DEF EntriesOk
<1>4. entries' \in SUBSET entries' /\ e \in entries' /\ entries' \ {e} = entries
  OBVIOUS
<1>5. SumOver(h, entries') = h[e] + SumOver(h, entries)
  BY <1>2, <1>3, <1>4, SumTerms
<1>6. [x \in entries' |-> h[x]] = [x \in entries' |-> x.tokens]
      /\ [x \in entries |-> h[x]] = [x \in entries |-> x.tokens]
  BY <1>1
<1> QED
  BY <1>3, <1>5, <1>6, TokensAre, TokensAreNext DEF SumOver

(* What stands at a usage stands at any later one: usage only grows. *)
LEMMA StandsOn ==
  ASSUME NEW d, NEW u \in Nat, NEW t \in Nat, Stands(d, u)
  PROVE  Stands(d, t + u)
<1>1. Estimate \in Nat /\ HardCap \in Nat /\ SoftCap \in Nat
  BY ServicesAssumption
<1> QED
  BY <1>1 DEF Stands

LEMMA PreSpawnStep ==
  ASSUME LedgerInv, NEW c \in LedgerConns, Costs!PreSpawnCheck(c)
  PROVE  LedgerInv'
<1> USE DEF LedgerInv
<1>0. /\ UNCHANGED <<schema, entries, receipts, ledger>>
      /\ decision' = [decision EXCEPT ![c] = Costs!Decide]
  BY DEF Costs!PreSpawnCheck
<1>1. EntriesOk' /\ ReceiptsOk' /\ ConnsOk'
  BY <1>0 DEF EntriesOk, ReceiptsOk, ConnsOk
<1>2. Costs!TokenUsage' = Costs!TokenUsage
  BY <1>0, TokensAre, TokensAreNext
<1>3. Stands(Costs!Decide, Costs!TokenUsage)
  BY DEF Stands, Costs!Decide
<1>4. ASSUME NEW d \in LedgerConns PROVE Stands(decision'[d], Costs!TokenUsage)
  <2>1. CASE d = c
    BY <1>0, <1>3, <2>1 DEF ConnsOk
  <2>2. CASE d # c
    BY <1>0, <2>2 DEF ConnsOk, DecisionsStand
  <2> QED
    BY <2>1, <2>2
<1>5. DecisionsStand'
  BY <1>2, <1>4 DEF DecisionsStand, Stands
<1> QED
  BY <1>1, <1>5

(* Decisions that are kept or withdrawn while the usage grows. *)
LEMMA DecisionsKept ==
  ASSUME LedgerInv, NEW t \in Nat, Costs!TokenUsage' = t + Costs!TokenUsage,
         \A c \in LedgerConns : decision'[c] \in {decision[c], "none"}
  PROVE  DecisionsStand'
<1> USE DEF LedgerInv
<1>1. PICK u \in Nat : u = Costs!TokenUsage
  BY LedgerNumbers
<1>2. ASSUME NEW c \in LedgerConns PROVE Stands(decision'[c], t + u)
  <2>1. CASE decision'[c] = decision[c]
    <3>1. Stands(decision[c], u)
      BY <1>1 DEF DecisionsStand
    <3> QED
      BY <2>1, <3>1, StandsOn
  <2>2. CASE decision'[c] = "none"
    BY <2>2 DEF Stands
  <2> QED
    BY <2>1, <2>2
<1> QED
  BY <1>1, <1>2 DEF DecisionsStand, Stands

LEMMA InsertEntryStep ==
  ASSUME LedgerInv, NEW c \in LedgerConns, Costs!InsertEntry(c)
  PROVE  LedgerInv'
<1> USE DEF LedgerInv
<1>0. UNCHANGED <<schema, receipts, ledger, decision>>
  BY DEF Costs!InsertEntry
<1>1. PICK e : /\ e.tokens \in Nat /\ e.profile \in Profiles \cup {Costs!NoProfile}
               /\ entries' = IF Costs!FitsSession(e) THEN entries \cup {e} ELSE entries
  <2>1. PICK id \in 1 .. MaxEntries, s \in LedgerSessions, p \in Profiles \union {Costs!NoProfile}, t \in 1 .. MaxTokens :
          entries' = IF Costs!FitsSession([id |-> id, session |-> s, profile |-> p, tokens |-> t])
                     THEN entries \union {[id |-> id, session |-> s, profile |-> p, tokens |-> t]}
                     ELSE entries
    BY DEF Costs!InsertEntry
  <2>2. PICK e : e = [id |-> id, session |-> s, profile |-> p, tokens |-> t]
    OBVIOUS
  <2>3. e.tokens = t /\ e.profile = p /\ t \in Nat
    BY <2>2
  <2>4. entries' = IF Costs!FitsSession(e) THEN entries \cup {e} ELSE entries
    BY <2>1, <2>2
  <2> QED
    BY <2>3, <2>4
<1>2. ReceiptsOk' /\ ConnsOk'
  BY <1>0 DEF ReceiptsOk, ConnsOk
<1>3. CASE Costs!FitsSession(e)
  <2>1. entries' = entries \cup {e} /\ e \notin entries
        /\ \A o \in entries : o.session = e.session => o.profile = e.profile
    BY <1>1, <1>3 DEF Costs!FitsSession
  <2>2. EntriesOk'
    BY <1>1, <2>1, FS_AddElement DEF EntriesOk
  <2>3. Costs!TokenUsage' = e.tokens + Costs!TokenUsage
    BY <1>1, <2>1, UsageGrows
  <2>4. DecisionsStand'
    BY <1>0, <1>1, <2>3, DecisionsKept
  <2> QED
    BY <1>2, <2>2, <2>4
<1>4. CASE ~Costs!FitsSession(e)
  <2>1. entries' = entries
    BY <1>1, <1>4
  <2>2. EntriesOk'
    BY <2>1 DEF EntriesOk
  <2>3. Costs!TokenUsage' = 0 + Costs!TokenUsage
    BY <2>1, TokensAre, TokensAreNext, LedgerNumbers
  <2>4. DecisionsStand'
    BY <1>0, <2>3, DecisionsKept
  <2> QED
    BY <1>2, <2>2, <2>4
<1> QED
  BY <1>3, <1>4

LEMMA LedgerStep ==
  ASSUME LedgerInv, [Costs!LedgerNext]_Costs!ledgerVars
  PROVE  LedgerInv'
<1> USE DEF LedgerInv
<1>1. ASSUME entries' = entries, \A c \in LedgerConns : decision'[c] \in {decision[c], "none"},
             ReceiptsOk', ConnsOk'
      PROVE  LedgerInv'
  <2>1. Costs!TokenUsage' = 0 + Costs!TokenUsage
    BY <1>1, TokensAre, TokensAreNext, LedgerNumbers
  <2>2. DecisionsStand'
    BY <1>1, <2>1, DecisionsKept
  <2> QED
    BY <1>1, <2>2 DEF EntriesOk
<1>2. CASE UNCHANGED Costs!ledgerVars
  BY <1>1, <1>2 DEF Costs!ledgerVars, ConnsOk, ReceiptsOk
<1>3. ASSUME NEW c \in LedgerConns,
             Costs!LedgerProbe(c) \/ Costs!MigrateLocked(c) \/ Costs!OpenReadOnly(c)
      PROVE  LedgerInv'
  BY <1>1, <1>3 DEF Costs!LedgerProbe, Costs!MigrateLocked, Costs!OpenReadOnly, ConnsOk, ReceiptsOk
<1>4. ASSUME NEW c \in LedgerConns, Costs!CloseLedger(c)
      PROVE  LedgerInv'
  BY <1>1, <1>4 DEF Costs!CloseLedger, ConnsOk, ReceiptsOk
<1>5. ASSUME NEW c \in LedgerConns, Costs!InsertReceipt(c)
      PROVE  LedgerInv'
  <2>1. UNCHANGED <<schema, entries, ledger, decision>>
    BY <1>5 DEF Costs!InsertReceipt
  <2>2. PICK r : r.candidate = 2 /\ (receipts' = receipts \/ receipts' = receipts \cup {r})
    <3>1. PICK id, s : receipts' = receipts
                       \/ receipts' = receipts \cup {[id |-> id, session |-> s, candidate |-> 2, selected |-> 1]}
      BY <1>5 DEF Costs!InsertReceipt
    <3>2. PICK r : r = [id |-> id, session |-> s, candidate |-> 2, selected |-> 1]
      OBVIOUS
    <3>3. r.candidate = 2
      BY <3>2
    <3> QED
      BY <3>1, <3>2, <3>3
  <2>3. ReceiptsOk'
    BY <2>2, FS_AddElement DEF ReceiptsOk
  <2> QED
    BY <1>1, <2>1, <2>3 DEF ConnsOk
<1> QED
  BY <1>2, <1>3, <1>4, <1>5, PreSpawnStep, InsertEntryStep DEF Costs!LedgerNext

LEMMA LedgerInitially == Costs!LedgerInit => LedgerInv
<1> SUFFICES ASSUME Costs!LedgerInit PROVE LedgerInv
  OBVIOUS
<1>0. PICK e : e = [id |-> 0, session |-> CHOOSE s \in LedgerSessions : TRUE,
                     profile |-> Costs!NoProfile, tokens |-> 1]
  OBVIOUS
<1>1. e.tokens = 1 /\ e.profile = Costs!NoProfile /\ (entries = {} \/ entries = {e})
  BY <1>0 DEF Costs!LedgerInit
<1>2. EntriesOk
  BY <1>1, FS_EmptySet, FS_Singleton DEF EntriesOk
<1>3. ReceiptsOk /\ ConnsOk
  BY FS_EmptySet DEF Costs!LedgerInit, ReceiptsOk, ConnsOk
<1>4. DecisionsStand
  BY DEF Costs!LedgerInit, DecisionsStand, Stands
<1> QED
  BY <1>2, <1>3, <1>4 DEF LedgerInv

LEMMA ProfilesAre ==
  Costs!MapThenSumSet(LAMBDA p : Costs!ProfileRollup(p).candidate, Profiles \union {Costs!NoProfile}) = SumOf([x \in Profiles \union {Costs!NoProfile} |-> Costs!ProfileRollup(x).candidate])
<1>1. PICK S : S = Profiles \union {Costs!NoProfile}
  OBVIOUS
<1>2. PICK h : h = [x \in S |-> Costs!ProfileRollup(x).candidate]
  OBVIOUS
<1>3. DOMAIN h = S /\ \A x \in S : h[x] = Costs!ProfileRollup(x).candidate
  BY <1>2
<1> DEFINE Iterates(g) == g = [t \in SUBSET S |-> IF t = {} THEN 0 ELSE Costs!ProfileRollup(Taken(t)).candidate + g[t \ {Taken(t)}]]
<1>4. Costs!MapThenSumSet(LAMBDA p : Costs!ProfileRollup(p).candidate, Profiles \union {Costs!NoProfile}) = (CHOOSE g : Iterates(g))[S]
  BY <1>1 DEF Costs!MapThenSumSet, Costs!MapThenFoldSet, Taken
<1>5. ASSUME NEW g PROVE Iterates(g) <=> Summing(g, h)
  <2>1. \A t \in SUBSET S : t # {} => h[Taken(t)] = Costs!ProfileRollup(Taken(t)).candidate
    BY <1>3, TakingChooses
  <2>2. [t \in SUBSET S |-> IF t = {} THEN 0 ELSE Costs!ProfileRollup(Taken(t)).candidate + g[t \ {Taken(t)}]]
          = [t \in SUBSET S |-> IF t = {} THEN 0 ELSE h[Taken(t)] + g[t \ {Taken(t)}]]
    BY <2>1
  <2> QED
    BY <1>3, <2>2 DEF Summing
<1>6. (CHOOSE g : Iterates(g)) = CHOOSE g : Summing(g, h)
  <2> HIDE DEF Iterates
  <2> QED
    BY <1>5
<1> QED
  BY <1>1, <1>2, <1>3, <1>4, <1>6 DEF SumOf

LEMMA SessionsAre ==
  Costs!MapThenSumSet(Costs!SessionCandidates, {e.session : e \in entries}) = SumOf([x \in {e.session : e \in entries} |-> Costs!SessionCandidates(x)])
<1>1. PICK S : S = {e.session : e \in entries}
  OBVIOUS
<1>2. PICK h : h = [x \in S |-> Costs!SessionCandidates(x)]
  OBVIOUS
<1>3. DOMAIN h = S /\ \A x \in S : h[x] = Costs!SessionCandidates(x)
  BY <1>2
<1> DEFINE Iterates(g) == g = [t \in SUBSET S |-> IF t = {} THEN 0 ELSE Costs!SessionCandidates(Taken(t)) + g[t \ {Taken(t)}]]
<1>4. Costs!MapThenSumSet(Costs!SessionCandidates, {e.session : e \in entries}) = (CHOOSE g : Iterates(g))[S]
  BY <1>1 DEF Costs!MapThenSumSet, Costs!MapThenFoldSet, Taken
<1>5. ASSUME NEW g PROVE Iterates(g) <=> Summing(g, h)
  <2>1. \A t \in SUBSET S : t # {} => h[Taken(t)] = Costs!SessionCandidates(Taken(t))
    BY <1>3, TakingChooses
  <2>2. [t \in SUBSET S |-> IF t = {} THEN 0 ELSE Costs!SessionCandidates(Taken(t)) + g[t \ {Taken(t)}]]
          = [t \in SUBSET S |-> IF t = {} THEN 0 ELSE h[Taken(t)] + g[t \ {Taken(t)}]]
    BY <2>1
  <2> QED
    BY <1>3, <2>2 DEF Summing
<1>6. (CHOOSE g : Iterates(g)) = CHOOSE g : Summing(g, h)
  <2> HIDE DEF Iterates
  <2> QED
    BY <1>5
<1> QED
  BY <1>1, <1>2, <1>3, <1>4, <1>6 DEF SumOf


(* The sum over two disjoint parts, *)
LEMMA SumOfParts ==
  ASSUME NEW D, IsFiniteSet(D), NEW h \in [D -> Nat], NEW b \in SUBSET D,
         NEW a \in SUBSET D, a \cap b = {}
  PROVE  SumOver(h, a \cup b) = SumOver(h, a) + SumOver(h, b)
<1> DEFINE P == {t \in SUBSET D : t \cap b = {} => SumOver(h, t \cup b) = SumOver(h, t) + SumOver(h, b)}
<1>1. ASSUME NEW t \in SUBSET D, \A x \in t : t \ {x} \in P PROVE t \in P
  <2>1. SUFFICES ASSUME t \cap b = {} PROVE SumOver(h, t \cup b) = SumOver(h, t) + SumOver(h, b)
    OBVIOUS
  <2>2. SumOver(h, b) \in Nat /\ SumOver(h, {}) = 0
    BY SumTerms
  <2>3. CASE t = {}
    <3>1. t \cup b = b
      BY <2>3
    <3> QED
      BY <2>2, <2>3, <3>1
  <2>4. CASE t # {}
    <3>1. PICK x \in t : TRUE
      BY <2>4
    <3>2. x \in D /\ t \cup b \in SUBSET D /\ x \in t \cup b /\ (t \cup b) \ {x} = (t \ {x}) \cup b
      BY <2>1, <3>1
    <3>3. SumOver(h, (t \ {x}) \cup b) = SumOver(h, t \ {x}) + SumOver(h, b)
      BY <1>1, <2>1, <3>1
    <3>4. SumOver(h, t) = h[x] + SumOver(h, t \ {x})
      BY <3>1, <3>2, SumTerms
    <3>5. SumOver(h, t \cup b) = h[x] + SumOver(h, (t \ {x}) \cup b)
      BY <3>1, <3>2, SumTerms
    <3>6. SumOver(h, t \ {x}) \in Nat /\ h[x] \in Nat
      BY <3>1, <3>2, SumTerms
    <3>7. PICK u \in Nat, v \in Nat, w \in Nat : u = h[x] /\ v = SumOver(h, t \ {x}) /\ w = SumOver(h, b)
      BY <2>2, <3>6
    <3>8. SumOver(h, t \cup b) = u + (v + w) /\ SumOver(h, t) + SumOver(h, b) = (u + v) + w
      BY <3>3, <3>4, <3>5, <3>7
    <3> QED
      BY <3>7, <3>8
  <2> QED
    BY <2>3, <2>4
<1>2. \A t \in SUBSET D : t \in P
  <2> HIDE DEF P
  <2> QED
    BY <1>1, SubsetInduction
<1> QED
  BY <1>2

(* over terms that are named anew, *)
LEMMA SumRenamed ==
  ASSUME NEW D, IsFiniteSet(D), NEW h \in [D -> Nat],
         NEW E, IsFiniteSet(E), NEW b \in [E -> D], \A x, y \in E : b[x] = b[y] => x = y,
         NEW k \in [E -> Nat], \A x \in E : k[x] = h[b[x]]
  PROVE  SumOver(k, E) = SumOver(h, {b[x] : x \in E})
<1> DEFINE P == {t \in SUBSET E : SumOver(k, t) = SumOver(h, {b[x] : x \in t})}
<1>1. ASSUME NEW t \in SUBSET E, \A x \in t : t \ {x} \in P PROVE t \in P
  <2>1. CASE t = {}
    <3>1. {b[x] : x \in t} = {}
      BY <2>1
    <3>2. SumOver(k, {}) = 0 /\ SumOver(h, {}) = 0
      BY SumTerms
    <3> QED
      BY <2>1, <3>1, <3>2
  <2>2. CASE t # {}
    <3>1. PICK y \in t : TRUE
      BY <2>2
    <3>2. PICK i, j : i = {b[x] : x \in t} /\ j = {b[x] : x \in t \ {y}}
      OBVIOUS
    <3>3. y \in E /\ b[y] \in D /\ b[y] \in i /\ i \in SUBSET D /\ j = i \ {b[y]}
      BY <3>1, <3>2
    <3>4. SumOver(k, t \ {y}) = SumOver(h, j)
      BY <1>1, <3>1, <3>2
    <3>5. SumOver(k, t) = k[y] + SumOver(k, t \ {y})
      BY <3>1, <3>3, SumTerms
    <3>6. SumOver(h, i) = h[b[y]] + SumOver(h, j)
      BY <3>3, SumTerms
    <3>7. SumOver(k, t) = SumOver(h, i)
      BY <3>3, <3>4, <3>5, <3>6
    <3> QED
      BY <3>2, <3>7
  <2> QED
    BY <2>1, <2>2
<1>2. \A t \in SUBSET E : t \in P
  <2> HIDE DEF P
  <2> QED
    BY <1>1, SubsetInduction
<1>3. E \in P
  BY <1>2
<1> QED
  BY <1>3

(* and over terms that are grouped by a label. *)
LEMMA SumOfGroups ==
  ASSUME NEW D, IsFiniteSet(D), NEW h \in [D -> Nat], NEW label,
         NEW Q, IsFiniteSet(Q), NEW k \in [Q -> Nat],
         \A p \in Q : k[p] = SumOver(h, {x \in D : label[x] = p})
  PROVE  SumOver(k, Q) = SumOver(h, {x \in D : label[x] \in Q})
<1> DEFINE P == {t \in SUBSET Q : SumOver(k, t) = SumOver(h, {x \in D : label[x] \in t})}
<1>1. ASSUME NEW t \in SUBSET Q, \A x \in t : t \ {x} \in P PROVE t \in P
  <2>1. CASE t = {}
    <3>1. {x \in D : label[x] \in t} = {}
      BY <2>1
    <3>2. SumOver(k, {}) = 0 /\ SumOver(h, {}) = 0
      BY SumTerms
    <3> QED
      BY <2>1, <3>1, <3>2
  <2>2. CASE t # {}
    <3>1. PICK p \in t : TRUE
      BY <2>2
    <3>2. PICK a, b : a = {x \in D : label[x] = p} /\ b = {x \in D : label[x] \in t \ {p}}
      OBVIOUS
    <3>3. a \in SUBSET D /\ b \in SUBSET D /\ a \cap b = {} /\ a \cup b = {x \in D : label[x] \in t}
      BY <3>1, <3>2
    <3>4. SumOver(h, a \cup b) = SumOver(h, a) + SumOver(h, b)
      BY <3>3, SumOfParts
    <3>5. SumOver(k, t) = k[p] + SumOver(k, t \ {p})
      BY <3>1, SumTerms
    <3>6. SumOver(k, t \ {p}) = SumOver(h, b) /\ k[p] = SumOver(h, a)
      BY <1>1, <3>1, <3>2
    <3>7. SumOver(k, t) = SumOver(h, a \cup b)
      BY <3>4, <3>5, <3>6
    <3> QED
      BY <3>3, <3>7
  <2> QED
    BY <2>1, <2>2
<1>2. \A t \in SUBSET Q : t \in P
  <2> HIDE DEF P
  <2> QED
    BY <1>1, SubsetInduction
<1>3. Q \in P
  BY <1>2
<1> QED
  BY <1>3

LEMMA FiniteImage ==
  ASSUME NEW S, IsFiniteSet(S), NEW f, DOMAIN f = S
  PROVE  IsFiniteSet({f[x] : x \in S})
<1>1. PICK g : g = [x \in S |-> f[x]]
  OBVIOUS
<1>2. g \in Surjection(S, {f[x] : x \in S})
  BY <1>1 DEF Surjection
<1> QED
  BY <1>2, FS_Surjection

LEMMA LedgerCounts == \A S : Costs!Cardinality(S) = Cardinality(S)
BY DEF Costs!Cardinality, Cardinality

SessionsCharged == {e.session : e \in entries}
CandidatesOf == [s \in SessionsCharged |-> Costs!SessionCandidates(s)]
ProfileOf == [s \in SessionsCharged |-> (CHOOSE e \in entries : e.session = s).profile]

LEMMA CandidatesTyped ==
  ASSUME LedgerInv
  PROVE  IsFiniteSet(SessionsCharged) /\ CandidatesOf \in [SessionsCharged -> Nat]
<1>1. IsFiniteSet(SessionsCharged)
  <2>1. PICK f : f = [e \in entries |-> e.session]
    OBVIOUS
  <2>2. DOMAIN f = entries /\ {f[e] : e \in entries} = SessionsCharged
    BY <2>1 DEF SessionsCharged
  <2> QED
    BY <2>2, FiniteImage DEF LedgerInv, EntriesOk
<1>2. ASSUME NEW s PROVE Costs!SessionCandidates(s) \in Nat
  <2>1. PICK R : R = {r \in receipts : r.session = s}
    OBVIOUS
  <2>2. IsFiniteSet(R) /\ \A r \in R : r.candidate \in Nat
    BY <2>1, FS_Subset DEF LedgerInv, ReceiptsOk
  <2>3. PICK h : h = [x \in R |-> x.candidate]
    OBVIOUS
  <2>4. h \in [R -> Nat] /\ h = [x \in R |-> h[x]]
    BY <2>2, <2>3
  <2>5. SumOver(h, R) \in Nat
    BY <2>2, <2>4, SumTerms
  <2> QED
    BY <2>1, <2>3, <2>4, <2>5, CandidatesAre DEF SumOver
<1> QED
  BY <1>1, <1>2 DEF CandidatesOf

(* A session has one profile, so a profile's groups are its sessions. *)
LEMMA RollupOfProfile ==
  ASSUME LedgerInv, NEW p
  PROVE  Costs!ProfileRollup(p).candidate
           = SumOver(CandidatesOf, {s \in SessionsCharged : ProfileOf[s] = p})
<1>1. \A e \in entries : e.session \in SessionsCharged /\ ProfileOf[e.session] = e.profile
  BY DEF LedgerInv, EntriesOk, ProfileOf, SessionsCharged
<1>2. PICK E : E = {g \in Costs!Groups : g.profile = p}
  OBVIOUS
<1>3. \A g \in E : \E e \in entries : /\ e.profile = p /\ g.session = e.session
                                       /\ g = [session |-> e.session, profile |-> p]
  BY <1>2 DEF Costs!Groups
<1>4. \A e \in entries : e.profile = p => \E g \in E : g.session = e.session
  <2>1. SUFFICES ASSUME NEW e \in entries, e.profile = p PROVE \E g \in E : g.session = e.session
    OBVIOUS
  <2>2. PICK g : g = [session |-> e.session, profile |-> e.profile]
    OBVIOUS
  <2>3. g \in Costs!Groups /\ g.profile = p /\ g.session = e.session
    BY <2>1, <2>2 DEF Costs!Groups
  <2> QED
    BY <1>2, <2>3
<1>5. IsFiniteSet(E)
  <2>1. IsFiniteSet(Costs!Groups)
    <3>1. PICK f : f = [e \in entries |-> [session |-> e.session, profile |-> e.profile]]
      OBVIOUS
    <3>2. DOMAIN f = entries /\ {f[e] : e \in entries} = Costs!Groups
      BY <3>1 DEF Costs!Groups
    <3> QED
      BY <3>2, FiniteImage DEF LedgerInv, EntriesOk
  <2> QED
    BY <1>2, <2>1, FS_Subset
<1>6. PICK b : b = [g \in E |-> g.session]
  OBVIOUS
<1>7. b \in [E -> SessionsCharged] /\ \A g \in E : b[g] = g.session
  BY <1>1, <1>3, <1>6
<1>8. \A f, g \in E : b[f] = b[g] => f = g
  BY <1>3, <1>7
<1>9. {b[g] : g \in E} = {s \in SessionsCharged : ProfileOf[s] = p}
  <2>1. ASSUME NEW g \in E PROVE b[g] \in SessionsCharged /\ ProfileOf[b[g]] = p
    BY <1>1, <1>3, <1>7
  <2>2. ASSUME NEW s \in SessionsCharged, ProfileOf[s] = p PROVE \E g \in E : b[g] = s
    BY <1>1, <1>4, <1>7, <2>2 DEF SessionsCharged
  <2> QED
    BY <2>1, <2>2
<1>10. PICK k : k = [x \in E |-> Costs!SessionCandidates(x.session)]
  OBVIOUS
<1>11. /\ k \in [E -> Nat] /\ k = [x \in E |-> k[x]]
       /\ \A g \in E : k[g] = CandidatesOf[b[g]]
  <2>1. \A g \in E : k[g] = CandidatesOf[b[g]] /\ CandidatesOf[b[g]] \in Nat
    BY <1>7, <1>10, CandidatesTyped DEF CandidatesOf
  <2> QED
    BY <1>10, <2>1
<1>12. SumOver(k, E) = SumOver(CandidatesOf, {b[g] : g \in E})
  BY <1>5, <1>7, <1>8, <1>11, CandidatesTyped, SumRenamed
<1>13. Costs!ProfileRollup(p).candidate = SumOver(k, E)
  BY <1>2, <1>10, <1>11, RollupIs DEF SumOver
<1> QED
  BY <1>9, <1>12, <1>13

LEMMA LedgerHolds ==
  ASSUME LedgerInv
  PROVE  Costs!RollupsExact /\ Costs!BlocksStand
<1>1. PICK Q : Q = Profiles \union {Costs!NoProfile}
  OBVIOUS
<1>2. IsFiniteSet(Q)
  BY <1>1, FS_AddElement, ServicesAssumption
<1>3. PICK k : k = [x \in Q |-> Costs!ProfileRollup(x).candidate]
  OBVIOUS
<1>4. \A p \in Q : k[p] = SumOver(CandidatesOf, {s \in SessionsCharged : ProfileOf[s] = p})
  BY <1>3, RollupOfProfile
<1>5. k \in [Q -> Nat] /\ k = [x \in Q |-> k[x]]
  <2>1. ASSUME NEW p \in Q PROVE k[p] \in Nat
    <3>1. PICK t \in SUBSET SessionsCharged : t = {s \in SessionsCharged : ProfileOf[s] = p}
      OBVIOUS
    <3>2. SumOver(CandidatesOf, t) \in Nat
      BY CandidatesTyped, SumTerms
    <3> QED
      BY <1>4, <3>1, <3>2
  <2> QED
    BY <1>3, <2>1
<1>6. SumOver(k, Q) = SumOver(CandidatesOf, {s \in SessionsCharged : ProfileOf[s] \in Q})
  BY <1>2, <1>4, <1>5, CandidatesTyped, SumOfGroups
<1>7. {s \in SessionsCharged : ProfileOf[s] \in Q} = SessionsCharged
  BY <1>1 DEF LedgerInv, EntriesOk, ProfileOf, SessionsCharged
<1>8. CandidatesOf = [x \in SessionsCharged |-> CandidatesOf[x]]
  BY CandidatesTyped
<1>9. Costs!MapThenSumSet(LAMBDA p : Costs!ProfileRollup(p).candidate, Profiles \union {Costs!NoProfile})
        = SumOver(k, Q)
  BY <1>1, <1>3, <1>5, ProfilesAre DEF SumOver
<1>10. Costs!MapThenSumSet(Costs!SessionCandidates, {e.session : e \in entries})
         = SumOver(CandidatesOf, SessionsCharged)
  BY <1>8, SessionsAre DEF SumOver, CandidatesOf, SessionsCharged
<1>11. Costs!RollupsExact
  BY <1>6, <1>7, <1>9, <1>10 DEF Costs!RollupsExact
<1>12. Costs!BlocksStand
  BY DEF LedgerInv, ConnsOk, DecisionsStand, Stands, Costs!BlocksStand
<1> QED
  BY <1>11, <1>12


-----------------------------------------------------------------------------
(***************************************************************************)
(* A finite set that is strictly and totally ordered can be listed in      *)
(* order.                                                                  *)
(***************************************************************************)

Orders(R, S) ==
  /\ \A x \in S : <<x, x>> \notin R
  /\ \A x, y \in S : x # y => <<x, y>> \in R \/ <<y, x>> \in R
  /\ \A x, y, z \in S : <<x, y>> \in R /\ <<y, z>> \in R => <<x, z>> \in R
Lists(q, R) == \A m, n \in DOMAIN q : m < n => <<q[m], q[n]>> \in R

LEMMA LastExists ==
  ASSUME NEW S, IsFiniteSet(S), NEW R, Orders(R, S)
  PROVE  \A s \in SUBSET S : s # {} => \E z \in s : \A x \in s \ {z} : <<x, z>> \in R
<1> DEFINE P == {s \in SUBSET S : s # {} => \E z \in s : \A x \in s \ {z} : <<x, z>> \in R}
<1>1. ASSUME NEW s \in SUBSET S, \A x \in s : s \ {x} \in P PROVE s \in P
  <2>1. SUFFICES ASSUME s # {} PROVE \E z \in s : \A x \in s \ {z} : <<x, z>> \in R
    OBVIOUS
  <2>2. PICK y \in s : TRUE
    BY <2>1
  <2>3. CASE s \ {y} = {}
    BY <2>3
  <2>4. CASE s \ {y} # {}
    <3>1. s \ {y} \in P
      BY <1>1
    <3>2. PICK z \in s \ {y} : \A x \in (s \ {y}) \ {z} : <<x, z>> \in R
      BY <3>1, <2>4
    <3>3. CASE <<y, z>> \in R
      BY <3>2, <3>3
    <3>4. CASE <<z, y>> \in R
      <4>1. \A x \in s \ {y} : <<x, y>> \in R
        BY <3>2, <3>4 DEF Orders
      <4> QED
        BY <4>1
    <3> QED
      BY <3>2, <3>3, <3>4 DEF Orders
  <2> QED
    BY <2>3, <2>4
<1>2. \A s \in SUBSET S : s \in P
  <2> HIDE DEF P
  <2> QED
    BY <1>1, SubsetInduction
<1> QED
  BY <1>2

LEMMA ListExists ==
  ASSUME NEW S, IsFiniteSet(S), NEW R, Orders(R, S)
  PROVE  \E q \in [1 .. Cardinality(S) -> S] : Lists(q, R)
<1> DEFINE P == {s \in SUBSET S : \E q \in [1 .. Cardinality(s) -> s] : Lists(q, R)}
<1>1. ASSUME NEW s \in SUBSET S, \A x \in s : s \ {x} \in P PROVE s \in P
  <2>0. IsFiniteSet(s) /\ Cardinality(s) \in Nat
    BY FS_Subset, FS_CardinalityType
  <2>1. CASE s = {}
    <3>1. Cardinality(s) = 0
      BY <2>1, FS_EmptySet
    <3>2. 1 .. Cardinality(s) = {}
      BY <3>1
    <3>3. [n \in {} |-> n] \in [1 .. Cardinality(s) -> s] /\ Lists([n \in {} |-> n], R)
      BY <3>2 DEF Lists
    <3> QED
      BY <3>3
  <2>2. CASE s # {}
    <3>1. PICK z \in s : \A x \in s \ {z} : <<x, z>> \in R
      BY <2>2, LastExists
    <3>2. PICK N \in Nat : N = Cardinality(s)
      BY <2>0
    <3>3. PICK t : t = s \ {z}
      OBVIOUS
    <3>4. Cardinality(t) = N - 1
      BY <3>2, <3>3, <2>0, FS_RemoveElement
    <3>5. PICK q \in [1 .. N - 1 -> t] : Lists(q, R)
      BY <3>4, <3>3, <1>1
    <3>6. PICK p : p = [n \in 1 .. N |-> IF n = N THEN z ELSE q[n]]
      OBVIOUS
    <3>7. DOMAIN p = 1 .. N /\ \A n \in 1 .. N : (n = N => p[n] = z) /\ (n # N => n \in 1 .. N - 1 /\ p[n] = q[n] /\ q[n] \in t)
      BY <3>6
    <3>8. p \in [1 .. N -> s]
      BY <3>6, <3>7, <3>3
    <3>9. ASSUME NEW m \in 1 .. N, NEW n \in 1 .. N, m < n PROVE <<p[m], p[n]>> \in R
      <4>1. m # N /\ m \in 1 .. N - 1
        BY <3>9
      <4>2. CASE n = N
        BY <4>1, <4>2, <3>7, <3>1, <3>3
      <4>3. CASE n # N
        BY <4>1, <4>3, <3>7, <3>5, <3>9 DEF Lists
      <4> QED
        BY <4>2, <4>3
    <3>10. Lists(p, R)
      BY <3>9, <3>7 DEF Lists
    <3> QED
      BY <3>8, <3>10, <3>2
  <2> QED
    BY <2>1, <2>2
<1>2. \A s \in SUBSET S : s \in P
  <2> HIDE DEF P
  <2> QED
    BY <1>1, SubsetInduction
<1>3. S \in P
  BY <1>2
<1> QED
  BY <1>3

-----------------------------------------------------------------------------
(***************************************************************************)
(* A campaign pass.                                                        *)
(***************************************************************************)

LEMMA CampaignCounts == \A S : Campaign!Cardinality(S) = Cardinality(S)
BY DEF Campaign!Cardinality, Cardinality

(* P0 first, then the repository and the number: no two cards are alike.   *)
BeforeIn(b) == {ij \in Cards \X Cards : Campaign!Before(b, ij[1], ij[2])}

LEMMA BeforeOrders ==
  ASSUME NEW b \in [Cards -> FactSet]
  PROVE  Orders(BeforeIn(b), Cards)
<1>0. \A i, j \in Cards : <<i, j>> \in BeforeIn(b) <=> Campaign!Before(b, i, j)
  BY DEF BeforeIn
<1>1. \A i \in Cards : i \in [repo : Nat, number : Nat]
  BY ServicesAssumption DEF ServicesAssumption
<1>2. \A i \in Cards : i.repo \in Nat /\ i.number \in Nat
  BY <1>1
<1>3. \A i, j \in Cards : i.repo = j.repo /\ i.number = j.number => i = j
  BY <1>1
<1>4. \A i \in Cards : b[i].p0 \in BOOLEAN
  BY ServicesAssumption DEF ServicesAssumption
<1>5. ASSUME NEW i \in Cards PROVE ~Campaign!Before(b, i, i)
  BY <1>2 DEF Campaign!Before
<1>6. ASSUME NEW i \in Cards, NEW j \in Cards, i # j PROVE Campaign!Before(b, i, j) \/ Campaign!Before(b, j, i)
  <2>1. (i.repo < j.repo \/ (i.repo = j.repo /\ i.number < j.number)) \/ (j.repo < i.repo \/ (j.repo = i.repo /\ j.number < i.number))
    BY <1>2, <1>3, <1>6
  <2> QED
    BY <2>1, <1>4 DEF Campaign!Before
<1>7. ASSUME NEW i \in Cards, NEW j \in Cards, NEW k \in Cards, Campaign!Before(b, i, j), Campaign!Before(b, j, k)
      PROVE Campaign!Before(b, i, k)
  <2> DEFINE Less(x, y) == x.repo < y.repo \/ (x.repo = y.repo /\ x.number < y.number)
  <2>1. Less(i, j) /\ Less(j, k) => Less(i, k)
    BY <1>2
  <2>2. /\ (b[i].p0 /\ ~b[j].p0) \/ (b[i].p0 = b[j].p0 /\ Less(i, j))
        /\ (b[j].p0 /\ ~b[k].p0) \/ (b[j].p0 = b[k].p0 /\ Less(j, k))
    BY <1>7 DEF Campaign!Before
  <2>3. (b[i].p0 /\ ~b[k].p0) \/ (b[i].p0 = b[k].p0 /\ Less(i, k))
    <3> HIDE DEF Less
    <3> QED
      BY <2>1, <2>2, <1>4
  <2> QED
    BY <2>3 DEF Campaign!Before
<1> QED
  BY <1>0, <1>5, <1>6, <1>7 DEF Orders

(* So what is ready has a listing, and the selection is one.               *)
LEMMA SelectionLists ==
  ASSUME NEW b \in [Cards -> FactSet], NEW ready \in SUBSET Cards
  PROVE  Campaign!ComputeSelection(b, ready) \in Seq(Cards)
<1>1. IsFiniteSet(ready)
  BY ServicesAssumption, FS_Subset DEF ServicesAssumption
<1>2. Orders(BeforeIn(b), ready)
  BY BeforeOrders DEF Orders
<1>3. PICK q \in [1 .. Cardinality(ready) -> ready] : Lists(q, BeforeIn(b))
  BY <1>1, <1>2, ListExists
<1>4. \A m, n \in DOMAIN q : m < n => Campaign!Before(b, q[m], q[n])
  BY <1>3 DEF Lists, BeforeIn
<1>5. Campaign!ComputeSelection(b, ready) \in [1 .. Cardinality(ready) -> ready]
  BY <1>4, CampaignCounts DEF Campaign!ComputeSelection
<1>6. Cardinality(ready) \in Nat
  BY <1>1, FS_CardinalityType
<1> QED
  BY <1>5, <1>6

(* A choice that is taken is the place of a ready card of that name.       *)
LEMMA FirstExists ==
  ASSUME NEW I \in SUBSET Nat, I # {}
  PROVE  Campaign!Min(I) \in I
<1>1. PICK m \in I : \A k \in I : ~(<<k, m>> \in OpToRel(<, Nat))
  BY WFMin, NatLessThanWellFounded
<1>2. ASSUME NEW k \in I PROVE m <= k
  <2>1. k \in Nat /\ m \in Nat
    OBVIOUS
  <2>2. ~(k < m)
    BY <1>1, <2>1 DEF OpToRel
  <2> QED
    BY <2>1, <2>2
<1> QED
  BY <1>2 DEF Campaign!Min

LEMMA ChosenIs ==
  ASSUME NEW ordered \in Seq(Cards), NEW consulted, Campaign!Chosen(ordered, consulted) # 0
  PROVE  /\ consulted.status = "ok"
         /\ Campaign!Chosen(ordered, consulted) \in 1 .. Len(ordered)
         /\ Campaign!TaskIdFor(ordered[Campaign!Chosen(ordered, consulted)]) = consulted.value
<1> DEFINE I == {n \in 1 .. Len(ordered) : Campaign!TaskIdFor(ordered[n]) = consulted.value}
<1>1. consulted.status = "ok"
  BY DEF Campaign!Chosen
<1>2. Campaign!Chosen(ordered, consulted) = IF I # {} THEN Campaign!Min(I) ELSE 0
  BY <1>1 DEF Campaign!Chosen, Campaign!SelectInSeq
<1>3. I \in SUBSET Nat /\ I # {}
  BY <1>2
<1>4. Campaign!Chosen(ordered, consulted) \in I
  <2> HIDE DEF I
  <2> QED
    BY <1>2, <1>3, FirstExists
<1> QED
  BY <1>1, <1>4

LEMMA TaskIdsDiffer ==
  ASSUME NEW i \in Cards, NEW j \in Cards, Campaign!TaskIdFor(i) = Campaign!TaskIdFor(j)
  PROVE  i = j
<1>1. i \in [repo : Nat, number : Nat] /\ j \in [repo : Nat, number : Nat]
  BY ServicesAssumption DEF ServicesAssumption
<1>2. i.repo = j.repo
  <2>1. CASE i.repo \in CleanRepos /\ j.repo \in CleanRepos
    BY <2>1 DEF Campaign!TaskIdFor
  <2>2. CASE i.repo \notin CleanRepos /\ j.repo \notin CleanRepos
    <3>1. Digest(i.repo) = Digest(j.repo)
      BY <2>2 DEF Campaign!TaskIdFor
    <3> QED
      BY <3>1, ServicesAssumption DEF ServicesAssumption
  <2>3. CASE ~(i.repo \in CleanRepos <=> j.repo \in CleanRepos)
    BY <2>3 DEF Campaign!TaskIdFor
  <2> QED
    BY <2>1, <2>2, <2>3
<1>3. i.number = j.number
  BY <1>2 DEF Campaign!TaskIdFor
<1> QED
  BY <1>1, <1>2, <1>3

(* A decision is about the cards its pass saw.                             *)
DecisionRecords ==
  [pass : Passes, kind : {"Selected", "NoOp"}, selected : Cards \cup {"none"},
   path : {"decision-provider", "routing"}, reason : {"none", "EpicExhausted", "EmptyQueue", "AllBlocked"},
   alternatives : SUBSET Cards]

AboutView(d, view, consulted) ==
  /\ d.kind = "Selected" =>
       /\ d.selected \in Campaign!ToSet(view.ordered)
       /\ d.alternatives = Campaign!ToSet(view.ordered) \ {d.selected}
       /\ d.path = "decision-provider" =>
            consulted.status = "ok" /\ consulted.value = Campaign!TaskIdFor(d.selected)
  /\ d.kind = "NoOp" => Campaign!ToSet(view.ordered) = {}
  /\ d.reason = "EpicExhausted" => view.open = {}

LEMMA DecisionIsSound ==
  ASSUME NEW p \in Passes, NEW view, NEW consulted, view.ordered \in Seq(Cards), NEW d,
         d = Campaign!CampaignDecision(p, view, consulted)
  PROVE  d \in DecisionRecords /\ d.pass = p /\ AboutView(d, view, consulted)
<1> USE DEF AboutView
<1>1. PICK ordered \in Seq(Cards) : ordered = view.ordered
  OBVIOUS
<1>2. CASE ordered # <<>>
  <2>1. PICK n : n = IF Campaign!Chosen(ordered, consulted) = 0 THEN 1 ELSE Campaign!Chosen(ordered, consulted)
    OBVIOUS
  <2>2. n \in 1 .. Len(ordered)
    BY <2>1, <1>2, ChosenIs
  <2>3. PICK item \in Cards : item = ordered[n]
    BY <2>2
  <2>4. d = [pass |-> p, kind |-> "Selected", selected |-> item,
             path |-> Campaign!Attribution(ordered, consulted), reason |-> "none",
             alternatives |-> {i \in Campaign!ToSet(ordered) : Campaign!TaskIdFor(i) # Campaign!TaskIdFor(item)}]
    BY <1>1, <1>2, <2>1, <2>3 DEF Campaign!CampaignDecision, Campaign!Select
  <2>5. item \in Campaign!ToSet(ordered) /\ Campaign!ToSet(ordered) \subseteq Cards
    BY <2>2, <2>3 DEF Campaign!ToSet
  <2>6. {i \in Campaign!ToSet(ordered) : Campaign!TaskIdFor(i) # Campaign!TaskIdFor(item)} = Campaign!ToSet(ordered) \ {item}
    BY <2>5, TaskIdsDiffer
  <2>7. /\ Campaign!Attribution(ordered, consulted) \in {"decision-provider", "routing"}
        /\ Campaign!Attribution(ordered, consulted) = "decision-provider" =>
             consulted.status = "ok" /\ consulted.value = Campaign!TaskIdFor(item)
    BY <2>1, <2>3, ChosenIs DEF Campaign!Attribution
  <2>8. /\ d.pass = p /\ d.kind = "Selected" /\ d.selected = item /\ d.reason = "none"
        /\ d.path = Campaign!Attribution(ordered, consulted)
        /\ d.alternatives = Campaign!ToSet(ordered) \ {item}
    BY <2>4, <2>6
  <2>9. d \in DecisionRecords
    BY <2>4, <2>5, <2>6, <2>7 DEF DecisionRecords
  <2> QED
    BY <2>5, <2>7, <2>8, <2>9, <1>1
<1>3. CASE ordered = <<>>
  <2>1. d = [pass |-> p, kind |-> "NoOp", selected |-> "none", path |-> "routing",
             reason |-> Campaign!NoOpReason(view), alternatives |-> {}]
    BY <1>1, <1>3 DEF Campaign!CampaignDecision
  <2>2. /\ Campaign!NoOpReason(view) \in {"EpicExhausted", "EmptyQueue", "AllBlocked"}
        /\ Campaign!NoOpReason(view) = "EpicExhausted" => view.open = {}
    BY DEF Campaign!NoOpReason
  <2>3. Campaign!ToSet(ordered) = {}
    BY <1>3 DEF Campaign!ToSet
  <2>4. d \in DecisionRecords
    BY <2>1, <2>2 DEF DecisionRecords
  <2> QED
    BY <2>1, <2>2, <2>3, <2>4, <1>1
<1> QED
  BY <1>2, <1>3

(* A pass keeps the snapshot it read and the answer it was given from the  *)
(* moment it plans; its one row is the decision they make, a worker has a  *)
(* row before it and is its pass's only one.                               *)
PassRecord(x) ==
  /\ x = [pc |-> x.pc, snap |-> x.snap, provider |-> x.provider, answered |-> x.answered]
  /\ x.snap.ordered \in Seq(Cards)
Answers(x) == x.status # "ok" \/ x = [status |-> "ok", value |-> x.value]
Planned(p) == pass[p].pc \in {"spawn", "done", "failed"}
RowIsDecision(d) ==
  /\ d.pass \in Passes /\ Planned(d.pass)
  /\ d = Campaign!CampaignDecision(d.pass, pass[d.pass].snap, pass[d.pass].answered)
WorkerHasRow(w) ==
  /\ w.pass \in Passes /\ pass[w.pass].pc = "done" /\ w.at \in Nat /\ w.at <= Len(campaignRows)
  /\ \E r \in 1 .. w.at : campaignRows[r].pass = w.pass /\ campaignRows[r].selected = w.item

PassesOk == DOMAIN pass = Passes /\ \A p \in Passes : PassRecord(pass[p]) /\ Answers(pass[p].answered)
RowsOk ==
  /\ campaignRows \in Seq(DecisionRecords)
  /\ \A n \in DOMAIN campaignRows : RowIsDecision(campaignRows[n])
  /\ \A m, n \in DOMAIN campaignRows : campaignRows[m].pass = campaignRows[n].pass => m = n
  /\ \A p \in Passes : pass[p].pc = "spawn" => \E n \in DOMAIN campaignRows : campaignRows[n].pass = p
WorkersOk ==
  /\ \A w \in workers : WorkerHasRow(w)
  /\ \A v, w \in workers : v.pass = w.pass => v = w
CampaignInv == campaignBoard \in [Cards -> FactSet] /\ PassesOk /\ RowsOk /\ WorkersOk

LEMMA CampaignHolds ==
  ASSUME CampaignInv
  PROVE  Campaign!DecisionsSound
<1> USE DEF CampaignInv, PassesOk, RowsOk, WorkersOk
<1>1. ASSUME NEW r \in DOMAIN campaignRows
      PROVE LET d == campaignRows[r]
                ready == Campaign!ToSet(pass[d.pass].snap.ordered)
            IN /\ d.kind = "Selected" =>
                    /\ d.selected \in ready /\ d.alternatives = ready \ {d.selected}
                    /\ d.path = "decision-provider" =>
                         pass[d.pass].answered = [status |-> "ok", value |-> Campaign!TaskIdFor(d.selected)]
               /\ d.kind = "NoOp" => ready = {}
               /\ d.reason = "EpicExhausted" => pass[d.pass].snap.open = {}
  <2>1. PICK d : d = campaignRows[r]
    OBVIOUS
  <2>2. PICK p \in Passes : p = d.pass
    BY <2>1 DEF RowIsDecision
  <2>3. PICK x : x = pass[p] /\ PassRecord(x) /\ Answers(x.answered)
    BY <2>2
  <2>4. d = Campaign!CampaignDecision(p, x.snap, x.answered)
    BY <2>1, <2>2, <2>3 DEF RowIsDecision
  <2>5. AboutView(d, x.snap, x.answered)
    <3>1. PICK view : view = x.snap
      OBVIOUS
    <3>2. view.ordered \in Seq(Cards) /\ d = Campaign!CampaignDecision(p, view, x.answered)
      BY <2>3, <2>4, <3>1 DEF PassRecord
    <3> QED
      BY <3>1, <3>2, DecisionIsSound
  <2>6. x.answered.status = "ok" /\ x.answered.value = Campaign!TaskIdFor(d.selected) =>
          x.answered = [status |-> "ok", value |-> Campaign!TaskIdFor(d.selected)]
    BY <2>3 DEF Answers
  <2> QED
    BY <2>1, <2>2, <2>3, <2>5, <2>6 DEF AboutView
<1>2. \A w \in workers : \E r \in 1 .. w.at : campaignRows[r].pass = w.pass /\ campaignRows[r].selected = w.item
  BY DEF WorkerHasRow
<1>3. \A v, w \in workers : v.pass = w.pass => v = w
  OBVIOUS
<1> QED
  BY <1>1, <1>2, <1>3 DEF Campaign!DecisionsSound

LEMMA CampaignInitially == Campaign!CampaignInit => CampaignInv
<1> SUFFICES ASSUME Campaign!CampaignInit PROVE CampaignInv
  OBVIOUS
<1> USE DEF Campaign!CampaignInit
<1>1. PassRecord(Campaign!Idle) /\ Answers(Campaign!Idle.answered) /\ Campaign!Idle.pc = "idle"
  <2>1. PICK view : view = [open |-> {}, ordered |-> <<>>, blocked |-> {}, warnings |-> {}]
    OBVIOUS
  <2>2. PICK a : a = Campaign!Unavailable
    OBVIOUS
  <2>3. view.ordered \in Seq(Cards) /\ Answers(a)
    BY <2>1, <2>2 DEF Answers, Campaign!Unavailable
  <2>4. PICK x : x = [pc |-> "idle", snap |-> view, provider |-> "off", answered |-> a]
    OBVIOUS
  <2>5. PassRecord(x) /\ x.pc = "idle" /\ x.answered = a
    BY <2>3, <2>4 DEF PassRecord
  <2>6. x = Campaign!Idle
    BY <2>1, <2>2, <2>4 DEF Campaign!Idle
  <2> QED
    BY <2>3, <2>5, <2>6
<1>2. PassesOk
  BY <1>1 DEF PassesOk
<1>3. RowsOk
  BY <1>1 DEF RowsOk
<1>4. WorkersOk
  BY DEF WorkersOk
<1> QED
  BY <1>2, <1>3, <1>4 DEF CampaignInv

(* A pass that has not planned goes on without a record or a worker; one   *)
(* that has ends as it is.                                                 *)
LEMMA PassGoesOn ==
  ASSUME CampaignInv, NEW p \in Passes, NEW x, PassRecord(x), Answers(x.answered),
         pass' = [pass EXCEPT ![p] = x], UNCHANGED <<campaignBoard, campaignRows, workers>>,
         x.pc # "spawn",
         Planned(p) => pass[p].pc # "done" /\ x.pc = "failed" /\ x.snap = pass[p].snap /\ x.answered = pass[p].answered
  PROVE  CampaignInv'
<1> USE DEF CampaignInv
<1>1. DOMAIN pass' = Passes /\ pass'[p] = x /\ \A q \in Passes : q # p => pass'[q] = pass[q]
  BY DEF PassesOk
<1>2. PassesOk'
  BY <1>1 DEF PassesOk
<1>3. RowsOk'
  <2>1. ASSUME NEW d, RowIsDecision(d) PROVE RowIsDecision(d)'
    <3>1. CASE d.pass = p
      BY <3>1, <2>1, <1>1 DEF RowIsDecision, Planned
    <3>2. CASE d.pass # p
      BY <3>2, <2>1, <1>1 DEF RowIsDecision, Planned
    <3> QED
      BY <3>1, <3>2
  <2>2. \A n \in DOMAIN campaignRows' : RowIsDecision(campaignRows[n])'
    BY <2>1 DEF RowsOk
  <2>3. \A q \in Passes : pass'[q].pc = "spawn" => pass[q].pc = "spawn"
    BY <1>1
  <2> QED
    BY <2>2, <2>3 DEF RowsOk
<1>4. WorkersOk'
  <2>1. ASSUME NEW w \in workers PROVE WorkerHasRow(w)'
    <3>1. w.pass # p /\ WorkerHasRow(w)
      BY DEF WorkersOk, WorkerHasRow, Planned
    <3> QED
      BY <3>1, <1>1 DEF WorkerHasRow
  <2> QED
    BY <2>1 DEF WorkersOk
<1> QED
  BY <1>2, <1>3, <1>4

LEMMA TakeSnapshotStep ==
  ASSUME CampaignInv, NEW p \in Passes, Campaign!TakeSnapshot(p)
  PROVE  CampaignInv'
<1>0. pass[p].pc = "idle" /\ UNCHANGED <<campaignBoard, campaignRows, workers>>
  BY DEF Campaign!TakeSnapshot
<1>1. PICK c \in Campaign!ProviderConfigs, rt \in BOOLEAN :
        pass' = [pass EXCEPT ![p] =
                   [pc |-> IF Campaign!ResolveProvider(c) = "error" THEN "refused"
                           ELSE IF Campaign!ResolveProvider(c) # "off" /\ Campaign!ReadyQueue(campaignBoard, rt) # {}
                                THEN "consult" ELSE "plan",
                    snap |-> [open |-> Campaign!OpenItems(campaignBoard),
                              ordered |-> Campaign!ComputeSelection(campaignBoard, Campaign!ReadyQueue(campaignBoard, rt)),
                              blocked |-> Campaign!BlockedCandidates(campaignBoard, rt),
                              warnings |-> Campaign!Warnings(campaignBoard)],
                    provider |-> Campaign!ResolveProvider(c), answered |-> Campaign!Unavailable]]
  BY DEF Campaign!TakeSnapshot
<1>2. Campaign!ReadyQueue(campaignBoard, rt) \in SUBSET Cards
  BY DEF Campaign!ReadyQueue, Campaign!OpenItems
<1>3. Campaign!ComputeSelection(campaignBoard, Campaign!ReadyQueue(campaignBoard, rt)) \in Seq(Cards)
  BY <1>2, SelectionLists DEF CampaignInv
<1>4. PICK sn : sn = [open |-> Campaign!OpenItems(campaignBoard),
                      ordered |-> Campaign!ComputeSelection(campaignBoard, Campaign!ReadyQueue(campaignBoard, rt)),
                      blocked |-> Campaign!BlockedCandidates(campaignBoard, rt),
                      warnings |-> Campaign!Warnings(campaignBoard)]
  OBVIOUS
<1>5. PICK pc \in {"refused", "consult", "plan"} :
        pc = IF Campaign!ResolveProvider(c) = "error" THEN "refused"
             ELSE IF Campaign!ResolveProvider(c) # "off" /\ Campaign!ReadyQueue(campaignBoard, rt) # {}
                  THEN "consult" ELSE "plan"
  OBVIOUS
<1>6. PICK x : x = [pc |-> pc, snap |-> sn, provider |-> Campaign!ResolveProvider(c), answered |-> Campaign!Unavailable]
  OBVIOUS
<1>7. sn.ordered \in Seq(Cards)
  BY <1>3, <1>4
<1>8. PassRecord(x) /\ Answers(x.answered)
  BY <1>6, <1>7 DEF PassRecord, Answers, Campaign!Unavailable
<1>9. pass' = [pass EXCEPT ![p] = x]
  BY <1>1, <1>4, <1>5, <1>6
<1>10. x.pc # "spawn" /\ ~Planned(p)
  BY <1>0, <1>5, <1>6 DEF Planned
<1> QED
  BY <1>0, <1>8, <1>9, <1>10, PassGoesOn

LEMMA ConsultStep ==
  ASSUME CampaignInv, NEW p \in Passes, Campaign!Consult(p)
  PROVE  CampaignInv'
<1>0. pass[p].pc = "consult" /\ UNCHANGED <<campaignBoard, campaignRows, workers>>
  BY DEF Campaign!Consult
<1>1. PICK a : /\ Answers(a)
               /\ pass' = [pass EXCEPT ![p] = [[pass[p] EXCEPT !.answered = a] EXCEPT !.pc = "plan"]]
  <2> DEFINE ids == {Campaign!TaskIdFor(i) : i \in Campaign!ToSet(pass[p].snap.ordered)}
  <2>1. PICK a \in {Campaign!Unavailable}
               \union (IF pass[p].provider = "fixture"
                       THEN {[status |-> "ok", value |-> t] : t \in {Campaign!TaskIdFor(i) : i \in Cards} \union {<<Campaign!Stranger>>}}
                       ELSE {Campaign!ProposeTaskSelection(ids, b) :
                               b \in [choice : {Campaign!TaskIdFor(i) : i \in Cards}, confidence : {MaxConfidence, MaxConfidence + 1}]}) :
             pass' = [pass EXCEPT ![p].answered = a, ![p].pc = "plan"]
    BY DEF Campaign!Consult
  <2>2. Answers(Campaign!Unavailable)
    BY DEF Answers, Campaign!Unavailable
  <2>3. \A t : Answers([status |-> "ok", value |-> t])
    BY DEF Answers
  <2>4. \A b : Answers(Campaign!ProposeTaskSelection(ids, b))
    BY <2>2, <2>3 DEF Campaign!ProposeTaskSelection, Campaign!ProposeAmong
  <2>5. Answers(a)
    <3> HIDE DEF ids
    <3>1. CASE pass[p].provider = "fixture"
      BY <2>1, <2>2, <2>3, <3>1
    <3>2. CASE pass[p].provider # "fixture"
      BY <2>1, <2>2, <2>4, <3>2
    <3> QED
      BY <3>1, <3>2
  <2> QED
    BY <2>1, <2>5 DEF CampaignInv, PassesOk
<1>2. PICK y : y = [[pass[p] EXCEPT !.answered = a] EXCEPT !.pc = "plan"]
  OBVIOUS
<1>3. PassRecord(y) /\ y.pc = "plan" /\ y.answered = a
  <2>1. PICK x : x = pass[p]
    OBVIOUS
  <2>2. PassRecord(x) /\ y = [[x EXCEPT !.answered = a] EXCEPT !.pc = "plan"]
    BY <2>1, <1>2 DEF CampaignInv, PassesOk
  <2>3. y = [pc |-> "plan", snap |-> x.snap, provider |-> x.provider, answered |-> a]
    BY <2>2 DEF PassRecord
  <2> QED
    BY <2>2, <2>3 DEF PassRecord
<1>4. ~Planned(p)
  BY <1>0 DEF Planned
<1> QED
  BY <1>0, <1>1, <1>2, <1>3, <1>4, PassGoesOn

LEMMA PlanStep ==
  ASSUME CampaignInv, NEW p \in Passes, Campaign!Plan(p)
  PROVE  CampaignInv'
<1> USE DEF CampaignInv
<1>0. pass[p].pc = "plan" /\ ~Planned(p) /\ UNCHANGED <<campaignBoard, workers>>
  BY DEF Campaign!Plan, Planned
<1>1. PICK x : x = pass[p]
  OBVIOUS
<1>2. PassRecord(x) /\ Answers(x.answered)
  BY <1>1 DEF PassesOk
<1>3. CASE pass' = [pass EXCEPT ![p].pc = "failed"] /\ UNCHANGED campaignRows
  <2>1. PICK y : y = [x EXCEPT !.pc = "failed"]
    OBVIOUS
  <2>2. pass' = [pass EXCEPT ![p] = y]
    BY <1>1, <1>3, <2>1 DEF PassesOk
  <2>3. y = [pc |-> "failed", snap |-> x.snap, provider |-> x.provider, answered |-> x.answered]
    BY <1>2, <2>1 DEF PassRecord
  <2>4. PassRecord(y) /\ Answers(y.answered) /\ y.pc = "failed"
    BY <1>2, <2>3 DEF PassRecord
  <2> QED
    BY <1>0, <1>3, <2>2, <2>4, PassGoesOn
<1>4. CASE /\ campaignRows' = Append(campaignRows, Campaign!CampaignDecision(p, pass[p].snap, pass[p].answered))
           /\ pass' = [pass EXCEPT ![p].pc = IF pass[p].snap.ordered = <<>> THEN "done" ELSE "spawn"]
  <2>1. PICK pc \in {"done", "spawn"} : pc = IF pass[p].snap.ordered = <<>> THEN "done" ELSE "spawn"
    OBVIOUS
  <2>2. PICK y : y = [x EXCEPT !.pc = pc]
    OBVIOUS
  <2>3. y = [pc |-> pc, snap |-> x.snap, provider |-> x.provider, answered |-> x.answered]
    BY <1>2, <2>2 DEF PassRecord
  <2>4. PassRecord(y) /\ Answers(y.answered) /\ y.pc = pc /\ y.snap = x.snap /\ y.answered = x.answered
    BY <1>2, <2>3 DEF PassRecord
  <2>5. DOMAIN pass' = Passes /\ pass'[p] = y /\ \A q \in Passes : q # p => pass'[q] = pass[q]
    BY <1>1, <1>4, <2>1, <2>2 DEF PassesOk
  <2>6. PassesOk'
    BY <2>4, <2>5 DEF PassesOk
  <2>7. PICK d : d = Campaign!CampaignDecision(p, x.snap, x.answered)
    OBVIOUS
  <2>8. d \in DecisionRecords /\ d.pass = p
    <3>1. PICK view : view = x.snap
      OBVIOUS
    <3>2. view.ordered \in Seq(Cards) /\ d = Campaign!CampaignDecision(p, view, x.answered)
      BY <1>2, <2>7, <3>1 DEF PassRecord
    <3> QED
      BY <3>2, DecisionIsSound
  <2>9. campaignRows' = Append(campaignRows, d) /\ campaignRows \in Seq(DecisionRecords)
    BY <1>1, <1>4, <2>7 DEF RowsOk
  <2>10. PICK L \in Nat : L = Len(campaignRows)
    BY <2>9
  <2>11. /\ campaignRows' \in Seq(DecisionRecords) /\ Len(campaignRows') = L + 1
         /\ DOMAIN campaignRows = 1 .. L /\ DOMAIN campaignRows' = 1 .. L + 1
         /\ campaignRows'[L + 1] = d /\ \A n \in 1 .. L : campaignRows'[n] = campaignRows[n]
    BY <2>8, <2>9, <2>10
  <2>12. \A n \in 1 .. L : campaignRows[n].pass \in Passes /\ campaignRows[n].pass # p
    BY <2>11, <1>0 DEF RowsOk, RowIsDecision
  <2>13. RowsOk'
    <3>1. ASSUME NEW n \in 1 .. L + 1 PROVE RowIsDecision(campaignRows[n])'
      <4>1. CASE n = L + 1
        <5>1. pass'[p].snap = x.snap /\ pass'[p].answered = x.answered /\ pass'[p].pc \in {"done", "spawn"}
          BY <2>4, <2>5
        <5> QED
          BY <4>1, <5>1, <2>7, <2>8, <2>11 DEF RowIsDecision, Planned
      <4>2. CASE n # L + 1
        <5>1. n \in 1 .. L
          BY <4>2
        <5>2. RowIsDecision(campaignRows[n])
          BY <5>1, <2>11 DEF RowsOk
        <5>3. campaignRows'[n] = campaignRows[n] /\ pass'[campaignRows[n].pass] = pass[campaignRows[n].pass]
          BY <5>1, <2>5, <2>11, <2>12
        <5> QED
          BY <5>2, <5>3 DEF RowIsDecision, Planned
      <4> QED
        BY <4>1, <4>2
    <3>2. ASSUME NEW m \in 1 .. L + 1, NEW n \in 1 .. L + 1, campaignRows'[m].pass = campaignRows'[n].pass PROVE m = n
      <4>1. CASE m = L + 1 /\ n # L + 1
        <5>1. n \in 1 .. L
          BY <4>1
        <5> QED
          BY <4>1, <5>1, <3>2, <2>8, <2>11, <2>12
      <4>2. CASE n = L + 1 /\ m # L + 1
        <5>1. m \in 1 .. L
          BY <4>2
        <5> QED
          BY <4>2, <5>1, <3>2, <2>8, <2>11, <2>12
      <4>3. CASE m # L + 1 /\ n # L + 1
        <5>1. m \in 1 .. L /\ n \in 1 .. L
          BY <4>3
        <5> QED
          BY <5>1, <3>2, <2>11 DEF RowsOk
      <4> QED
        BY <4>1, <4>2, <4>3
    <3>3. ASSUME NEW q \in Passes, pass'[q].pc = "spawn" PROVE \E n \in 1 .. L + 1 : campaignRows'[n].pass = q
      <4>1. CASE q = p
        <5>1. L + 1 \in 1 .. L + 1
          OBVIOUS
        <5> QED
          BY <4>1, <5>1, <2>8, <2>11
      <4>2. CASE q # p
        <5>1. pass[q].pc = "spawn"
          BY <4>2, <3>3, <2>5
        <5>2. PICK n \in 1 .. L : campaignRows[n].pass = q
          BY <5>1, <2>11 DEF RowsOk
        <5>3. n \in 1 .. L + 1
          OBVIOUS
        <5> QED
          BY <5>2, <5>3, <2>11
      <4> QED
        BY <4>1, <4>2
    <3> QED
      BY <3>1, <3>2, <3>3, <2>11 DEF RowsOk
  <2>14. WorkersOk'
    <3>1. ASSUME NEW w \in workers PROVE WorkerHasRow(w)'
      <4>1. WorkerHasRow(w)
        BY DEF WorkersOk
      <4>2. w.pass # p /\ pass'[w.pass] = pass[w.pass]
        BY <4>1, <1>0, <2>5 DEF WorkerHasRow
      <4>3. PICK r \in 1 .. w.at : campaignRows[r].pass = w.pass /\ campaignRows[r].selected = w.item
        BY <4>1 DEF WorkerHasRow
      <4>4. w.at \in Nat /\ w.at <= L
        BY <4>1, <2>10 DEF WorkerHasRow
      <4>5. r \in 1 .. L /\ w.at <= L + 1
        BY <4>4
      <4> QED
        BY <4>1, <4>2, <4>3, <4>4, <4>5, <2>11 DEF WorkerHasRow
    <3> QED
      BY <3>1, <1>0 DEF WorkersOk
  <2> QED
    BY <1>0, <2>6, <2>13, <2>14
<1> QED
  BY <1>3, <1>4 DEF Campaign!Plan

LEMMA SpawnWorkerStep ==
  ASSUME CampaignInv, NEW p \in Passes, Campaign!SpawnWorker(p)
  PROVE  CampaignInv'
<1> USE DEF CampaignInv
<1>0. pass[p].pc = "spawn" /\ UNCHANGED <<campaignBoard, campaignRows>>
  BY DEF Campaign!SpawnWorker
<1>1. PICK x : x = pass[p]
  OBVIOUS
<1>2. PassRecord(x) /\ Answers(x.answered)
  BY <1>1 DEF PassesOk
<1>3. PICK pc \in {"failed", "done"} :
        /\ pass' = [pass EXCEPT ![p].pc = pc]
        /\ pc = "failed" => UNCHANGED workers
        /\ pc = "done" =>
             workers' = workers \union
               {[pass |-> p, item |-> campaignRows[CHOOSE r \in DOMAIN campaignRows : campaignRows[r].pass = p].selected,
                 at |-> Len(campaignRows)]}
  BY DEF Campaign!SpawnWorker
<1>4. PICK y : y = [x EXCEPT !.pc = pc]
  OBVIOUS
<1>5. y = [pc |-> pc, snap |-> x.snap, provider |-> x.provider, answered |-> x.answered]
  BY <1>2, <1>4 DEF PassRecord
<1>6. PassRecord(y) /\ Answers(y.answered) /\ y.pc = pc /\ y.snap = x.snap /\ y.answered = x.answered
  BY <1>2, <1>5 DEF PassRecord
<1>7. pass' = [pass EXCEPT ![p] = y]
  BY <1>1, <1>3, <1>4 DEF PassesOk
<1>8. CASE pc = "failed"
  BY <1>0, <1>1, <1>3, <1>6, <1>7, <1>8, PassGoesOn
<1>9. CASE pc = "done"
  <2>1. DOMAIN pass' = Passes /\ pass'[p] = y /\ \A q \in Passes : q # p => pass'[q] = pass[q]
    BY <1>7 DEF PassesOk
  <2>2. PassesOk'
    BY <1>6, <2>1 DEF PassesOk
  <2>3. RowsOk'
    <3>1. ASSUME NEW d, RowIsDecision(d) PROVE RowIsDecision(d)'
      <4>1. CASE d.pass = p
        BY <4>1, <3>1, <1>1, <1>6, <2>1 DEF RowIsDecision, Planned
      <4>2. CASE d.pass # p
        BY <4>2, <3>1, <2>1 DEF RowIsDecision, Planned
      <4> QED
        BY <4>1, <4>2
    <3>2. \A n \in DOMAIN campaignRows' : RowIsDecision(campaignRows[n])'
      BY <3>1, <1>0 DEF RowsOk
    <3>3. \A q \in Passes : pass'[q].pc = "spawn" => pass[q].pc = "spawn"
      BY <1>0, <2>1
    <3> QED
      BY <3>2, <3>3, <1>0 DEF RowsOk
  <2>4. PICK r : r = CHOOSE n \in DOMAIN campaignRows : campaignRows[n].pass = p
    OBVIOUS
  <2>5. r \in DOMAIN campaignRows /\ campaignRows[r].pass = p
    BY <1>0, <2>4 DEF RowsOk
  <2>6. PICK v : v = [pass |-> p, item |-> campaignRows[r].selected, at |-> Len(campaignRows)]
    OBVIOUS
  <2>7. v.pass = p /\ v.item = campaignRows[r].selected /\ v.at = Len(campaignRows) /\ v.at \in Nat /\ r \in 1 .. v.at
    BY <2>5, <2>6 DEF RowsOk
  <2>8. workers' = workers \cup {v}
    BY <1>3, <1>9, <2>4, <2>6
  <2>9. WorkerHasRow(v)'
    BY <2>1, <2>5, <2>7, <1>0, <1>6, <1>9 DEF WorkerHasRow
  <2>10. \A w \in workers : w.pass # p
    BY <1>0 DEF WorkersOk, WorkerHasRow
  <2>11. ASSUME NEW w \in workers PROVE WorkerHasRow(w)'
    <3>1. WorkerHasRow(w)
      BY DEF WorkersOk
    <3>2. pass'[w.pass] = pass[w.pass]
      BY <3>1, <2>1, <2>10 DEF WorkerHasRow
    <3> QED
      BY <3>1, <3>2, <1>0 DEF WorkerHasRow
  <2>12. WorkersOk'
    BY <2>7, <2>8, <2>9, <2>10, <2>11 DEF WorkersOk
  <2> QED
    BY <1>0, <2>2, <2>3, <2>12
<1> QED
  BY <1>8, <1>9

LEMMA CampaignStep ==
  ASSUME CampaignInv, [Campaign!CampaignNext]_Campaign!campaignVars
  PROVE  CampaignInv'
<1>1. CASE UNCHANGED Campaign!campaignVars
  BY <1>1 DEF Campaign!campaignVars, CampaignInv, PassesOk, RowsOk, WorkersOk, RowIsDecision, Planned, WorkerHasRow
<1>2. CASE Campaign!BoardMoves
  <2>1. PICK i \in Cards, f \in FactSet : campaignBoard' = [campaignBoard EXCEPT ![i] = f]
    BY <1>2 DEF Campaign!BoardMoves
  <2>2. UNCHANGED <<pass, campaignRows, workers>>
    BY <1>2 DEF Campaign!BoardMoves
  <2>3. campaignBoard' \in [Cards -> FactSet]
    BY <2>1 DEF CampaignInv
  <2> QED
    BY <2>2, <2>3 DEF CampaignInv, PassesOk, RowsOk, WorkersOk, RowIsDecision, Planned, WorkerHasRow
<1>3. CASE \E p \in Passes : Campaign!TakeSnapshot(p) \/ Campaign!Consult(p) \/ Campaign!Plan(p) \/ Campaign!SpawnWorker(p)
  BY <1>3, TakeSnapshotStep, ConsultStep, PlanStep, SpawnWorkerStep
<1> QED
  BY <1>1, <1>2, <1>3 DEF Campaign!CampaignNext

-----------------------------------------------------------------------------
(***************************************************************************)
(* The layered configuration.                                              *)
(***************************************************************************)

Documents == [Keys -> Values \cup {Config!Unset, "0", "1"}]
Inputs == [layer : Nat, name : Nat, doc : Documents]
Rising(ins) == \A m, n \in DOMAIN ins : m < n => ins[m].layer <= ins[n].layer

LEMMA ConfigCounts == \A S : Config!Cardinality(S) = Cardinality(S)
BY DEF Config!Cardinality, Cardinality

(* The files have an order to be loaded in, and it rises with the layers.  *)
LEMMA LoadOrderRises ==
  /\ Config!LoadOrder \in [1 .. Cardinality(Sources) -> Sources]
  /\ \A m, n \in 1 .. Cardinality(Sources) : m < n => Config!LoadOrder[m].layer <= Config!LoadOrder[n].layer
<1> DEFINE R == {ab \in Sources \X Sources : Config!Earlier(ab[1], ab[2])}
<1>0. IsFiniteSet(Sources) /\ Sources \subseteq [layer : Nat, name : Nat]
  BY ServicesAssumption DEF ServicesAssumption
<1>1. \A a, b \in Sources : <<a, b>> \in R <=> Config!Earlier(a, b)
  OBVIOUS
<1>2. \A a \in Sources : a.layer \in Nat /\ a.name \in Nat
  BY <1>0
<1>3. \A a, b \in Sources : a.layer = b.layer /\ a.name = b.name => a = b
  BY <1>0
<1>4. Orders(R, Sources)
  <2>1. ASSUME NEW a \in Sources PROVE ~Config!Earlier(a, a)
    BY <1>2 DEF Config!Earlier
  <2>2. ASSUME NEW a \in Sources, NEW b \in Sources, a # b PROVE Config!Earlier(a, b) \/ Config!Earlier(b, a)
    BY <1>2, <1>3, <2>2 DEF Config!Earlier
  <2>3. ASSUME NEW a \in Sources, NEW b \in Sources, NEW c \in Sources, Config!Earlier(a, b), Config!Earlier(b, c)
        PROVE Config!Earlier(a, c)
    BY <1>2, <2>3 DEF Config!Earlier
  <2> HIDE DEF R
  <2> QED
    BY <1>1, <2>1, <2>2, <2>3 DEF Orders
<1>5. PICK q \in [1 .. Cardinality(Sources) -> Sources] : Lists(q, R)
  <2> HIDE DEF R
  <2> QED
    BY <1>0, <1>4, ListExists
<1>6. \A m, n \in DOMAIN q : m < n => Config!Earlier(q[m], q[n])
  BY <1>5 DEF Lists
<1>7. /\ Config!LoadOrder \in [1 .. Cardinality(Sources) -> Sources]
      /\ \A m, n \in DOMAIN Config!LoadOrder : m < n => Config!Earlier(Config!LoadOrder[m], Config!LoadOrder[n])
  BY <1>6, ConfigCounts DEF Config!LoadOrder
<1>8. PICK o : o = Config!LoadOrder
  OBVIOUS
<1>9. /\ o \in [1 .. Cardinality(Sources) -> Sources]
      /\ \A m, n \in 1 .. Cardinality(Sources) : m < n => Config!Earlier(o[m], o[n])
  BY <1>7, <1>8
<1>10. \A m, n \in 1 .. Cardinality(Sources) : m < n => o[m].layer <= o[n].layer
  BY <1>2, <1>9 DEF Config!Earlier
<1> QED
  BY <1>7, <1>8, <1>10

(* A rising order of 1 .. L is the order it has.                           *)
LEMMA RisingIsIdentity ==
  ASSUME NEW L \in Nat, NEW p \in [1 .. L -> 1 .. L], \A m, n \in 1 .. L : m < n => p[m] < p[n]
  PROVE  \A n \in 1 .. L : p[n] = n
<1> DEFINE Up == {n \in Nat : n + 1 <= L => p[n + 1] >= n + 1}
           Down == {n \in Nat : n + 1 <= L => p[L - n] <= L - n}
<1>1. Up = Nat
  <2>1. 0 \in Up
    <3>1. 1 <= L => 1 \in 1 .. L /\ p[1] \in 1 .. L
      OBVIOUS
    <3> QED
      BY <3>1
  <2>2. ASSUME NEW n \in Up PROVE n + 1 \in Up
    <3>1. SUFFICES ASSUME n + 2 <= L PROVE p[n + 2] >= n + 2
      OBVIOUS
    <3>2. n + 1 \in 1 .. L /\ n + 2 \in 1 .. L /\ n + 1 < n + 2 /\ p[n + 1] >= n + 1
      BY <3>1
    <3>3. p[n + 1] < p[n + 2] /\ p[n + 1] \in 1 .. L /\ p[n + 2] \in 1 .. L
      BY <3>2
    <3>4. PICK a \in Int, b \in Int : a = p[n + 1] /\ b = p[n + 2]
      BY <3>3
    <3> QED
      BY <3>2, <3>3, <3>4
  <2> HIDE DEF Up
  <2>3. Up \in SUBSET Nat
    BY DEF Up
  <2> QED
    BY <2>1, <2>2, <2>3, NatSetInduction
<1>2. Down = Nat
  <2>1. 0 \in Down
    <3>1. 1 <= L => L \in 1 .. L /\ p[L] \in 1 .. L /\ L - 0 = L
      OBVIOUS
    <3> QED
      BY <3>1
  <2>2. ASSUME NEW n \in Down PROVE n + 1 \in Down
    <3>1. SUFFICES ASSUME n + 2 <= L PROVE p[L - (n + 1)] <= L - (n + 1)
      OBVIOUS
    <3>2. PICK i \in 1 .. L, j \in 1 .. L : i = L - (n + 1) /\ j = L - n
      BY <3>1
    <3>3. i < j /\ p[j] <= j /\ p[i] \in 1 .. L /\ p[j] \in 1 .. L /\ i = j - 1
      BY <3>1, <3>2
    <3>4. p[i] < p[j]
      BY <3>3
    <3>5. p[i] <= i
      BY <3>3, <3>4
    <3> QED
      BY <3>2, <3>5
  <2> HIDE DEF Down
  <2>3. Down \in SUBSET Nat
    BY DEF Down
  <2> QED
    BY <2>1, <2>2, <2>3, NatSetInduction
<1>3. ASSUME NEW n \in 1 .. L PROVE p[n] = n
  <2>1. n - 1 \in Nat /\ (n - 1) + 1 = n /\ L - n \in Nat /\ L - (L - n) = n /\ (L - n) + 1 <= L /\ n <= L
    OBVIOUS
  <2>2. p[n] >= n
    BY <2>1, <1>1
  <2>3. p[n] <= n
    BY <2>1, <1>2
  <2>4. p[n] \in 1 .. L
    OBVIOUS
  <2> QED
    BY <2>2, <2>3, <2>4
<1> QED
  BY <1>3

(* So the sort of resolve_config leaves what was loaded as it is.          *)
LEMMA SortedAlready ==
  ASSUME NEW ins \in Seq(Inputs), Rising(ins)
  PROVE  Config!ByLayer(ins) = ins
<1>1. PICK L \in Nat : L = Len(ins)
  OBVIOUS
<1>2. DOMAIN ins = 1 .. L /\ \A n \in 1 .. L : ins[n] \in Inputs
  BY <1>1
<1>3. \A n \in 1 .. L : ins[n].layer \in Nat
  BY <1>2 DEF Inputs
<1>4. PICK d : d = [n \in 1 .. L |-> n]
  OBVIOUS
<1>5. d \in [1 .. L -> 1 .. L] /\ \A n \in 1 .. L : d[n] = n
  BY <1>4
<1>6. Config!Sorts(d, ins)
  <2>1. ASSUME NEW m \in 1 .. L, NEW n \in 1 .. L, m < n
        PROVE ins[m].layer < ins[n].layer \/ (ins[m].layer = ins[n].layer /\ m < n)
    <3>1. ins[m].layer <= ins[n].layer
      BY <2>1, <1>2 DEF Rising
    <3> QED
      BY <3>1, <2>1, <1>3
  <2> QED
    BY <2>1, <1>2, <1>5 DEF Config!Sorts
<1>7. PICK p : p = CHOOSE x \in [DOMAIN ins -> DOMAIN ins] : Config!Sorts(x, ins)
  OBVIOUS
<1>8. p \in [1 .. L -> 1 .. L] /\ Config!Sorts(p, ins)
  BY <1>2, <1>5, <1>6, <1>7
<1>9. ASSUME NEW m \in 1 .. L, NEW n \in 1 .. L, m < n PROVE p[m] < p[n]
  <2>1. PICK a \in 1 .. L, b \in 1 .. L : a = p[m] /\ b = p[n]
    BY <1>8
  <2>2. ins[a].layer < ins[b].layer \/ (ins[a].layer = ins[b].layer /\ a < b)
    BY <1>2, <1>8, <1>9, <2>1 DEF Config!Sorts
  <2>3. b < a => ins[b].layer <= ins[a].layer
    BY <1>2 DEF Rising
  <2>4. a < b
    BY <2>2, <2>3, <1>3
  <2> QED
    BY <2>1, <2>4
<1>10. \A n \in 1 .. L : p[n] = n
  BY <1>8, <1>9, RisingIsIdentity
<1>11. [n \in DOMAIN ins |-> ins[p[n]]] = [n \in DOMAIN ins |-> ins[n]]
  BY <1>2, <1>10
<1>12. ins = [n \in DOMAIN ins |-> ins[n]]
  OBVIOUS
<1> QED
  BY <1>7, <1>11, <1>12 DEF Config!ByLayer

(* The merge of the inputs, from the first to the last.                    *)
Merging(g, ins) ==
  g = [s \in SUBSET DOMAIN ins |->
         IF s = {} THEN Config!EmptyDoc
         ELSE Config!MergeDoc(g[s \ {Config!Max(s)}], ins[Config!Max(s)].doc)]

LEMMA ResolveMerges ==
  ASSUME NEW ins \in Seq(Inputs), Rising(ins)
  PROVE  Config!ResolveConfig(ins) = (CHOOSE g : Merging(g, ins))[DOMAIN ins]
<1>1. Config!ByLayer(ins) = ins
  BY SortedAlready
<1> QED
  BY <1>1 DEF Config!ResolveConfig, Config!FoldLeft, Config!MapThenFoldSet, Merging

LEMMA GreatestExists ==
  ASSUME NEW L \in Nat, NEW I \in SUBSET (1 .. L), I # {}
  PROVE  /\ Config!Max(I) \in I /\ \A k \in I : k <= Config!Max(I)
         /\ \A m \in I : (\A k \in I : k <= m) => Config!Max(I) = m
<1> DEFINE R == {mn \in (1 .. L) \X (1 .. L) : mn[1] < mn[2]}
<1>1. \A m, n \in 1 .. L : <<m, n>> \in R <=> m < n
  OBVIOUS
<1>2. Orders(R, 1 .. L)
  <2> HIDE DEF R
  <2> QED
    BY <1>1 DEF Orders
<1>3. IsFiniteSet(1 .. L)
  BY FS_Interval
<1>4. PICK z \in I : \A x \in I \ {z} : <<x, z>> \in R
  <2>1. \A s \in SUBSET (1 .. L) : s # {} => \E z \in s : \A x \in s \ {z} : <<x, z>> \in R
    <3> HIDE DEF R
    <3> QED
      BY <1>2, <1>3, LastExists
  <2> QED
    BY <2>1
<1>5. \A k \in I : z >= k
  <2>1. \A k \in I \ {z} : k < z
    BY <1>4
  <2> QED
    BY <2>1
<1>6. Config!Max(I) \in I /\ \A k \in I : Config!Max(I) >= k
  BY <1>5 DEF Config!Max
<1>7. PICK top \in I : top = Config!Max(I)
  BY <1>6
<1>8. \A k \in I : k <= top
  BY <1>6, <1>7
<1>9. ASSUME NEW m \in I, \A k \in I : k <= m PROVE top = m
  BY <1>8, <1>9
<1> QED
  BY <1>7, <1>8, <1>9

LEMMA MergingExists ==
  ASSUME NEW ins \in Seq(Inputs)
  PROVE  \E g : Merging(g, ins)
<1>1. PICK D : D = DOMAIN ins
  OBVIOUS
<1>2. Len(ins) \in Nat /\ D = 1 .. Len(ins)
  BY <1>1
<1>3. IsFiniteSet(D)
  BY <1>2, FS_Interval
<1>4. \A n \in D : ins[n].doc \in Documents
  <2>1. \A n \in D : ins[n] \in Inputs
    BY <1>2
  <2> QED
    BY <2>1 DEF Inputs
<1>5. PICK F : F = [n \in D |-> [d \in Documents |-> Config!MergeDoc(d, ins[n].doc)]]
  OBVIOUS
<1>6. PICK c : c = [s \in SUBSET D |-> Config!Max(s)]
  OBVIOUS
<1>7. \A d, e \in Documents : Config!MergeDoc(d, e) \in Documents
  BY DEF Documents, Config!MergeDoc, Config!MergeScalar
<1>8. F \in [D -> [Documents -> Documents]]
  BY <1>4, <1>5, <1>7
<1>9. \A s \in SUBSET D : s # {} => c[s] = Config!Max(s) /\ Config!Max(s) \in s
  BY <1>2, <1>6, GreatestExists
<1>10. Choosing(c, D)
  BY <1>9 DEF Choosing
<1>11. Config!EmptyDoc \in Documents
  BY DEF Config!EmptyDoc, Documents
<1>12. PICK g \in [SUBSET D -> Documents] : Folding(g, D, Config!EmptyDoc, F, c)
  BY <1>3, <1>8, <1>10, <1>11, FoldExists
<1>13. ASSUME NEW s \in SUBSET D
       PROVE FoldStep(g, s, Config!EmptyDoc, F, c) =
               IF s = {} THEN Config!EmptyDoc ELSE Config!MergeDoc(g[s \ {Config!Max(s)}], ins[Config!Max(s)].doc)
  <2>1. CASE s = {}
    BY <2>1 DEF FoldStep
  <2>2. CASE s # {}
    <3>1. PICK n \in D : n = Config!Max(s) /\ n = c[s]
      BY <2>2, <1>9
    <3>2. g[s \ {n}] \in Documents
      OBVIOUS
    <3>3. F[n][g[s \ {n}]] = Config!MergeDoc(g[s \ {n}], ins[n].doc)
      BY <1>5, <3>2
    <3> QED
      BY <2>2, <3>1, <3>3 DEF FoldStep
  <2> QED
    BY <2>1, <2>2
<1>14. [s \in SUBSET D |-> FoldStep(g, s, Config!EmptyDoc, F, c)] =
       [s \in SUBSET D |->
          IF s = {} THEN Config!EmptyDoc ELSE Config!MergeDoc(g[s \ {Config!Max(s)}], ins[Config!Max(s)].doc)]
  BY <1>13
<1>15. Merging(g, ins)
  BY <1>1, <1>12, <1>14 DEF Folding, Merging
<1> QED
  BY <1>15

(* For a key the merges handle, a value stays until the next input that    *)
(* has one.                                                                *)
Handled == Keys \ (Config!LeftOut \union Config!Unknown)
Lasting(g, ins, n, k) ==
  /\ (\A m \in 1 .. n : ins[m].doc[k] = Config!Unset) => g[1 .. n][k] = Config!Unset
  /\ \A m \in 1 .. n :
       ins[m].doc[k] # Config!Unset /\ (\A q \in m + 1 .. n : ins[q].doc[k] = Config!Unset) =>
         g[1 .. n][k] = ins[m].doc[k]

LEMMA MergeLasts ==
  ASSUME NEW ins \in Seq(Inputs), NEW g, Merging(g, ins), NEW k \in Handled
  PROVE  Lasting(g, ins, Len(ins), k)
<1>1. PICK L \in Nat : L = Len(ins)
  OBVIOUS
<1>2. DOMAIN ins = 1 .. L
  BY <1>1
<1> DEFINE N == {n \in Nat : n <= L => Lasting(g, ins, n, k)}
<1>3. 0 \in N
  <2>1. 1 .. 0 = {}
    OBVIOUS
  <2>2. {} \in SUBSET DOMAIN ins
    OBVIOUS
  <2>3. g[{}] = Config!EmptyDoc
    BY <2>2 DEF Merging
  <2>4. g[1 .. 0][k] = Config!Unset
    BY <2>1, <2>3 DEF Handled, Config!EmptyDoc
  <2> QED
    BY <2>1, <2>4 DEF Lasting
<1>4. ASSUME NEW n \in N PROVE n + 1 \in N
  <2>1. SUFFICES ASSUME n + 1 <= L PROVE Lasting(g, ins, n + 1, k)
    OBVIOUS
  <2>2. n \in Nat /\ Lasting(g, ins, n, k)
    BY <2>1
  <2>3. PICK s : s = 1 .. n + 1
    OBVIOUS
  <2>4. s \in SUBSET DOMAIN ins /\ s # {} /\ s \in SUBSET (1 .. L) /\ n + 1 \in s /\ \A j \in s : j <= n + 1
    <3>1. \A j \in s : j \in 1 .. L /\ j <= n + 1
      BY <2>1, <2>2, <2>3
    <3>2. n + 1 \in s
      BY <2>2, <2>3
    <3> QED
      BY <3>1, <3>2, <1>2
  <2>5. Config!Max(s) = n + 1
    BY <2>4, GreatestExists
  <2>6. s \ {n + 1} = 1 .. n
    BY <2>2, <2>3
  <2>7. g[s] = Config!MergeDoc(g[1 .. n], ins[n + 1].doc)
    BY <2>4, <2>5, <2>6 DEF Merging
  <2>8. g[1 .. n + 1][k] = IF ins[n + 1].doc[k] # Config!Unset THEN ins[n + 1].doc[k] ELSE g[1 .. n][k]
    BY <2>3, <2>7 DEF Handled, Config!MergeDoc, Config!MergeScalar, Config!LeftOut, Config!NeverTaken
  <2>9. (\A m \in 1 .. n + 1 : ins[m].doc[k] = Config!Unset) => g[1 .. n + 1][k] = Config!Unset
    <3>1. n + 1 \in 1 .. n + 1 /\ \A m \in 1 .. n : m \in 1 .. n + 1
      BY <2>2
    <3> QED
      BY <2>2, <2>8, <3>1 DEF Lasting
  <2>10. ASSUME NEW m \in 1 .. n + 1, ins[m].doc[k] # Config!Unset, \A q \in m + 1 .. n + 1 : ins[q].doc[k] = Config!Unset
         PROVE g[1 .. n + 1][k] = ins[m].doc[k]
    <3>1. CASE m = n + 1
      BY <2>8, <2>10, <3>1
    <3>2. CASE m # n + 1
      <4>1. m \in 1 .. n /\ n + 1 \in m + 1 .. n + 1 /\ \A q \in m + 1 .. n : q \in m + 1 .. n + 1
        BY <2>2, <3>2
      <4>2. ins[n + 1].doc[k] = Config!Unset /\ \A q \in m + 1 .. n : ins[q].doc[k] = Config!Unset
        BY <2>10, <4>1
      <4>3. g[1 .. n][k] = ins[m].doc[k]
        BY <2>2, <2>10, <4>1, <4>2 DEF Lasting
      <4> QED
        BY <2>8, <4>2, <4>3
    <3> QED
      BY <3>1, <3>2
  <2> QED
    BY <2>9, <2>10 DEF Lasting
<1>5. \A n \in Nat : n \in N
  <2>1. N \in SUBSET Nat
    OBVIOUS
  <2> HIDE DEF N
  <2> QED
    BY <1>3, <1>4, <2>1, NatSetInduction
<1> QED
  BY <1>1, <1>5

(* What an editor holds is a document, what the loader has read follows    *)
(* the load order, and what it made of it was made of all of it.           *)
EditOk(x) ==
  x = [pc |-> x.pc, source |-> x.source, doc |-> x.doc] /\ x.doc \in Documents
FilesOk ==
  /\ file \in [Sources -> Documents]
  /\ DOMAIN edit = Editors /\ \A e \in Editors : EditOk(edit[e])
InputsOk ==
  /\ inputs \in Seq(Inputs) /\ Len(inputs) <= Cardinality(Sources)
  /\ \A n \in 1 .. Len(inputs) : inputs[n].layer = Config!LoadOrder[n].layer
LoadedOk ==
  loaded.status = "loaded" =>
    /\ ~Config!Conflict(inputs) /\ loaded.effective = Config!ResolveConfig(inputs)
    /\ loaded.explained = [k \in Keys |-> Config!ResolveValue(inputs, k)]
ConfigInv == FilesOk /\ InputsOk /\ LoadedOk

LEMMA ResolvedAlike ==
  ASSUME NEW ins \in Seq(Inputs), Rising(ins), ~Config!Conflict(ins), NEW k \in Keys
  PROVE  /\ k \in Handled => Config!ResolveConfig(ins)[k] = Config!ResolveValue(ins, k)
         /\ Config!Having(ins, k) = {} => Config!ResolveValue(ins, k) = Config!Unset
         /\ Config!Having(ins, k) # {} =>
              \E n \in Config!Having(ins, k) :
                /\ ins[n].doc[k] = Config!ResolveValue(ins, k)
                /\ \A m \in Config!Having(ins, k) : ins[m].layer <= ins[n].layer
<1>1. PICK L \in Nat : L = Len(ins)
  OBVIOUS
<1>2. DOMAIN ins = 1 .. L /\ \A n \in 1 .. L : ins[n] \in Inputs
  BY <1>1
<1>3. \A n \in 1 .. L : ins[n].layer \in Nat
  BY <1>2 DEF Inputs
<1>4. PICK g : g = CHOOSE x : Merging(x, ins)
  OBVIOUS
<1>5. Merging(g, ins)
  BY <1>4, MergingExists
<1>6. Config!ResolveConfig(ins) = g[1 .. L]
  BY <1>2, <1>4, ResolveMerges
<1>7. k \in Handled => Lasting(g, ins, L, k)
  BY <1>1, <1>5, MergeLasts
<1>8. PICK H : H = Config!Having(ins, k)
  OBVIOUS
<1>9. H \in SUBSET (1 .. L) /\ \A n \in 1 .. L : n \in H <=> ins[n].doc[k] # Config!Unset
  BY <1>2, <1>8 DEF Config!Having
<1>10. CASE H = {}
  <2>1. k \in Handled => g[1 .. L][k] = Config!Unset
    BY <1>7, <1>9, <1>10 DEF Lasting
  <2>2. Config!ResolveValue(ins, k) = Config!Unset
    BY <1>8, <1>10 DEF Config!ResolveValue
  <2> QED
    BY <1>6, <1>8, <1>10, <2>1, <2>2
<1>11. CASE H # {}
  <2>1. PICK z \in H : \A m \in H : m <= z
    BY <1>9, <1>11, GreatestExists
  <2>2. z \in 1 .. L /\ ins[z].doc[k] # Config!Unset
    BY <1>9
  <2>3. \A q \in z + 1 .. L : ins[q].doc[k] = Config!Unset
    <3>1. \A q \in z + 1 .. L : q \in 1 .. L /\ ~(q <= z)
      BY <2>2
    <3> QED
      BY <3>1, <2>1, <1>9
  <2>4. k \in Handled => g[1 .. L][k] = ins[z].doc[k]
    BY <1>7, <2>2, <2>3 DEF Lasting
  <2>5. \A m \in H : m # z => ins[m].layer < ins[z].layer
    <3>1. SUFFICES ASSUME NEW m \in H, m # z PROVE ins[m].layer < ins[z].layer
      OBVIOUS
    <3>2. m \in 1 .. L /\ m < z /\ ins[m].doc[k] # Config!Unset
      BY <2>1, <2>2, <1>9, <3>1
    <3>3. ins[m].layer <= ins[z].layer
      BY <3>2, <2>2, <1>2 DEF Rising
    <3>4. ins[m].layer # ins[z].layer
      BY <3>2, <2>2, <1>2 DEF Config!Conflict
    <3> QED
      BY <3>2, <3>3, <3>4, <2>2, <1>3
  <2>6. PICK n : n = CHOOSE x \in H : \A m \in H : ins[m].layer < ins[x].layer \/ m = x
    OBVIOUS
  <2>7. n \in H /\ \A m \in H : ins[m].layer < ins[n].layer \/ m = n
    BY <2>5, <2>6
  <2>8. n = z
    <3>1. SUFFICES ASSUME n # z PROVE FALSE
      OBVIOUS
    <3>2. ins[n].layer < ins[z].layer /\ ins[z].layer < ins[n].layer
      BY <2>5, <2>7, <3>1
    <3>3. ins[n].layer \in Nat /\ ins[z].layer \in Nat
      BY <1>3, <1>9, <2>7
    <3> QED
      BY <3>2, <3>3
  <2>9. Config!ResolveValue(ins, k) = ins[z].doc[k]
    BY <1>8, <1>11, <2>6, <2>8 DEF Config!ResolveValue
  <2>10. \A m \in H : ins[m].layer <= ins[z].layer
    <3>1. \A m \in H : ins[m].layer \in Nat
      BY <1>3, <1>9
    <3> QED
      BY <3>1, <2>5
  <2> QED
    BY <1>6, <1>8, <1>11, <2>4, <2>9, <2>10
<1> QED
  BY <1>10, <1>11

LEMMA ConfigHolds ==
  ASSUME ConfigInv
  PROVE  Config!LayersResolve
<1>1. SUFFICES ASSUME loaded.status = "loaded" PROVE Config!LayersResolve
  BY DEF Config!LayersResolve
<1>2. PICK ins : ins = inputs
  OBVIOUS
<1>3. ins \in Seq(Inputs) /\ ~Config!Conflict(ins)
  BY <1>1, <1>2 DEF ConfigInv, InputsOk, LoadedOk
<1>4. DOMAIN ins = 1 .. Len(ins) /\ Len(ins) \in Nat
  BY <1>3
<1>5. Rising(ins)
  <2>1. SUFFICES ASSUME NEW m \in 1 .. Len(ins), NEW n \in 1 .. Len(ins), m < n PROVE ins[m].layer <= ins[n].layer
    BY <1>4 DEF Rising
  <2>2. ins[m].layer = Config!LoadOrder[m].layer /\ ins[n].layer = Config!LoadOrder[n].layer
    BY <1>2 DEF ConfigInv, InputsOk
  <2>3. Len(ins) <= Cardinality(Sources) /\ Cardinality(Sources) \in Nat
    BY <1>2, ServicesAssumption, FS_CardinalityType DEF ConfigInv, InputsOk, ServicesAssumption
  <2>4. m \in 1 .. Cardinality(Sources) /\ n \in 1 .. Cardinality(Sources)
    BY <1>4, <2>3
  <2> QED
    BY <2>1, <2>2, <2>4, LoadOrderRises
<1>6. ASSUME NEW k \in Keys
      PROVE  /\ Config!Highest(k, loaded.explained[k])
             /\ k \in Handled => loaded.effective[k] = loaded.explained[k]
  <2>1. loaded.effective[k] = Config!ResolveConfig(ins)[k] /\ loaded.explained[k] = Config!ResolveValue(ins, k)
    BY <1>1, <1>2 DEF ConfigInv, LoadedOk
  <2>2. PICK v : v = Config!ResolveValue(ins, k)
    OBVIOUS
  <2>3. /\ k \in Handled => Config!ResolveConfig(ins)[k] = v
        /\ Config!Having(ins, k) = {} => v = Config!Unset
        /\ Config!Having(ins, k) # {} =>
             \E n \in Config!Having(ins, k) :
               ins[n].doc[k] = v /\ \A m \in Config!Having(ins, k) : ins[m].layer <= ins[n].layer
    BY <1>3, <1>5, <2>2, ResolvedAlike
  <2>4. Config!Highest(k, v)
    BY <1>2, <2>3 DEF Config!Highest
  <2> QED
    BY <2>1, <2>2, <2>3, <2>4
<1>7. ASSUME NEW m \in 1 .. Len(ins), NEW n \in 1 .. Len(ins), NEW k \in Keys, m # n, ins[m].layer = ins[n].layer
      PROVE Config!Unset \in {ins[m].doc[k], ins[n].doc[k]}
  <2>1. m < n \/ n < m
    BY <1>4, <1>7
  <2> QED
    BY <2>1, <1>3, <1>4, <1>7 DEF Config!Conflict
<1> QED
  BY <1>2, <1>4, <1>6, <1>7 DEF Handled, Config!LayersResolve

LEMMA ConfigInitially == Config!ConfigInit => ConfigInv
<1> SUFFICES ASSUME Config!ConfigInit PROVE ConfigInv
  OBVIOUS
<1> USE DEF Config!ConfigInit
<1>1. Config!EmptyDoc \in Documents /\ Config!BuiltInDefaults \in Documents
  BY DEF Config!EmptyDoc, Config!BuiltInDefaults, Documents
<1>2. file \in [Sources -> Documents]
  BY <1>1
<1>3. EditOk(Config!NoEdit)
  BY <1>1 DEF Config!NoEdit, EditOk
<1>4. FilesOk
  BY <1>2, <1>3 DEF FilesOk
<1>5. Cardinality(Sources) \in Nat
  BY ServicesAssumption, FS_CardinalityType DEF ServicesAssumption
<1>6. InputsOk
  BY <1>5 DEF InputsOk
<1>7. LoadedOk
  BY DEF LoadedOk, Config!NotLoaded
<1> QED
  BY <1>4, <1>6, <1>7 DEF ConfigInv

LEMMA ConfigStep ==
  ASSUME ConfigInv, [Config!ConfigNext]_Config!configVars
  PROVE  ConfigInv'
<1> USE DEF ConfigInv
<1>0. Config!EmptyDoc \in Documents /\ EditOk(Config!NoEdit)
  BY DEF Config!EmptyDoc, Documents, Config!NoEdit, EditOk
<1>1. CASE UNCHANGED Config!configVars
  BY <1>1 DEF Config!configVars, FilesOk, InputsOk, LoadedOk
<1>2. ASSUME UNCHANGED <<inputs, loaded>> PROVE InputsOk' /\ LoadedOk'
  BY <1>2 DEF InputsOk, LoadedOk
<1>3. CASE Config!LoadFile
  <2>0. UNCHANGED <<file, edit, loaded>> /\ loaded.status = "loading"
    BY <1>3 DEF Config!LoadFile
  <2>1. PICK L \in Nat : L = Len(inputs)
    BY DEF InputsOk
  <2>2. Cardinality(Sources) \in Nat /\ L < Cardinality(Sources)
    BY <1>3, <2>1, ConfigCounts, ServicesAssumption, FS_CardinalityType DEF Config!LoadFile, ServicesAssumption
  <2>3. L + 1 \in 1 .. Cardinality(Sources)
    BY <2>1, <2>2
  <2>4. PICK s \in Sources : s = Config!LoadOrder[L + 1]
    BY <2>3, LoadOrderRises
  <2>5. s.layer \in Nat /\ s.name \in Nat
    BY ServicesAssumption DEF ServicesAssumption
  <2>6. PICK i : i = [layer |-> s.layer, name |-> s.name, doc |-> file[s]]
    OBVIOUS
  <2>7. i \in Inputs /\ i.layer = s.layer
    BY <2>5, <2>6 DEF Inputs, FilesOk
  <2>8. inputs' = Append(inputs, i) /\ inputs \in Seq(Inputs)
    BY <1>3, <2>1, <2>4, <2>6 DEF Config!LoadFile, InputsOk
  <2>9. /\ inputs' \in Seq(Inputs) /\ Len(inputs') = L + 1 /\ inputs'[L + 1] = i
        /\ \A n \in 1 .. L : inputs'[n] = inputs[n]
    BY <2>1, <2>7, <2>8
  <2>10. ASSUME NEW n \in 1 .. L + 1 PROVE inputs'[n].layer = Config!LoadOrder[n].layer
    <3>1. CASE n = L + 1
      BY <3>1, <2>4, <2>7, <2>9
    <3>2. CASE n # L + 1
      <4>1. n \in 1 .. L
        BY <3>2
      <4> QED
        BY <4>1, <2>1, <2>9 DEF InputsOk
    <3> QED
      BY <3>1, <3>2
  <2>11. Config!LoadOrder' = Config!LoadOrder
    BY DEF Config!LoadOrder
  <2>12. InputsOk'
    BY <2>2, <2>9, <2>10, <2>11 DEF InputsOk
  <2> QED
    BY <2>0, <2>12 DEF FilesOk, LoadedOk
<1>4. CASE Config!Resolve
  <2>0. UNCHANGED <<file, edit, inputs>>
    BY <1>4 DEF Config!Resolve
  <2>1. LoadedOk'
    <3>1. CASE Config!Conflict(inputs)
      <4>1. loaded' = [Config!NotLoaded EXCEPT !.status = "conflict"]
        BY <1>4, <3>1 DEF Config!Resolve
      <4>2. loaded'.status = "conflict"
        BY <4>1 DEF Config!NotLoaded
      <4> QED
        BY <4>2 DEF LoadedOk
    <3>2. CASE ~Config!Conflict(inputs) /\ Config!WatchRefused(inputs)
      <4>1. loaded' = [Config!NotLoaded EXCEPT !.status = "refused"]
        BY <1>4, <3>2 DEF Config!Resolve
      <4>2. loaded'.status = "refused"
        BY <4>1 DEF Config!NotLoaded
      <4> QED
        BY <4>2 DEF LoadedOk
    <3>3. CASE ~Config!Conflict(inputs) /\ ~Config!WatchRefused(inputs)
      <4>1. loaded' = [status |-> "loaded", effective |-> Config!ResolveConfig(inputs),
                       explained |-> [k \in Keys |-> Config!ResolveValue(inputs, k)]]
        BY <1>4, <3>3 DEF Config!Resolve
      <4> QED
        BY <4>1, <3>3, <2>0 DEF LoadedOk
    <3> QED
      BY <3>1, <3>2, <3>3
  <2> QED
    BY <2>0, <2>1 DEF FilesOk, InputsOk
<1>5. ASSUME NEW e \in Editors, Config!StartEdit(e) PROVE ConfigInv'
  <2>0. UNCHANGED <<file, inputs, loaded>>
    BY <1>5 DEF Config!StartEdit
  <2>1. PICK s \in Sources : \E doc \in Config!Edited(file[s]) :
          edit' = [edit EXCEPT ![e] = [pc |-> "write", source |-> s, doc |-> doc]]
    BY <1>5 DEF Config!StartEdit
  <2>2. PICK doc \in Config!Edited(file[s]) : edit' = [edit EXCEPT ![e] = [pc |-> "write", source |-> s, doc |-> doc]]
    BY <2>1
  <2>3. doc \in Documents
    <3>1. PICK f \in Documents : f = file[s]
      BY DEF FilesOk
    <3> QED
      BY <3>1 DEF Config!Edited, Documents
  <2>4. PICK x : x = [pc |-> "write", source |-> s, doc |-> doc]
    OBVIOUS
  <2>5. EditOk(x)
    BY <2>3, <2>4 DEF EditOk
  <2>6. FilesOk'
    BY <2>0, <2>2, <2>4, <2>5 DEF FilesOk
  <2> QED
    BY <2>0, <2>6, <1>2
<1>6. ASSUME NEW e \in Editors, Config!StartMigrate(e) PROVE ConfigInv'
  <2>0. UNCHANGED <<file, inputs, loaded>>
    BY <1>6 DEF Config!StartMigrate
  <2>1. PICK s \in Sources :
          edit' = [edit EXCEPT ![e] = [pc |-> "write", source |-> s,
                                       doc |-> [file[s] EXCEPT !["schema"] = Config!CURRENT_SCHEMA]]]
    BY <1>6 DEF Config!StartMigrate
  <2>2. PICK doc : doc = [file[s] EXCEPT !["schema"] = Config!CURRENT_SCHEMA]
    OBVIOUS
  <2>3. doc \in Documents
    <3>1. PICK f \in Documents : f = file[s]
      BY DEF FilesOk
    <3> QED
      BY <3>1, <2>2 DEF Config!CURRENT_SCHEMA, Documents
  <2>4. PICK x : x = [pc |-> "write", source |-> s, doc |-> doc]
    OBVIOUS
  <2>5. EditOk(x)
    BY <2>3, <2>4 DEF EditOk
  <2>6. FilesOk'
    BY <2>0, <2>1, <2>2, <2>4, <2>5 DEF FilesOk
  <2> QED
    BY <2>0, <2>6, <1>2
<1>7. ASSUME NEW e \in Editors, Config!Truncate(e) PROVE ConfigInv'
  <2>0. UNCHANGED <<inputs, loaded>>
    BY <1>7 DEF Config!Truncate
  <2>1. PICK x : x = edit[e]
    OBVIOUS
  <2>2. EditOk(x)
    BY <2>1 DEF FilesOk
  <2>3. PICK y : y = [x EXCEPT !.pc = "fill"]
    OBVIOUS
  <2>4. y = [pc |-> "fill", source |-> x.source, doc |-> x.doc]
    BY <2>2, <2>3 DEF EditOk
  <2>5. EditOk(y)
    BY <2>2, <2>4 DEF EditOk
  <2>6. edit' = [edit EXCEPT ![e] = y]
    BY <1>7, <2>1, <2>3 DEF Config!Truncate, FilesOk
  <2>7. file' \in [Sources -> Documents]
    BY <1>0, <1>7 DEF Config!Truncate, FilesOk
  <2>8. FilesOk'
    BY <2>5, <2>6, <2>7 DEF FilesOk
  <2> QED
    BY <2>0, <2>8, <1>2
<1>8. ASSUME NEW e \in Editors, Config!Fill(e) PROVE ConfigInv'
  <2>0. UNCHANGED <<inputs, loaded>>
    BY <1>8 DEF Config!Fill
  <2>1. edit[e].doc \in Documents
    BY DEF FilesOk, EditOk
  <2>2. file' \in [Sources -> Documents]
    BY <1>8, <2>1 DEF Config!Fill, FilesOk
  <2>3. FilesOk'
    BY <1>0, <1>8, <2>2 DEF Config!Fill, FilesOk
  <2> QED
    BY <2>0, <2>3, <1>2
<1> QED
  BY <1>1, <1>3, <1>4, <1>5, <1>6, <1>7, <1>8 DEF Config!ConfigNext

-----------------------------------------------------------------------------
(* Whatever a decision provider answers and whatever is edited meanwhile,  *)
(* a worker's task was ready in the snapshot its recorded decision was     *)
(* made from, a recorded routing was validated, explain shows for every    *)
(* key the value of the highest layer that sets it and the configuration   *)
(* in effect has it for every key the merges handle, no receipt is rolled  *)
(* up under two profiles, and a decision that warns or blocks is still     *)
(* justified however much others insert after it.  Assumes that the 32-bit *)
(* digest tells the repositories of one board apart (ServicesAssumption).  *)
THEOREM DecisionsAreSound == Spec => []DecisionsSound
<1> DEFINE I == RoutingInv /\ CampaignInv /\ ConfigInv /\ LedgerInv
<1>1. Init => I
  BY RoutingInitially, CampaignInitially, ConfigInitially, LedgerInitially DEF Init
<1>2. I /\ [Next]_vars => I'
  BY DecisionSteps, RoutingStep, CampaignStep, ConfigStep, LedgerStep
<1>3. I => DecisionsSound
  BY RoutingHolds, CampaignHolds, ConfigHolds, LedgerHolds DEF DecisionsSound
<1> QED
  BY <1>1, <1>2, <1>3, PTL DEF Spec

=============================================================================
